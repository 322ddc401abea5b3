SPECIFICATION Spec
CONSTANTS
    Doc = {a}
    Content = {x, y}
    Uploader = {u1, u2}
    MaxDocs = 2
    Request = {r1}
    MaxVersion = 2
    MaxStops = 1
INVARIANTS
    TypeOK
    TraceReachesRaw
    CorrectsAnEarlierOne
    FlaggedForACause
PROPERTIES
    TicketOnce
    NothingSlips
    EventuallyFlagged
