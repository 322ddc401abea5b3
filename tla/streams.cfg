SPECIFICATION Spec
CONSTANTS
    N = 3
    MaxEvents = 2
    Window = 1
    MaxFaults = 1
CHECK_DEADLOCK FALSE
INVARIANT TypeOK
PROPERTIES
    OneStream
    WorksForSomeone
    EveryCallIsTimed
    NobodyWorksForNobody
