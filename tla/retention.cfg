SPECIFICATION Spec
CONSTANTS
    Request = {r1}
    Attachment = {a1}
    IngestionRun = {i1}
    Sweeper = {daily, cli}
    Daily = daily
    UploadsDays = 0
    TextDays = 1
    OpsDays = 2
    StagingDays = 1
    Horizon = 3
    MaxStops = 1
INVARIANTS
    NoOrphanObject
    OnlyOldUploadsMissing
    NothingLeftBehind
PROPERTIES
    KeptUntilItsTime
    UploadsGo
    TextGoes
    RowsGo
