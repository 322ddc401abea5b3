SPECIFICATION Spec
CONSTANTS
    s1 = s1
    s2 = s2
    t1 = t1
    t2 = t2
    SchemaVersion = s2
    MinOcr = 80
    MaxDuplicates = 5
    Doc = {d1}
    Pages = 2
    External = {d1}
    Run = {r1, r2}
    CleanOutput <- AllPages
    ChunkOutput <- AllSets
    Enc = "e1"
    LateRuns = {r2}
    StagingDays = 0
    LastDay = 1
    MaxFailures = 1
INVARIANTS
    TypeOK
    PublishedWasChecked
    PublishedWhole
PROPERTY NoDocumentIsForgotten
