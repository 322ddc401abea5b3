SPECIFICATION Spec
INVARIANTS
    NoStatementFails
    HeadIsMetadata
    RevisionTellsSchema
    ReaderSeesReporting
PROPERTY UpgradeKeepsData
