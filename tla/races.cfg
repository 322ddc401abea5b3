\* Two jobs whose calls interleave, crash and are given up.
SPECIFICATION Spec
CONSTANTS
    d1 = d1
    d2 = d2
    d3 = d3
    t1 = t1
    t2 = t2
    Open = Open
    NoDoc = NoDoc
    DocVersion = {d1}
    Supersedes <- NoCorrection
    DocOf <- OwnDocument
    Text = {t1}
    Rendition <- OneText
    Encoding = {e1}
    Job = {j1, j2}
    FreshManifests = FALSE
    Reruns = FALSE
    Outcome = {TRUE, FALSE}
    Decision = {"approved", "rejected"}
    MaxBatch = 2
    Withdrawable = {}
    MaxVersion = 2
    MaxReport = 2
INVARIANTS
    TypeOK
    OnlyThroughTheGate
    NoDanglingInterval
PROPERTY ChangedFromBelow
VIEW WithoutCandidateAlias
SYMMETRY JobSymmetry
CHECK_DEADLOCK FALSE
