\* One caller at a time; a publish that died may be given up.
SPECIFICATION Spec
CONSTANTS
    d1 = d1
    d2 = d2
    d3 = d3
    t1 = t1
    t2 = t2
    Open = Open
    NoDoc = NoDoc
    DocVersion = {d1, d2}
    Supersedes <- NoCorrection
    DocOf <- OwnDocument
    Text = {t1}
    Rendition <- OneText
    Encoding = {e1}
    Job = {j1}
    FreshManifests = TRUE
    Reruns = FALSE
    Outcome = {TRUE}
    Decision = {"approved"}
    MaxBatch = 1
    Withdrawable = {}
    MaxVersion = 3
    MaxReport = 3
PROPERTIES
    PinnedReads
    DecisionIsFinal
VIEW WithoutReports
CHECK_DEADLOCK FALSE
SYMMETRY DocSymmetry
