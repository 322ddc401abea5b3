\* A document rebuilt while serving is rolled back: two renditions mix.
SPECIFICATION Spec
CONSTANTS
    d1 = d1
    d2 = d2
    d3 = d3
    t1 = t1
    t2 = t2
    Open = Open
    NoDoc = NoDoc
    DocVersion = {d1}
    Supersedes <- NoCorrection
    DocOf <- OwnDocument
    Text = {t1, t2}
    Rendition <- TwoTexts
    Encoding = {e1}
    Job = {j1}
    FreshManifests = TRUE
    Reruns = TRUE
    Outcome = {TRUE}
    Decision = {"approved"}
    MaxBatch = 2
    Withdrawable = {}
    MaxVersion = 3
    MaxReport = 3
INVARIANTS
    OneRendition
VIEW WithoutReports
CHECK_DEADLOCK FALSE
SYMMETRY TextSymmetry
