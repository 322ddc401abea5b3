\* One caller at a time; a publish that died runs again first.
SPECIFICATION Spec
CONSTANTS
    d1 = d1
    d2 = d2
    d3 = d3
    t1 = t1
    t2 = t2
    Open = Open
    NoDoc = NoDoc
    DocVersion = {d1, d2}
    Supersedes <- NoCorrection
    DocOf <- OwnDocument
    Text = {t1, t2}
    Rendition <- TwoTexts
    Encoding = {e1}
    Job = {j1}
    FreshManifests = TRUE
    Reruns = TRUE
    Outcome = {TRUE}
    Decision = {"approved"}
    MaxBatch = 2
    Withdrawable = {}
    MaxVersion = 3
    MaxReport = 3
INVARIANTS
    ShowsItsManifest
    ShowsItsPlan
    ShownOnce
VIEW WithoutReports
CHECK_DEADLOCK FALSE
SYMMETRY DocAndTextSymmetry
