\* The second correction of a document replaces the first, which never published.
SPECIFICATION Spec
CONSTANTS
    d1 = d1
    d2 = d2
    d3 = d3
    t1 = t1
    t2 = t2
    Open = Open
    NoDoc = NoDoc
    DocVersion = {d1, d2, d3}
    Supersedes <- Chain
    DocOf <- OneDocument
    Text = {t1}
    Rendition <- OneText
    Encoding = {e1}
    Job = {j1}
    FreshManifests = TRUE
    Reruns = TRUE
    Outcome = {TRUE}
    Decision = {"approved"}
    MaxBatch = 1
    Withdrawable = {}
    MaxVersion = 2
    MaxReport = 2
INVARIANTS
    OneVersionPerDocument
VIEW WithoutReports
CHECK_DEADLOCK FALSE
