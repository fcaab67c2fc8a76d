CONSTANTS
    n1 = n1
    n2 = n2
    Nodes <- TwoNodes
    Concurrency = 1
    PausePct = 20
    BmcFails = TRUE
    DbFails = FALSE
    MaxResumes = 1
    MaxCrashes = 0
SPECIFICATION FairSpec
PROPERTIES
    ResumedGoesOn
CHECK_DEADLOCK FALSE
