CONSTANTS
    n1 = n1
    n2 = n2
    Nodes <- TwoNodes
    Concurrency = 1
    PausePct = 20
    BmcFails = FALSE
    DbFails = FALSE
    MaxResumes = 0
    MaxCrashes = 1
SPECIFICATION Spec
PROPERTIES
    NotTwice
CHECK_DEADLOCK FALSE
