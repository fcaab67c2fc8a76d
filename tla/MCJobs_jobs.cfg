CONSTANTS
    g1 = g1
    Images <- OneImage
    BuildKinds = {"download", "capture"}
    MaxWorks = 2
    BuildCap = 1
    MaxImageFaults = 1
    MaxStops = 1
    m1 = m1
    m2 = m2
    Members <- TwoMembers
    Concurrency = 2
    PausePct = 50
    BmcFails = TRUE
    DbFails = TRUE
    MaxResumes = 1
    MaxCrashes = 1
SPECIFICATION JobsSpec
INVARIANTS
    NotStranded
    JudgedHasBlob
PROPERTIES
    BuildsEnd
    RowFollowsBlob
    JobStops
CHECK_DEADLOCK FALSE
