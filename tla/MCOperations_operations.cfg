CONSTANTS
    p1 = p1
    n1 = n1
    n2 = n2
    m1 = m1
    m2 = m2
    cpu = cpu
    offline = offline
    g1 = g1
    g2 = g2
    g3 = g3
    PushIds <- OnePush
    Confirms <- TwoEach
    MaxStrikes = 2
    MaxRefused = 1
    Plan <- ThreeUnits
    MaxOps = 2
    MaxRuns = 2
    MaxUpgradeFaults = 1
    Msgs <- TwoMsgs
    MaxConns = 2
    BufLen = 1
    MetricRules <- OneMetric
    OfflineRules <- OneOffline
    AlertNodes <- OneNode
    Labels = {"a"}
    MaxRows = 2
    MaxAlertFaults = 1
    Nodes <- ThreeMembers
    Concurrency = 2
    PausePct = 50
    BmcFails = TRUE
    DbFails = TRUE
    MaxResumes = 1
    MaxCrashes = 1
SPECIFICATION OperationsSpec
INVARIANTS
    StrikesLockOut
    DeliveredIsSpent
    EarlierUnitsDone
    InProgressHasRun
    DrainedIsWorkedOn
    ListensBeforeAnswer
    NoStaleConnection
    MemoryMatchesTable
    ResolutionIsTold
    TypeOK
    StoppedIsQuiet
    CapRespected
    OncePerRun
    RowIsTrue
PROPERTIES
    PushSpec
    PhasesSpec
    RequestsSpec
    RollingSpec
SYMMETRY Symmetric
CHECK_DEADLOCK FALSE
