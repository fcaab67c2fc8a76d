CONSTANTS
    n1 = n1
    n2 = n2
    i1 = i1
    i2 = i2
    m1 = m1
    offline = offline
    Parts = {"multicast", "hub", "alerts"}
    Nodes <- TwoNodes
    Images <- TwoImages
    MaxSessions = 2
    NPorts = 1
    Threshold = 2
    FaultKinds = {"insert", "record", "reboot", "restart"}
    MaxFaults = 1
    Msgs <- OneMsg
    MaxConns = 2
    BufLen = 1
    MetricRules <- NoMetric
    OfflineRules <- OneOffline
    AlertNodes <- TwoNodes
    Labels = {"a"}
    MaxRows = 3
    MaxAlertFaults = 1
SPECIFICATION ServicesSpec
INVARIANTS
    PortsHeld
    RowHasOwner
PROPERTIES
    SessionSpec
    RowSettles
    DeadLinksGo
    OfflineIsFollowed
CHECK_DEADLOCK FALSE
