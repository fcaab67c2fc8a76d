CONSTANTS
    n1 = n1
    i1 = i1
    NoImage = NoImage
    Nodes <- OneNode
    Proxmox <- NoProxmox
    Images <- OneImage
    OptSets <- PlainOnly
    NReqs = 2
    Activity = {"create", "schedule"}
    LdapProbes = {}
    MaxConcurrent = 1
    FaultKinds = {"restart", "write"}
    MaxFaults = 1
SPECIFICATION Spec
INVARIANTS
    PowerCyclesBounded
    NeverEarly
PROPERTIES
    LifecycleSpec
CHECK_DEADLOCK FALSE
