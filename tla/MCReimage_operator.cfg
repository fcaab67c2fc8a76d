CONSTANTS
    n1 = n1
    i1 = i1
    NoImage = NoImage
    Nodes <- OneNode
    Proxmox <- NoProxmox
    Images <- OneImage
    OptSets <- BiosOrPlain
    NReqs = 2
    Activity = {"create", "cancel", "retry", "assign"}
    LdapProbes = {}
    MaxConcurrent = 1
    FaultKinds = {"restart", "operator", "node", "write"}
    MaxFaults = 1
SPECIFICATION Spec
INVARIANTS
    TypeOK
    OneActive
PROPERTIES
    TerminalStays
CHECK_DEADLOCK FALSE
