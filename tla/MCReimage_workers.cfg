CONSTANTS
    n1 = n1
    i1 = i1
    NoImage = NoImage
    Nodes <- OneNode
    Proxmox <- OneNode
    Images <- OneImage
    OptSets <- PlainOnly
    NReqs = 1
    Activity = {"create", "force", "menu", "reaper", "scanner", "cancelAll"}
    LdapProbes = {"broken"}
    MaxConcurrent = 1
    FaultKinds = {"restart", "operator", "node", "write"}
    MaxFaults = 1
SPECIFICATION Spec
INVARIANTS
    NoRedeployLoop
CHECK_DEADLOCK FALSE
