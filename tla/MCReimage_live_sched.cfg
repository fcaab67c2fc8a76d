CONSTANTS
    n1 = n1
    i1 = i1
    NoImage = NoImage
    Nodes <- OneNode
    Proxmox <- NoProxmox
    Images <- OneImage
    OptSets <- DryOnly
    NReqs = 2
    Activity = {"create", "schedule", "force", "parallel"}
    LdapProbes = {}
    MaxConcurrent = 1
    FaultKinds = {"restart", "write"}
    MaxFaults = 1
SPECIFICATION FairSpec
INVARIANTS
    OneActive
PROPERTIES
    DueIsServed
CHECK_DEADLOCK FALSE
