CONSTANTS
    n1 = n1
    i1 = i1
    NoImage = NoImage
    Nodes <- OneNode
    Proxmox <- NoProxmox
    Images <- OneImage
    OptSets <- DryOrPlain
    NReqs = 1
    Activity = {"create", "cancel", "reaper", "reboot"}
    LdapProbes = {}
    MaxConcurrent = 1
    FaultKinds = {"restart", "operator", "node", "write"}
    MaxFaults = 1
SPECIFICATION FairSpec
PROPERTIES
    
    OrphansAreReaped
CHECK_DEADLOCK FALSE
