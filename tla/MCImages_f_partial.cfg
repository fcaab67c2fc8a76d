CONSTANTS
    g1 = g1
    Images <- OneImage
    BuildKinds = {"capture"}
    MaxWorks = 2
    BuildCap = 1
    MaxImageFaults = 0
    MaxStops = 1
SPECIFICATION ImagesSpec
INVARIANTS
    ReadyIsWhole
CHECK_DEADLOCK FALSE
