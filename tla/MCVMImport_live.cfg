SPECIFICATION FairSpec
CONSTANTS
    Image = {i1, i2}
    NoImage = NoImage
    MaxDisks = 2
    Confs <- AllConfs
    FaultKinds = {"delete"}
    MaxFaults = 1
CHECK_DEADLOCK FALSE
PROPERTIES ReachesTerminal
