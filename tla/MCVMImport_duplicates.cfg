SPECIFICATION Spec
CONSTANTS
    Image = {i1, i2}
    NoImage = NoImage
    MaxDisks = 1
    Confs <- GracefulConfs
    FaultKinds = {"touch"}
    MaxFaults = 1
SYMMETRY ImageSymmetry
CHECK_DEADLOCK FALSE
INVARIANTS AtMostOneImagePerDisk
