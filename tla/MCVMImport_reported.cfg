SPECIFICATION Spec
CONSTANTS
    Image = {i1, i2}
    NoImage = NoImage
    MaxDisks = 2
    Confs <- GracefulConfs
    FaultKinds = {"importfail"}
    MaxFaults = 1
SYMMETRY ImageSymmetry
CHECK_DEADLOCK FALSE
INVARIANTS FailuresHandledOnceAllReported
