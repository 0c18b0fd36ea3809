SPECIFICATION Spec
CONSTANTS
    Image = {i1, i2}
    NoImage = NoImage
    MaxDisks = 1
    Confs <- AllConfs
    FaultKinds = {"crash", "touch", "api", "lost", "importfail", "sourcegone", "delete", "poweron"}
    MaxFaults = 2
SYMMETRY ImageSymmetry
CHECK_DEADLOCK FALSE
INVARIANTS RestsOnlyWhenDone
PROPERTIES LeavesExportedVMAlone ImplementsLifecycle
