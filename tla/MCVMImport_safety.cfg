SPECIFICATION Spec
CONSTANTS
    Image = {i1, i2, i3}
    NoImage = NoImage
    MaxDisks = 2
    Confs <- DataConfs
    FaultKinds = {"crash", "touch", "api", "lost", "importfail", "sourcegone"}
    MaxFaults = 1
SYMMETRY ImageSymmetry
CHECK_DEADLOCK FALSE
INVARIANTS TypeOK VMHasItsDisks ExportsOnlyStopped RestsOnlyWhenDone IInv
PROPERTIES TerminalStays ImportedImagesKept FilesServedUntilImported ImplementsLifecycle
