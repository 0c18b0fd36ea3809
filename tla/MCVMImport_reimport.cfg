SPECIFICATION FairSpec
CONSTANTS
    Image = {i1, i2}
    NoImage = NoImage
    MaxDisks = 1
    Confs <- GracefulConfs
    FaultKinds = {"importfail"}
    MaxFaults = 1
CHECK_DEADLOCK FALSE
PROPERTIES FailedImportIsRetried
