SPECIFICATION FairSpec
CONSTANTS
    Image = {i1}
    NoImage = NoImage
    MaxDisks = 1
    Confs <- GracefulConfs
    FaultKinds = {"sourcegone"}
    MaxFaults = 1
CHECK_DEADLOCK FALSE
PROPERTIES MissingSourceIsRecorded
