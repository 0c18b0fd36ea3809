SPECIFICATION FairSpec
CONSTANTS
    Kinds <- Vmware
    Config = {c1, c2}
    MaxMoves = 0
    FaultKinds <- RequestFaults
    MaxFaults = 1
PROPERTY CheckedSourceIsMarkedReady
