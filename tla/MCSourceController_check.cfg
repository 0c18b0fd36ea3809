SPECIFICATION FairSpec
CONSTANTS
    Kinds <- AllKinds
    Config = {c1, c2}
    MaxMoves = 2
    FaultKinds <- AllFaults
    MaxFaults = 2
INVARIANTS TypeOK CacheAgrees
PROPERTIES ReadyOnlyWhenChecked ReadyStays AnsweringSourceIsUsed
