SPECIFICATION Spec
CONSTANTS
    Imports <- TwoImports
    Servers <- AllServers
    Names <- AllNames
    Finds <- Pattern
    Refs <- ByAny
    MoveKinds <- AllMoves
    MaxMoves = 2
CHECK_DEADLOCK FALSE
INVARIANTS TypeOK OneServerThroughout OwnDataIfNamesDiffer
