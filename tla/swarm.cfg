SPECIFICATION Spec
CONSTANTS
    Swarms <- MCSwarms
    NBlocks = 3
    Limit = 1
    Conns <- MCFourConns
    MaxSays = 3
INVARIANTS
    NoLateUse
    WaitsForSomeone
    WholeOrPrefix
PROPERTY Returns
CHECK_DEADLOCK FALSE
