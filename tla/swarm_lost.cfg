SPECIFICATION Spec
CONSTANTS
    Swarms <- MCTwoQuick
    NBlocks = 2
    Limit = 0
    Conns <- MCThreeConns
    MaxSays = 2
INVARIANT WaitsForSomeone
CHECK_DEADLOCK FALSE
