SPECIFICATION Spec
CONSTANTS
    HashLen = 2
    IntWord = 64
    SizeWord = 1024
    Loaded <- readT
    Disks <- MCDisks
    FileNos = {0, 2}
    BlockSize = 2
    Ahead = 3
    MaxStarts = 2
    MaxMoves = 2
INVARIANTS
    PushesInOrder
    EosAfterAll
    ServesPath
    HashesFile
PROPERTY
    StreamEnds
\* A crashed program and a used up bound are ends.
CHECK_DEADLOCK FALSE
