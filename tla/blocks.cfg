SPECIFICATION StreamSpec
CONSTANTS
    Reads <- MCReads
    Word <- MCWord
    Streamed <- MCStreamed
    Extras <- MCExtras
    MaxSays = 5
    MaxFlight = 40
    Chunks <- MCChunks
INVARIANTS
    BlocksAreRange
    BlocksFitPieces
    RecvFinds
    ReportsFilePart
    HeardAsTold
    BufferIsRange
PROPERTY CutsEnd
CHECK_DEADLOCK FALSE
