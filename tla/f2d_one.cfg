SPECIFICATION Spec
CONSTANTS
    NFat = 8
    EocMin = 10
    Procs = {p1}
    Files <- MCFiles
    Paths <- MCFiles
    Modes = {"", "A", "C", "X"}
    Parts = {0, 1, 4}
    Mbrs <- MCMbrs
    Volumes <- OneVolumes
    VolStart <- MCVolStart
    RootCluster <- MCRootCluster
    FirstData <- MCFirstData
    SecPerClus = 2
    SectorBytes = 2
    CheckBytes = 6
    SectorLimit = 64
    MaxMoves = 1
    MaxRuns = 1
INVARIANTS
    TypeOK
    EditedEntry
PROPERTIES
    BusyNeedsYes
    ImplementsTable
CHECK_DEADLOCK FALSE
