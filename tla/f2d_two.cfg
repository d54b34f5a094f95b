SPECIFICATION Spec
CONSTANTS
    NFat = 8
    EocMin = 10
    Procs = {p1, p2}
    Files <- MCFiles
    Paths <- MCFiles
    Modes = {"A"}
    Parts = {0, 1}
    Mbrs <- OneFree
    Volumes <- TwoVolumes
    VolStart <- MCVolStart
    RootCluster <- MCRootCluster
    FirstData <- MCFirstData
    SecPerClus = 2
    SectorBytes = 2
    CheckBytes = 6
    SectorLimit = 64
    MaxMoves = 1
    MaxRuns = 0
INVARIANTS
    EditedEntry
PROPERTIES
    HostKept
    FreshBusyNeedsYes
CHECK_DEADLOCK FALSE
