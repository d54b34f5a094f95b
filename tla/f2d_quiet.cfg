SPECIFICATION FairSpec
CONSTANTS
    NFat = 8
    EocMin = 10
    Procs = {p1}
    Files <- MCFiles
    Paths <- MCFiles
    Modes = {"", "A"}
    Parts = {0, 1}
    Mbrs <- OneFree
    Volumes <- Quiet
    VolStart <- MCVolStart
    RootCluster <- MCRootCluster
    FirstData <- MCFirstData
    SecPerClus = 2
    SectorBytes = 2
    CheckBytes = 6
    SectorLimit = 64
    MaxMoves = 0
    MaxRuns = 1
INVARIANTS
    MapsPathFile
    ShowsPathFile
PROPERTIES
    Settles
CHECK_DEADLOCK FALSE
