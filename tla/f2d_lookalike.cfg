SPECIFICATION Spec
CONSTANTS
    NFat = 8
    EocMin = 10
    Procs = {p1}
    Files <- MCFiles
    Paths <- Img
    Modes = {"C"}
    Parts = {0}
    Mbrs <- OneFree
    Volumes <- LookAlikeVolumes
    VolStart <- MCVolStart
    RootCluster <- MCRootCluster
    FirstData <- MCFirstData
    SecPerClus = 2
    SectorBytes = 2
    CheckBytes = 6
    SectorLimit = 64
    MaxMoves = 0
    MaxRuns = 0
INVARIANTS
    MapsPathFile
CHECK_DEADLOCK FALSE
