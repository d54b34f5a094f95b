SPECIFICATION Spec
CONSTANTS
    c1 = c1
    c2 = c2
    Fds <- MCFds
    Rfd = 2
    Wfd = 3
    Clients <- MCOne
    PipeCap = 11
    MaxGen = 3
    MaySignal = TRUE
INVARIANTS
    TypeOK
    OwnHandler
    NeverRefused
    KilledOnlyByInterrupt
    ClosedAtEnd
    NeverFull
CHECK_DEADLOCK FALSE
