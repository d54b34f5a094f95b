SPECIFICATION Spec
CONSTANTS
    c1 = c1
    c2 = c2
    Fds <- MCFds
    Rfd = 2
    Wfd = 3
    Clients <- MCTwo
    PipeCap = 11
    MaxGen = 1
    MaySignal = TRUE
PROPERTIES
    Served
    Joins
CHECK_DEADLOCK FALSE
