SPECIFICATION FairSpec
CONSTANTS
    NFat = 5
    EocMin = 7
    Fats <- MCFats
    Firsts <- MCFirsts
    Stops <- MCStops
    Block = 2
INVARIANTS
    TypeOK
    NchainOneIffExtent
    SeesWholeChain
    OutcomeMatchesShape
    PositionedReads
PROPERTIES
    ReturnsUnlessCyclic
CHECK_DEADLOCK FALSE
