SPECIFICATION FairSpec
CONSTANTS
    n = 4
    m = 3
    NFRAMES = 11
    Essential = 2
    PerPage = 2
    size <- Sizes
    Keys = {0, 3, 6}
INVARIANT EveryoneAccounted
PROPERTY SimulationEnds
CHECK_DEADLOCK FALSE
