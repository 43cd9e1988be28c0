SPECIFICATION RFairSpec
CONSTANTS
    n = 2
    m = 4
    NFRAMES = 11
    Essential = 1
    PerPage = 1
    size <- Sizes
    Keys = {0, 3, 4}
    NFFMIN = 2
    HistoryBits = 2
    Accesses = 3
INVARIANT LabelsTrue
PROPERTIES VictimLeastRecent RSimulationEnds
CHECK_DEADLOCK FALSE
