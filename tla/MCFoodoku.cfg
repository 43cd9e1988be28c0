SPECIFICATION FairSpec
CONSTANTS
    Height = 2
    Width = 2
    MaxCommands = 3
    None = None
    Puzzles <- OnePuzzle
    Puts <- SomePuts
INVARIANTS NoClashUnlessMisread SolutionStays NobodyWaitsInVain
PROPERTIES QuitEnds
CHECK_DEADLOCK FALSE
