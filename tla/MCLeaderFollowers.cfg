SPECIFICATION FairSpec
CONSTANTS
    p1 = p1  p2 = p2  p3 = p3
    Processes <- ThreeProcesses
    n = 2
    Leads = {1, 2}
    Values = {1}
INVARIANTS Inv TurnsExclusive RoundComplete StartsComplete
PROPERTY SessionEnds
CHECK_DEADLOCK FALSE
