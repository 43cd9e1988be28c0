SPECIFICATION Spec
CONSTANTS
    t1 = t1  t2 = t2  none = none
    None <- none
    Threads <- TwoThreads
    Resources <- TwoTypes
    Total <- TotalTwo
    maxNeed <- MaxTwo
    Cap = 1
    MAX_QUEUE_SIZE = 2
    MaxRequests = 3
INVARIANTS Conserved WaitingExplained
PROPERTY ImplementsBanker
CHECK_DEADLOCK FALSE
