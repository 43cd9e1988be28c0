SPECIFICATION FairSpec
CONSTANTS
    t1 = t1  t2 = t2   none = none  nobody = nobody
    None <- none
    Nobody <- nobody
    Threads <- TwoThreads
    Resources <- TwoTypes
    Total <- TotalTwo
    maxNeed <- MaxTwo
    Cap = 1
    MaxRequests = 2
INVARIANTS SConserved NothingGrantableLeft
PROPERTIES SImplementsBanker SessionEnds
CHECK_DEADLOCK FALSE
