SPECIFICATION FairSpec
CONSTANT n = 3
INVARIANT OneBall
PROPERTIES LinesTrue OneWinner
CHECK_DEADLOCK FALSE
