SPECIFICATION TailFairSpec
CHECK_DEADLOCK FALSE
CONSTANTS
  MaxGeneration = 3
  MaxSize = 2
INVARIANTS
  NothingLost
PROPERTIES
  RecordsOnlyGrow
  CatchesUp
