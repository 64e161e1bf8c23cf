SPECIFICATION ViewSpec
CONSTANTS
  Lines <- MCLines
  Filters <- MCFilters
  Rules = {"hit", "miss"}
  MaxLines = 4
  Before = 1
  After = 1
  BlockSize = 2
  LineCap = 2
  Lookback = 2
  MaxRotations = 1
INVARIANTS ViewIsExact RunsAreListed
