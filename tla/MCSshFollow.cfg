SPECIFICATION FairSpec
CHECK_DEADLOCK FALSE
CONSTANTS
  Transport = "exec"
  PrimeBytes = 1
  HeadProbeBytes = 1
  TailStart = 0
  SizeRungs = {"stat", "wc"}
  SettleCeiling = 0
  AbandonCeiling = 1
  FstatAnswers = {TRUE}
  Presences = {"present", "absent"}
  AuthAnswers = {"ok"}
  DiskFaults = {}
  RewriteInPlace = TRUE
  NoSession = NoSession
  NoFile = NoFile
  MaxGeneration = 4
  MaxSize = 2
  MaxChanges = 1
  MaxOutages = 1
  MaxPresses = 1
  MaxFaults = 0
  MaxMoves = 1
INVARIANTS
  OutageNeverRefuses
PROPERTIES
  CatchesUp
