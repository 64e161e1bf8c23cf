SPECIFICATION Spec
CHECK_DEADLOCK FALSE
CONSTANTS
  Transport = "sftp"
  PrimeBytes = 1
  HeadProbeBytes = 1
  TailStart = 0
  SizeRungs = {"stat"}
  SettleCeiling = 9
  AbandonCeiling = 9
  FstatAnswers = {TRUE}
  Presences = {"present"}
  AuthAnswers = {"ok", "person"}
  DiskFaults = {"create"}
  RewriteInPlace = FALSE
  NoSession = NoSession
  NoFile = NoFile
  MaxGeneration = 4
  MaxSize = 2
  MaxChanges = 1
  MaxOutages = 1
  MaxPresses = 1
  MaxFaults = 1
  MaxMoves = 0
INVARIANTS
  SpoolIsOneFile PressIsHonoured
