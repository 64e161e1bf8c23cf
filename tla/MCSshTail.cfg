SPECIFICATION Spec
CHECK_DEADLOCK FALSE
CONSTANTS
  Transport = "sftp"
  PrimeBytes = 2
  HeadProbeBytes = 1
  TailStart = 2
  SizeRungs = {"stat"}
  SettleCeiling = 9
  AbandonCeiling = 9
  FstatAnswers = {TRUE, FALSE}
  Presences = {"present", "absent", "unreadable"}
  AuthAnswers = {"ok", "person"}
  DiskFaults = {}
  RewriteInPlace = FALSE
  NoSession = NoSession
  NoFile = NoFile
  MaxGeneration = 4
  MaxSize = 3
  MaxChanges = 2
  MaxOutages = 1
  MaxPresses = 0
  MaxFaults = 0
  MaxMoves = 0
INVARIANTS
  SpoolIsOneFile
PROPERTIES
  KeepsContract
