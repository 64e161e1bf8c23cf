SPECIFICATION DeskSpec
CONSTANTS
  l1 = l1
  l2 = l2
  Logs = {l1, l2}
  NoLog = NoLog
  MaxSize = 1
  MaxMoves = 1
  MaxTrouble = 2
  MaxChanges = 1
  Startup = 2
  Attempts = 3
  Motd <- QuietMotd
  MaxBoots = 1
  MaxSignIns = 2
  MaxTyped = 3
  MaxPrinted = 4
INVARIANTS PasswordOnlyWhenAsked CommandsRunInOrder
PROPERTIES LogsComeBack
CHECK_DEADLOCK FALSE
