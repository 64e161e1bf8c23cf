SPECIFICATION DeskSpec
CHECK_DEADLOCK FALSE
CONSTANTS
  l1 = l1
  l2 = l2
  s0 = s0
  s1 = s1
  s2 = s2
  Kinds <- FourKinds
  FirstLogs <- OneStart
  MaxRecords = 4
  MaxHeight = 2
  Pages = {1, 2}
  Wraps = {"off", "selected"}
  Extra = 1
  Threshold = 1
  Chunk = 1
  MaxGestures = 3
  MaxReplaced = 1
  FLogs = {l1, l2}
  States = {s0, s1, s2}
  Unfiltered = s0
  ViewsPerLog = 2
  MaxDepth = 2
  MaxActs = 6
  Values = {s1, s2}
  AxisLogs = {l1, l2}
  MaxStrokes = 2
  MaxTurns = 2
  NoMemo = NoMemo
  RLogs = {l1, l2}
  RZones = {0, 1}
  Moments = {1, 2}
  Bases = {0, 1}
  MaxRules = 2
  Looks = {1, 2}
  MaxEdits = 2
  MaxEvents = 3
  Absent = Absent
  NoLog = NoLog
  NoView = NoView
  Editor = Editor
INVARIANTS ChosenIsKept CopyIsTheSelection EachLogKeepsItsFilters NamesAreAsSaid BoundsKeepTheirMoment
PROPERTIES PlaceIsKept HistoryIsTheReaders
