SPECIFICATION WindowSpec
CHECK_DEADLOCK FALSE
CONSTANTS
  Watched = {l1, l2}
  EditorPage = EditorPage
  NoLog = NoLog
  Files = {f1, f2}
  Configs = {c1}
  Tabs = {1, 2, 3}
  Docks = {d1}
  Absence = Absence
  Newer = Newer
  MaxLaunches = 2
  MaxGestures = 6
  Addresses <- MCAddresses
  Here = "here"
  Plain = "plain"
  Unsaved = "unsaved"
  DiscoveredHosts = {"cam1"}
  HostNames = {"n"}
  MaxRun = 3
  MaxPrefix = 5
  MaxRecent = 2
  MaxShown = 3
  MaxNamings = 2
  q1 = q1
  q2 = q2
  Queries = {q1, q2}
  HitsOf <- MCHits
  Places = 3
  TallyRows = 2
  NoText = NoText
  BadRegex = BadRegex
INVARIANTS WindowComesBack NewsIsTold LabelsTellApart PendingIsOwed
