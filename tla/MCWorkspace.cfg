SPECIFICATION WorkspaceSpec
CHECK_DEADLOCK FALSE
CONSTANTS
  x = x
  y = y
  z = z
  plain = plain
  filtered = filtered
  a = a
  b = b
  wide = wide
  narrow = narrow
  Keys = {x, y, z}
  Slots = {0, 1}
  DirOrder <- Listing
  Instances = {1}
  Contents = {plain, filtered}
  Trim <- OneTrim
  Legacy <- OldNames
  Nothing = Nothing
  Unsure = Unsure
  Openable = {x}
  Troubles <- OneOrTwo
  Logs = {a, b}
  Formats = {1, 2}
  Rests = {1, 2}
  StoredTrees <- TwoPatterns
  PatternIds = {wide, narrow}
  Coverings = {{a, b}}
  MaxShowings = 1
  MaxGestures = 2
  NoProfile = NoProfile
  Root = "root"
  File = "file"
INVARIANTS SettingsSurvive
PROPERTIES AnswerIsRead SweepKeepsMeaning
