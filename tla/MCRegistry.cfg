SPECIFICATION RegistryFairSpec
CHECK_DEADLOCK FALSE
CONSTANTS
  a1 = a1
  a2 = a2
  c = c
  NoKey = NoKey
  Keys = {a1, a2, c}
  Logs = {a1, a2}
  Input <- TwoInOne
  MaxSerial = 4
INVARIANTS
  BurialIsSafe
PROPERTIES
  Buried
