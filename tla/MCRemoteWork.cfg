SPECIFICATION WorkSpec
CONSTANTS
  script = script
  config = config
  here = here
  h1 = h1
  Jobs = {script, config, here}
  KindOf <- Kinds
  HostOf <- OneMachine
  Discovered = {script}
  NoSession = NoSession
  MaxSessions = 3
  Capacity = 1
  Plans <- ErrandPlans
  MaxDrops = 1
  MaxRefusals = 1
  t1 = t1
  t2 = t2
  odd = odd
  Texts = {t1, t2, odd}
  Lossy = {odd}
  Gone = Gone
  Torn = Torn
  Nothing = Nothing
  MaxTyped = 1
  MaxOthers = 1
  MaxFails = 1
  MaxLocks = 1
INVARIANTS SessionHasOneHolder ScriptRunsOnce NobodyForgotten TypedTextIsKept
PROPERTIES ChangeIsShown
CHECK_DEADLOCK FALSE
