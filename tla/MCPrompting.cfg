SPECIFICATION PromptSpec
CONSTANTS
  w1 = w1
  w2 = w2
  h1 = h1
  Workers = {w1, w2}
  MaxAsks = 2
  MaxInline = 2
  MaxCancels = 1
  Inline = Inline
  Askers = {w1, w2}
  Hosts = {h1}
  HostOf <- OneHost
  Nobody = Nobody
  No = No
  Yes = Yes
  MaxAttempts <- OnceEach
  MaxMishaps = 1
INVARIANTS FrameAlive OnePromptPerHost
PROPERTIES EveryAskerReturns SecretGoesWhereShown
CHECK_DEADLOCK FALSE
