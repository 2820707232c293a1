\* The stale failure of a route, on one route.
SPECIFICATION Spec
CONSTANTS
  Route = {r1}
  Call = {a, b, c}
  Threshold = 2
  Cooldown = 10
  StateTTL = 10
  IdleTTL = 4
  PruneEvery = 2
  Tick = 5
  MaxTime = 20
  MaxCalls = 4
CHECK_DEADLOCK FALSE
PROPERTY FailureBeforeSuccessIsStale
