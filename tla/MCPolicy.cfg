SPECIFICATION MCSpec
CONSTANTS
  r1 = r1
  r2 = r2
  a = a
  b = b
  c = c
  rpm = rpm
  tpm = tpm
  Route <- MCRoute
  Call <- MCCall
  Threshold = 2
  Cooldown = 10
  StateTTL = 10
  IdleTTL = 4
  PruneEvery = 2
  Tick = 5
  MaxTime = 20
  MaxCalls = 4
  RedisCall <- MCCall
  RedisThreshold = 2
  RedisCooldown = 3
  RedisStateTTL = 6
  Retention = 2
  Milli = 4
  RedisTick = 4
  RedisMaxTime = 36
  RedisMaxCalls = 4
  MaxResends = 1
  Key <- MCKey
  Interval <- MCInterval
  Burst <- MCBurst
  Asked <- MCAsked
  Second = 2
  RateIdleTTL = 2
  RatePruneEvery = 2
  RatePruneLimit = 1
  RateMaxTime = 5
SYMMETRY MCSymmetry
CHECK_DEADLOCK FALSE
INVARIANT NewestSuccessCloses
INVARIANT OpensOnEvidence
PROPERTY StoresAgree
INVARIANT WithinRate
PROPERTY OnlyNewestSuccessCloses
PROPERTY SharedEvidenceDecides
