SPECIFICATION LimiterSpec
CONSTANTS
  c1 = c1
  c2 = c2
  c3 = c3
  k1 = k1
  e1 = e1
  e2 = e2
  e3 = e3
  e4 = e4
  Caller <- MCCaller
  Key <- MCKey
  Entry <- MCEntry
  Limits <- MCLimits
  PruneEvery = 2
  IdleTTL = 1
  MaxTime = 2
  NoEntry = NoEntry
SYMMETRY MCSymmetry
INVARIANT HoldersShareTheMappedLimiter
PROPERTY ImplementsSemaphore
