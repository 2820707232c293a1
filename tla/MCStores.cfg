\* Two requests, two nested scopes; two attempts with leases.
SPECIFICATION Spec
CONSTANTS
  r1 = r1
  r2 = r2
  tenant = tenant
  user = user
  a1 = a1
  a2 = a2
  route1 = route1
  provider = provider
SYMMETRY RequestSymmetry
CHECK_DEADLOCK FALSE
 
INVARIANT ChargedOnce
INVARIANT WithinLimits
INVARIANT TokenCounterIsExact
INVARIANT UpstreamWithinLimit
PROPERTY NoReplayInWindow
