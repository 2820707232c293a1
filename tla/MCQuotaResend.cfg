\* A top-up the client repeats.
SPECIFICATION FaultSpec
CONSTANTS
  r1 = r1
  r2 = r2
  tenant = tenant
  user = user
  a1 = a1
  a2 = a2
  route1 = route1
  provider = provider
SYMMETRY RequestSymmetry
CHECK_DEADLOCK FALSE
INVARIANT TopUpIsIdempotent
