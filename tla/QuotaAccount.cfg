\* Three attempts, estimates and reports below, at and above each other.
SPECIFICATION FairSpec
CONSTANTS
  MaxAttempts = 3
  Estimates = {0, 1, 2}
  Reports = {0, 1, 3}
  MaxMissed = 2
CHECK_DEADLOCK FALSE
INVARIANT ReserveIsHeld
 
INVARIANT SettlesWhatWasUsed
PROPERTY HoldsEnd
PROPERTY RequestSettles
