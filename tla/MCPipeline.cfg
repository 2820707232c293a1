SPECIFICATION MCSpec
CONSTANTS
  None = None
  MaxWeight = 1000
  Configs <- MCConfigs
  Requests <- MCRequests
  Limits <- MCLimits
  Hashes <- MCHashes
  Buffer = 3
  MaxTTL = 30
  a1 = a1
  a2 = a2
  k1 = k1
  w1 = w1
  w2 = w2
  KeyID <- MCKeyID
  Writer <- MCWriter
  Nothing = Nothing
  Hooked = TRUE
  MaxVersion = 2
CHECK_DEADLOCK FALSE
INVARIANT OnlyEligibleRoutes
INVARIANT TriedInOrder
INVARIANT ReservationCoversDispatch
 
PROPERTY PiecesDoNotMatter
PROPERTY ServedLimitsAreCurrent
PROPERTY SettledCoversAttempts
