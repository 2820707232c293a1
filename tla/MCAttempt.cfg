\* Two routes, two calls on each; one attempt's leases; one call; streams of four lines.
\* A request that is over stays over.
SPECIFICATION MCSpec
CONSTANTS
  Routes = 2
  Tries = 2
  EmptyReads = 3
  a1 = a1
  route1 = route1
  provider = provider
  None = None
  MaxLines = 4
CHECK_DEADLOCK FALSE
INVARIANT SlotsCoverUpstream
INVARIANT SlotsGivenBackOnce
INVARIANT OneOutcomePerAdmission
INVARIANT ClientIsNotAFailure
 
PROPERTY StalledReaderLosesSlot
PROPERTY LeasesEnd
PROPERTY CallIsAccounted
PROPERTY BridgeDelivers
