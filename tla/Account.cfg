SPECIFICATION FairSpec
CONSTANTS
  Key = {k1, k2}
  None = None
  Caller = {c1}
  healthcheckFailuresBeforeUnhealthy = 2
  MaxSync = 2
INVARIANTS TypeOK RestoredIsInitialized
PROPERTIES GetsHealthy HubWaiterIsAnswered
CHECK_DEADLOCK FALSE
