CONSTANTS
  r1 = r1
  r2 = r2
  r3 = r3
  Requests = {r1, r2, r3}
  Gates = {"is_open", "try_acquire"}
  FailureThreshold = 3
  MaxCount = 5
SPECIFICATION FairBreakerSpec
INVARIANTS BreakerTypeOK CountMeansState
PROPERTIES TripsAndClosesOnRuns Recovers
