CONSTANTS
  r1 = r1
  r2 = r2
  r3 = r3
  Requests = {r1, r2, r3}
  Gates = {"is_open"}
  FailureThreshold = 3
  MaxCount = 5
SPECIFICATION FairBreakerSpec
PROPERTIES Recovers
