SPECIFICATION WatchedSpec
CONSTANTS
  NoOp = NoOp
  Ops = {1, 3, 4, 5, 6, 7}
  Roots = {r1}
  FullWorkers = {f1}
  HotWorker = h
  Callers <- MCCallers
  KindOf <- MCKindOf
  RootOf <- MCRootOf
  IndexIds = {3, 4}
  Slow = TRUE
  MaxPending = 64
  MaxRollbacks = 1
  MaxConfigs = 1
  MaxFailures = 1
  MaxCrashes = 1
INVARIANTS
  GateTypeOK
PROPERTIES
  QueueRefined
  HotUpdateFinishes
CHECK_DEADLOCK FALSE
