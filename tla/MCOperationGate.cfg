SPECIFICATION GateSpec
CONSTANTS
  NoOp = NoOp
  Ops = {1, 2, 3, 4, 5, 6, 7}
  Roots = {r1}
  FullWorkers = {f1, f2}
  HotWorker = h
  Callers <- MCCallers
  KindOf <- MCKindOf
  RootOf <- MCRootOf
  IndexIds = {3, 4}
  Slow = FALSE
  MaxPending = 64
  MaxRollbacks = 0
  MaxConfigs = 1
  MaxFailures = 0
  MaxCrashes = 0
INVARIANTS
  GateExclusion
  SlotMeansWork
  FlagMirrorsSlot
  NoLingeringCheckpoint
PROPERTIES
  SlotReleased
CHECK_DEADLOCK FALSE
