CONSTANTS
  fa = fa
  fb = fb
  c1 = c1
  c2 = c2
  f1 = f1
  f2 = f2
  r1 = r1
  None = None
  HotOps = {1}
  ConfigOps = {c1, c2}
  FullOps = {f1}
  RelOps = {}
  Files = {fa, fb}
  HotChanges <- MCHotChanges
  Scans <- MCScans
  KeepActive = 2
  MaxEpoch = 6
  MaxCrashes = 1
  MaxFaults = 1
SPECIFICATION GenSpec
INVARIANT ChainCompacted
CHECK_DEADLOCK FALSE
