CONSTANTS
  fa = fa
  fb = fb
  c1 = c1
  c2 = c2
  f1 = f1
  f2 = f2
  r1 = r1
  None = None
  HotOps = {1, 2}
  ConfigOps = {c1}
  FullOps = {}
  RelOps = {r1}
  Files = {fa, fb}
  HotChanges <- MCHotChanges
  Scans <- MCScans
  KeepActive = 2
  MaxEpoch = 6
  MaxCrashes = 0
  MaxFaults = 1
SPECIFICATION GenSpec
PROPERTY AbortHarmless
CHECK_DEADLOCK FALSE
