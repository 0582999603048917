CONSTANTS
  fa = fa
  fb = fb
  c1 = c1
  c2 = c2
  f1 = f1
  f2 = f2
  r1 = r1
  None = None
  HotOps = {1, 2}
  ConfigOps = {c1}
  FullOps = {f1}
  RelOps = {r1}
  Files = {fa, fb}
  HotChanges <- MCReplace
  Scans <- MCScansFewer
  KeepActive = 2
  MaxEpoch = 6
  MaxCrashes = 1
  MaxFaults = 1
SPECIFICATION FairGenSpec
INVARIANTS GenTypeOK MarkersSound ChainShallow
PROPERTIES PublishedAtomically PublicationMonotone UpdateCompletes
CHECK_DEADLOCK FALSE
