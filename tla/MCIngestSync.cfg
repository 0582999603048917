CONSTANTS
  f1 = f1
  f2 = f2
  x = x
  y = y
  None = None
  Files = {f1, f2}
  Contents <- MCContents
  FirstDisk <- MCFirstDisk
  BatchChunks = 3
  FullSyncThreshold = 1
  MaxEdits = 2
  MaxFaults = 2
  MaxCrashes = 1
SPECIFICATION FairIngestSpec
INVARIANTS IngestTypeOK PiecesAgree BaselineKnown
PROPERTIES Converges
CHECK_DEADLOCK FALSE
