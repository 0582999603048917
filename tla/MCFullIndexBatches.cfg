CONSTANTS
  NumFiles = 4
  BatchSize = 2
  UnitSize <- MCUnitSize
  WriteBatch = 2
  Bad = {4}
  ChunkId <- MCChunkId
  Path <- MCPath
  RelativePath <- MCRelativePath
  MaxFaults = 2
  MaxCrashes = 2
SPECIFICATION FairBatchSpec
INVARIANTS BatchTypeOK PublishedComplete CommittedDurable
PROPERTIES RelationsComplete FullIndexCompletes
CHECK_DEADLOCK FALSE
