CONSTANTS
  NumFiles = 4
  BatchSize = 2
  UnitSize <- MCUnitSize
  WriteBatch = 2
  Bad = {4}
  ChunkId <- MCChunkId
  Path <- MCPath
  RelativePath <- MCRelativePath
  MaxFaults = 0
  MaxCrashes = 0
SPECIFICATION BatchSpec
INVARIANT EveryChunkStored
CHECK_DEADLOCK FALSE
