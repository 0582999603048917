CONSTANTS
  fa = fa
  fb = fb
  Files = {fa, fb}
  ChannelCapacity = 2
  StormThreshold = 1
  RecoveryThreshold = 1
  MaxChanges = 3
  MaxCommands = 3
  MaxLoops = 2
  MaxFaults = 1
SPECIFICATION FairModeSpec
INVARIANTS ModeTypeOK Observed
PROPERTIES ReceivedIndexed DegradedIndexes
CHECK_DEADLOCK FALSE
