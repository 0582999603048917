SPECIFICATION Spec
CONSTANTS
  Files = {f1, f2}
  ChannelCapacity = 1
  Capacity = 1
  MaxChanges = 2
  MaxFailures = 2
INVARIANTS
  WatchTypeOK
PROPERTIES
  NoSilentLoss
  QueueServed
CHECK_DEADLOCK FALSE
