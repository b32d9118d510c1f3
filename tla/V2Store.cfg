\* A directory with two keys, a key beside it, and one watcher.
SPECIFICATION Spec
CONSTANTS
  Request <- Requests
  WatchRequest <- Watches
  Watcher = {1}
  UniqueName <- UniqueNames
  Hidden <- HiddenNames
  Longer <- LongerNames
  Capacity = 2
  ChanLen = 2
  MaxIndex = 4
CONSTRAINTS NoTies OneObserver
INVARIANTS NothingMissed ScanIsExact HeapIsExact  TreeIsSound
CHECK_DEADLOCK FALSE
