\* Two watchers that share a channel of one response.
SPECIFICATION Spec
CONSTANTS
  Watcher = {1, 2}
  Key = {1, 2}
  ChanBufLen = 1
  WatchBatchMaxRevs = 1
  Request <- Requests
  MaxRev = 4
  MaxOthers = 1
CONSTRAINTS Simple InTurn
INVARIANTS NothingMissed ProgressIsTrue ClientFollows NoPanic
 
CHECK_DEADLOCK FALSE
