SPECIFICATION Spec
CONSTANTS
  Key = {1, 2}
  l1 = l1
  l2 = l2
  Lease = {l1, l2}
  NoLease = NoLease
  Request <- Requests
  BatchSize = 1
  MaxLog = 5
  MaxFaults = 1
CONSTRAINT OneKind
ACTION_CONSTRAINTS NewestKept ExactRestarts
INVARIANTS  LeasedKeysAttached  CompactionIsExact
 
CHECK_DEADLOCK FALSE
