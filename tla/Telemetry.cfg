SPECIFICATION Spec
CONSTANTS
  v = v
  s = s
  n = n
  None = None
  VMs = {v}
  Targets <- MCTargets
  Stores <- MCStores
  Retention = 1
  CleanupPeriod = 1
  QueueSize = 2
  Millis = {0}
  MaxTime = 3
  MaxRounds = 2
  MaxReports = 2
INVARIANTS TypeOK NoHalfRound SnapshotNewestFirst
PROPERTY WindowCounted
CHECK_DEADLOCK FALSE
