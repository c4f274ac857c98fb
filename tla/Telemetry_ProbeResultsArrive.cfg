SPECIFICATION Spec
CONSTANTS
  v = v
  s = s
  n = n
  None = None
  VMs = {v}
  Targets <- MCTargets
  Stores <- MCStores
  Retention = 1
  CleanupPeriod = 2
  QueueSize = 2
  Millis = {0}
  MaxTime = 4
  MaxRounds = 2
  MaxReports = 2
PROPERTY ProbeResultsArrive
CHECK_DEADLOCK FALSE
