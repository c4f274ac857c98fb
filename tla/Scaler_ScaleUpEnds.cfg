SPECIFICATION FairSpec
CONSTANTS
  Requests = {m1}
  VMs = {v1, v2}
  Base = 3
  Amplifier = 2
  Decay = 3
  PermThreshold = 12
  PermDuration = 36
  OptimizeFirst = FALSE
  Faults = FALSE
  MaxTime = 6
  MaxRestarts = 0
  None = None
PROPERTY ScaleUpEnds
