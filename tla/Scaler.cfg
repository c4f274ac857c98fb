SPECIFICATION Spec
CONSTANTS
  Requests = {m1, m2}
  VMs = {v1, v2, v3, v4}
  Base = 3
  Amplifier = 2
  Decay = 3
  PermThreshold = 12
  PermDuration = 36
  OptimizeFirst = FALSE
  Faults = TRUE
  MaxTime = 6
  MaxRestarts = 1
  None = None
SYMMETRY Symmetry
INVARIANTS
  TypeOK
  SpendBounded
  TriggeredIsRecorded
  TargetsDeployed
PROPERTY OneShot
