SPECIFICATION Spec
CONSTANTS
  Chunks = {c1, c2}
  Workers = {w1, w2}
  TaskBuffer = 2
  EventBuffer = 2
  ExpireTime = 1
  UploadTimeout = 3
  Redirect = FALSE
  None = None
SYMMETRY Symmetry
INVARIANTS
  TypeOK
  ComposeOnlyAcknowledged
  SingleTaskUntilResent
  FirstPassComplete
  SendNeverBlocks
PROPERTY ImplementsJob
