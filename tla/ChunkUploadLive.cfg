SPECIFICATION FairSpec
CONSTANTS
  Chunks = {c1, c2}
  Workers = {w1}
  TaskBuffer = 1
  EventBuffer = 2
  ExpireTime = 1
  UploadTimeout = 3
  Redirect = TRUE
  None = None
PROPERTIES
  CallReturns
  GoroutinesExit
