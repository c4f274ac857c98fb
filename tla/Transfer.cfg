SPECIFICATION FairSpec
CONSTANTS
  a = a
  b = b
  c = c
  None = None
  TargetParts = 4
  ChunkSizes = {2, 4}
  Fanout = 2
  Dests = {"s3", "gcs", "disk"}
  MaxLate = 2
  Requests <- MCRequests
INVARIANTS TypeOK WholeObject NoLitter
PROPERTIES NothingLost TransferAnswered
CHECK_DEADLOCK FALSE
