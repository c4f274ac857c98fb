SPECIFICATION Spec
CONSTANTS
  s = s
  a = a
  b = b
  t = t
  None = None
  Vertices <- MCVertices
  Edges <- MCEdges
  Start = s
  End = t
  Weights = {0, 1, 3}
  MaxChanges = 1
INVARIANTS
  TypeOK
  NoCycle
  PathIsReal
  AgreesWithReference
PROPERTIES
  ScannedOnce
  Terminates
CHECK_DEADLOCK FALSE
