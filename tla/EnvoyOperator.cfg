SPECIFICATION Spec
CONSTANTS
  Ports = {p1, p2}
  DefaultPort = p1
  Addrs = {a1, a2}
  ProxyAddrs = {a1}
  Broken = Broken
  MaxOps = 4
  MaxBoots = 2
  MaxDeaths = 1
INVARIANTS
  TypeOK
  CatchesUp
CHECK_DEADLOCK FALSE
