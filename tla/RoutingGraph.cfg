SPECIFICATION FairSpec
CONSTANTS
  a = a
  b = b
  s = s
  None = None
  Nodes <- MCNodes
  Self = a
  Stores <- MCStores
  Provider <- MCProvider
  Continent <- MCContinent
  PriceTable <- MCPriceTable
  Measurements <- MCMeasurements
  Clients <- MCClients
  MaxPending = 2
INVARIANTS TypeOK PeerEdgesFresh WatchKeepsUp RouteHasRate
PROPERTY NodeAppears
