CONSTANTS
  p1 = p1
  p2 = p2
  p3 = p3
  p4 = p4
  Client <- Four
  Proxy <- Four
  N = 3
  Fits <- AllServers
  Modes <- AnyMode
  MaxLog = 4
  MaxFlight = 1
  NetFaults = {}
SPECIFICATION FairResolverSpec
INVARIANT ProxiesSpreadEvenly
PROPERTY EveryProxyStarts
CHECK_DEADLOCK FALSE
