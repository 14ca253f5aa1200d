CONSTANTS
  p1 = p1
  p2 = p2
  p3 = p3
  p4 = p4
  Client <- Three
  Proxy <- Two
  N = 2
  Fits <- FirstServer
  Modes <- Rotating
  MaxLog = 3
  MaxFlight = 2
  NetFaults = {"lose", "duplicate", "nosend", "foreign", "stranger"}
SPECIFICATION ResolverSpec
INVARIANTS
  ResolverTypeOK
  GivesEachOncePerTurn
  AddressWasLogged
PROPERTY RotationSpec
CHECK_DEADLOCK FALSE
