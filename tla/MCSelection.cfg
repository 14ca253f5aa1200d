SPECIFICATION SelectionSpec
CONSTANTS
  a = a
  b = b
  c = c
  d = d
  sink = sink
  near = near
  far = far
  r1 = r1
  r2 = r2
  r3 = r3
  h1 = h1
  h2 = h2
  h3 = h3
  h4 = h4
  h5 = h5
  h6 = h6
  h7 = h7
  Name <- MCName
  Leading <- MCLeading
  Files <- MCFiles
  Networks <- MCNetworks
  Servers <- MCServers
  Begins <- MCBegins
  Sources = {a, sink}
INVARIANTS
  SelectionTypeOK
  NodesUnique
  GraphIsLatest
  AnnouncesEachOnce
  GraphMatchesNetwork
  SettledAreExact
  AnswerIsNearest
  NearestInNetwork
PROPERTIES
  SeqsNeverFall
CHECK_DEADLOCK FALSE
