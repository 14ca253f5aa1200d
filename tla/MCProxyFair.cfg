CONSTANTS
  Fd <- MCFd5
  Tputs <- MCTputs
  MaxAsked = 3
  Conn = {c1, c2, c3}
  ListenFd = 3
  NegBit = 63
  ReqRates = {1000}
  MaxSent = 1
  Faults <- NoFaults
SPECIFICATION FairProxySpec
INVARIANTS
  ProxyTypeOK
  OriginsLeaked
  OnlyListenerWatched
  LogLagsByOne
  ClientsInheritEstimate
  DiesOfLeaksOnly
PROPERTIES
  Served
  RelaySpec
CHECK_DEADLOCK FALSE
