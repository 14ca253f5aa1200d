CONSTANTS
  Fd <- MCFd8
  Tputs <- OneTput
  MaxAsked = 4
  Conn = {c1, c2}
  ListenFd = 3
  NegBit = 4
  ReqRates = {1000}
  MaxSent = 2
  Faults = {"malformed", "split", "fin", "rst", "hangup", "notfound", "mistyped", "short", "acceptfail"}
SPECIFICATION ProxySpec
INVARIANTS
  SessionsOwnOrigins
  RepliesGoHome
  WaitsForOwnAnswer
CHECK_DEADLOCK FALSE
SYMMETRY Symmetry
