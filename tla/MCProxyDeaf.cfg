CONSTANTS
  Fd <- MCFd8
  Tputs <- OneTput
  MaxAsked = 3
  Conn = {c1, c2}
  ListenFd = 3
  NegBit = 63
  ReqRates = {1000}
  MaxSent = 1
  Faults = {"fin"}
SPECIFICATION FairProxySpec
PROPERTIES
  Heard
CHECK_DEADLOCK FALSE
