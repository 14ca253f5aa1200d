CONSTANTS
  Fd <- MCFd8
  Tputs <- OneTput
  MaxAsked = 6
  Conn = {c1, c2, c3}
  ListenFd = 3
  NegBit = 63
  ReqRates = {1000}
  MaxSent = 1
  Faults = {"short"}
SPECIFICATION ProxySpec
INVARIANT
  AnswersWhole
CHECK_DEADLOCK FALSE
SYMMETRY Symmetry
