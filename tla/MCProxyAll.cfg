CONSTANTS
  Fd <- MCFd5
  Tputs <- OneTput
  MaxAsked = 1
  Conn = {c1, c2, c3}
  ListenFd = 3
  NegBit = 7
  ReqRates = {1000}
  MaxSent = 2
  Faults = {"malformed", "refused", "hangup", "mistyped", "acceptfail"}
SPECIFICATION ProxySpec
INVARIANTS
  ProxyInv
  ListenerNeverClosed
  OriginsNeverSelected
  AtMostOneReply
CHECK_DEADLOCK FALSE
SYMMETRY Symmetry
