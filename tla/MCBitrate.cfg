CONSTANTS
  Fd <- MCFd
  Tputs <- MCTputs
  MaxAsked = 4
SPECIFICATION BitrateSpec
INVARIANTS
  BitrateTypeOK
  LogInRequestOrder
  BitrateInv
PROPERTY AsksByLastRecord
CHECK_DEADLOCK FALSE
