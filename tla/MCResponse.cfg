CONSTANTS
  Streams <- MCStreams
SPECIFICATION ResponseSpec
INVARIANTS
  ResponseTypeOK
  HeaderNotOverrun
  HeaderWhole
  WellFormedStays
  RelaysFaithfully
  CompleteNeverLost
CHECK_DEADLOCK FALSE
