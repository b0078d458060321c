SPECIFICATION Spec
CHECK_DEADLOCK FALSE
CONSTANTS
  ConReqRepeats = 2
  DiscRepeats = 2
  ItemSize = 32
  FSKOnly = TRUE
  fastStart = FALSE
  ForFM = FALSE
  NONE = NONE
  FF = FF
  Station = {"a", "b"}
  BusyBlock = TRUE
  Bandwidths <- Mixed
  MaxItems <- A2B1
  MaxCalls <- A1B0
  Commands = {"DISCONNECT", "BREAK", "ABORT"}
  MaxCommands <- A1B1
INVARIANTS TypeOK OneSender AgreedWidth
PROPERTIES ImplementsLink
