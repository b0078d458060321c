SPECIFICATION FairSpec
CHECK_DEADLOCK FALSE
CONSTANTS
  ConReqRepeats = 2
  DiscRepeats = 2
  ItemSize = 32
  FSKOnly = TRUE
  fastStart = TRUE
  ForFM = FALSE
  NONE = NONE
  FF = FF
  Station = {"a", "b"}
  BusyBlock = FALSE
  Bandwidths <- Widest2000
  MaxItems <- A1B1
  MaxCalls <- A1B0
  Commands = {"DISCONNECT", "BREAK", "ABORT", "PURGEBUFFER"}
  MaxCommands <- A0B1
PROPERTIES Settles LinkEnds
