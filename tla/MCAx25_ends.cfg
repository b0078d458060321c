SPECIFICATION FairSpec
CHECK_DEADLOCK FALSE
CONSTANTS
  Modulus = 3
  N2 = 2
  RxLimit = 0
  Station = {"a", "b"}
  Patient = TRUE
  Validates = TRUE
  Shared = {"b"}
  MaxItems <- A1B1
  MaxCalls <- A1B0
  MaxCloses <- A1B0
  MaxLosses = 1
PROPERTIES Progress HandshakesEnd
