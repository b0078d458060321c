SPECIFICATION Spec
CHECK_DEADLOCK FALSE
CONSTANTS
  Modulus = 3
  N2 = 2
  RxLimit = 9
  Station = {"a", "b"}
  Patient = TRUE
  Validates = FALSE
  Shared = {"b"}
  MaxItems <- A3B1
  MaxCalls <- A1B0
  MaxCloses <- A1B0
  MaxLosses = 2
INVARIANTS TypeOK NeverRejected SavedIsAhead
PROPERTIES ImplementsLink
