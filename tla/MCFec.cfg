SPECIFICATION FairSpec
CONSTANTS
  NONE = NONE
  Modes <- AllModes
  RepeatCounts = {0, 2}
  MaxItems = 3
  MaxStarts = 1
  MaxSettings = 1
  MaxIds = 1
CHECK_DEADLOCK FALSE
INVARIANTS TypeOK DeliversInOrder CarriersAddUp
PROPERTIES RepeatsKept FecEnds
