CONSTANTS
  Process = {p1, p2, p3}
  Anonymous = {p3}
  MaxInode = 4
  NONE = NONE
SPECIFICATION Spec
INVARIANTS OneWhenOrderly FileGuards OrphanMeansCrash
