CONSTANTS
  f1 = f1
  f2 = f2
  f3 = f3
  n1 = n1
  n2 = n2
  n3 = n3
  k16 = k16
  l16 = l16
  l15 = l15
  Obj = {c1, c2}
  Fd = {f1, f2}
  Name = {n1, n2, n3}
  Stored <- MCStored
  NULL = NULL
  ParamAddr = ParamAddr
  MinSize = 8
  BigSize = 64000
  Sizes = {8, 16, 32}
  UMod = 64
  MaxFdFill = 2
  MaxFill = 6
  Rank <- MCRank
SPECIFICATION Spec
SYMMETRY Symmetry
INVARIANT OneHolder
CHECK_DEADLOCK FALSE
