CONSTANTS
  k1 = k1
  k2 = k2
  k3 = k3
  v1 = v1
  v2 = v2
  v3 = v3
  v4 = v4
  ValKeys = {k1, k2, k3}
  BlobKeys = {}
  ValsOf <- MCValsOf
  Defaults = {NULL}
  NULL = NULL
  Given = Given
  ParamAddr = ParamAddr
  Ok = Ok
  Err = Err
  MinSize = 2
  BigSize = 8
  Sizes = {2, 4, 8, 16, 32, 64}
  UMod = 128
  MaxFill = 12
  Rank <- MCRank
SPECIFICATION SpecGrow
INVARIANTS NeverHangs ChainsIntact
PROPERTY ImplementsContract
