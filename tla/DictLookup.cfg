CONSTANTS
  Size = 8
  Hashes = {0, 1, 7, 31, 33, 200, 1023, 5461, 1000003}
SPECIFICATION Spec
INVARIANT FindsFirst
PROPERTY Terminates
