CONSTANTS
  HASH_THRESHOLD = 2
  INDEX_FLOOR = 4
  PowersOfTwo = {1, 2, 4, 8, 16}
  HashSize = 5
  KeyObjs = {1, 2, 3, 4}
  Contents <- ListKeys
  Writes <- ListWrites
  FrozenKeys = {FALSE}
  MaxEntries = 4
  Vals = {v1}
  None = None
  Done = Done
SPECIFICATION Spec
INVARIANT MismatchProvesInequality
