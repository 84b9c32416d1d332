SPECIFICATION Spec
CONSTANTS
  Keys = {1, 2, 3, 4, 5}
  Free = 0
  Hashes <- MCHashes
  MayFail = TRUE
  MaxLevels = 4
CHECK_DEADLOCK FALSE
INVARIANTS TypeOK FoundOnce HalfEmpty
PROPERTY TableSpec
