SPECIFICATION Spec
CONSTANTS
  MaxDirs = 100
  RecursionThreshold = 5
  Contents <- Twins
  Batch = 1
  MaxScans = 3
  PerPage = 2
CHECK_DEADLOCK FALSE
INVARIANT InSync
