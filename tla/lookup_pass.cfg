SPECIFICATION FairSpec
CONSTANTS
  a = a
  b = b
  Keys <- MCKeys
  Empty <- MCEmpty
  Configs <- MCConfigs
  Discovery = {"-d"}
  Manual = {"-M"}
  None = None
  Stored = Stored
  MaxChanges = 1
  MaxDeaths = 1
  Block = 1
  MaxPasses = 1
CHECK_DEADLOCK FALSE
INVARIANTS TypeOK Refreshed AllTold
PROPERTIES SkipsKept StateHeard GoneIsDeleted
