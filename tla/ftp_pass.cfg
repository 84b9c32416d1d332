SPECIFICATION FairSpec
CONSTANTS
  a = a
  b = b
  Names <- MCNames
  Share <- MCShare
  Closed <- MCClosed
  Cases <- MCCases
  MaxErrors = 1
CHECK_DEADLOCK FALSE
INVARIANTS TypeOK DataClosed OwnReply
PROPERTIES NeverForeign CacheTellsAll WalkSteps ScanEnds
