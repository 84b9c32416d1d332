SPECIFICATION ScanSpec
CONSTANTS
  a = a
  b = b
  Names <- MCNames
  Share <- MCShare
  Closed <- MCClosed
  Saved <- MCSaved
  Beyond <- None
  Big <- None
  Looped <- None
  Kinds = {"curl"}
  File = file
  CommandLines <- MCCommandLines
  RootFile = FALSE
  MaxStray = 2
CHECK_DEADLOCK FALSE
INVARIANT ReadsWhereItIs
