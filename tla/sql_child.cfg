SPECIFICATION Spec
CONSTANTS
  a = a
  b = b
  Names <- MCNames
  Share <- MCShare
  Closed <- MCClosed
  Saved <- MCSaved
  Beyond <- MCBeyond
  Big <- MCBig
  Looped <- None
CHECK_DEADLOCK FALSE
PROPERTY RefusedChildKeepsDirectory
