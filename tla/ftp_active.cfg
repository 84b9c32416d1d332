SPECIFICATION Spec
CONSTANTS
  a = a
  b = b
  Names <- MCNames
  Share <- MCShare
  Closed <- MCClosed
  Cases <- ActiveAlone
  MaxErrors = 0
CHECK_DEADLOCK FALSE
PROPERTY AllListed
