SPECIFICATION FairSpec
PROPERTIES LocksAreReleased DueIsServed
CONSTANTS
  Shares = {s1}
  Listing = {A}
  Spiders = {p1, p2}
  Lookups = {l1}
  Nothing = Nothing
  Absent = Absent
  Garbage = Garbage
  None = None
  MaxTicks = 2
  MaxInserts = 1
CHECK_DEADLOCK FALSE
