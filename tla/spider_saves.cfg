SPECIFICATION Spec
INVARIANT SavesMatchDatabase
CONSTANTS
  Shares = {s1}
  Listing = {A, B}
  Spiders = {p1, p2}
  Lookups = {l1}
  Nothing = Nothing
  Absent = Absent
  Garbage = Garbage
  None = None
  MaxTicks = 2
  MaxInserts = 2
CHECK_DEADLOCK FALSE
