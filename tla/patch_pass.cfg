SPECIFICATION Spec
CONSTANTS
  MaxDirs = 100
  RecursionThreshold = 2
  Contents <- AnyOfOneKind
  Batch = 1
  MaxScans = 3
  PerPage = 2
CHECK_DEADLOCK FALSE
INVARIANTS TypeOK InSync ContentIndexed LinesApply PagesAddUp LinksLead LoopsAreCut IntegrityChecked
PROPERTIES OldLinksLead ContractKept
