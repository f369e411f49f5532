SPECIFICATION Spec
CONSTANTS
  PageEntries = 2
  PageLimit = 2
  TotalEntries = 4
  ItemLimit = 1
  MaxItems = 2
INVARIANT ClaimIsWhole
CHECK_DEADLOCK FALSE
