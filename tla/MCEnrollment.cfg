SPECIFICATION Spec
CONSTANTS
  None = None
  MaxKeys = 2
  MaxStarts = 4
INVARIANT KeyKept
CHECK_DEADLOCK FALSE
