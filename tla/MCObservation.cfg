SPECIFICATION Spec
CONSTANT None = None
INVARIANTS
  ChainWhole
  PositiveIsFresh
  CompleteIsWhole
  GapsMatchBaseline
  LossesTold
  CursorSafe
  SourcesFenced
PROPERTY WorkersEnd
CHECK_DEADLOCK FALSE
