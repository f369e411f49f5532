SPECIFICATION Spec
CONSTANT None = None
INVARIANTS
  EvidenceSafe
  ActionsTold
  StoresSafe
PROPERTY NothingLeftWaiting
CHECK_DEADLOCK FALSE
