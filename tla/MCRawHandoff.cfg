SPECIFICATION HandoffSpec
CONSTANTS
  e1 = e1
  e2 = e2
  e3 = e3
  e4 = e4
  Events = {e1, e2, e3, e4}
  Charge <- MCCharge
  EventLimit = 2
  ByteLimit = 4
  None = None
  MaxFaults = 2
INVARIANTS
  OwnershipExact
  GapsAddUp
  ShutdownAccounts
PROPERTIES
  QueueKept
  ShutdownCompletes
