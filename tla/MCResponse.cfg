SPECIFICATION ResponseSafe
CONSTANTS
  kill = kill
  collect = collect
  acquire = acquire
  Commands = {kill, collect, acquire}
  Kind <- KindOf
  Unfit = {}
  Legacy = {kill}
  ReadLimit = 2
  InboxRows = 2
  MaxFaults = 2
INVARIANTS
  ResponseInv
  AtMostOnce
  NoCollision
  OutboxedKept
PROPERTIES
  NoActionWhileUnsaved
  LifeKept
