SPECIFICATION DeliverySafe
CONSTANTS
  r1 = r1
  r2 = r2
  r3 = r3
  r4 = r4
  c1 = c1
  Records = {r1, r2, r3, r4}
  Size <- MCSize
  Proto <- MCProto
  Lifecycle = {}
  Quality <- MCQuality
  Migrated = {}
  Frames <- MCFrames
  Sources = {s1}
  Cursors = {c1}
  CursorSize <- MCCursorSize
  ReasonSizes = {1}
  Commands = {}
  CommandSize <- NoCommandSize
  ResultSizes = {}
  CheckpointOnly = CheckpointOnly
  Limit = 5
  RebuildBytes = 8
  EventLimit = 2
  MaxSources = 1
  MaxCommands = 1
  MaxBatch = 2
  MaxSeq = 4
  MaxRevision = 1
  Refused = {r3}
  ReasonLength = 1
  BatchBytes = 4
  Burst = 2
  BaseBackoff = 1
  MaxBackoff = 3
  NoReply = NoReply
  MaxFaults = 1
INVARIANTS
  DeliveryInv
  DeliveredIsStored
  DeadIsRefused
PROPERTIES
  OldestFirst
  CustodyKept
