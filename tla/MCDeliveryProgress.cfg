SPECIFICATION DeliverySpec
CONSTANTS
  r1 = r1
  r2 = r2
  r3 = r3
  r4 = r4
  c1 = c1
  Records = {r1, r2, r3}
  Size <- ProgressSize
  Proto <- ProgressProto
  Lifecycle = {}
  Quality <- ProgressQuality
  Migrated = {}
  Frames <- NoFrames
  Sources = {}
  Cursors = {}
  CursorSize <- NoCursorSize
  ReasonSizes = {1}
  Commands = {}
  CommandSize <- NoCommandSize
  ResultSizes = {}
  CheckpointOnly = CheckpointOnly
  Limit = 5
  RebuildBytes = 8
  EventLimit = 2
  MaxSources = 1
  MaxCommands = 1
  MaxBatch = 2
  MaxSeq = 4
  MaxRevision = 1
  Refused = {r3}
  ReasonLength = 1
  BatchBytes = 5
  Burst = 2
  BaseBackoff = 1
  MaxBackoff = 3
  NoReply = NoReply
  MaxFaults = 2
PROPERTIES
  EventuallySettled
  StopCompletes
