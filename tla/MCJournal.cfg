SPECIFICATION Spec
CONSTANTS
  r1 = r1
  r2 = r2
  r3 = r3
  r4 = r4
  c1 = c1
  c2 = c2
  k1 = k1
  Records = {r1, r2, r3, r4}
  Size <- MCSize
  Proto <- MCProto
  Lifecycle = {r2, r3, r4}
  Quality <- MCQuality
  Migrated = {r3}
  Frames <- MCFrames
  Sources = {s1}
  Cursors = {c1, c2}
  CursorSize <- MCCursorSize
  ReasonSizes = {1}
  Commands = {k1}
  CommandSize <- MCCommandSize
  ResultSizes = {1}
  CheckpointOnly = CheckpointOnly
  Limit = 9
  RebuildBytes = 8
  EventLimit = 2
  MaxSources = 1
  MaxCommands = 1
  MaxBatch = 2
  MaxSeq = 4
  MaxRevision = 2
INVARIANTS
  JournalInv
  ImportComplete
  QuotaHeld
  NoLoss
  CursorNeverAhead
  HistoryComplete
PROPERTIES
  EvidenceIsFinal
  ReceiptAtomic
  NoReimport
