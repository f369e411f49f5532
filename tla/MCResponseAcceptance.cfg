SPECIFICATION ResponseSpec
CONSTANTS
  kill = kill
  collect = collect
  acquire = acquire
  Commands = {collect}
  Kind <- KindOf
  Unfit = {}
  Legacy = {}
  ReadLimit = 2
  InboxRows = 2
  MaxFaults = 2
PROPERTIES
  AcceptanceNeverBlocks
