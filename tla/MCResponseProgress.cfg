SPECIFICATION ResponseSpec
CONSTANTS
  kill = kill
  collect = collect
  acquire = acquire
  Commands = {kill, collect}
  Kind <- KindOf
  Unfit = {kill}
  Legacy = {}
  ReadLimit = 1
  InboxRows = 2
  MaxFaults = 2
PROPERTIES
  EventuallyAnswered
