SPECIFICATION ResponseSafe
CONSTANTS
  kill = kill
  collect = collect
  acquire = acquire
  Commands = {acquire}
  Kind <- KindOf
  Unfit = {}
  Legacy = {}
  ReadLimit = 2
  InboxRows = 2
  MaxFaults = 2
INVARIANTS
  ManifestReconciled
