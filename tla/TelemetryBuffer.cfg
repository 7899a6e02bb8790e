SPECIFICATION FairBufferSpec
CONSTANTS
  MaxPending = 2
  MaxQueued = 3
  MaxQueuedBytes = 4
  Bytes <- MCBytes
  MaxSubmissions = 7
INVARIANTS
  CountersAreExact
PROPERTY NobodyWaitsForEver
CHECK_DEADLOCK FALSE
