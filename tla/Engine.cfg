SPECIFICATION Spec
CONSTANTS
  w1 = w1
  w2 = w2
  Writers = {w1, w2}
  Syncing = {w1}
  Readers = {r1}
  k1 = k1
  k2 = k2
  Keys = {k1, k2}
  Batches <- MCBatches
  BufferSize = 1
  CompactionTrigger = 1
  StopTrigger = 2
  MaxWrites = 3
  MaxMerges = 1
  MaxInputs = 4
INVARIANTS
  LiveFilesKept
  ReadsRight
PROPERTIES
  ImplementsStore
CHECK_DEADLOCK FALSE
