SPECIFICATION FairSpec
CONSTANTS
  w1 = w1
  w2 = w2
  Writers = {w1, w2}
  Syncing = {w1}
  Readers = {}
  k1 = k1
  k2 = k2
  Keys = {k1, k2}
  Batches <- MCBatch
  BufferSize = 0
  CompactionTrigger = 1
  StopTrigger = 2
  MaxWrites = 4
  MaxMerges = 3
  MaxInputs = 4
PROPERTIES
  EveryWriteAnswered
CHECK_DEADLOCK FALSE
