SPECIFICATION Spec
CONSTANTS
  r1 = r1
  r2 = r2
  NoRecord = NoRecord
  Worker = Worker
  Closer = Closer
  Records <- TwoRecords
  Streams <- None
  Incomplete <- None
  Chunked <- None
  MustKeep <- TwoRecords
  Configs <- OnlyFile
  BufferSize = 1
  RetentionDays = 1
  MaxDay = 0
  MaxBoots = 1
  MaxOpenFails = 0
  MaxWriteFails = 0
CHECK_DEADLOCK FALSE
INVARIANTS ChainContinues
