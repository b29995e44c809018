SPECIFICATION Spec
CONSTANTS
  r1 = r1
  r2 = r2
  NoRecord = NoRecord
  Worker = Worker
  Closer = Closer
  Records <- TwoRecords
  Streams <- OneRecord
  Incomplete <- None
  Chunked <- OneRecord
  MustKeep <- OneRecord
  Configs <- FileOrKafka
  BufferSize = 1
  RetentionDays = 2
  MaxDay = 1
  MaxBoots = 1
  MaxOpenFails = 0
  MaxWriteFails = 1
CHECK_DEADLOCK FALSE
INVARIANTS TypeOK AtMostOnce NoSilentDrop CloseDrains
PROPERTIES PromiseSpec
