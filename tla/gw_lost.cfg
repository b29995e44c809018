SPECIFICATION GatewaySpec
CONSTANTS
  r1 = r1
  r2 = r2
  NoRecord = NoRecord
  Worker = Worker
  Closer = Closer
  Records <- OneRecord
  Streams <- None
  Incomplete <- None
  Chunked <- None
  MustKeep <- OneRecord
  Configs <- OnlyFile
  BufferSize = 1
  RetentionDays = 1
  MaxDay = 0
  MaxBoots = 0
  MaxOpenFails = 0
  MaxWriteFails = 0
CHECK_DEADLOCK FALSE
INVARIANTS AnsweredIsStored
