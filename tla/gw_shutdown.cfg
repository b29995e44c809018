SPECIFICATION GatewayFairSpec
CONSTANTS
  r1 = r1
  r2 = r2
  NoRecord = NoRecord
  Worker = Worker
  Closer = Closer
  Records <- TwoRecords
  Streams <- OneRecord
  Incomplete <- None
  Chunked <- None
  MustKeep <- TwoRecords
  Configs <- OnlyFile
  BufferSize = 1
  RetentionDays = 1
  MaxDay = 1
  MaxBoots = 1
  MaxOpenFails = 1
  MaxWriteFails = 1
CHECK_DEADLOCK FALSE
INVARIANTS GatewayTypeOK ChainLinked ExitKeeps QueryAnswers
PROPERTIES AnsweredReachesFile ShutdownEnds
