SPECIFICATION FairSpec
CONSTANTS
  MaxSize = 6
  Threshold = 2
  MaxEvent = 3
  TokenLen = 3
  SpanSets <- TwoSpans
  Policies <- AllPolicies
  StreamLen = 8
  MaxErrs = 1
CHECK_DEADLOCK FALSE
INVARIANTS TypeOK InOrder NoLeak AuditSees CompleteDelivery
PROPERTIES PromiseSpec FlushEnds
