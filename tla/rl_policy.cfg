SPECIFICATION FairSpec
CONSTANTS
  q1 = q1
  Requests <- OneRequest
  Kinds <- AnyKind
CHECK_DEADLOCK FALSE
INVARIANTS TypeOK NothingBannedPasses DeniedIsRecorded HitsAreRecorded AnswerIsKept
PROPERTIES AnsweredIsAudited
