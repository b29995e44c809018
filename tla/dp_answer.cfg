SPECIFICATION FairSpec
CONSTANTS
  d1 = d1
  d2 = d2
  d3 = d3
  c1 = c1
  Clean = Clean
  NoAnswer = NoAnswer
  Detectors <- ThreeDetectors
  Calls <- OneCall
  Findings <- AnyFinding
CHECK_DEADLOCK FALSE
INVARIANTS TypeOK Verdict CloseIsLast NeverBlocks
PROPERTIES Returns NoneLeftBehind
