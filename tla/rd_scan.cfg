SPECIFICATION Spec
CONSTANTS
  s1 = s1
  idCard = idCard
  phone = phone
  badPhone = badPhone
  id1 = id1
  ph1 = ph1
  ph2 = ph2
  word = word
  pat1 = pat1
  pat2 = pat2
  v1 = v1
  v2 = v2
  v3 = v3
  Fingerprint = Fingerprint
  Clean = Clean
  NoAnswer = NoAnswer
  Scans <- OneScan
  Texts <- AnyText
  RuleDefs <- ThreeRules
  RuleNames <- TwoNames
  NameOf <- Names
  Invalid <- BadRule
  DefaultRules <- Defaults
  RulesOf <- Lists
  Matches <- ThreeMatches
  Keywords <- OneWord
  Patterns <- TwoPatterns
  ExemptedRule <- EntryFor
  Covers <- OneEach
CHECK_DEADLOCK FALSE
INVARIANTS TypeOK NothingMissed NoFalseAlarm
