SPECIFICATION Spec
CONSTANTS
  i1 = i1
  i2 = i2
  a1 = a1
  a2 = a2
  Items <- TwoItems
  Contents <- AnyItems
  Admins <- OneAdmin
  Blank = Blank
  Absent = Absent
  Garbled = Garbled
  NoItems = NoItems
  MaxEdits = 0
  MaxCalls = 1
  MaxFails = 0
  MaxBoots = 0
CHECK_DEADLOCK FALSE
INVARIANTS ChangeSurvives
