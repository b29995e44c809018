SPECIFICATION FairSpec
CONSTANTS
  i1 = i1
  i2 = i2
  a1 = a1
  a2 = a2
  Items <- OneItem
  Contents <- AnyItems
  Admins <- TwoAdmins
  Blank = Blank
  Absent = Absent
  Garbled = Garbled
  NoItems = NoItems
  MaxEdits = 2
  MaxCalls = 2
  MaxFails = 1
  MaxBoots = 1
CHECK_DEADLOCK FALSE
INVARIANTS TypeOK Agreement
PROPERTIES Converges
