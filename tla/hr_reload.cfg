SPECIFICATION FairSpec
CONSTANTS
  v1 = v1
  v2 = v2
  v3 = v3
  broken = broken
  Blank = Blank
  Absent = Absent
  Contents <- FourFiles
  MaxEdits = 4
  Unparsable <- Broken
  BadUpstream <- BadUrl
CHECK_DEADLOCK FALSE
INVARIANTS TypeOK InStep Loaded
PROPERTIES Follows
