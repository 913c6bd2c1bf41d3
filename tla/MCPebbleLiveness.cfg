\* Three writes, two at a time, on one record; one conflict before a write is alone.
SPECIFICATION FairSpec
CONSTANTS
  Writers = {w1, w2, w3}
  Records = {r1}
  Amounts = {}
  Ranges = {}
  Nobody = Nobody
  WriteConcurrency = 2
  ConflictsBeforeExclusiveWrite = 1
  MaxCrashes = 0
INVARIANTS
  TypeOK
PROPERTIES
  WritesEnd
CHECK_DEADLOCK FALSE
