\* Two writes on two records, scanned together, and an amount; one crash.
SPECIFICATION Spec
CONSTANTS
  Writers = {w1, w2}
  Records = {r1, r2}
  Amounts = {a1}
  Ranges = {{r1, r2}}
  Nobody = Nobody
  WriteConcurrency = 2
  ConflictsBeforeExclusiveWrite = 1
  MaxCrashes = 1
SYMMETRY WriterSymmetry
INVARIANTS
  StaleReadsAreNoticed
  ReturnedWritesAreSynced
PROPERTIES
  IsSerial
CHECK_DEADLOCK FALSE
