\* Redundancy two; one mishap, one change of the roster, one exclusion.
SPECIFICATION FairSpec
CONSTANTS
  a = a
  b = b
  c = c
  u1 = u1
  u2 = u2
  Peers = {a, b, c}
  Distance <- AroundSelf
  SelfDistance = 3
  Redundancy = 2
  RefreshInterval = 2
  FirstRetryDelay = 2
  Postings = {u1, u2}
  Declines = {a}
  MaxVersion = 2
  MaxAdmissions = 2
  MaxChanges = 1
  MaxExclusions = 1
  MaxMishaps = 1
INVARIANTS
  TypeOK
  HoldersHoldWhatIsDelivered
  UndeliveredIsTakenUp
PROPERTIES
  DeletesWhatSteadyPeersHold
  KeepsWhatWasNotOffered
  UndeliveredIsDelivered
CHECK_DEADLOCK FALSE
