\* A peer that is lost and found again, or a restart, and three admissions.
SPECIFICATION Spec
CONSTANTS
  a = a
  b = b
  c = c
  u1 = u1
  u2 = u2
  Peers = {a, b, c}
  Distance <- AroundSelf
  SelfDistance = 3
  Redundancy = 2
  RefreshInterval = 2
  FirstRetryDelay = 1
  Postings = {u1, u2}
  Declines = {}
  MaxVersion = 2
  MaxAdmissions = 3
  MaxChanges = 2
  MaxExclusions = 0
  MaxMishaps = 0
PROPERTIES
  DeletesOnlyWhatEnoughPeersHold
CHECK_DEADLOCK FALSE
