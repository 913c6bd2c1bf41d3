\* One peer, so one arc; one word partition, two workers; a fixed roster, and one mishap. Two offers not
\* accepted exclude a peer, so one only pauses it.
SPECIFICATION FairSpec
CONSTANTS
  p1 = p1
  p2 = p2
  w1 = w1
  w2 = w2
  Peers = {p1}
  PeerAt <- Alone
  RingSize = 4
  WordPartitions = {0}
  Redundancy = 1
  Workers = {w1, w2}
  MinReachablePeers = 1
  EntriesPerRead = 1
  SendLimit = 1
  Pause = 1
  UnacceptedOffersBeforeExclusion = 2
  ExclusionDuration = 1
  RefreshInterval = 1
  RetryDelay = 1
  MaxClock = 3
  MaxAdmissions = 1
  MovingPeers = {}
  MaxMishaps = 1
PROPERTIES
  AdmissionsAreScheduled
  DueIsRead
CHECK_DEADLOCK FALSE
