\* Two peers, of which p2 may come and go, two word partitions, two workers that are alike; one mishap
\* of any kind: a change of the roster, an offer not accepted, a failure of the vault or a restart.
SPECIFICATION Spec
CONSTANTS
  p1 = p1
  p2 = p2
  w1 = w1
  w2 = w2
  Peers = {p1, p2}
  PeerAt <- Across
  RingSize = 4
  WordPartitions = {0, 2}
  Redundancy = 1
  Workers = {w1, w2}
  MinReachablePeers = 1
  EntriesPerRead = 1
  SendLimit = 1
  Pause = 1
  UnacceptedOffersBeforeExclusion = 1
  ExclusionDuration = 1
  RefreshInterval = 1
  RetryDelay = 1
  MaxClock = 2
  MaxAdmissions = 1
  MovingPeers = {p2}
  MaxMishaps = 1
INVARIANTS
  TypeOK
  NoPartInTwoBatches
  DrainedArcsHaveNothing
  NobodySleepsOnWork
SYMMETRY WorkerSymmetry
CHECK_DEADLOCK FALSE
