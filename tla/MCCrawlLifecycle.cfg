\* One crawl of three pages that may fetch two, two workers, two mishaps.
SPECIFICATION Spec
CONSTANTS
  c1 = c1
  c2 = c2
  o1 = o1
  m1 = m1
  m2 = m2
  m3 = m3
  u1 = u1
  u2 = u2
  u3 = u3
  w1 = w1
  w2 = w2
  Crawls = {c1}
  Orders = {o1}
  Messages = {m1}
  OrderIn <- OneOrder
  Unreadable = Unreadable
  Urls = {u1, u2, u3}
  Seeds <- OnlyFirst
  Links <- ThreeLinks
  Workers = {w1, w2}
  Nobody = Nobody
  NoOrder = NoOrder
  Results = {"read", "unchanged"}
  MaxPages = 2
  DrainBatch = 1
  MaxDeferrals = 1
  MaxAttempts = 1
  LimitsLapse = FALSE
  MaxMishaps = 2
SYMMETRY WorkerSymmetry
INVARIANTS
  TypeOK
  QueueFollowsCrawl
  HostPagesBounded
  NothingIsLost
PROPERTIES
  KeepsItsPromise
CHECK_DEADLOCK FALSE
