\* One page of the host, limits that lapse while the crawl goes on.
SPECIFICATION Spec
CONSTANTS
  c1 = c1
  c2 = c2
  o1 = o1
  m1 = m1
  m2 = m2
  m3 = m3
  u1 = u1
  u2 = u2
  u3 = u3
  w1 = w1
  w2 = w2
  Crawls = {c1}
  Orders = {o1}
  Messages = {m1}
  OrderIn <- OneOrder
  Unreadable = Unreadable
  Urls = {u1, u2}
  Seeds <- OnlyFirst
  Links <- TwoLinks
  Workers = {w1}
  Nobody = Nobody
  NoOrder = NoOrder
  Results = {"read"}
  MaxPages = 1
  DrainBatch = 1
  MaxDeferrals = 1
  MaxAttempts = 1
  LimitsLapse = TRUE
  MaxMishaps = 1
INVARIANTS
  HostPagesBounded
CHECK_DEADLOCK FALSE
