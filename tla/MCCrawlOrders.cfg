\* One order in two messages, two crawl IDs, one worker, pages that redirect or fail, limits that lapse.
SPECIFICATION Spec
CONSTANTS
  c1 = c1
  c2 = c2
  o1 = o1
  m1 = m1
  m2 = m2
  m3 = m3
  u1 = u1
  u2 = u2
  u3 = u3
  w1 = w1
  w2 = w2
  Crawls = {c1, c2}
  Orders = {o1}
  Messages = {m1, m2, m3}
  OrderIn <- SentTwice
  Unreadable = Unreadable
  Urls = {u1}
  Seeds <- OnlyFirst
  Links <- SelfLink
  Workers = {w1}
  Nobody = Nobody
  NoOrder = NoOrder
  Results = {"redirected", "failed"}
  MaxPages = 1
  DrainBatch = 1
  MaxDeferrals = 1
  MaxAttempts = 1
  LimitsLapse = TRUE
  MaxMishaps = 2
INVARIANTS
  OneKeptCrawlPerOrder
  AcknowledgedOrdersStarted
CHECK_DEADLOCK FALSE
