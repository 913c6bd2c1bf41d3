SPECIFICATION FairSpec
CONSTANTS
  Crawls = {1}
  UrlHashes = {1, 2}
  TicksPerSecond = 2
  Lease = 3
  Delays <- MCDelays
  FetchConcurrency = 2
  DrainedAtOnce = 1
  PickedAmong = 1
  ReadLag = 1
  MaxClock = 5
  MaxInterruptions = 2
INVARIANTS
  TypeOK
  HeadsCoverPending
  LeasesRunTheirLength
PROPERTIES
  OnlyLatestLeaseCounts
  IsVisitQueue
  EmptyQueuesStayEmpty
  DrainsLeaveNothing
  DueVisitsAreLeased
  DrainsEnd
CHECK_DEADLOCK FALSE
