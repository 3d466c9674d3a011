SPECIFICATION FairSpec
CONSTANTS
  e1 = e1
  e2 = e2
  u1 = u1
  u2 = u2
  Calls = {e1, e2}
  Urls = {u1, u2}
  MaxItems = 2
  Plans <- MCPlans
  Scripted = {u2}
  ScrapeLimit = 1
  BrowserLimit = 1
  MaxEntries = 1
  Quarter = 1
  Ttl = 2
  FailureTtl = 1
CHECK_DEADLOCK FALSE
INVARIANT OneFetchPerPage
PROPERTY ReadingEnds
