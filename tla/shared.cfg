SPECIFICATION MCFairSpec
CONSTANTS
  c1 = c1
  c2 = c2
  c3 = c3
  q1 = q1
  q2 = q2
  Callers = {c1, c2, c3}
  Queries = {q1, q2}
  NoQuery = NoQuery
  NoCaller = NoCaller
  SearxLimit = 1
  DuckLimit = 1
  HasFallback = TRUE
  MaxEntries = 1
  Ttl = 2
  Cooldown = 1
  MaxSearches = 4
  Threads = {c1, c2}
  EntryPoints <- MCEntryPoints
  Configured = FALSE
  MaxCalls = 2
  MaxFailures = 1
CHECK_DEADLOCK FALSE
INVARIANT FailureIsNotNothing
INVARIANT OnePerProcess
PROPERTY SearchEnds
PROPERTY EveryCallReturns
