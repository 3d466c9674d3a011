SPECIFICATION MCSpec
CONSTANTS
  d1 = d1
  d2 = d2
  r1 = r1
  r2 = r2
  a = a
  b = b
  c1 = c1
  c2 = c2
  p1 = p1
  p2 = p2
  p3 = p3
  None = None
  Missing = Missing
  Runs = {d1, d2}
  SourceOf <- MCSourceOf
  Rows = {r1, r2}
  Order <- MCOrder
  Workers = {1, 2}
  Plans <- MCPlans
  MaxSessions = 2
  MaxCrashes = 1
  Systems = {a, b}
  Oracles = {b}
  Claims = {c1, c2}
  XFact = {c2}
  Answers <- MCAnswers
  References <- MCReferences
  DomainOf <- MCDomainOf
  SiteOf <- MCSiteOf
  Depth = 2
  Pools <- MCPools
  MaxItems = 4
  TextUnits <- MCTextUnits
  Metrics = {"tone"}
  Scores = {1, 2}
CHECK_DEADLOCK FALSE
INVARIANT EvidenceCanBeReplayed
INVARIANT AnOutageIsNotADifference
INVARIANT ScoresMeanWhatTheySay
INVARIANT EveryErrorHasItsStage
INVARIANT LooksExplainTheDifference
PROPERTY DoneStaysDone
PROPERTY EverySessionIsAccountedFor
PROPERTY PoolingMovesNoScore
