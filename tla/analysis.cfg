SPECIFICATION MCSpec
CONSTANTS
  a1 = a1
  a2 = a2
  u1 = u1
  u2 = u2
  s1 = s1
  t1 = t1
  t2 = t2
  t3 = t3
  p1 = p1
  p2 = p2
  p3 = p3
  own = own
  o1 = o1
  o2 = o2
  o3 = o3
  NoRun = NoRun
  Runs = {a1, a2}
  Urls = {u1, u2}
  StoryOf <- MCStoryOf
  Blocking = {s1}
  Requests <- MCRequests
  MaxTroubles = 1
  Editions = {"positive", "devastating"}
  HasGraph = {"positive"}
  Statements = {t1, t2, t3}
  Same <- MCSame
  Pages = {p1, p2, p3, own}
  Outlet <- MCOutlet
  Own = own
  Hits <- MCHits
  Corpus = {p1, own}
  Workers = 2
  LlmLimit = 1
  MaxWaits = 1
  Options <- MCOptions
  MaxFailures = 1
INVARIANT LakeIsTraceable
INVARIANT CopiesAreCaught
INVARIANT FeedFollowsLake
INVARIANT VerdictsAreGrounded
INVARIANT CorroborationIsIndependent
