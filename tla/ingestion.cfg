SPECIFICATION Spec
CONSTANTS
  a = a
  b = b
  c = c
  d = d
  e = e
  feed = feed
  outlet = outlet
  rising = rising
  trend = trend
  Topics <- MCTopics
  TopicsOf <- MCTopicsOf
  Links <- MCLinks
  Fact <- MCFact
  Sources <- MCSources
  Source <- MCSource
  Signals <- MCSignals
  Signal <- MCSignal
  Threads = {t1, t2}
  Requests <- MCRequests
  MaxSections = 2
  ScreenDepth = 2
  Memory = 1
  Listed = 1
  MaxListed = 2
  MaxSelected = 2
  MaxRounds = 2
  MaxRequests = 3
  MaxFaults = 1
SYMMETRY MCSymmetry
CHECK_DEADLOCK FALSE
INVARIANT NothingButTheShown
INVARIANT EveryArticleHasItsPlace
INVARIANT SelectionHasTheFlag
PROPERTY FirstSightingStands
