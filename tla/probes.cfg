SPECIFICATION ProbesSpec
CONSTANTS
  Sources = {"s1", "s2"}
  Feeds <- MCFeeds
  Sections <- MCSections
  PerSource = 2
  MaxRuns = 2
  MaxFailures = 1
  MaxCrashes = 1
CONSTRAINT MCBound
CHECK_DEADLOCK FALSE
INVARIANT ProbesAreTrue
PROPERTY CountsNeverGoBack
