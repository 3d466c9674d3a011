SPECIFICATION MCFairSpec
CONSTANTS
  j1 = j1
  j2 = j2
  here = here
  head = head
  red = red
  blue = blue
  r1 = r1
  r2 = r2
  t1 = t1
  t2 = t2
  Jobs <- MCJobs
  Urls <- MCUrls
  NoUrl = NoUrl
  NoJob = NoJob
  Workers = 1
  KeepFinished = 0
  MaxPhases = 1
  MaxDeaths = 1
  WritesMayFail = TRUE
  Texts <- MCTexts
  Headline = head
  NoText = NoText
  NoDraft = NoDraft
  NoReview = NoReview
  NoOne = NoOne
  Requests <- MCRequests
  Threads <- MCThreads
  MaxRounds = 2
  MaxRevisions = 2
  MaxCrashes = 1
  SavesMayFail = FALSE
  EarlyActs = FALSE
INVARIANT OneRunPerUrl
PROPERTY OutcomeStands
PROPERTY PollingEnds
PROPERTY BusyEnds
