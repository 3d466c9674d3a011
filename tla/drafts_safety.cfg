SPECIFICATION Spec
CONSTANTS
  head = head
  red = red
  blue = blue
  r1 = r1
  r2 = r2
  t1 = t1
  t2 = t2
  Texts = {head, red, blue}
  Headline = head
  NoText = NoText
  NoDraft = NoDraft
  NoReview = NoReview
  NoOne = NoOne
  Requests = {r1, r2}
  Threads = {t1, t2}
  MaxRounds = 2
  MaxRevisions = 3
  MaxCrashes = 1
  SavesMayFail = TRUE
  EarlyActs = FALSE
SYMMETRY Alike
CHECK_DEADLOCK FALSE
INVARIANT ReviewsDescribeTheirText
INVARIANT ApprovalStands
PROPERTY OnlyApprovedTextIsPublic
