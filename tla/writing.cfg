SPECIFICATION Spec
CONSTANTS
  own = own
  rel = rel
  rel2 = rel2
  ev = ev
  f1 = f1
  f2 = f2
  a = a
  b = b
  g = g
  Terms = {f1, f2, a, b, g}
  Figures = {f1, f2}
  Grave = g
  Urls = {own, rel, rel2, ev}
  PageOf <- MCPageOf
  Outlet <- MCOutlet
  TextOf <- MCTextOf
  Own = own
  Lead = {f1, a, b}
  Checked <- MCChecked
  CorpusHits = {rel}
  WebHits = {rel2}
  RelatedMax = 1
  EvidenceMax = 1
  Room = {2, 9}
  Proposed <- MCProposed
  AngleMax = 1
  AngleDomains = 2
  Editions = {"positive", "devastating"}
  StoryIsGrave = TRUE
  LineIsGrave = FALSE
  Drafted <- MCDrafted
  Redrafted <- MCRedrafted
  Proposals <- MCProposals
  Typed <- MCTyped
  Edits <- MCEdits
  CorrectionModes = {"rewrite", "edits"}
  Tenth = 2
  Scores = {2000}
  Target <- MCTarget
  MaxRounds = 2
  MaxRevisions = 3
  MaxFailures = 1
CHECK_DEADLOCK FALSE
INVARIANT TextIsGrounded
INVARIANT NoInventedBrightSide
INVARIANT DisclosureIsTrue
INVARIANT RewriteEndsWithAProposal
