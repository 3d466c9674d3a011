SPECIFICATION MCSpec
CONSTANTS
  p1 = p1
  p2 = p2
  u1 = u1
  u2 = u2
  c1 = c1
  c2 = c2
  l1 = l1
  f1 = f1
  f2 = f2
  Pages <- MCPages
  Sources <- MCSources
  LinksOf <- MCLinksOf
  HashRank <- MCHashRank
  MaxFacts = 3
  BatchSize = 1
  MaxBatches = 2
  FormPages <- MCFormPages
  MaxEdits = 1
  MaxCrashes = 1
  Articles <- MCArticles
  Claims <- MCClaims
  EntityOf <- MCEntityOf
  Links = {l1}
  Facts <- MCFacts
  Verdicts = {"TRUE", "FALSE"}
  MaxWrites = 3
CONSTRAINT MCBound
SYMMETRY MCSymmetry
CHECK_DEADLOCK FALSE
INVARIANT QueueRemembers
INVARIANT GroupsStayWhole
INVARIANT EachHasItsWord
PROPERTY FrozenSidesStand
