------------------------------ MODULE MCAnalysis ------------------------------
(* What becomes of an analysis, for TLC: its claims are judged (Claims), and
   what was found is stored and read (Analyses, Reader).  The judging ends
   before the storing begins and leaves nothing behind but its report, whose
   contents the layers do not look at, so a behaviour is of one of the two.

   Judged: one claim that the web, the corpus and a second look find pages for,
   beside one with a single page.  Stored: two analyses, of one article or of
   two copies of one story. *)
EXTENDS Reader, Claims, TLC

CONSTANTS a1, a2, u1, u2, s1,                              \* stored
          t1, t2, t3, p1, p2, p3, own, o1, o2, o3          \* judged

MCStoryOf == u1 :> s1 @@ u2 :> s1

Asked(url, edition, force) == [url |-> url, edition |-> edition, force |-> force]

MCRequests ==
  a1 :> {Asked(u1, "positive", TRUE), Asked(u2, "devastating", FALSE)}
  @@ a2 :> {Asked(u1, "positive", FALSE)}

How(answer, stated, floor, cap, lookAgain, deadline, anchors) ==
  [answer |-> answer, stated |-> stated, floor |-> floor, cap |-> cap,
   lookAgain |-> lookAgain, deadline |-> deadline, anchors |-> anchors]

MCOptions == {How("list", FALSE, 0, 2, TRUE, FALSE, 1), How("list", TRUE, 2, 2, TRUE, FALSE, 1),
              How("per_source", FALSE, 1, 2, FALSE, TRUE, 1), How("list", FALSE, 1, 1, FALSE, TRUE, 2)}

MCSame == {<<t1, t3>>, <<t3, t1>>}
MCOutlet == p1 :> o1 @@ p2 :> o2 @@ p3 :> o1 @@ own :> o3
MCHits == <<{p1, p2, p3, own}, {p3}, {}>>

VARIABLE part

MCInit ==
  /\ ReaderInit /\ ClaimsInit
  /\ part \in {"judging", "storing"}
  /\ part = "storing" => opt = CHOOSE o \in MCOptions : TRUE

\* What is stored may rest; a fact-check may not before its report.
MCNext ==
  \/ part = "judging" /\ ClaimsNext /\ UNCHANGED <<readerVars, part>>
  \/ part = "storing" /\ ReaderNext /\ UNCHANGED <<claimVars, part>>
  \/ part = "storing" /\ UNCHANGED <<readerVars, claimVars, part>>

MCSpec == MCInit /\ [][MCNext]_<<readerVars, claimVars, part>>
===============================================================================
