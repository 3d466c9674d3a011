------------------------------ MODULE MCDrafts ------------------------------
(* Drafts on small instances. *)
EXTENDS Drafts, TLC

CONSTANTS head, red, blue, r1, r2, t1, t2

MCTexts == {head, red, blue}
MCRequests == {r1, r2}
MCThreads == {t1, t2}

\* The two texts with a body are alike, and so are handlers and threads.
Alike == Permutations({red, blue}) \cup Permutations(MCRequests) \cup Permutations(MCThreads)
=============================================================================
