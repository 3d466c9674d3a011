------------------------------ MODULE MCPolling ------------------------------
(* What a page polls for until it ends, for TLC: an analysis job (Jobs), or the
   step that keeps a draft busy (Drafts).  They meet nowhere but in the process
   that dies, so a behaviour of this instance is of one of them: two jobs for
   one address, a pool of one worker and a memory that keeps nobody; or one
   draft under two handlers and two threads, with saves that succeed. *)
EXTENDS Jobs, Drafts, TLC

CONSTANTS
  j1, j2, here,                \* jobs, and the address they are about
  head, red, blue, r1, r2, t1, t2   \* texts, handlers and threads of a draft

MCJobs == {j1, j2}
MCUrls == {here}

MCTexts == {head, red, blue}
MCRequests == {r1, r2}
MCThreads == {t1, t2}

VARIABLE part

mcVars == <<jobVars, vars, part>>

MCInit == JobsInit /\ Init /\ part \in {"jobs", "draft"}

\* Jobs may come to an end; a draft always has a next step.
MCNext ==
  \/ part = "jobs" /\ JobsNext /\ UNCHANGED <<vars, part>>
  \/ part = "jobs" /\ UNCHANGED mcVars
  \/ part = "draft" /\ Next /\ UNCHANGED <<jobVars, part>>

\* The fairness of each, as it states it.
MCFairSpec ==
  /\ MCInit /\ [][MCNext]_mcVars
  /\ JobsFairness
  /\ Fairness
==============================================================================
