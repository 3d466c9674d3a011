------------------------------ MODULE MCShared ------------------------------
(* What the threads of a process share whatever they work on, for TLC: the
   search client and the service container.  The two have no state in common
   and a thread is in one of them at a time, so a behaviour of this instance
   is of one: three threads that search, or two over the deepest getters. *)
EXTENDS Searches, Services

CONSTANTS c1, c2, c3, q1, q2

VARIABLE part

MCEntryPoints == {"analysis_service", "draft_writer", "selection_service"}

ASSUME ContainerAssumption == NeedsAreLayered

mcVars == <<vars, containerVars, part>>

MCInit == Init /\ ContainerInit /\ part \in {"searches", "services"}

MCNext ==
  \/ part = "searches" /\ Next /\ UNCHANGED <<containerVars, part>>
  \/ part = "services" /\ ContainerNext /\ UNCHANGED <<vars, part>>

\* What a thread goes on with, where it is.
MCStep(c) ==
  \/ part = "searches" /\ GoesOn(c) /\ UNCHANGED <<containerVars, part>>
  \/ part = "services" /\ c \in Threads /\ Step(c) /\ UNCHANGED <<vars, part>>

\* In each part this is the fairness that the part states.
MCFairSpec == MCInit /\ [][MCNext]_mcVars /\ \A c \in Callers : WF_mcVars(MCStep(c))
=============================================================================
