------------------------------ MODULE Services ------------------------------
(***************************************************************************)
(* The service container (backend/src/container.py): every service is     *)
(* built on first use by its getter, once per process, under one          *)
(* re-entrant lock checked twice.  Requests run in a thread pool, so       *)
(* several threads ask at once; a getter builds what its service needs     *)
(* through other getters while it holds the lock; a construction may fail  *)
(* (the vector store's folder is locked by another process), and the next  *)
(* caller then tries again.                                                *)
(*                                                                         *)
(* A thread's stack holds the getters it is inside, innermost first, with  *)
(* the place each has reached.                                             *)
(***************************************************************************)
EXTENDS Naturals, Sequences, FiniteSets, SequencesExt, TLC

CONSTANTS Threads,      \* threads of the request pool and of background runs
          EntryPoints,  \* services a request asks for directly
          Configured,   \* BOOLEAN: the devastating edition has its own graph
          MaxCalls,     \* bound: calls of one thread
          MaxFailures   \* bound: constructions that fail
----------------------------------------------------------------------------
(* What each getter asks the container for while it builds its service *)

AnalysisNeeds ==
    [vector_repository   |-> << >>,
     enrichment_pipeline |-> << >>,
     datalake_repository |-> << >>,
     fact_checker        |-> <<"vector_repository">>,
     admission_filter    |-> <<"vector_repository">>,
     claim_service       |-> <<"fact_checker", "enrichment_pipeline">>,
     enrichment_service  |-> <<"enrichment_pipeline">>,
     analysis_service    |-> <<"fact_checker", "admission_filter",
                               "enrichment_pipeline", "datalake_repository",
                               "graph_writer", "devastating_writer">>]

IngestionNeeds ==
    [job_queue            |-> << >>,
     text_corrector       |-> << >>,
     ingestion_service    |-> <<"datalake_repository">>,
     trend_service        |-> << >>,
     selection_service    |-> <<"ingestion_service", "ingestion_service",
                                "trend_service">>,
     source_check_service |-> << >>,
     source_probe         |-> << >>]

GraphNeeds ==
    [graph_client       |-> << >>,
     devastating_client |-> << >>,
     graph_writer       |-> <<"graph_client">>,
     devastating_writer |-> <<"devastating_client">>,
     graph_reader       |-> <<"graph_client">>,
     devastating_reader |-> <<"devastating_client">>]

BatchNeeds ==
    [labelling_batch |-> <<"enrichment_pipeline", "ingestion_service">>,
     reader_index    |-> <<"datalake_repository">>,
     draft_store     |-> << >>]

WritingNeeds ==
    [publishers          |-> << >>,
     draft_reviewer      |-> <<"text_corrector">>,
     related_news_finder |-> << >>,
     article_writer      |-> << >>,
     draft_writer        |-> <<"reader_index", "datalake_repository",
                               "related_news_finder", "article_writer">>,
     draft_rewriter      |-> <<"article_writer", "draft_reviewer">>]

Services == DOMAIN AnalysisNeeds \cup DOMAIN IngestionNeeds \cup DOMAIN GraphNeeds
            \cup DOMAIN BatchNeeds \cup DOMAIN WritingNeeds

Needs ==
    [s \in Services |->
        CASE s \in DOMAIN AnalysisNeeds  -> AnalysisNeeds[s]
          [] s \in DOMAIN IngestionNeeds -> IngestionNeeds[s]
          [] s \in DOMAIN GraphNeeds     -> GraphNeeds[s]
          [] s \in DOMAIN BatchNeeds     -> BatchNeeds[s]
          [] s \in DOMAIN WritingNeeds   -> WritingNeeds[s]]

\* An edition with no graph configured has no client, writer or reader: their
\* getters return None and keep nothing.
Absent == IF Configured THEN {}
          ELSE {"devastating_client", "devastating_writer", "devastating_reader"}

ASSUME ServicesAssumption ==
    /\ "none" \notin Threads /\ EntryPoints \subseteq Services
    /\ Configured \in BOOLEAN /\ MaxCalls \in Nat /\ MaxFailures \in Nat

\* How far a service is from those that need nothing: the getters ask each other
\* in no circle, which is why the lock is always given back.
Layer == [s \in Services |->
    IF Needs[s] = << >> THEN 0
    ELSE IF \A n \in 1..Len(Needs[s]) : Needs[Needs[s][n]] = << >> THEN 1
    ELSE 2]

NeedsAreLayered ==
    \A s \in Services :
        /\ Needs[s] \in Seq(Services)
        /\ \A n \in 1..Len(Needs[s]) : Layer[Needs[s][n]] < Layer[s]

VARIABLES built,    \* [Services -> 0..]: the instance the module global holds, 0 for None
          made,     \* [Services -> Nat]: constructions finished
          owner,    \* the thread that holds _lock, or "none"
          depth,    \* how many times it holds it
          stack,    \* [Threads -> Seq of frames]
          got,      \* [Threads -> what its last call returned]
          calls, failures
containerVars == <<built, made, owner, depth, stack, got, calls, failures>>

\* No answer yet, or an exception.
Nothing == [of |-> "nothing", is |-> 0]

\* A frame: the getter, the place it has reached, and how much of `Needs` it has.
Frame(s, at, n) == [service |-> s, at |-> at, have |-> n]

Outer(t) == Tail(stack[t])
Top(t) == Head(stack[t])
Reached(t, place) == stack[t] # << >> /\ Top(t).at = place

GoTo(t, place) == [stack EXCEPT ![t] = <<[Top(t) EXCEPT !.at = place]>> \o Outer(t)]

\* The frame below, if any, has one more of the services it needs.
ReturnedTo(t) ==
    [stack EXCEPT ![t] = IF Outer(t) = << >> THEN << >>
                         ELSE <<[Head(Outer(t)) EXCEPT !.have = @ + 1]>> \o Tail(Outer(t))]
----------------------------------------------------------------------------
(* A getter *)

\* A request asks for a service.
Call(t) ==
    /\ stack[t] = << >> /\ calls[t] < MaxCalls
    /\ \E s \in EntryPoints : stack' = [stack EXCEPT ![t] = <<Frame(s, "first", 0)>>]
    /\ calls' = [calls EXCEPT ![t] = @ + 1]
    /\ got' = [got EXCEPT ![t] = Nothing]
    /\ UNCHANGED <<built, made, owner, depth, failures>>

\* The answer of the innermost getter: to the caller, or to the getter below it.
AnswerCaller(t) ==
    /\ stack' = ReturnedTo(t)
    /\ got' = IF Outer(t) # << >> THEN got
              ELSE [got EXCEPT ![t] = [of |-> Top(t).service,
                                       is |-> built[Top(t).service]]]

\* The check without the lock.
FirstCheck(t) ==
    /\ Reached(t, "first")
    /\ IF built[Top(t).service] # 0
       THEN AnswerCaller(t)
       ELSE stack' = GoTo(t, "lock") /\ UNCHANGED got
    /\ UNCHANGED <<built, made, owner, depth, calls, failures>>

\* Fault: a lock its holder cannot take again.
FreeToAll(t) == owner = "none"

\* RLock: the thread that holds it takes it again.
Free(t) == owner \in {"none", t}

Acquire(t) ==
    /\ Reached(t, "lock") /\ Free(t)
    /\ owner' = t /\ depth' = depth + 1
    /\ stack' = GoTo(t, "second")
    /\ UNCHANGED <<built, made, got, calls, failures>>

\* Fault: the second check is left out.
NoSecondCheck(t) == FALSE

\* Another thread built it while this one waited for the lock.
BuiltMeanwhile(t) == built[Top(t).service] # 0

SecondCheck(t) ==
    /\ Reached(t, "second")
    /\ stack' = GoTo(t, IF BuiltMeanwhile(t) THEN "release" ELSE "build")
    /\ UNCHANGED <<built, made, owner, depth, got, calls, failures>>

\* What the constructor needs is asked for in order, with the lock held.
Ask(t) ==
    /\ Reached(t, "build") /\ Top(t).have < Len(Needs[Top(t).service])
    /\ stack' = [stack EXCEPT ![t] =
                    <<Frame(Needs[Top(t).service][Top(t).have + 1], "first", 0)>> \o @]
    /\ UNCHANGED <<built, made, owner, depth, got, calls, failures>>

Complete(t) == Reached(t, "build") /\ Top(t).have = Len(Needs[Top(t).service])

\* The constructor runs; what it read of the container stays its own.
Build(t) ==
    /\ Complete(t)
    /\ LET s == Top(t).service
       IN  /\ s \notin Absent
           /\ made' = [made EXCEPT ![s] = @ + 1]
           /\ built' = [built EXCEPT ![s] = made[s] + 1]
    /\ stack' = GoTo(t, "release")
    /\ UNCHANGED <<owner, depth, got, calls, failures>>

\* No URI for the edition, so no client: the getters return None.
BuildNothing(t) ==
    /\ Complete(t) /\ Top(t).service \in Absent
    /\ stack' = GoTo(t, "release")
    /\ UNCHANGED <<built, made, owner, depth, got, calls, failures>>

\* Fault: a constructor that raises leaves the locks of the getters around it held.
UnlockInnermost(n) ==
    /\ owner' = IF depth = 1 THEN "none" ELSE owner
    /\ depth' = depth - 1

\* Leaving the `with` block of n getters gives the lock back n times.
Unlock(n) ==
    /\ owner' = IF depth = n THEN "none" ELSE owner
    /\ depth' = depth - n

Release(t) ==
    /\ Reached(t, "release")
    /\ Unlock(1)
    /\ AnswerCaller(t)
    /\ UNCHANGED <<built, made, calls, failures>>

\* The constructor raises, and the exception leaves every getter of the thread;
\* each gives the lock back, and no global was assigned.
Holding(t) == Cardinality({n \in DOMAIN stack[t] : stack[t][n].at \notin {"first", "lock"}})

Fail(t) ==
    /\ Complete(t) /\ failures < MaxFailures
    /\ failures' = failures + 1
    /\ Unlock(Holding(t))
    /\ stack' = [stack EXCEPT ![t] = << >>]
    /\ got' = [got EXCEPT ![t] = Nothing]
    /\ UNCHANGED <<built, made, calls>>

Step(t) == \/ FirstCheck(t) \/ Acquire(t) \/ SecondCheck(t) \/ Ask(t)
           \/ Build(t) \/ BuildNothing(t) \/ Release(t) \/ Fail(t)

ContainerInit ==
    /\ built = [s \in Services |-> 0] /\ made = [s \in Services |-> 0]
    /\ owner = "none" /\ depth = 0
    /\ stack = [t \in Threads |-> << >>] /\ got = [t \in Threads |-> Nothing]
    /\ calls = [t \in Threads |-> 0] /\ failures = 0

ContainerNext == \E t \in Threads : Call(t) \/ Step(t)

ContainerSpec == ContainerInit /\ [][ContainerNext]_containerVars

\* The scheduler runs every thread.  Calls end, so a thread at the lock finds it
\* free for good once the others have theirs: no fair lock is assumed.
ContainerFairness == \A t \in Threads : WF_containerVars(Step(t))

ContainerFairSpec == ContainerSpec /\ ContainerFairness
----------------------------------------------------------------------------
(* What the container must guarantee *)

ContainerTypeOK ==
    /\ built \in [Services -> Nat] /\ made \in [Services -> Nat]
    /\ owner \in Threads \cup {"none"} /\ depth \in Nat
    /\ calls \in [Threads -> 0..MaxCalls] /\ failures \in 0..MaxFailures
    /\ \A t \in Threads : \A n \in DOMAIN stack[t] :
          /\ stack[t][n].service \in Services
          /\ stack[t][n].have \in 0..Len(Needs[stack[t][n].service])

\* Every service is one per process: two threads that ask at once, a construction
\* that fails halfway and getters that call each other never make a second one -
\* a second draft store would hold a lock of its own, a second repository would
\* find the vector store's folder locked.
OnePerProcess ==
    /\ \A s \in Services : made[s] <= 1
    /\ \A t \in Threads : got[t] # Nothing =>
          got[t].is = IF got[t].of \in Absent THEN 0 ELSE made[got[t].of]

\* Nobody waits for ever: every call of a getter ends, with its service or with an
\* error, although getters take the lock inside each other.
EveryCallReturns == \A t \in Threads : (stack[t] # << >>) ~> (stack[t] = << >>)
=============================================================================
