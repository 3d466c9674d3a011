------------------------------ MODULE Searches ------------------------------
(***************************************************************************)
(* The search client that the claims of all articles share                *)
(* (backend/src/services/search.py), its fallback (duckduckgo.py) and the  *)
(* permits both take (concurrency.py).                                     *)
(*                                                                         *)
(* A query is asked once at a time: the caller that finds neither a fresh  *)
(* answer nor a request in flight leads, callers that find it in flight    *)
(* wait for it.  An answer is only what kind it is: "results", "nothing",  *)
(* "unavailable" (SearchUnavailableError), or "broken": the service sent   *)
(* something that makes the code raise any other exception.                *)
(***************************************************************************)
EXTENDS Naturals, Sequences, FiniteSets

CONSTANTS
  Callers,      \* threads that search
  Queries,      \* (query, language)
  NoQuery,      \* of a caller that does not search
  NoCaller,     \* nobody asks a query
  SearxLimit,   \* permits of SEARXNG
  DuckLimit,    \* permits of DUCKDUCKGO
  HasFallback,  \* whether the client was given one
  MaxEntries,   \* answers remembered (CACHE_MAX_ENTRIES)
  Ttl,          \* ticks an answer is fresh (CACHE_TTL_SECONDS)
  Cooldown,     \* ticks the fallback is paused (COOLDOWN_SECONDS)
  MaxSearches   \* bound: searches begun

ASSUME SearchesAssumption ==
  /\ NoQuery \notin Queries
  /\ NoCaller \notin Callers
  /\ IsFiniteSet(Callers)
  /\ HasFallback \in BOOLEAN
  /\ {SearxLimit, DuckLimit, MaxEntries, Ttl, Cooldown} \subseteq Nat \ {0}
  /\ MaxSearches \in Nat

VARIABLES
  cache,     \* _cache, in the order of the dict: which query, and its age
  inflight,  \* _inflight: the caller that leads
  caller,    \* what each caller does
  paused,    \* ticks until the fallback may be asked (_paused_until)
  searches   \* how many were begun

vars == <<cache, inflight, caller, paused, searches>>

Answers == {"results", "nothing", "unavailable", "broken"}

\* An age of Ttl stands for every age that is too old.
Entry == [query : Queries, age : 0..Ttl]

\* `leader` is the flight waited for.  `outcome` is what the flight holds, then
\* what the search returns or raises; `learned`, what the service answered, is
\* not stored by the program.
Caller == [at      : {"idle", "waiting", "queued", "asking", "fallback",
                      "queuedDuck", "askingDuck", "pausing", "landing", "announcing"},
           query   : Queries \cup {NoQuery},
           leader  : Callers \cup {NoCaller},
           outcome : Answers \cup {"none"},
           learned : Answers \cup {"none"}]

Init ==
  /\ cache = << >>
  /\ inflight = [q \in Queries |-> NoCaller]
  /\ caller = [c \in Callers |-> [at |-> "idle", query |-> NoQuery, leader |-> NoCaller,
                                  outcome |-> "none", learned |-> "none"]]
  /\ paused = 0
  /\ searches = 0

-----------------------------------------------------------------------------
(* A search: the cache, the flight of somebody else, or one's own. *)

Fresh(q) == \E i \in DOMAIN cache : cache[i].query = q /\ cache[i].age < Ttl

\* c's next search, up to where the lock is let go.
Begins(c, q, at, leader) ==
  /\ caller[c].at = "idle"
  /\ caller' = [caller EXCEPT ![c] = [at |-> at, query |-> q, leader |-> leader,
                                      outcome |-> "none", learned |-> "none"]]
  /\ searches < MaxSearches
  /\ searches' = searches + 1

Hit(c, q) ==
  /\ Fresh(q)
  /\ caller[c].at = "idle"
  /\ caller' = [caller EXCEPT ![c].outcome = "results", ![c].learned = "results"]
  /\ searches < MaxSearches
  /\ searches' = searches + 1
  /\ UNCHANGED <<cache, inflight, paused>>

Follow(c, q) ==
  /\ ~Fresh(q)
  /\ inflight[q] # NoCaller
  /\ Begins(c, q, "waiting", inflight[q])
  /\ UNCHANGED <<cache, inflight, paused>>

Lead(c, q) ==
  /\ ~Fresh(q)
  /\ inflight[q] = NoCaller
  /\ Begins(c, q, "queued", NoCaller)
  /\ inflight' = [inflight EXCEPT ![q] = c]
  /\ UNCHANGED <<cache, paused>>

-----------------------------------------------------------------------------
(* The leader asks SearXNG, and when that is unavailable the fallback. *)

At(places) == {c \in Callers : caller[c].at \in places}

Moves(c, from, to) ==
  /\ caller[c].at = from
  /\ caller' = [caller EXCEPT ![c].at = to]
  /\ UNCHANGED <<cache, inflight, paused, searches>>

\* The request is over; what it learned waits to be shared.
Learns(c, from, answer) ==
  /\ caller[c].at = from
  /\ caller' = [caller EXCEPT ![c].at = "landing", ![c].outcome = answer,
                              ![c].learned = answer]

AcquireSearx(c) ==
  /\ Cardinality(At({"asking"})) < SearxLimit
  /\ Moves(c, "queued", "asking")

\* _fetch's answer; the permit is released with it.
Answer(c) ==
  /\ \E answer \in {"results", "nothing", "broken"}
                   \cup IF HasFallback THEN {} ELSE {"unavailable"} :
       Learns(c, "asking", answer)
  /\ UNCHANGED <<cache, inflight, paused, searches>>

FallBack(c) == HasFallback /\ Moves(c, "asking", "fallback")

\* fetch of the fallback looks whether it is paused, and then waits.
CheckPause(c) ==
  \/ /\ paused > 0
     /\ Learns(c, "fallback", "unavailable")
     /\ UNCHANGED <<cache, inflight, paused, searches>>
  \/ /\ paused = 0
     /\ Moves(c, "fallback", "queuedDuck")

AcquireDuck(c) ==
  /\ Cardinality(At({"askingDuck"})) < DuckLimit
  /\ Moves(c, "queuedDuck", "askingDuck")

\* An answer, an error, or a challenge, after which _pause takes its lock.
AnswerDuck(c) ==
  \/ /\ \E answer \in Answers : Learns(c, "askingDuck", answer)
     /\ UNCHANGED <<cache, inflight, paused, searches>>
  \/ Moves(c, "askingDuck", "pausing")

Pause(c) ==
  /\ Learns(c, "pausing", "unavailable")
  /\ paused' = Cooldown
  /\ UNCHANGED <<cache, inflight, searches>>

-----------------------------------------------------------------------------
(* The flight ends. *)

\* An answer stored: the first of the dict leaves a full cache; a query that
\* is there keeps its place.
Remember(q) ==
  LET kept == IF Len(cache) >= MaxEntries THEN Tail(cache) ELSE cache
  IN IF \E i \in DOMAIN kept : kept[i].query = q
     THEN [i \in DOMAIN kept |-> IF kept[i].query = q THEN [query |-> q, age |-> 0]
                                 ELSE kept[i]]
     ELSE Append(kept, [query |-> q, age |-> 0])

\* Fault: the flight stays when there is nothing to remember.
LandResults(c) ==
  LET q == caller[c].query
  IN /\ caller[c].at = "landing"
     /\ caller' = [caller EXCEPT ![c].at = "announcing"]
     /\ inflight' = IF caller[c].outcome = "results"
                    THEN [inflight EXCEPT ![q] = NoCaller] ELSE inflight
     /\ cache' = IF caller[c].outcome = "results" THEN Remember(q) ELSE cache
     /\ UNCHANGED <<paused, searches>>

\* Under the lock: the flight leaves, results are remembered.
Land(c) ==
  LET q == caller[c].query
  IN /\ caller[c].at = "landing"
     /\ caller' = [caller EXCEPT ![c].at = "announcing"]
     /\ inflight' = [inflight EXCEPT ![q] = NoCaller]
     /\ cache' = IF caller[c].outcome = "results" THEN Remember(q) ELSE cache
     /\ UNCHANGED <<paused, searches>>

\* Fault: a failure is not put on the flight.
HeardResults(outcome) == IF outcome = "results" THEN "results" ELSE "nothing"

\* What a waiting caller makes of a flight: only SearchUnavailableError is put
\* on it; after any other exception its results are still [].
Heard(outcome) == IF outcome = "broken" THEN "nothing" ELSE outcome

Returned(k, c, outcome) ==
  [caller[k] EXCEPT !.at = "idle", !.query = NoQuery, !.leader = NoCaller,
                    !.outcome = outcome, !.learned = caller[c].learned]

\* Fault: only a leader that has an answer says that it is done.
AnnounceAnswers(c) ==
  /\ caller[c].at = "announcing"
  /\ caller' = [k \in Callers |->
       IF k = c THEN Returned(k, c, caller[c].outcome)
       ELSE IF /\ caller[k].at = "waiting" /\ caller[k].leader = c
               /\ caller[c].outcome \in {"results", "nothing"}
            THEN Returned(k, c, caller[c].outcome)
       ELSE caller[k]]
  /\ UNCHANGED <<cache, inflight, paused, searches>>

\* done.set: the flight does not change any more, so what the waiting callers
\* find whenever they wake is what is there now.
Announce(c) ==
  /\ caller[c].at = "announcing"
  /\ caller' = [k \in Callers |->
       IF k = c THEN Returned(k, c, caller[c].outcome)
       ELSE IF caller[k].at = "waiting" /\ caller[k].leader = c
            THEN Returned(k, c, Heard(caller[c].outcome))
       ELSE caller[k]]
  /\ UNCHANGED <<cache, inflight, paused, searches>>

-----------------------------------------------------------------------------

\* Time passes; when there is nothing left to age, it changes nothing.
Tick ==
  /\ paused > 0 \/ \E i \in DOMAIN cache : cache[i].age < Ttl
  /\ cache' = [i \in DOMAIN cache |->
                 IF cache[i].age < Ttl THEN [cache[i] EXCEPT !.age = @ + 1] ELSE cache[i]]
  /\ paused' = IF paused > 0 THEN paused - 1 ELSE 0
  /\ UNCHANGED <<inflight, caller, searches>>

\* What a thread in a search goes on with.
GoesOn(c) ==
  \/ AcquireSearx(c)
  \/ Answer(c)
  \/ FallBack(c)
  \/ CheckPause(c)
  \/ AcquireDuck(c)
  \/ AnswerDuck(c)
  \/ Pause(c)
  \/ Land(c)
  \/ Announce(c)

Next ==
  \/ \E c \in Callers :
       (\E q \in Queries : Hit(c, q) \/ Follow(c, q) \/ Lead(c, q)) \/ GoesOn(c)
  \/ Tick

Spec == Init /\ [][Next]_vars

\* Requests have timeouts, so a thread that asks gets an answer or an error;
\* a claim sends finitely many queries, so permits are not taken for ever.
Fairness == \A c \in Callers : WF_vars(GoesOn(c))

FairSpec == Spec /\ Fairness

-----------------------------------------------------------------------------
(* What must hold. *)

\* Types of every variable of the client.
TypeOK ==
  /\ cache \in Seq(Entry)
  /\ inflight \in [Queries -> Callers \cup {NoCaller}]
  /\ caller \in [Callers -> Caller]
  /\ paused \in 0..Cooldown
  /\ searches \in 0..MaxSearches

\* Where a leader is until its flight has landed.
Leading == {"queued", "asking", "fallback", "queuedDuck", "askingDuck", "pausing", "landing"}

\* No query is ever sent twice at once, and a flight is exactly what somebody
\* is about to land: a failure, or an exception nobody expected, never leaves
\* a query stuck or lets two callers ask it.
FlightsAreLed ==
  \A q \in Queries, c \in Callers :
    inflight[q] = c <=> caller[c].at \in Leading /\ caller[c].query = q

\* Nobody asks what the cache could answer: between the look at the cache and
\* the end of the request no answer to the same query is stored, because only
\* the request itself stores one.
AskedOnlyWhenUnknown ==
  \A c \in Callers : caller[c].at \in Leading => ~Fresh(caller[c].query)

\* Whoever waits, waits for a caller that still has to say that it is done,
\* about the query it asked for: no wake-up is lost.
WaitersAreHeard ==
  \A c \in Callers :
    caller[c].at = "waiting" =>
      LET l == caller[c].leader
      IN /\ l \in Callers
         /\ caller[l].at \in Leading \cup {"announcing"}
         /\ caller[l].query = caller[c].query

\* "Nobody could look" is never told as "the web has nothing on this", to the
\* leader or to whoever waited for it - as long as the failure is one that the
\* client recognises.
FailureIsNotNothing ==
  \A c \in Callers :
    caller[c].at = "idle" =>
      /\ caller[c].learned \in {"results", "nothing", "unavailable"}
           => caller[c].outcome = caller[c].learned
      /\ caller[c].learned = "broken" => caller[c].outcome \in {"nothing", "broken"}

\* The cache stays within its limit and has one answer for a query, however
\* requests of different queries land.
CacheIsBounded ==
  /\ Len(cache) <= MaxEntries
  /\ \A i, k \in DOMAIN cache : cache[i].query = cache[k].query => i = k

\* Every search ends, whoever leads it, however few permits there are, and
\* whatever the services answer.
SearchEnds == \A c \in Callers : caller[c].at # "idle" ~> caller[c].at = "idle"

\* The comment of COOLDOWN_SECONDS: after a challenge, every request is
\* refused without being sent until the pause is over.
ChallengeIsRespected ==
  [][\A c \in Callers :
       (caller[c].at # "askingDuck" /\ caller'[c].at = "askingDuck") => paused = 0]_vars
=============================================================================
