---------------------------- MODULE SharedProofs ----------------------------
(***************************************************************************)
(* What the threads of a process share stays whole: the search client, for  *)
(* any number of callers, queries and permits, any size of the cache and    *)
(* any times; and the container, which builds a service once, for any       *)
(* number of threads, calls and constructions that fail.                    *)
(***************************************************************************)
EXTENDS Searches, Services, FiniteSetTheorems, TLAPS

-----------------------------------------------------------------------------
(* Why the properties hold: what is left over between a flight's steps. *)

\* Whoever searches has a query.
HasQuery == \A c \in Callers : caller[c].at # "idle" => caller[c].query \in Queries

\* What lands is what was learned.
LandsWhatWasLearned ==
  \A c \in Callers : caller[c].at \in {"landing", "announcing"} =>
    caller[c].outcome = caller[c].learned /\ caller[c].learned \in Answers

FlightInv ==
  /\ TypeOK
  /\ HasQuery
  /\ LandsWhatWasLearned
  /\ FlightsAreLed
  /\ AskedOnlyWhenUnknown
  /\ WaitersAreHeard
  /\ FailureIsNotNothing
  /\ CacheIsBounded

\* A client nobody used yet.
LEMMA FlightInit == Init => FlightInv
  <1> SUFFICES ASSUME Init PROVE FlightInv
    OBVIOUS
  <1>1. TypeOK
    <2>1. 0 \in 0..Cooldown /\ 0 \in 0..MaxSearches BY SearchesAssumption
    <2> QED BY <2>1 DEF Init, TypeOK, Caller
  <1>2. \A c \in Callers : /\ caller[c].at = "idle"
                           /\ caller[c].outcome = "none" /\ caller[c].learned = "none"
    BY DEF Init
  <1>3. HasQuery /\ LandsWhatWasLearned BY <1>2 DEF HasQuery, LandsWhatWasLearned
  <1>4. FlightsAreLed BY <1>2, SearchesAssumption DEF FlightsAreLed, Init, Leading
  <1>5. AskedOnlyWhenUnknown /\ WaitersAreHeard
    BY <1>2 DEF AskedOnlyWhenUnknown, WaitersAreHeard, Leading
  <1>6. FailureIsNotNothing BY <1>2 DEF FailureIsNotNothing
  <1>7. CacheIsBounded BY SearchesAssumption DEF Init, CacheIsBounded
  <1> QED BY <1>1, <1>3, <1>4, <1>5, <1>6, <1>7 DEF FlightInv

-----------------------------------------------------------------------------
(* The steps. *)

\* What changes when one caller does, and nobody else.
OnlyOne(c, r) ==
  /\ r \in Caller
  /\ caller' \in [Callers -> Caller]
  /\ caller'[c] = r
  /\ \A k \in Callers : k # c => caller'[k] = caller[k]

\* A leader's step on its way keeps the flight.
LEMMA LeaderGoesOn ==
  ASSUME FlightInv, TypeOK', NEW c \in Callers, NEW r, OnlyOne(c, r),
         caller[c].at \in Leading, r.at \in Leading, r.query = caller[c].query,
         r.at = "landing" => r.outcome = r.learned /\ r.learned \in Answers,
         UNCHANGED <<cache, inflight>>
  PROVE  FlightInv'
  <1>1. HasQuery' BY DEF FlightInv, HasQuery, OnlyOne, Leading
  <1>2. LandsWhatWasLearned'
    BY DEF FlightInv, LandsWhatWasLearned, OnlyOne, Leading
  <1>3. FlightsAreLed' BY DEF FlightInv, FlightsAreLed, OnlyOne
  <1>4. AskedOnlyWhenUnknown'
    BY DEF FlightInv, AskedOnlyWhenUnknown, OnlyOne, Fresh
  <1>5. WaitersAreHeard'
    BY DEF FlightInv, WaitersAreHeard, OnlyOne, Leading
  <1>6. FailureIsNotNothing'
    BY DEF FlightInv, FailureIsNotNothing, OnlyOne, Leading
  <1>7. CacheIsBounded' BY DEF FlightInv, CacheIsBounded
  <1> QED BY <1>1, <1>2, <1>3, <1>4, <1>5, <1>6, <1>7 DEF FlightInv

\* A search begins: from the cache, behind a leader, or as the leader.
LEMMA BeginKeeps ==
  ASSUME FlightInv, NEW c \in Callers, NEW q \in Queries,
         Hit(c, q) \/ Follow(c, q) \/ Lead(c, q)
  PROVE  FlightInv'
  <1>0. TypeOK BY DEF FlightInv
  <1>1. /\ UNCHANGED <<cache, paused>> /\ caller[c].at = "idle" /\ caller[c] \in Caller
        /\ searches' \in 0..MaxSearches
    BY <1>0, SearchesAssumption DEF Hit, Follow, Lead, Begins, TypeOK
  <1>2. \A k \in Callers : caller[k].at = "waiting" => caller[k].leader # c
    BY <1>1 DEF FlightInv, WaitersAreHeard, Leading
  <1>3. CASE Hit(c, q)
    <2> DEFINE r == [caller[c] EXCEPT !.outcome = "results", !.learned = "results"]
    <2>1. r \in Caller /\ r.at = "idle" /\ r.outcome = "results" /\ r.learned = "results"
      BY <1>1 DEF Caller, Answers
    <2>2. OnlyOne(c, r) /\ UNCHANGED inflight
      BY <1>0, <1>3, <2>1 DEF Hit, TypeOK, OnlyOne
    <2> HIDE DEF r
    <2>3. TypeOK' BY <1>0, <1>1, <2>2 DEF TypeOK, OnlyOne
    <2>4. HasQuery' /\ LandsWhatWasLearned'
      BY <2>1, <2>2 DEF FlightInv, HasQuery, LandsWhatWasLearned, OnlyOne
    <2>5. FlightsAreLed'
      BY <1>1, <2>1, <2>2 DEF FlightInv, FlightsAreLed, OnlyOne, Leading
    <2>6. AskedOnlyWhenUnknown'
      BY <1>1, <2>1, <2>2 DEF FlightInv, AskedOnlyWhenUnknown, OnlyOne, Leading, Fresh
    <2>7. WaitersAreHeard'
      BY <1>2, <2>1, <2>2 DEF FlightInv, WaitersAreHeard, OnlyOne
    <2>8. FailureIsNotNothing'
      BY <2>1, <2>2 DEF FlightInv, FailureIsNotNothing, OnlyOne
    <2>9. CacheIsBounded' BY <1>1 DEF FlightInv, CacheIsBounded
    <2> QED BY <2>3, <2>4, <2>5, <2>6, <2>7, <2>8, <2>9 DEF FlightInv
  <1>4. CASE Follow(c, q)
    <2> DEFINE l == inflight[q]
               r == [at |-> "waiting", query |-> q, leader |-> l,
                     outcome |-> "none", learned |-> "none"]
    <2>1. l \in Callers /\ caller[l].at \in Leading /\ caller[l].query = q
      BY <1>0, <1>4 DEF Follow, FlightInv, FlightsAreLed, TypeOK
    <2>2. /\ r \in Caller /\ r.at = "waiting" /\ r.leader = l /\ r.query = q
      BY <2>1 DEF Caller
    <2>3. OnlyOne(c, r) /\ UNCHANGED inflight
      BY <1>0, <1>4, <2>2 DEF Follow, Begins, TypeOK, OnlyOne
    <2>4. l # c BY <1>1, <2>1 DEF Leading
    <2> HIDE DEF r, l
    <2>5. TypeOK' BY <1>0, <1>1, <2>3 DEF TypeOK, OnlyOne
    <2>6. HasQuery' /\ LandsWhatWasLearned'
      BY <2>2, <2>3 DEF FlightInv, HasQuery, LandsWhatWasLearned, OnlyOne
    <2>7. FlightsAreLed'
      BY <1>1, <2>2, <2>3 DEF FlightInv, FlightsAreLed, OnlyOne, Leading
    <2>8. AskedOnlyWhenUnknown'
      BY <1>1, <2>2, <2>3 DEF FlightInv, AskedOnlyWhenUnknown, OnlyOne, Leading, Fresh
    <2>9. WaitersAreHeard'
      BY <1>2, <2>1, <2>2, <2>3, <2>4 DEF FlightInv, WaitersAreHeard, OnlyOne
    <2>10. FailureIsNotNothing'
      BY <2>2, <2>3 DEF FlightInv, FailureIsNotNothing, OnlyOne
    <2>11. CacheIsBounded' BY <1>1 DEF FlightInv, CacheIsBounded
    <2> QED BY <2>5, <2>6, <2>7, <2>8, <2>9, <2>10, <2>11 DEF FlightInv
  <1>5. CASE Lead(c, q)
    <2> DEFINE r == [at |-> "queued", query |-> q, leader |-> NoCaller,
                     outcome |-> "none", learned |-> "none"]
    <2>1. /\ r \in Caller /\ r.at = "queued" /\ r.query = q
      BY DEF Caller
    <2>2. OnlyOne(c, r)
      BY <1>0, <1>5, <2>1 DEF Lead, Begins, TypeOK, OnlyOne
    <2>3. /\ inflight' = [inflight EXCEPT ![q] = c] /\ inflight[q] = NoCaller /\ ~Fresh(q)
          /\ inflight' \in [Queries -> Callers \cup {NoCaller}]
          /\ inflight'[q] = c /\ \A p \in Queries : p # q => inflight'[p] = inflight[p]
      BY <1>0, <1>5 DEF Lead, TypeOK
    <2> HIDE DEF r
    <2>4. TypeOK' BY <1>0, <1>1, <2>2, <2>3 DEF TypeOK, OnlyOne
    <2>5. HasQuery' /\ LandsWhatWasLearned'
      BY <2>1, <2>2 DEF FlightInv, HasQuery, LandsWhatWasLearned, OnlyOne
    <2>6. FlightsAreLed'
      <3> SUFFICES ASSUME NEW p \in Queries, NEW k \in Callers
                   PROVE inflight'[p] = k
                         <=> caller'[k].at \in Leading /\ caller'[k].query = p
        BY DEF FlightsAreLed
      <3>1. inflight[p] = k <=> caller[k].at \in Leading /\ caller[k].query = p
        BY DEF FlightInv, FlightsAreLed
      <3>2. CASE k = c BY <1>1, <2>1, <2>2, <2>3, <3>1, <3>2 DEF OnlyOne, Leading
      <3>3. CASE k # c BY <2>2, <2>3, <3>1, <3>3, SearchesAssumption DEF OnlyOne
      <3> QED BY <3>2, <3>3
    <2>7. AskedOnlyWhenUnknown'
      BY <1>1, <2>1, <2>2, <2>3 DEF FlightInv, AskedOnlyWhenUnknown, OnlyOne, Fresh
    <2>8. WaitersAreHeard'
      BY <1>2, <2>1, <2>2 DEF FlightInv, WaitersAreHeard, OnlyOne
    <2>9. FailureIsNotNothing'
      BY <2>1, <2>2 DEF FlightInv, FailureIsNotNothing, OnlyOne
    <2>10. CacheIsBounded' BY <1>1 DEF FlightInv, CacheIsBounded
    <2> QED BY <2>4, <2>5, <2>6, <2>7, <2>8, <2>9, <2>10 DEF FlightInv
  <1> QED BY <1>3, <1>4, <1>5

\* A request's answer is a step of the leader on its way.
LEMMA LearnsKeeps ==
  ASSUME FlightInv, NEW c \in Callers, NEW from \in Leading, NEW answer \in Answers,
         Learns(c, from, answer), UNCHANGED <<cache, inflight, searches>>,
         paused' \in 0..Cooldown
  PROVE  FlightInv'
  <1>0. TypeOK BY DEF FlightInv
  <1> DEFINE r == [caller[c] EXCEPT !.at = "landing", !.outcome = answer, !.learned = answer]
  <1>1. /\ r \in Caller /\ r.at = "landing" /\ r.outcome = r.learned /\ r.learned \in Answers
        /\ r.query = caller[c].query
    BY <1>0 DEF TypeOK, Caller
  <1>2. OnlyOne(c, r) /\ caller[c].at \in Leading
    BY <1>0, <1>1 DEF Learns, TypeOK, OnlyOne
  <1> HIDE DEF r
  <1>3. TypeOK' BY <1>0, <1>2 DEF TypeOK, OnlyOne
  <1> QED BY <1>1, <1>2, <1>3, LeaderGoesOn DEF Leading

\* So is a move from one place to the next.
LEMMA MovesKeeps ==
  ASSUME FlightInv, NEW c \in Callers, NEW from \in Leading, NEW to \in Leading \ {"landing"},
         Moves(c, from, to)
  PROVE  FlightInv'
  <1>0. TypeOK BY DEF FlightInv
  <1> DEFINE r == [caller[c] EXCEPT !.at = to]
  <1>1. r \in Caller /\ r.at = to /\ r.query = caller[c].query
    BY <1>0 DEF TypeOK, Caller, Leading
  <1>2. OnlyOne(c, r) /\ caller[c].at \in Leading
    BY <1>0, <1>1 DEF Moves, TypeOK, OnlyOne
  <1>3. UNCHANGED <<cache, inflight, paused, searches>>
    BY DEF Moves
  <1> HIDE DEF r
  <1>4. TypeOK' BY <1>0, <1>2, <1>3 DEF TypeOK, OnlyOne
  <1> QED BY <1>1, <1>2, <1>3, <1>4, LeaderGoesOn

-----------------------------------------------------------------------------
(* The cache. *)

Bounded(entries) ==
  /\ Len(entries) <= MaxEntries
  /\ \A i, k \in DOMAIN entries : entries[i].query = entries[k].query => i = k

\* What is remembered is one more answer, of q; the others were there.
LEMMA RememberHolds ==
  ASSUME cache \in Seq(Entry), Bounded(cache), NEW q \in Queries
  PROVE  /\ Remember(q) \in Seq(Entry)
         /\ Bounded(Remember(q))
         /\ \A i \in DOMAIN Remember(q) :
              Remember(q)[i].query = q \/ \E k \in DOMAIN cache : Remember(q)[i] = cache[k]
  <1> DEFINE kept == IF Len(cache) >= MaxEntries THEN Tail(cache) ELSE cache
             new  == [query |-> q, age |-> 0]
  <1>1. MaxEntries \in Nat /\ MaxEntries > 0 /\ Ttl \in Nat
    BY SearchesAssumption
  <1>2. new \in Entry /\ new.query = q BY <1>1 DEF Entry
  <1>3. /\ kept \in Seq(Entry) /\ Len(kept) < MaxEntries
        /\ \A i, k \in DOMAIN kept : kept[i].query = kept[k].query => i = k
        /\ \A i \in DOMAIN kept : \E k \in DOMAIN cache : kept[i] = cache[k]
    <2>1. CASE Len(cache) >= MaxEntries
      <3>1. /\ kept \in Seq(Entry) /\ Len(kept) = Len(cache) - 1
            /\ \A i \in DOMAIN kept : i + 1 \in DOMAIN cache /\ kept[i] = cache[i + 1]
        BY <1>1, <2>1
      <3> QED BY <1>1, <2>1, <3>1 DEF Bounded
    <2>2. CASE ~(Len(cache) >= MaxEntries)
      <3>1. kept = cache BY <2>2
      <3> QED BY <1>1, <2>2, <3>1 DEF Bounded
    <2> QED BY <2>1, <2>2
  <1>4. Remember(q) = IF \E i \in DOMAIN kept : kept[i].query = q
                      THEN [i \in DOMAIN kept |-> IF kept[i].query = q THEN new ELSE kept[i]]
                      ELSE Append(kept, new)
    BY DEF Remember
  <1> HIDE DEF kept, new
  <1>5. CASE \E i \in DOMAIN kept : kept[i].query = q
    <2> DEFINE r == [i \in DOMAIN kept |-> IF kept[i].query = q THEN new ELSE kept[i]]
    <2>1. Remember(q) = r BY <1>4, <1>5
    <2>2. DOMAIN kept = 1..Len(kept) /\ Len(kept) \in Nat BY <1>3
    <2>3. \A i \in DOMAIN kept : r[i] \in Entry BY <1>2, <1>3
    <2>4. DOMAIN r = DOMAIN kept OBVIOUS
    <2>5. r \in [1..Len(kept) -> Entry] BY <2>2, <2>3
    <2>6. r \in Seq(Entry) /\ Len(r) = Len(kept) BY <2>2, <2>5
    <2>7. \A i \in DOMAIN kept : r[i].query = kept[i].query BY <1>2
    <2>8. \A i, k \in DOMAIN r : r[i].query = r[k].query => i = k
      BY <1>3, <2>4, <2>7
    <2>9. \A i \in DOMAIN r : r[i].query = q \/ \E k \in DOMAIN cache : r[i] = cache[k]
      BY <1>2, <1>3, <2>4
    <2> HIDE DEF r
    <2> QED BY <1>1, <1>3, <2>1, <2>2, <2>6, <2>8, <2>9 DEF Bounded
  <1>6. CASE ~ \E i \in DOMAIN kept : kept[i].query = q
    <2> DEFINE r == Append(kept, new)
    <2>1. /\ r \in Seq(Entry) /\ Len(r) = Len(kept) + 1 /\ DOMAIN r = 1..(Len(kept) + 1)
          /\ r[Len(kept) + 1] = new
          /\ \A i \in 1..Len(kept) : r[i] = kept[i] /\ i \in DOMAIN kept
      BY <1>2, <1>3
    <2>2. Remember(q) = r BY <1>4, <1>6
    <2> HIDE DEF r
    <2>3. \A i \in DOMAIN r : i \in 1..Len(kept) \/ i = Len(kept) + 1
      BY <1>3, <2>1
    <2>4. \A i, k \in DOMAIN r : r[i].query = r[k].query => i = k
      BY <1>2, <1>3, <1>6, <2>1, <2>3
    <2>5. \A i \in DOMAIN r : r[i].query = q \/ \E k \in DOMAIN cache : r[i] = cache[k]
      BY <1>2, <1>3, <2>1, <2>3
    <2> QED BY <1>1, <1>3, <2>1, <2>2, <2>4, <2>5 DEF Bounded
  <1> QED BY <1>5, <1>6

\* The flight lands: nobody else leads the query that is remembered.
LEMMA LandKeeps ==
  ASSUME FlightInv, NEW c \in Callers, Land(c) PROVE FlightInv'
  <1>0. TypeOK BY DEF FlightInv
  <1> DEFINE q == caller[c].query
             r == [caller[c] EXCEPT !.at = "announcing"]
  <1>1. caller[c].at = "landing" /\ q \in Queries /\ inflight[q] = c
    BY DEF Land, FlightInv, HasQuery, FlightsAreLed, Leading
  <1>2. /\ r \in Caller /\ r.at = "announcing" /\ r.query = q
        /\ r.outcome = caller[c].outcome /\ r.learned = caller[c].learned
    BY <1>0 DEF TypeOK, Caller
  <1>3. OnlyOne(c, r) BY <1>0, <1>2 DEF Land, TypeOK, OnlyOne
  <1>4. /\ inflight' \in [Queries -> Callers \cup {NoCaller}]
        /\ inflight'[q] = NoCaller
        /\ \A p \in Queries : p # q => inflight'[p] = inflight[p]
    BY <1>0, <1>1 DEF Land, TypeOK
  <1>5. cache' = Remember(q) \/ cache' = cache
    BY DEF Land
  <1>6. /\ cache' \in Seq(Entry) /\ Bounded(cache')
        /\ \A i \in DOMAIN cache' :
             cache'[i].query = q \/ \E k \in DOMAIN cache : cache'[i] = cache[k]
    <2>1. cache \in Seq(Entry) /\ Bounded(cache)
      BY <1>0 DEF FlightInv, CacheIsBounded, Bounded, TypeOK
    <2> HIDE DEF q
    <2> QED BY <1>1, <1>5, <2>1, RememberHolds
  <1>7. UNCHANGED <<paused, searches>> BY DEF Land
  <1> HIDE DEF q, r
  <1>8. TypeOK' BY <1>0, <1>3, <1>4, <1>6, <1>7 DEF TypeOK, OnlyOne
  <1>9. HasQuery' BY <1>1, <1>2, <1>3 DEF FlightInv, HasQuery, OnlyOne
  <1>10. LandsWhatWasLearned'
    BY <1>1, <1>2, <1>3 DEF FlightInv, LandsWhatWasLearned, OnlyOne
  <1>11. \A k \in Callers : k # c /\ caller[k].at \in Leading => caller[k].query # q
    BY <1>1 DEF FlightInv, FlightsAreLed
  <1>12. FlightsAreLed'
    <2> SUFFICES ASSUME NEW p \in Queries, NEW k \in Callers
                 PROVE inflight'[p] = k <=> caller'[k].at \in Leading /\ caller'[k].query = p
      BY DEF FlightsAreLed
    <2>1. inflight[p] = k <=> caller[k].at \in Leading /\ caller[k].query = p
      BY DEF FlightInv, FlightsAreLed
    <2>2. CASE k = c
      <3>1. caller[c].at \in Leading /\ caller[c].query = q BY <1>1 DEF Leading, q
      <3> QED BY <1>2, <1>3, <1>4, <2>1, <2>2, <3>1, SearchesAssumption DEF OnlyOne, Leading
    <2>3. CASE k # c
      BY <1>3, <1>4, <1>11, <2>1, <2>3, SearchesAssumption DEF OnlyOne
    <2> QED BY <2>2, <2>3
  <1>13. AskedOnlyWhenUnknown'
    <2> SUFFICES ASSUME NEW k \in Callers, caller'[k].at \in Leading,
                        NEW i \in DOMAIN cache', cache'[i].query = caller'[k].query,
                        cache'[i].age < Ttl
                 PROVE FALSE
      BY DEF AskedOnlyWhenUnknown, Fresh
    <2>1. k # c BY <1>2, <1>3 DEF OnlyOne, Leading
    <2>2. caller'[k] = caller[k] BY <1>3, <2>1 DEF OnlyOne
    <2>3. caller[k].query # q BY <1>11, <2>1, <2>2
    <2>4. PICK m \in DOMAIN cache : cache'[i] = cache[m] BY <1>6, <2>2, <2>3
    <2> QED BY <2>2, <2>4 DEF FlightInv, AskedOnlyWhenUnknown, Fresh
  <1>14. WaitersAreHeard'
    BY <1>1, <1>2, <1>3 DEF FlightInv, WaitersAreHeard, OnlyOne, Leading, q
  <1>15. FailureIsNotNothing'
    BY <1>2, <1>3 DEF FlightInv, FailureIsNotNothing, OnlyOne
  <1>16. CacheIsBounded' BY <1>6 DEF CacheIsBounded, Bounded
  <1> QED BY <1>8, <1>9, <1>10, <1>12, <1>13, <1>14, <1>15, <1>16 DEF FlightInv

\* The flight is announced: its callers return, nobody else's leader does.
LEMMA AnnounceKeeps ==
  ASSUME FlightInv, NEW c \in Callers, Announce(c) PROVE FlightInv'
  <1>0. TypeOK BY DEF FlightInv
  <1> DEFINE mine(k) == k = c \/ (caller[k].at = "waiting" /\ caller[k].leader = c)
  <1>1. /\ caller[c].at = "announcing" /\ UNCHANGED <<cache, inflight, paused, searches>>
        /\ caller[c].outcome = caller[c].learned /\ caller[c].learned \in Answers
    BY DEF Announce, FlightInv, LandsWhatWasLearned
  <1>2. ASSUME NEW k \in Callers, mine(k)
        PROVE  /\ caller'[k] \in Caller
               /\ caller'[k].at = "idle" /\ caller'[k].learned = caller[c].learned
               /\ \/ caller'[k].outcome = caller[c].outcome
                  \/ caller'[k].outcome = Heard(caller[c].outcome)
    <2>1. \A o \in Answers : /\ Returned(k, c, o) \in Caller
                             /\ Returned(k, c, o).at = "idle"
                             /\ Returned(k, c, o).learned = caller[c].learned
                             /\ Returned(k, c, o).outcome = o
      BY <1>0, <1>1 DEF Returned, TypeOK, Caller, Answers
    <2>2. caller'[k] = Returned(k, c, caller[c].outcome)
            \/ caller'[k] = Returned(k, c, Heard(caller[c].outcome))
      BY <1>2 DEF Announce
    <2>3. Heard(caller[c].outcome) \in Answers BY <1>1 DEF Heard, Answers
    <2> QED BY <1>1, <2>1, <2>2, <2>3
  <1>3. ASSUME NEW k \in Callers, ~mine(k) PROVE caller'[k] = caller[k]
    BY <1>3 DEF Announce
  <1>4. \A k \in Callers : mine(k) => caller[k].at \notin Leading
    BY <1>1 DEF Leading
  <1> HIDE DEF mine
  <1>5. TypeOK'
    <2>1. caller' = [k \in Callers |-> caller'[k]] BY DEF Announce
    <2>2. \A k \in Callers : caller'[k] \in Caller BY <1>0, <1>2, <1>3 DEF TypeOK
    <2>3. caller' \in [Callers -> Caller] BY <2>1, <2>2
    <2> QED BY <1>0, <1>1, <2>3 DEF TypeOK
  <1>6. HasQuery' BY <1>2, <1>3 DEF FlightInv, HasQuery
  <1>7. LandsWhatWasLearned' BY <1>2, <1>3 DEF FlightInv, LandsWhatWasLearned
  <1>8. FlightsAreLed'
    BY <1>1, <1>2, <1>3, <1>4 DEF FlightInv, FlightsAreLed, Leading
  <1>9. AskedOnlyWhenUnknown'
    BY <1>1, <1>2, <1>3 DEF FlightInv, AskedOnlyWhenUnknown, Fresh, Leading
  <1>10. WaitersAreHeard'
    <2> SUFFICES ASSUME NEW k \in Callers, caller'[k].at = "waiting"
                 PROVE LET l == caller'[k].leader
                       IN /\ l \in Callers
                          /\ caller'[l].at \in Leading \cup {"announcing"}
                          /\ caller'[l].query = caller'[k].query
      BY DEF WaitersAreHeard
    <2>1. ~mine(k) /\ caller'[k] = caller[k] BY <1>2, <1>3
    <2> DEFINE l == caller[k].leader
    <2>2. /\ l \in Callers /\ caller[l].at \in Leading \cup {"announcing"}
          /\ caller[l].query = caller[k].query
      BY <2>1 DEF FlightInv, WaitersAreHeard
    <2>3. l # c BY <2>1 DEF mine
    <2>4. ~mine(l) BY <2>2, <2>3 DEF mine, Leading
    <2> QED BY <1>3, <2>1, <2>2, <2>4
  <1>11. FailureIsNotNothing'
    <2> SUFFICES ASSUME NEW k \in Callers, caller'[k].at = "idle"
                 PROVE /\ caller'[k].learned \in {"results", "nothing", "unavailable"}
                            => caller'[k].outcome = caller'[k].learned
                       /\ caller'[k].learned = "broken"
                            => caller'[k].outcome \in {"nothing", "broken"}
      BY DEF FailureIsNotNothing
    <2>1. CASE mine(k) BY <1>1, <1>2, <2>1 DEF Heard
    <2>2. CASE ~mine(k) BY <1>3, <2>2 DEF FlightInv, FailureIsNotNothing
    <2> QED BY <2>1, <2>2
  <1>12. CacheIsBounded' BY <1>1 DEF FlightInv, CacheIsBounded
  <1> QED BY <1>5, <1>6, <1>7, <1>8, <1>9, <1>10, <1>11, <1>12 DEF FlightInv

\* Time makes answers old, never new.
LEMMA TickKeeps == ASSUME FlightInv, Tick PROVE FlightInv'
  <1>0. TypeOK BY DEF FlightInv
  <1> DEFINE aged(i) == IF cache[i].age < Ttl THEN [cache[i] EXCEPT !.age = @ + 1] ELSE cache[i]
  <1>1. /\ cache' = [i \in DOMAIN cache |-> aged(i)]
        /\ UNCHANGED <<inflight, caller, searches>>
    BY DEF Tick
  <1>2. \A i \in DOMAIN cache : /\ aged(i) \in Entry /\ aged(i).query = cache[i].query
                                /\ aged(i).age < Ttl => cache[i].age < Ttl
    <2> SUFFICES ASSUME NEW i \in DOMAIN cache
                 PROVE /\ aged(i) \in Entry /\ aged(i).query = cache[i].query
                       /\ aged(i).age < Ttl => cache[i].age < Ttl
      OBVIOUS
    <2>1. cache[i] \in Entry /\ Ttl \in Nat BY <1>0, SearchesAssumption DEF TypeOK
    <2> QED BY <2>1 DEF Entry
  <1> HIDE DEF aged
  <1>3. DOMAIN cache = 1..Len(cache) /\ Len(cache) \in Nat BY <1>0 DEF TypeOK
  <1>4. cache' \in [1..Len(cache) -> Entry] BY <1>1, <1>2, <1>3
  <1>5. cache' \in Seq(Entry) /\ Len(cache') = Len(cache) BY <1>3, <1>4
  <1>6. \A i \in DOMAIN cache' : /\ i \in DOMAIN cache /\ cache'[i].query = cache[i].query
                                 /\ cache'[i].age < Ttl => cache[i].age < Ttl
    BY <1>1, <1>2
  <1>7. TypeOK'
    <2>1. paused' \in 0..Cooldown
      BY <1>0, SearchesAssumption DEF Tick, TypeOK
    <2> QED BY <1>0, <1>1, <1>5, <2>1 DEF TypeOK
  <1>8. AskedOnlyWhenUnknown'
    BY <1>1, <1>6 DEF FlightInv, AskedOnlyWhenUnknown, Fresh
  <1>9. CacheIsBounded' BY <1>5, <1>6 DEF FlightInv, CacheIsBounded
  <1>10. /\ HasQuery' /\ LandsWhatWasLearned' /\ FlightsAreLed'
         /\ WaitersAreHeard' /\ FailureIsNotNothing'
    BY <1>1 DEF FlightInv, HasQuery, LandsWhatWasLearned, FlightsAreLed, WaitersAreHeard,
                FailureIsNotNothing
  <1> QED BY <1>7, <1>8, <1>9, <1>10 DEF FlightInv

\* Every step keeps the flights.
LEMMA FlightNext == FlightInv /\ [Next]_vars => FlightInv'
  <1> SUFFICES ASSUME FlightInv, [Next]_vars PROVE FlightInv'
    OBVIOUS
  <1>0. TypeOK /\ Cooldown \in Nat BY SearchesAssumption DEF FlightInv
  <1>1. ASSUME NEW c \in Callers, NEW q \in Queries, Hit(c, q) \/ Follow(c, q) \/ Lead(c, q)
        PROVE  FlightInv'
    BY <1>1, BeginKeeps
  <1>2. ASSUME NEW c \in Callers, GoesOn(c) PROVE FlightInv'
    <2>1. CASE AcquireSearx(c) BY <2>1, MovesKeeps DEF AcquireSearx, Leading
    <2>2. CASE Answer(c)
      <3>1. PICK answer \in Answers : Learns(c, "asking", answer)
        BY <2>2 DEF Answer, Answers
      <3>2. UNCHANGED <<cache, inflight, paused, searches>> BY <2>2 DEF Answer
      <3> QED BY <1>0, <3>1, <3>2, LearnsKeeps DEF Leading, TypeOK
    <2>3. CASE FallBack(c) BY <2>3, MovesKeeps DEF FallBack, Leading
    <2>4. CASE CheckPause(c)
      <3>1. CASE Moves(c, "fallback", "queuedDuck") BY <3>1, MovesKeeps DEF Leading
      <3>2. CASE Learns(c, "fallback", "unavailable")
                   /\ UNCHANGED <<cache, inflight, paused, searches>>
        BY <1>0, <3>2, LearnsKeeps DEF Leading, TypeOK, Answers
      <3> QED BY <2>4, <3>1, <3>2 DEF CheckPause
    <2>5. CASE AcquireDuck(c) BY <2>5, MovesKeeps DEF AcquireDuck, Leading
    <2>6. CASE AnswerDuck(c)
      <3>1. CASE Moves(c, "askingDuck", "pausing") BY <3>1, MovesKeeps DEF Leading
      <3>2. ASSUME NEW answer \in Answers,
                   Learns(c, "askingDuck", answer),
                   UNCHANGED <<cache, inflight, paused, searches>>
            PROVE  FlightInv'
        BY <1>0, <3>2, LearnsKeeps DEF Leading, TypeOK, Answers
      <3> QED BY <2>6, <3>1, <3>2 DEF AnswerDuck
    <2>7. CASE Pause(c)
      <3>1. /\ Learns(c, "pausing", "unavailable") /\ UNCHANGED <<cache, inflight, searches>>
            /\ paused' \in 0..Cooldown
        BY <1>0, <2>7 DEF Pause
      <3> QED BY <3>1, LearnsKeeps DEF Leading, Answers
    <2>8. CASE Land(c) BY <2>8, LandKeeps
    <2>9. CASE Announce(c) BY <2>9, AnnounceKeeps
    <2> QED BY <1>2, <2>1, <2>2, <2>3, <2>4, <2>5, <2>6, <2>7, <2>8, <2>9 DEF GoesOn
  <1>3. CASE Tick BY <1>3, TickKeeps
  <1>4. CASE UNCHANGED vars
    BY <1>4 DEF vars, FlightInv, TypeOK, HasQuery, LandsWhatWasLearned, FlightsAreLed,
                AskedOnlyWhenUnknown, Fresh, WaitersAreHeard, FailureIsNotNothing, CacheIsBounded
  <1> QED BY <1>1, <1>2, <1>3, <1>4 DEF Next

\* The flights' invariant holds.
LEMMA FlightHolds == Spec => []FlightInv
  BY FlightInit, FlightNext, PTL DEF Spec

-----------------------------------------------------------------------------

\* Every variable keeps its type.
THEOREM TypeCorrect == Spec => []TypeOK
  <1>1. FlightInv => TypeOK BY DEF FlightInv
  <1> QED BY <1>1, FlightHolds, PTL

\* A query is asked by at most one caller at a time, who lands its flight.
THEOREM LedHolds == Spec => []FlightsAreLed
  <1>1. FlightInv => FlightsAreLed BY DEF FlightInv
  <1> QED BY <1>1, FlightHolds, PTL

\* Nobody asks what the cache could answer.
THEOREM UnknownHolds == Spec => []AskedOnlyWhenUnknown
  <1>1. FlightInv => AskedOnlyWhenUnknown BY DEF FlightInv
  <1> QED BY <1>1, FlightHolds, PTL

\* No wake-up is lost: whoever waits, waits for somebody who has yet to say
\* that the flight is done.
THEOREM HeardHolds == Spec => []WaitersAreHeard
  <1>1. FlightInv => WaitersAreHeard BY DEF FlightInv
  <1> QED BY <1>1, FlightHolds, PTL

\* No failure that the client recognises is told as an empty answer.
THEOREM FailureHolds == Spec => []FailureIsNotNothing
  <1>1. FlightInv => FailureIsNotNothing BY DEF FlightInv
  <1> QED BY <1>1, FlightHolds, PTL

\* The cache keeps its limit, and one answer for a query.
THEOREM BoundHolds == Spec => []CacheIsBounded
  <1>1. FlightInv => CacheIsBounded BY DEF FlightInv
  <1> QED BY <1>1, FlightHolds, PTL

-----------------------------------------------------------------------------
(* The service container. *)

Places == {"first", "lock", "second", "build", "release"}
Holds == {"second", "build", "release"}
Frames == [service : Services, at : Places, have : Nat]

Shape ==
    /\ built \in [Services -> Nat] /\ made \in [Services -> Nat]
    /\ depth \in Nat
    /\ stack \in [Threads -> Seq(Frames)]
    /\ DOMAIN got = Threads

\* Every getter but the innermost is building, and needs the one inside it.
Nested(s) ==
    /\ \A n \in 2..Len(s) : s[n].at = "build"
    /\ \A m, n \in 1..Len(s) : m < n => Layer[s[m].service] < Layer[s[n].service]

\* How often a thread inside these getters has the lock.
Deep(s) == IF s = << >> THEN 0
           ELSE IF s[1].at \in Holds THEN Len(s) ELSE Len(s) - 1

\* Who is past a getter's lock has it, as often as it went through one.
Locked(t, s, o, d) ==
    /\ Deep(s) > 0 => o = t
    /\ o = t => Deep(s) = d /\ d > 0

\* A service that is being built is not there; one that is given back is.
Told(s) ==
    \A n \in 1..Len(s) :
        /\ s[n].at = "build" => made[s[n].service] = 0
        /\ s[n].at = "release" => s[n].service \in Absent \/ made[s[n].service] = 1

\* What a call returned is the service that there is.
Given(g) ==
    g # Nothing => /\ g.of \in Services
                   /\ g.of \in Absent => g.is = 0
                   /\ g.of \notin Absent => made[g.of] = 1 /\ g.is = 1

\* A global holds the one construction there was.
Kept ==
    /\ built = made
    /\ \A s \in Services : made[s] <= 1 /\ (s \in Absent => made[s] = 0)

ContainerInv ==
    /\ Shape /\ Kept
    /\ owner = "none" => depth = 0
    /\ \A t \in Threads : /\ Nested(stack[t])
                          /\ Locked(t, stack[t], owner, depth)
                          /\ Told(stack[t])
                          /\ Given(got[t])

\* What the invariant is for.
LEMMA ContainerImplies == ContainerInv => OnePerProcess
  BY DEF ContainerInv, Shape, Kept, Given, OnePerProcess

\* The services that need nothing, those that need one of these, and the others.
Ground == {"vector_repository", "enrichment_pipeline", "datalake_repository", "job_queue",
           "text_corrector", "trend_service", "source_check_service", "source_probe",
           "graph_client", "devastating_client", "draft_store", "publishers",
           "related_news_finder", "article_writer"}
First == {"fact_checker", "admission_filter", "enrichment_service", "ingestion_service",
          "graph_writer", "devastating_writer", "graph_reader", "devastating_reader",
          "reader_index", "draft_reviewer"}
Second == {"claim_service", "analysis_service", "selection_service", "labelling_batch",
           "draft_writer", "draft_rewriter"}

\* What a getter needs is said once.
LEMMA NeedsAre ==
  /\ \A s \in DOMAIN AnalysisNeeds : Needs[s] = AnalysisNeeds[s]
  /\ \A s \in DOMAIN IngestionNeeds : Needs[s] = IngestionNeeds[s]
  /\ \A s \in DOMAIN GraphNeeds : Needs[s] = GraphNeeds[s]
  /\ \A s \in DOMAIN BatchNeeds : Needs[s] = BatchNeeds[s]
  /\ \A s \in DOMAIN WritingNeeds : Needs[s] = WritingNeeds[s]
  <1> DEFINE A == DOMAIN AnalysisNeeds
             I == DOMAIN IngestionNeeds
             G == DOMAIN GraphNeeds
             B == DOMAIN BatchNeeds
             W == DOMAIN WritingNeeds
  <1>1. /\ A \cap I = {} /\ A \cap G = {} /\ A \cap B = {} /\ A \cap W = {}
        /\ I \cap G = {} /\ I \cap B = {} /\ I \cap W = {}
        /\ G \cap B = {} /\ G \cap W = {} /\ B \cap W = {}
    BY DEF AnalysisNeeds, IngestionNeeds, GraphNeeds, BatchNeeds, WritingNeeds
  <1>2. Services = A \cup I \cup G \cup B \cup W
    BY DEF Services
  <1>3. \A s \in Services : Needs[s] =
          CASE s \in A -> AnalysisNeeds[s] [] s \in I -> IngestionNeeds[s] [] s \in G -> GraphNeeds[s]
            [] s \in B -> BatchNeeds[s] [] s \in W -> WritingNeeds[s]
    BY DEF Needs
  <1> HIDE DEF A, I, G, B, W
  <1>4. \A s \in A : Needs[s] = AnalysisNeeds[s]
    BY <1>1, <1>2, <1>3
  <1>5. \A s \in I : Needs[s] = IngestionNeeds[s]
    BY <1>1, <1>2, <1>3
  <1>6. \A s \in G : Needs[s] = GraphNeeds[s]
    BY <1>1, <1>2, <1>3
  <1>7. \A s \in B : Needs[s] = BatchNeeds[s]
    BY <1>1, <1>2, <1>3
  <1>8. \A s \in W : Needs[s] = WritingNeeds[s]
    BY <1>1, <1>2, <1>3
  <1> QED BY <1>4, <1>5, <1>6, <1>7, <1>8 DEF A, I, G, B, W

\* The getters ask each other in no circle.
LEMMA LayersHold == NeedsAreLayered
  <1> DEFINE Lower == Ground \cup First
  <1>1. Services = Lower \cup Second
    BY DEF Services, AnalysisNeeds, IngestionNeeds, GraphNeeds, BatchNeeds, WritingNeeds, Ground, First, Second
  <1>2. \A s \in Ground : Needs[s] = << >>
    BY NeedsAre, <1>1 DEF AnalysisNeeds, IngestionNeeds, GraphNeeds, BatchNeeds, WritingNeeds, Ground
  <1>3. \A s \in First : \E n \in Ground : Needs[s] = <<n>>
    BY NeedsAre, <1>1 DEF AnalysisNeeds, IngestionNeeds, GraphNeeds, BatchNeeds, WritingNeeds, Ground, First
  <1>4. \A s \in Second : Needs[s] \in Seq(Lower)
    <2>1. /\ Needs["claim_service"] = <<"fact_checker", "enrichment_pipeline">>
          /\ Needs["analysis_service"] = <<"fact_checker", "admission_filter", "enrichment_pipeline",
                                           "datalake_repository", "graph_writer", "devastating_writer">>
          /\ Needs["selection_service"] = <<"ingestion_service", "ingestion_service", "trend_service">>
          /\ Needs["labelling_batch"] = <<"enrichment_pipeline", "ingestion_service">>
          /\ Needs["draft_writer"] = <<"reader_index", "datalake_repository", "related_news_finder",
                                       "article_writer">>
          /\ Needs["draft_rewriter"] = <<"article_writer", "draft_reviewer">>
      BY NeedsAre DEF AnalysisNeeds, IngestionNeeds, GraphNeeds, BatchNeeds, WritingNeeds
    <2>2. {"fact_checker", "admission_filter", "enrichment_pipeline", "datalake_repository",
           "graph_writer", "devastating_writer", "ingestion_service", "trend_service", "reader_index",
           "related_news_finder", "article_writer", "draft_reviewer"} \subseteq Lower
      BY DEF Ground, First
    <2> HIDE DEF Lower
    <2>3. \A a, b, c, d, e, f \in Lower :
            {<<a, b>>, <<a, b, c>>, <<a, b, c, d>>, <<a, b, c, d, e, f>>} \subseteq Seq(Lower)
      OBVIOUS
    <2>4. Needs["claim_service"] \in Seq(Lower) /\ Needs["labelling_batch"] \in Seq(Lower)
          /\ Needs["draft_rewriter"] \in Seq(Lower)
      BY <2>1, <2>2, <2>3
    <2>5. Needs["selection_service"] \in Seq(Lower)
      BY <2>1, <2>2, <2>3
    <2>6. Needs["draft_writer"] \in Seq(Lower)
      BY <2>1, <2>2, <2>3
    <2>7. Needs["analysis_service"] \in Seq(Lower)
      BY <2>1, <2>2, <2>3
    <2> QED BY <2>4, <2>5, <2>6, <2>7 DEF Second
  <1>5. \A s \in Ground : Layer[s] = 0
    BY <1>1, <1>2 DEF Layer
  <1>6. \A s \in First : Layer[s] = 1
    <2> SUFFICES ASSUME NEW s \in First PROVE Layer[s] = 1
      OBVIOUS
    <2>1. PICK n \in Ground : Needs[s] = <<n>>
      BY <1>3
    <2>2. Needs[s] # << >> /\ \A m \in 1..Len(Needs[s]) : Needs[Needs[s][m]] = << >>
      BY <1>2, <2>1
    <2> QED BY <1>1, <2>2 DEF Layer
  <1> HIDE DEF Lower
  <1>7. \A s \in Services : Needs[s] \in Seq(Services)
    <2> DEFINE S == Services
    <2>0. << >> \in Seq(S) /\ \A n \in S : <<n>> \in Seq(S)
      <3> HIDE DEF S
      <3> QED OBVIOUS
    <2>1. \A s \in Ground : Needs[s] \in Seq(Services)
      BY <1>2, <2>0
    <2>2. \A s \in First : Needs[s] \in Seq(Services)
      BY <1>1, <1>3, <2>0 DEF Lower
    <2>3. \A s \in Second : Needs[s] \in Seq(Services)
      <3>1. Lower \subseteq Services
        BY <1>1
      <3> QED BY <1>4, <3>1
    <2> QED BY <1>1, <2>1, <2>2, <2>3 DEF Lower
  <1>8. ASSUME NEW s \in Services, NEW n \in 1..Len(Needs[s]) PROVE Layer[Needs[s][n]] < Layer[s]
    <2>1. CASE s \in Ground
      BY <1>2, <2>1
    <2>2. CASE s \in First
      BY <1>3, <1>5, <1>6, <2>2
    <2>3. CASE s \in Second
      <3>1. Needs[s][n] \in Lower /\ Needs[s] # << >>
        BY <1>4, <2>3
      <3>2. CASE Layer[s] = 2
        BY <1>5, <1>6, <3>1, <3>2 DEF Lower
      <3>3. CASE Layer[s] # 2
        <4>1. Layer[s] = 1 /\ Needs[Needs[s][n]] = << >>
          BY <3>1, <3>3 DEF Layer
        <4>2. Layer[Needs[s][n]] = 0
          BY <1>1, <3>1, <4>1 DEF Layer
        <4> QED BY <4>1, <4>2
      <3> QED BY <3>2, <3>3
    <2> QED BY <1>1, <2>1, <2>2, <2>3 DEF Lower
  <1> QED BY <1>7, <1>8 DEF NeedsAreLayered

\* Nothing is built and nobody asks.
LEMMA ContainerStarts == ContainerInit => ContainerInv
  <1> SUFFICES ASSUME ContainerInit PROVE ContainerInv
    OBVIOUS
  <1>1. Shape /\ Kept
    BY DEF ContainerInit, Shape, Kept
  <1>2. ASSUME NEW t \in Threads
        PROVE  Nested(stack[t]) /\ Told(stack[t]) /\ Given(got[t]) /\ Deep(stack[t]) = 0
    BY DEF ContainerInit, Nested, Told, Given, Deep
  <1>3. \A t \in Threads : owner # t
    BY ServicesAssumption DEF ContainerInit
  <1> QED BY <1>1, <1>2, <1>3 DEF ContainerInv, Locked, ContainerInit

-----------------------------------------------------------------------------
(* Stacks of getters *)

\* Another innermost getter leaves the others as they are.
LEMMA Headed ==
  ASSUME NEW s \in Seq(Frames), s # << >>, NEW f \in Frames, NEW q, q = <<f>> \o Tail(s)
  PROVE  /\ q \in Seq(Frames) /\ Len(q) = Len(s) /\ Len(s) \in Nat \ {0} /\ q[1] = f
         /\ \A n \in 2..Len(s) : q[n] = s[n]
  <1>1. Len(s) \in Nat \ {0} /\ Tail(s) \in Seq(Frames) /\ Len(Tail(s)) = Len(s) - 1
    OBVIOUS
  <1>2. q \in Seq(Frames) /\ Len(q) = Len(s) /\ q[1] = f
    BY <1>1
  <1>3. \A n \in 2..Len(s) : q[n] = s[n]
    BY <1>1
  <1> QED BY <1>1, <1>2, <1>3

\* The innermost getter goes to another place.
LEMMA Placed ==
  ASSUME NEW s \in Seq(Frames), s # << >>, NEW p \in Places,
         NEW f, f = [Head(s) EXCEPT !.at = p]
  PROVE  f \in Frames /\ f.at = p /\ f.service = s[1].service
  <1>1. Head(s) = s[1] /\ s[1] \in Frames
    OBVIOUS
  <1> QED BY <1>1 DEF Frames

\* One more of what a service needs is there.
LEMMA OneMore ==
  ASSUME NEW h \in Frames
  PROVE  LET f == [h EXCEPT !.have = h.have + 1]
         IN f \in Frames /\ f.at = h.at /\ f.service = h.service
  <1>1. h.have \in Nat /\ h.at \in Places /\ h.service \in Services
    BY DEF Frames
  <1>2. h.have + 1 \in Nat
    BY <1>1
  <1> QED BY <1>2 DEF Frames

\* The getter around one that answers has one more of what it needs.
LEMMA Popped ==
  ASSUME NEW s \in Seq(Frames), s # << >>,
         NEW q, q = IF Tail(s) = << >> THEN << >>
                    ELSE <<[Head(Tail(s)) EXCEPT !.have = @ + 1]>> \o Tail(Tail(s))
  PROVE  /\ q \in Seq(Frames) /\ Len(q) = Len(s) - 1 /\ Len(s) \in Nat \ {0}
         /\ \A n \in 1..Len(q) : q[n].at = s[n + 1].at /\ q[n].service = s[n + 1].service
  <1> DEFINE u == Tail(s)
  <1>1. /\ u \in Seq(Frames) /\ Len(s) \in Nat \ {0} /\ Len(u) = Len(s) - 1
        /\ \A n \in 1..Len(u) : u[n] = s[n + 1]
    OBVIOUS
  <1>2. CASE u = << >>
    BY <1>1, <1>2
  <1>3. CASE u # << >>
    <2> DEFINE h == Head(u)
               f == [h EXCEPT !.have = h.have + 1]
    <2>1. h = u[1] /\ h \in Frames
      BY <1>1, <1>3
    <2>2. q = <<f>> \o Tail(u)
      BY <1>3
    <2> HIDE DEF h, u
    <2>3. f \in Frames /\ f.at = h.at /\ f.service = h.service
      BY <2>1, OneMore
    <2> HIDE DEF f
    <2>4. q \in Seq(Frames) /\ Len(q) = Len(u) /\ q[1] = f /\ \A n \in 2..Len(u) : q[n] = u[n]
      <3>1. u \in Seq(Frames) /\ u # << >> /\ f \in Frames
        BY <1>1, <1>3, <2>3
      <3> QED BY ONLY <3>1, <2>2, Headed
    <2>5. \A n \in 1..Len(u) : q[n].at = u[n].at /\ q[n].service = u[n].service
      <3>1. q[1].at = u[1].at /\ q[1].service = u[1].service
        BY <2>1, <2>3, <2>4
      <3>2. \A n \in 1..Len(u) : n = 1 \/ n \in 2..Len(u)
        BY <1>1
      <3> QED BY <2>4, <3>1, <3>2
    <2> QED BY <1>1, <2>4, <2>5
  <1> QED BY <1>2, <1>3

\* A getter asked from within others.
LEMMA Pushed ==
  ASSUME NEW s \in Seq(Frames), NEW f \in Frames, NEW q, q = <<f>> \o s
  PROVE  /\ q \in Seq(Frames) /\ Len(q) = Len(s) + 1 /\ q[1] = f
         /\ \A n \in 2..Len(q) : q[n] = s[n - 1]
  OBVIOUS

\* The innermost getter has a place of its own; the others keep theirs.
LEMMA ReplacedIsNested ==
  ASSUME NEW s \in Seq(Frames), Nested(s), NEW q \in Seq(Frames), Len(q) = Len(s),
         Len(s) \in Nat \ {0},
         q[1].service = s[1].service, \A n \in 2..Len(s) : q[n] = s[n]
  PROVE  Nested(q)
  <1>1. \A n \in 1..Len(s) : q[n].service = s[n].service
    <2> TAKE n \in 1..Len(s)
    <2>1. CASE n = 1
      BY <2>1
    <2>2. CASE n \in 2..Len(s)
      BY <2>2
    <2> QED BY <2>1, <2>2
  <1>2. \A n \in 2..Len(s) : q[n].at = "build"
    BY DEF Nested
  <1>3. \A m, n \in 1..Len(s) : m < n => Layer[q[m].service] < Layer[q[n].service]
    BY <1>1 DEF Nested
  <1> QED BY <1>2, <1>3 DEF Nested

\* The getters around one that answers were building.
LEMMA PoppedIsNested ==
  ASSUME NEW s \in Seq(Frames), Nested(s), NEW q \in Seq(Frames), Len(q) = Len(s) - 1,
         Len(s) \in Nat \ {0},
         \A n \in 1..Len(q) : q[n].at = s[n + 1].at /\ q[n].service = s[n + 1].service
  PROVE  Nested(q) /\ \A n \in 1..Len(q) : q[n].at = "build"
  <1>1. \A n \in 1..Len(q) : q[n].at = "build"
    <2>1. \A n \in 1..Len(q) : n + 1 \in 2..Len(s)
      OBVIOUS
    <2> QED BY <2>1 DEF Nested
  <1>2. ASSUME NEW m \in 1..Len(q), NEW n \in 1..Len(q), m < n
        PROVE  Layer[q[m].service] < Layer[q[n].service]
    <2>1. m + 1 \in 1..Len(s) /\ n + 1 \in 1..Len(s) /\ m + 1 < n + 1
      BY <1>2
    <2>2. Layer[s[m + 1].service] < Layer[s[n + 1].service]
      BY <2>1 DEF Nested
    <2> QED BY <2>2
  <1>3. 2..Len(q) \subseteq 1..Len(q)
    OBVIOUS
  <1> QED BY <1>1, <1>2, <1>3 DEF Nested

\* A thread inside a getter has an innermost one.
LEMMA TopFacts ==
  ASSUME ContainerInv, NEW t \in Threads, stack[t] # << >>
  PROVE  /\ stack[t] \in Seq(Frames) /\ Len(stack[t]) \in Nat \ {0} /\ Top(t) = stack[t][1]
         /\ Top(t).service \in Services /\ Top(t).have \in Nat
         /\ \A n \in 1..Len(stack[t]) : stack[t][n].service \in Services
  <1>1. stack[t] \in Seq(Frames)
    BY DEF ContainerInv, Shape
  <1>2. Len(stack[t]) \in Nat \ {0} /\ Top(t) = stack[t][1]
        /\ \A n \in 1..Len(stack[t]) : stack[t][n] \in Frames
    BY <1>1 DEF Top
  <1>3. \A f \in Frames : f.service \in Services /\ f.have \in Nat
    BY DEF Frames
  <1> QED BY <1>1, <1>2, <1>3

-----------------------------------------------------------------------------
(* Steps *)

\* A thread's step is its own, as far as what it leaves of the lock allows it.
LEMMA OneThread ==
  ASSUME ContainerInv, NEW t \in Threads, NEW q \in Seq(Frames),
         stack' = [stack EXCEPT ![t] = q],
         UNCHANGED <<built, made, got>>,
         depth' \in Nat, owner' = "none" => depth' = 0,
         \/ UNCHANGED <<owner, depth>>
         \/ owner \in {"none", t} /\ owner' \in {"none", t},
         Nested(q), Locked(t, q, owner', depth'), Told(q)
  PROVE  ContainerInv'
  <1>1. Shape' /\ Kept'
    BY DEF ContainerInv, Shape, Kept
  <1>2. stack'[t] = q /\ \A u \in Threads \ {t} : stack'[u] = stack[u]
    BY DEF ContainerInv, Shape
  <1>3. \A u \in Threads : Nested(stack'[u])
    BY <1>2 DEF ContainerInv
  <1>4. \A u \in Threads : Told(stack[u])'
    BY <1>2 DEF ContainerInv, Told
  <1>5. \A u \in Threads : Given(got[u])'
    BY DEF ContainerInv, Given
  <1>6. ASSUME NEW u \in Threads \ {t} PROVE Locked(u, stack[u], owner', depth')
    <2>1. Locked(u, stack[u], owner, depth)
      BY DEF ContainerInv
    <2>2. CASE UNCHANGED <<owner, depth>>
      BY <2>1, <2>2
    <2>3. CASE owner \in {"none", t} /\ owner' \in {"none", t}
      <3>1. owner # u /\ owner' # u
        BY <2>3, ServicesAssumption
      <3> QED BY <2>1, <3>1 DEF Locked
    <2> QED BY <2>2, <2>3
  <1> QED BY <1>1, <1>2, <1>3, <1>4, <1>5, <1>6 DEF ContainerInv

\* A request asks for a service.
LEMMA CallHolds ==
  ASSUME ContainerInv, NEW t \in Threads, Call(t)
  PROVE  ContainerInv'
  <1>1. PICK s \in EntryPoints : stack' = [stack EXCEPT ![t] = <<Frame(s, "first", 0)>>]
    BY DEF Call
  <1> DEFINE f == Frame(s, "first", 0)
             q == <<f>>
  <1>2. f \in Frames /\ f.at = "first"
    BY ServicesAssumption DEF Frame, Frames, Places
  <1> HIDE DEF f
  <1>3. q \in Seq(Frames) /\ Len(q) = 1 /\ q[1] = f
    BY <1>2
  <1> HIDE DEF q
  <1>4. Nested(q) /\ Deep(q) = 0 /\ \A n \in 1..Len(q) : q[n].at = "first"
    BY <1>2, <1>3 DEF Nested, Deep, Holds
  <1>5. stack[t] = << >> /\ Deep(stack[t]) = 0
    BY DEF Call, Deep
  <1>6. /\ Shape' /\ Kept'
        /\ stack'[t] = q /\ got'[t] = Nothing
        /\ \A u \in Threads \ {t} : stack'[u] = stack[u] /\ got'[u] = got[u]
    BY <1>1, <1>3 DEF Call, ContainerInv, Shape, Kept, q, f
  <1>7. Locked(t, q, owner', depth')
    BY <1>4, <1>5 DEF Call, ContainerInv, Locked
  <1>8. \A u \in Threads : Told(stack[u])' /\ Given(got[u])'
    BY <1>4, <1>6 DEF Call, ContainerInv, Told, Given
  <1> QED BY <1>4, <1>6, <1>7, <1>8 DEF Call, ContainerInv

\* A getter answers: it leaves the stack, and when it was the outermost one the
\* call has what there is.
LEMMA AnswerHolds ==
  ASSUME ContainerInv, NEW t \in Threads, stack[t] # << >>, AnswerCaller(t),
         UNCHANGED <<built, made>>,
         LET s == Top(t).service IN s \in Absent \/ made[s] = 1,
         \/ UNCHANGED <<owner, depth>> /\ Top(t).at = "first"
         \/ Unlock(1) /\ Top(t).at = "release"
  PROVE  ContainerInv'
  <1> DEFINE q == ReturnedTo(t)[t]
  <1>1. stack[t] \in Seq(Frames) /\ Top(t) = stack[t][1] /\ Len(stack[t]) \in Nat \ {0}
    BY DEF ContainerInv, Shape, Top
  <1>2. /\ stack' = [stack EXCEPT ![t] = q]
        /\ q = IF Tail(stack[t]) = << >> THEN << >>
               ELSE <<[Head(Tail(stack[t])) EXCEPT !.have = @ + 1]>> \o Tail(Tail(stack[t]))
    BY DEF AnswerCaller, ReturnedTo, Outer, ContainerInv, Shape
  <1> HIDE DEF q
  <1>3. /\ q \in Seq(Frames) /\ Len(q) = Len(stack[t]) - 1
        /\ \A n \in 1..Len(q) : q[n].at = stack[t][n + 1].at /\ q[n].service = stack[t][n + 1].service
    BY <1>1, <1>2, Popped
  <1>4. Nested(q) /\ \A n \in 1..Len(q) : q[n].at = "build"
    <2>1. Nested(stack[t])
      BY DEF ContainerInv
    <2> HIDE DEF q
    <2> QED BY <1>1, <1>3, <2>1, PoppedIsNested
  <1>5. Deep(q) = Len(stack[t]) - 1
    BY <1>1, <1>3, <1>4 DEF Deep, Holds
  <1>6. Told(q)
    BY <1>1, <1>3 DEF ContainerInv, Told
  <1>7. Locked(t, stack[t], owner, depth) /\ depth \in Nat /\ (owner = "none" => depth = 0)
    BY DEF ContainerInv, Shape
  <1>8. /\ Locked(t, q, owner', depth') /\ depth' \in Nat /\ (owner' = "none" => depth' = 0)
        /\ \/ UNCHANGED <<owner, depth>>
           \/ owner \in {"none", t} /\ owner' \in {"none", t}
    <2>1. CASE UNCHANGED <<owner, depth>> /\ Top(t).at = "first"
      <3>1. Deep(stack[t]) = Len(stack[t]) - 1
        BY <1>1, <2>1 DEF Deep, Holds
      <3> QED BY <1>1, <1>5, <1>7, <2>1, <3>1 DEF Locked
    <2>2. CASE Unlock(1) /\ Top(t).at = "release"
      <3>1. Deep(stack[t]) = Len(stack[t])
        BY <1>1, <2>2 DEF Deep, Holds
      <3>2. owner = t /\ depth = Len(stack[t]) /\ t # "none"
        BY <1>1, <1>7, <3>1, ServicesAssumption DEF Locked
      <3>3. CASE Len(stack[t]) = 1
        BY <1>5, <2>2, <3>2, <3>3 DEF Locked, Unlock
      <3>4. CASE Len(stack[t]) # 1
        <4>1. owner' = t /\ depth' = Len(stack[t]) - 1
          BY <2>2, <3>2, <3>4 DEF Unlock
        <4>2. Deep(q) = depth' /\ depth' \in Nat \ {0}
          BY <1>1, <1>5, <3>4, <4>1
        <4>3. Locked(t, q, owner', depth')
          <5>1. depth' > 0
            BY <4>2
          <5> QED BY <4>1, <4>2, <5>1, Zenon DEF Locked
        <4>4. owner' # "none"
          BY <3>2, <4>1
        <4> QED BY <3>2, <4>1, <4>2, <4>3, <4>4
      <3> QED BY <3>3, <3>4
    <2> QED BY <2>1, <2>2
  <1>9. Given(got[t])'
    <2>1. Top(t).service \in Services
      BY TopFacts
    <2>2. CASE Outer(t) # << >>
      BY <2>2 DEF AnswerCaller, ContainerInv, Given
    <2>3. CASE Outer(t) = << >>
      <3>1. got'[t] = [of |-> Top(t).service, is |-> built[Top(t).service]]
        BY <2>3 DEF AnswerCaller, ContainerInv, Shape
      <3> QED BY <2>1, <3>1 DEF Given, ContainerInv, Kept
    <2> QED BY <2>2, <2>3
  <1>10. Shape' /\ Kept'
    BY <1>2, <1>3, <1>8 DEF ContainerInv, Shape, Kept, AnswerCaller
  <1>11. /\ stack'[t] = q
         /\ \A u \in Threads \ {t} : stack'[u] = stack[u] /\ got'[u] = got[u]
    BY <1>2 DEF ContainerInv, Shape, AnswerCaller
  <1>12. ASSUME NEW u \in Threads \ {t} PROVE Locked(u, stack[u], owner', depth')
    <2>1. Locked(u, stack[u], owner, depth)
      BY DEF ContainerInv
    <2>2. CASE UNCHANGED <<owner, depth>>
      BY <2>1, <2>2
    <2>3. CASE owner \in {"none", t} /\ owner' \in {"none", t}
      <3>1. owner # u /\ owner' # u
        BY <2>3, ServicesAssumption
      <3> QED BY <2>1, <3>1 DEF Locked
    <2> QED BY <1>8, <2>2, <2>3
  <1>13. \A u \in Threads : Told(stack[u])' /\ (u # t => Given(got[u])')
    BY <1>6, <1>11 DEF ContainerInv, Told, Given
  <1> QED BY <1>4, <1>8, <1>9, <1>10, <1>11, <1>12, <1>13 DEF ContainerInv

\* The innermost getter goes to another place, through the lock or not.
LEMMA MoveHolds ==
  ASSUME ContainerInv, NEW t \in Threads, stack[t] # << >>,
         NEW p \in Places, stack' = GoTo(t, p), UNCHANGED <<built, made, got>>,
         LET s == Top(t).service
         IN /\ p = "build" => made[s] = 0
            /\ p = "release" => s \in Absent \/ made[s] = 1,
         \/ UNCHANGED <<owner, depth>> /\ (p \in Holds <=> Top(t).at \in Holds)
         \/ /\ Top(t).at = "lock" /\ p = "second"
            /\ Free(t) /\ owner' = t /\ depth' = depth + 1
  PROVE  ContainerInv'
  <1> DEFINE f == [Head(stack[t]) EXCEPT !.at = p]
             q == <<f>> \o Tail(stack[t])
  <1>1. stack[t] \in Seq(Frames) /\ Top(t) = stack[t][1] /\ Len(stack[t]) \in Nat \ {0}
    BY DEF ContainerInv, Shape, Top
  <1>2. stack' = [stack EXCEPT ![t] = q]
    BY DEF GoTo, Top, Outer
  <1>3. /\ q \in Seq(Frames) /\ Len(q) = Len(stack[t])
        /\ q[1].at = p /\ q[1].service = stack[t][1].service
        /\ \A n \in 2..Len(stack[t]) : q[n] = stack[t][n]
    <2>1. f \in Frames /\ f.at = p /\ f.service = stack[t][1].service
      BY <1>1, Placed
    <2> HIDE DEF f
    <2> QED BY <1>1, <2>1, Headed
  <1> HIDE DEF q
  <1>4. Nested(q)
    <2>1. Nested(stack[t])
      BY DEF ContainerInv
    <2> QED BY <1>1, <1>3, <2>1, ReplacedIsNested
  <1>5. Told(q)
    BY <1>1, <1>3 DEF ContainerInv, Told
  <1>6. Locked(t, stack[t], owner, depth) /\ depth \in Nat /\ (owner = "none" => depth = 0)
    BY DEF ContainerInv, Shape
  <1>7. /\ Locked(t, q, owner', depth') /\ depth' \in Nat /\ (owner' = "none" => depth' = 0)
        /\ \/ UNCHANGED <<owner, depth>>
           \/ owner \in {"none", t} /\ owner' \in {"none", t}
    <2>1. CASE UNCHANGED <<owner, depth>> /\ (p \in Holds <=> Top(t).at \in Holds)
      <3>1. Deep(q) = Deep(stack[t])
        BY <1>1, <1>3, <2>1 DEF Deep
      <3> QED BY <1>6, <2>1, <3>1 DEF Locked
    <2>2. CASE /\ Top(t).at = "lock" /\ p = "second"
               /\ Free(t) /\ owner' = t /\ depth' = depth + 1
      <3>1. Deep(stack[t]) = Len(stack[t]) - 1 /\ Deep(q) = Len(stack[t])
        BY <1>1, <1>3, <2>2 DEF Deep, Holds
      <3>2. t # "none"
        BY ServicesAssumption
      <3> QED BY <1>1, <1>6, <2>2, <3>1, <3>2 DEF Locked, Free
    <2> QED BY <2>1, <2>2
  <1> QED BY <1>2, <1>3, <1>4, <1>5, <1>7, OneThread

\* A getter finds its service, or goes to the lock.
LEMMA FirstCheckHolds ==
  ASSUME ContainerInv, NEW t \in Threads, FirstCheck(t)
  PROVE  ContainerInv'
  <1>1. /\ stack[t] # << >> /\ Top(t).at = "first" /\ stack[t] \in Seq(Frames)
        /\ Top(t) = stack[t][1] /\ Top(t).service \in Services
    BY TopFacts DEF FirstCheck, Reached
  <1>2. CASE built[Top(t).service] # 0
    <2>1. made[Top(t).service] = 1
      BY <1>1, <1>2 DEF ContainerInv, Kept, Shape
    <2> QED BY <1>1, <1>2, <2>1, AnswerHolds DEF FirstCheck
  <1>3. CASE built[Top(t).service] = 0
    <2>1. "lock" \in Places /\ "lock" \notin Holds /\ "first" \notin Holds
      BY DEF Places, Holds
    <2> QED BY <1>1, <1>3, <2>1, MoveHolds DEF FirstCheck
  <1> QED BY <1>2, <1>3

\* A thread takes the lock, or takes it again.
LEMMA AcquireHolds ==
  ASSUME ContainerInv, NEW t \in Threads, Acquire(t)
  PROVE  ContainerInv'
  <1>1. "second" \in Places /\ stack[t] # << >> /\ Top(t).at = "lock"
    BY DEF Places, Acquire, Reached
  <1> QED BY <1>1, MoveHolds DEF Acquire

\* The check under the lock sees what another thread built.
LEMMA SecondCheckHolds ==
  ASSUME ContainerInv, NEW t \in Threads, SecondCheck(t)
  PROVE  ContainerInv'
  <1>1. /\ stack[t] # << >> /\ Top(t).at = "second" /\ stack[t] \in Seq(Frames)
        /\ Top(t) = stack[t][1] /\ Top(t).service \in Services
    BY TopFacts DEF SecondCheck, Reached
  <1>2. {"second", "build", "release"} \subseteq Places \cap Holds
    BY DEF Places, Holds
  <1>3. built[Top(t).service] = made[Top(t).service] /\ made[Top(t).service] \in {0, 1}
    BY <1>1 DEF ContainerInv, Kept, Shape
  <1>4. CASE BuiltMeanwhile(t)
    <2>1. made[Top(t).service] = 1
      BY <1>3, <1>4 DEF BuiltMeanwhile
    <2> QED BY <1>1, <1>2, <1>4, <2>1, MoveHolds DEF SecondCheck
  <1>5. CASE ~BuiltMeanwhile(t)
    <2>1. made[Top(t).service] = 0
      BY <1>3, <1>5 DEF BuiltMeanwhile
    <2> QED BY <1>1, <1>2, <1>5, <2>1, MoveHolds DEF SecondCheck
  <1> QED BY <1>4, <1>5

\* An edition without a graph has no client.
LEMMA BuildNothingHolds ==
  ASSUME ContainerInv, NEW t \in Threads, BuildNothing(t)
  PROVE  ContainerInv'
  <1>1. stack[t] # << >> /\ Top(t).at = "build" /\ Top(t).service \in Absent
    BY DEF BuildNothing, Complete, Reached
  <1>2. {"build", "release"} \subseteq Places \cap Holds
    BY DEF Places, Holds
  <1> QED BY <1>1, <1>2, MoveHolds DEF BuildNothing

\* The lock is given back as its getter answers.
LEMMA ReleaseHolds ==
  ASSUME ContainerInv, NEW t \in Threads, Release(t)
  PROVE  ContainerInv'
  <1>1. stack[t] # << >> /\ Top(t).at = "release" /\ stack[t] \in Seq(Frames)
    BY DEF Release, Reached, ContainerInv, Shape
  <1>2. Top(t).service \in Absent \/ made[Top(t).service] = 1
    BY <1>1 DEF ContainerInv, Told, Top
  <1> QED BY <1>1, <1>2, AnswerHolds DEF Release

\* A constructor asks for what it needs, which is nearer to the ground.
LEMMA AskHolds ==
  ASSUME ContainerInv, NEW t \in Threads, Ask(t)
  PROVE  ContainerInv'
  <1> DEFINE s == stack[t]
             need == Needs[Top(t).service][Top(t).have + 1]
             f == Frame(need, "first", 0)
             q == <<f>> \o s
  <1>1. /\ s # << >> /\ Top(t).at = "build" /\ s \in Seq(Frames) /\ Len(s) \in Nat \ {0}
        /\ Top(t) = s[1] /\ Top(t).service \in Services /\ Top(t).have \in Nat
        /\ Top(t).have < Len(Needs[Top(t).service])
    BY TopFacts DEF Ask, Reached
  <1>2. need \in Services /\ Layer[need] < Layer[Top(t).service]
    <2>1. Needs[Top(t).service] \in Seq(Services)
      BY <1>1, LayersHold DEF NeedsAreLayered
    <2>2. Top(t).have + 1 \in 1..Len(Needs[Top(t).service])
      BY <1>1, <2>1
    <2> QED BY <1>1, <2>1, <2>2, LayersHold DEF NeedsAreLayered
  <1>3. f \in Frames /\ f.at = "first" /\ f.service = need
    BY <1>2 DEF Frame, Frames, Places
  <1>4. stack' = [stack EXCEPT ![t] = q]
    BY DEF Ask, ContainerInv, Shape
  <1> HIDE DEF need, f
  <1>5. /\ q \in Seq(Frames) /\ Len(q) = Len(s) + 1 /\ q[1] = f
        /\ \A n \in 2..Len(q) : q[n] = s[n - 1]
    BY <1>1, <1>3, Pushed
  <1> HIDE DEF q
  <1>6. Nested(s) /\ Told(s) /\ Locked(t, s, owner, depth)
    BY DEF ContainerInv
  <1>7. \A n \in 1..Len(s) : s[n].at = "build" /\ s[n].service \in Services
    BY <1>1, <1>6, TopFacts DEF Nested
  <1>8. \A n \in Services : Layer[n] \in Nat
    BY DEF Layer
  <1>9. \A n \in 1..Len(s) : Layer[need] < Layer[s[n].service]
    <2>1. \A n \in 2..Len(s) : Layer[s[1].service] < Layer[s[n].service]
      BY <1>1, <1>6 DEF Nested
    <2> QED BY <1>1, <1>2, <1>7, <1>8, <2>1
  <1>10. Nested(q)
    <2>1. \A n \in 2..Len(q) : q[n].at = "build" /\ q[n].service = s[n - 1].service /\ n - 1 \in 1..Len(s)
      BY <1>1, <1>5, <1>7
    <2>2. ASSUME NEW m \in 1..Len(q), NEW n \in 1..Len(q), m < n
          PROVE  Layer[q[m].service] < Layer[q[n].service]
      <3>1. CASE m = 1
        <4>1. n \in 2..Len(q)
          BY <1>1, <1>5, <2>2, <3>1
        <4>2. q[m].service = need /\ q[n].service = s[n - 1].service /\ n - 1 \in 1..Len(s)
          BY <1>3, <1>5, <2>1, <3>1, <4>1
        <4> QED BY <1>9, <4>2
      <3>2. CASE m # 1
        <4>1. m \in 2..Len(q) /\ n \in 2..Len(q) /\ m - 1 < n - 1
          BY <1>1, <1>5, <2>2, <3>2
        <4> QED BY <1>6, <2>1, <4>1 DEF Nested
      <3> QED BY <3>1, <3>2
    <2> QED BY <2>1, <2>2 DEF Nested
  <1>11. Told(q)
    <2>1. \A n \in 2..Len(q) : q[n] = s[n - 1] /\ n - 1 \in 1..Len(s)
      BY <1>1, <1>5
    <2>2. q[1].at = "first"
      BY <1>3, <1>5
    <2> SUFFICES ASSUME NEW n \in 1..Len(q)
                 PROVE  /\ q[n].at = "build" => made[q[n].service] = 0
                        /\ q[n].at = "release" => q[n].service \in Absent \/ made[q[n].service] = 1
      BY DEF Told
    <2>3. CASE n = 1
      BY <2>2, <2>3
    <2>4. CASE n # 1
      <3>1. n \in 2..Len(q)
        BY <1>1, <1>5, <2>4
      <3> QED BY <1>6, <2>1, <3>1 DEF Told
    <2> QED BY <2>3, <2>4
  <1>12. Deep(q) = Deep(s)
    BY <1>1, <1>3, <1>5, <1>7 DEF Deep, Holds
  <1>13. Locked(t, q, owner, depth)
    BY <1>6, <1>12 DEF Locked
  <1> QED BY <1>4, <1>5, <1>10, <1>11, <1>13, OneThread DEF Ask, ContainerInv, Shape

\* The service is there once its constructor ran, and nobody else was building it:
\* this thread has the lock, and the getters around it build others.
LEMMA BuildHolds ==
  ASSUME ContainerInv, NEW t \in Threads, Build(t)
  PROVE  ContainerInv'
  <1> DEFINE s == stack[t]
             x == Top(t).service
             f == [Head(s) EXCEPT !.at = "release"]
             q == <<f>> \o Tail(s)
  <1>1. /\ s # << >> /\ Top(t).at = "build" /\ s \in Seq(Frames) /\ Len(s) \in Nat \ {0}
        /\ Top(t) = s[1] /\ x \in Services /\ x \notin Absent
        /\ \A n \in 1..Len(s) : s[n].service \in Services
    BY TopFacts DEF Build, Complete, Reached
  <1>2. /\ built' = [built EXCEPT ![x] = made[x] + 1] /\ made' = [made EXCEPT ![x] = @ + 1]
        /\ stack' = [stack EXCEPT ![t] = q] /\ UNCHANGED <<owner, depth, got>>
    BY DEF Build, GoTo, Top, Outer
  <1>3. "release" \in Places
    BY DEF Places
  <1>4. f \in Frames /\ f.at = "release" /\ f.service = s[1].service
    BY <1>1, <1>3, Placed
  <1> HIDE DEF f
  <1>5. /\ q \in Seq(Frames) /\ Len(q) = Len(s) /\ q[1].at = "release" /\ q[1].service = x
        /\ \A n \in 2..Len(s) : q[n] = s[n]
    BY <1>1, <1>4, Headed
  <1> HIDE DEF q
  <1>6. Nested(s) /\ Told(s) /\ Locked(t, s, owner, depth) /\ made \in [Services -> Nat]
        /\ built = made /\ depth \in Nat
    BY DEF ContainerInv, Shape, Kept
  <1>7. made[x] = 0 /\ made'[x] = 1 /\ built'[x] = 1
        /\ \A y \in Services \ {x} : made'[y] = made[y] /\ built'[y] = made[y]
    BY <1>1, <1>2, <1>6 DEF Told
  <1>8. Shape'
    BY <1>1, <1>2, <1>5, <1>6 DEF ContainerInv, Shape
  <1>9. Kept'
    <2>1. built' = made'
      BY <1>1, <1>2, <1>6
    <2> QED BY <1>1, <1>7, <2>1 DEF ContainerInv, Kept
  <1>10. Nested(q)
    BY <1>1, <1>5, <1>6, ReplacedIsNested
  <1>11. Deep(q) = Deep(s) /\ Deep(s) = Len(s)
    BY <1>1, <1>5 DEF Deep, Holds
  <1>12. owner = t /\ Locked(t, q, owner', depth')
    BY <1>1, <1>2, <1>6, <1>11 DEF Locked
  <1>13. \A u \in Threads \ {t} : stack'[u] = stack[u]
    BY <1>2 DEF ContainerInv, Shape
  <1>14. ASSUME NEW u \in Threads \ {t} PROVE Locked(u, stack[u], owner, depth) /\ Deep(stack[u]) = 0
    <2>1. Locked(u, stack[u], owner, depth) /\ stack[u] \in Seq(Frames)
      BY DEF ContainerInv, Shape
    <2>2. Deep(stack[u]) \in Nat
      BY <2>1 DEF Deep
    <2> QED BY <1>12, <2>1, <2>2 DEF Locked
  \* Nobody else is building or giving back.
  <1>15. ASSUME NEW u \in Threads \ {t} PROVE Told(stack[u])'
    <2>1. stack[u] \in Seq(Frames) /\ Nested(stack[u])
      BY DEF ContainerInv, Shape
    <2>2. CASE stack[u] = << >>
      BY <1>13, <2>2 DEF Told
    <2>3. CASE stack[u] # << >>
      <3>1. stack[u][1].at \notin Holds /\ Len(stack[u]) = 1
        BY <1>14, <2>1, <2>3 DEF Deep
      <3> QED BY <1>13, <3>1 DEF Told, Holds
    <2> QED BY <2>2, <2>3
  <1>16. \A n \in 2..Len(s) : s[n].service # x /\ s[n].at = "build"
    <2>1. \A n \in Services : Layer[n] \in Nat
      BY DEF Layer
    <2>2. \A n \in 2..Len(s) : Layer[s[1].service] < Layer[s[n].service] /\ s[n].at = "build"
      BY <1>1, <1>6 DEF Nested
    <2> QED BY <1>1, <2>1, <2>2
  <1>17. Told(stack[t])'
    <2>1. stack'[t] = q
      BY <1>2 DEF ContainerInv, Shape
    <2> SUFFICES ASSUME NEW n \in 1..Len(q)
                 PROVE  /\ q[n].at = "build" => made'[q[n].service] = 0
                        /\ q[n].at = "release" => q[n].service \in Absent' \/ made'[q[n].service] = 1
      BY <2>1 DEF Told
    <2>2. CASE n = 1
      BY <1>5, <1>7, <2>2
    <2>3. CASE n # 1
      <3>1. n \in 2..Len(s) /\ q[n] = s[n]
        BY <1>1, <1>5, <2>3
      <3>2. made[s[n].service] = 0
        BY <1>6, <1>16, <3>1 DEF Told
      <3> QED BY <1>1, <1>7, <1>16, <3>1, <3>2
    <2> QED BY <2>2, <2>3
  <1>18. \A u \in Threads : Given(got[u])'
    <2> TAKE u \in Threads
    <2>1. Given(got[u]) /\ got'[u] = got[u]
      BY <1>2 DEF ContainerInv
    <2> QED BY <1>1, <1>7, <2>1 DEF Given
  <1>19. \A u \in Threads : Nested(stack'[u]) /\ Locked(u, stack'[u], owner', depth')
    <2>1. stack'[t] = q
      BY <1>2 DEF ContainerInv, Shape
    <2> QED BY <1>2, <1>10, <1>12, <1>13, <1>14, <2>1 DEF ContainerInv
  <1> QED BY <1>2, <1>8, <1>9, <1>15, <1>17, <1>18, <1>19 DEF ContainerInv

\* A constructor that raises leaves every getter of its thread, and the lock.
LEMMA FailHolds ==
  ASSUME ContainerInv, NEW t \in Threads, Fail(t)
  PROVE  ContainerInv'
  <1> DEFINE s == stack[t]
             q == << >>
  <1>1. /\ s # << >> /\ Top(t).at = "build" /\ s \in Seq(Frames) /\ Len(s) \in Nat \ {0}
        /\ Top(t) = s[1]
    BY TopFacts DEF Fail, Complete, Reached
  <1>2. \A n \in 1..Len(s) : s[n].at = "build"
    BY <1>1 DEF ContainerInv, Nested
  <1>3. Holding(t) = Len(s)
    <2>1. {n \in DOMAIN stack[t] : stack[t][n].at \notin {"first", "lock"}} = 1..Len(s)
      BY <1>1, <1>2
    <2>2. Cardinality(1..Len(s)) = Len(s)
      BY <1>1, FS_Interval
    <2> QED BY <2>1, <2>2 DEF Holding
  <1>4. Deep(s) = Len(s)
    BY <1>1 DEF Deep, Holds
  <1>5. owner = t /\ depth = Len(s)
    BY <1>1, <1>4 DEF ContainerInv, Locked
  <1>6. owner' = "none" /\ depth' = 0
    BY <1>1, <1>3, <1>5 DEF Fail, Unlock
  <1>7. /\ Shape' /\ Kept'
        /\ stack'[t] = << >> /\ got'[t] = Nothing
        /\ \A u \in Threads \ {t} : stack'[u] = stack[u] /\ got'[u] = got[u]
    BY <1>6 DEF Fail, ContainerInv, Shape, Kept
  <1>8. Nested(stack'[t]) /\ Told(stack[t])' /\ Deep(stack'[t]) = 0
    BY <1>7 DEF Nested, Told, Deep
  <1>9. \A u \in Threads : Locked(u, stack'[u], owner', depth')
    <2>1. \A u \in Threads \ {t} : Locked(u, stack[u], owner, depth)
      BY DEF ContainerInv
    <2>2. \A u \in Threads : u # "none"
      BY ServicesAssumption
    <2> QED BY <1>5, <1>6, <1>7, <1>8, <2>1, <2>2 DEF Locked
  <1>10. \A u \in Threads \ {t} : Told(stack[u])' /\ Nested(stack'[u])
    BY <1>7 DEF Fail, ContainerInv, Told
  <1>11. \A u \in Threads : Given(got[u])'
    BY <1>7 DEF Fail, ContainerInv, Given
  <1> QED BY <1>6, <1>7, <1>8, <1>9, <1>10, <1>11 DEF ContainerInv

\* No step of any thread breaks it.
LEMMA ContainerStep ==
  ASSUME ContainerInv, [ContainerNext]_containerVars
  PROVE  ContainerInv'
  <1>1. CASE UNCHANGED containerVars
    BY <1>1 DEF containerVars, ContainerInv, Shape, Kept, Told, Given
  <1>2. ASSUME NEW t \in Threads, Call(t) \/ Step(t) PROVE ContainerInv'
    BY <1>2, CallHolds, FirstCheckHolds, AcquireHolds, SecondCheckHolds, AskHolds, BuildHolds,
       BuildNothingHolds, ReleaseHolds, FailHolds DEF Step
  <1> QED BY <1>1, <1>2 DEF ContainerNext

\* No service is built twice, whatever threads ask and whatever constructions fail,
\* because the getters ask each other in no circle (container.py, the check before the
\* lock and the one under it): a second draft store would have a lock of its own.
THEOREM OneHolds ==
  ContainerSpec => []OnePerProcess
  <1>1. ContainerInit => ContainerInv
    BY ContainerStarts
  <1>2. ContainerInv /\ [ContainerNext]_containerVars => ContainerInv'
    BY ContainerStep
  <1>3. ContainerInv => OnePerProcess
    BY ContainerImplies
  <1> QED BY <1>1, <1>2, <1>3, PTL DEF ContainerSpec
=============================================================================
