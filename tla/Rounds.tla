------------------------------- MODULE Rounds -------------------------------
(***************************************************************************)
(* Candidate rounds (services/selection/selection_service.py, rounds.py)    *)
(* and ingestion: requests on several threads create a round, bring more    *)
(* of it into view, have the AI choose, and send a choice to analysis.      *)
(* Rounds are kept in memory, the last few, and on disk; articles first     *)
(* seen and the trends behind them in files of their own.                   *)
(*                                                                         *)
(* A round in memory is one object that every thread holding it changes; a  *)
(* round read back from disk is an object of its own.                       *)
(***************************************************************************)
EXTENDS Discovery

CONSTANTS
  Threads,      \* request threads
  Requests,     \* the requests for a round, and for an ingestion, that may come
  Memory,       \* MEMORY
  Listed,       \* LISTED
  MaxListed,    \* MAX_LISTED
  MaxSelected,  \* MAX_SELECTED
  MaxRounds,    \* bound: rounds that are made
  MaxRequests,  \* bound: requests
  MaxFaults     \* bound: crashes, and reads, models, jobs and writes that fail

ASSUME RoundsAssumption ==
  /\ Threads # {} /\ Requests \subseteq [what : {"round", "ingest"}, req : Request]
  /\ \A r \in Requests : r.what = "ingest" => r.req.lens = "topics" /\ r.req.edition = "positive"
  /\ Memory \in Nat \ {0} /\ MaxListed \in Nat /\ Listed \in 1..MaxListed /\ MaxSelected \in Nat \ {0}
  /\ MaxRounds \in Nat /\ MaxRequests \in Nat /\ MaxFaults \in Nat

VARIABLES
  lake,       \* the articles analysed and stored
  seen,       \* Sightings: in memory and in its file
  cards,      \* TrendLedger: in memory and in its file
  objects,    \* the rounds in memory or in some thread's hands
  memory,     \* SelectionRounds._rounds: the object of each round, oldest first
  disk,       \* the round files
  running,    \* SelectionService._running
  ai,         \* the thread of an AI selection; "unstarted" when it could not be started
  threads,    \* the request threads
  sent,       \* the articles sent to analysis, with the round and request of each
  counts      \* of rounds, requests and faults so far

vars == <<lake, seen, cards, objects, memory, disk, running, ai, threads, sent, counts>>
kept == <<objects, memory, disk>>

-----------------------------------------------------------------------------
(* What is kept. *)

Ids == 1..MaxRounds
Keys == {Key(u) : u \in Links}

NotChosen == [status |-> "none", picks |-> {}]
NotQueued == [urls |-> {}, by |-> "nobody"]

\* known: what counted as stored when the round was made.
RoundRecord ==
  [id : Ids, req : Request, rows : Seq([from : ToSet(Sources) \cup ToSet(Signals), discovered : Nat, notArticles : Nat, stale : Nat,
     already : Nat, picked : Seq(Links), screened : Nat, deferred : Nat]),
   known : SUBSET Keys, screen : {"ok", "unavailable"}, shown : Seq(Links), reserve : Seq(Links),
   ai : [status : {"none", "running", "done", "failed"}, picks : SUBSET Links],
   queued : [urls : SUBSET Links, by : {"nobody", "user", "ai", "ai+user"}]]

NoRound == [id |-> 0]
NoRequest == [lens |-> "none"]

\* A sighting: at which request, and whether the feed's time is known.
Sighting == [at : Nat, dated : BOOLEAN]
NotSeen == [at |-> 0, dated |-> FALSE]

Idle == [at |-> "idle", obj |-> 0, no |-> 0, what |-> "round", req |-> NoRequest, known |-> {},
         found |-> << >>, urls |-> {}, left |-> << >>, started |-> {}]
NoAI == [at |-> "none", obj |-> 0, picks |-> {}]

Count(what) == counts' = [counts EXCEPT ![what] = @ + 1]
Fails == counts.faults < MaxFaults /\ Count("faults")
Holds == UNCHANGED counts
Go(t, new) == threads' = [threads EXCEPT ![t] = new]

Init ==
  /\ lake = {} /\ sent = {} /\ running = 0 /\ ai = NoAI
  /\ seen = [memory |-> [k \in Keys |-> NotSeen], file |-> [k \in Keys |-> NotSeen]]
  /\ cards = [memory |-> [u \in Keys |-> 0], file |-> [u \in Keys |-> 0]]
  /\ objects = << >> /\ memory = << >> /\ disk = [i \in Ids |-> NoRound]
  /\ threads = [t \in Threads |-> Idle]
  /\ counts = [rounds |-> 0, requests |-> 0, faults |-> 0]

-----------------------------------------------------------------------------
(* SelectionRounds. *)

\* save, of the round in `obj` with the contents `round`: it is the object in memory
\* from now on, in its place if it had one, and the oldest beyond Memory is dropped.
\* A file that cannot be written is only reported (Fails).
Save(obj, round) ==
  LET place == {i \in DOMAIN memory : objects[memory[i]].id = round.id}
      held == IF place # {} THEN [memory EXCEPT ![CHOOSE i \in place : TRUE] = obj]
              ELSE Append(memory, obj)
  IN /\ memory' = IF Len(held) > Memory THEN Tail(held) ELSE held
     /\ objects' = IF obj \in DOMAIN objects THEN [objects EXCEPT ![obj] = round]
                   ELSE Append(objects, round)
     /\ \/ disk' = [disk EXCEPT ![round.id] = round] /\ Holds
        \/ UNCHANGED disk /\ Fails

\* get: the object in memory, else one more read from the round's file; 0 if it has
\* none. all: the objects there are then.
Got(id) ==
  LET place == {i \in DOMAIN memory : objects[memory[i]].id = id}
  IN IF place # {} THEN [obj |-> memory[CHOOSE i \in place : TRUE], all |-> objects]
     ELSE IF disk[id] # NoRound THEN [obj |-> Len(objects) + 1, all |-> Append(objects, disk[id])]
     ELSE [obj |-> 0, all |-> objects]

\* A request on the round `id`: counted, and the object in hand, if there is one.
OnRound(t, id) ==
  /\ threads[t].at = "idle" /\ id <= counts.rounds /\ counts.requests < MaxRequests
  /\ Count("requests") /\ objects' = Got(id).all
  /\ UNCHANGED <<lake, seen, cards, memory, disk, ai, sent>>

-----------------------------------------------------------------------------
(* A round is made (create_round), or an ingestion is run (IngestionService.run). *)

\* The articles in the lake: none when it cannot be listed.
\* A round of topics, and an ingestion, start from it.
Start(t) ==
  \E r \in Requests :
    /\ threads[t].at = "idle" /\ counts.requests < MaxRequests
    /\ r.what = "round" => counts.rounds < MaxRounds
    /\ \E known \in {lake, {}} :
         /\ known # lake => counts.faults < MaxFaults
         /\ counts' = [counts EXCEPT !.requests = @ + 1,
                         !.rounds = IF r.what = "round" THEN @ + 1 ELSE @,
                         !.faults = IF known # lake THEN @ + 1 ELSE @]
         /\ Go(t, [Idle EXCEPT !.at = "reading", !.no = counts.requests + 1, !.what = r.what,
                               !.req = r.req, !.known = known, !.obj = counts'.rounds])
    /\ UNCHANGED <<lake, seen, cards, kept, running, ai, sent>>

\* Fault: the latest sighting stands.
SightedLast(entries, found, no) ==
  LET new == UNION {one.urls : one \in ToSet(found)}
      dated == UNION {one.published : one \in ToSet(found)}
      Has(set, k) == \E u \in set : Key(u) = k
  IN [k \in Keys |-> IF Has(new, k) THEN [at |-> no, dated |-> Has(dated, k)] ELSE entries[k]]

\* Sightings.record, of what a row newly found: the first sighting of an article
\* stays; a later one only adds the feed's time.
Sighted(entries, found, no) ==
  LET new == UNION {one.urls : one \in ToSet(found)}
      dated == UNION {one.published : one \in ToSet(found)}
      Has(set, k) == \E u \in set : Key(u) = k
  IN [k \in Keys |->
        IF entries[k] = NotSeen /\ Has(new, k) THEN [at |-> no, dated |-> Has(dated, k)]
        ELSE IF Has(dated, k) THEN [entries[k] EXCEPT !.dated = TRUE] ELSE entries[k]]

AtMostOne(parts) == {{}} \cup {{p} : p \in parts}

\* Every source or signal is read, and what is new of it sighted. At most one
\* part of them is down. A trending round knows the lake as it is now.
Read(t) ==
  LET th == threads[t]
      known == IF th.req.lens = "trending" THEN lake ELSE th.known IN
  /\ th.at = "reading"
  /\ \E down \in AtMostOne(Parts(th.req)), written \in BOOLEAN :
     \E found \in {FoundIn(th.req, known, down)} :
       LET entries == Sighted(seen.memory, found, th.no) IN
       /\ ~written => down = {} /\ entries # seen.memory
       /\ IF written /\ down = {} THEN Holds ELSE Fails
       /\ Go(t, [th EXCEPT !.at = "read", !.known = known, !.found = found])
       /\ seen' = [memory |-> entries,
                   file |-> IF written /\ entries # seen.memory THEN entries ELSE seen.file]
  /\ UNCHANGED <<lake, cards, kept, running, ai, sent>>

\* The screen and the shares: an ingestion has its articles to queue, a round is
\* saved, its best in view.
Offer(t) ==
  LET th == threads[t] IN
  /\ th.at = "read"
  /\ \E screen \in {"ok", "unavailable"} : LET rows == RowsOf(th.found, th.req, screen) IN
       IF th.what = "ingest"
       THEN /\ IF screen = "ok" THEN Holds ELSE Fails
            /\ Go(t, [Idle EXCEPT !.at = "queueing", !.no = th.no, !.left = Picks(rows)])
            /\ UNCHANGED kept
       ELSE \E all \in Orders(rows) :
              /\ InOrder(all, th.req, screen)
              /\ screen # "ok" => counts.faults < MaxFaults
              /\ Go(t, Idle)
              /\ Save(Len(objects) + 1,
                   [id |-> th.obj, req |-> th.req, rows |-> rows, known |-> th.known,
                    screen |-> screen, shown |-> FirstN(all, Listed),
                    reserve |-> SubSeq(all, Listed + 1, Len(all)),
                    ai |-> NotChosen, queued |-> NotQueued])
  /\ UNCHANGED <<lake, seen, cards, running, ai, sent>>

-----------------------------------------------------------------------------
(* More of it, the AI's choice, and the person's. *)

\* show_more: not once it was sent.
AskMore(t) ==
  \E id \in Ids :
    /\ OnRound(t, id) /\ UNCHANGED running
    /\ LET obj == Got(id).obj IN
       IF obj = 0 \/ (obj # 0 /\ objects'[obj].queued # NotQueued) THEN UNCHANGED threads
       ELSE Go(t, [Idle EXCEPT !.at = "more", !.obj = obj])

\* Under the lock: not while the AI reads this round's list.
ShowMore(t) ==
  LET round == objects[threads[t].obj]
      room == MaxListed - Len(round.shown) IN
  /\ threads[t].at = "more" /\ Go(t, Idle)
  /\ IF running # round.id /\ room > 0 /\ round.reserve # << >>
     THEN Save(threads[t].obj,
               [round EXCEPT !.shown = @ \o FirstN(round.reserve, room),
                             !.reserve = SubSeq(@, room + 1, Len(@))])
     ELSE UNCHANGED <<kept, counts>>
  /\ UNCHANGED <<lake, seen, cards, running, ai, sent>>

\* start_ai_selection: one at a time.
AskAI(t) ==
  \E id \in Ids :
    /\ OnRound(t, id)
    /\ LET obj == Got(id).obj IN
       IF obj = 0 THEN UNCHANGED <<threads, running>>
       ELSE IF objects'[obj].shown = << >> \/ running # 0 THEN UNCHANGED <<threads, running>>
       ELSE /\ running' = id
            /\ Go(t, [Idle EXCEPT !.at = "starting", !.obj = obj])

\* The round says that it runs, and its thread starts; or it cannot be started, and
\* the request fails with the flag set, which only a new process clears.
StartAI(t) ==
  LET round == objects[threads[t].obj] IN
  /\ threads[t].at = "starting" /\ Go(t, Idle)
  /\ Save(threads[t].obj, [round EXCEPT !.ai = [status |-> "running", picks |-> {}]])
  /\ \E at \in {"started", "unstarted"} : ai' = [at |-> at, obj |-> round.id, picks |-> {}]
  /\ UNCHANGED <<lake, seen, cards, running, sent>>

\* run_ai_selection, on its thread: the round is looked up again.
OpenAI ==
  /\ ai.at = "started" /\ objects' = Got(ai.obj).all
  /\ ai' = IF Got(ai.obj).obj = 0 THEN [NoAI EXCEPT !.at = "ended"]
           ELSE [ai EXCEPT !.at = "choosing", !.obj = Got(ai.obj).obj]
  /\ UNCHANGED <<lake, seen, cards, memory, disk, running, threads, sent, counts>>

\* What it may pick: whatever it was shown, up to the limit, as scores are left to
\* chance.
MayPick(round) == {picks \in SUBSET ToSet(round.shown) : Cardinality(picks) <= MaxSelected}

\* The model answers, or fails.
Choose ==
  /\ ai.at = "choosing"
  /\ \/ \E picks \in MayPick(objects[ai.obj]) :
          ai' = [ai EXCEPT !.at = "done", !.picks = picks] /\ Holds
     \/ ai' = [ai EXCEPT !.at = "failed"] /\ Fails
  /\ UNCHANGED <<lake, seen, cards, kept, running, threads, sent>>

Record ==
  /\ ai.at \in {"done", "failed"}
  /\ Save(ai.obj, [objects[ai.obj] EXCEPT !.ai = [status |-> ai.at, picks |-> ai.picks]])
  /\ ai' = [NoAI EXCEPT !.at = "ended"]
  /\ UNCHANGED <<lake, seen, cards, running, threads, sent>>

\* Fault: only a selection that was recorded ends.
EndAIQuietly ==
  /\ ai.at = "ended" /\ ai' = NoAI
  /\ UNCHANGED <<lake, seen, cards, kept, running, threads, sent, counts>>

\* _run_ai_selection's finally.
EndAI ==
  /\ ai.at = "ended" /\ ai' = NoAI /\ running' = 0
  /\ UNCHANGED <<lake, seen, cards, kept, threads, sent, counts>>

\* Fault: the reserve may be sent, too.
MaySendUnseen(round, urls) ==
  /\ urls # {} /\ Cardinality(urls) <= MaxSelected
  /\ urls \subseteq ToSet(round.shown \o round.reserve) /\ round.queued = NotQueued

\* queue: what may be sent.
MaySend(round, urls) ==
  /\ urls # {} /\ Cardinality(urls) <= MaxSelected
  /\ urls \subseteq ToSet(round.shown) /\ round.queued = NotQueued

AskQueue(t) ==
  \E id \in Ids :
    /\ OnRound(t, id) /\ UNCHANGED running
    /\ LET obj == Got(id).obj IN
       IF obj = 0 THEN UNCHANGED threads
       ELSE \E urls \in SUBSET ToSet(objects'[obj].shown \o objects'[obj].reserve) :
              IF ~MaySend(objects'[obj], urls) THEN UNCHANGED threads
              ELSE Go(t, [Idle EXCEPT !.at = "queueing", !.obj = obj, !.no = counts'.requests,
                                      !.urls = urls, !.left = SetToSeq(urls)])

\* One article is sent: the job starts, or is one that runs already, or cannot.
Send(t) ==
  LET th == threads[t]
      u == Head(th.left) IN
  /\ th.at = "queueing" /\ th.left # << >>
  /\ \/ /\ sent' = sent \cup {[url |-> u, no |-> th.no,
                               round |-> IF th.obj = 0 THEN 0 ELSE objects[th.obj].id]}
        /\ Go(t, [th EXCEPT !.left = Tail(@), !.started = @ \cup {u}]) /\ Holds
     \/ UNCHANGED sent /\ Go(t, [th EXCEPT !.left = Tail(@)]) /\ Fails
  /\ UNCHANGED <<lake, seen, cards, kept, running, ai>>

\* _agreement: who chose.
SelectedBy(urls, chosen) ==
  LET proposed == IF chosen.status = "done" THEN chosen.picks ELSE {}
  IN IF proposed = urls THEN "ai" ELSE IF proposed \cap urls # {} THEN "ai+user" ELSE "user"

\* A round is written once all its articles were sent; an ingestion has no round.
Sent(t) ==
  LET th == threads[t]
      round == objects[th.obj] IN
  /\ th.at = "queueing" /\ th.left = << >>
  /\ IF th.obj = 0 THEN Go(t, Idle) /\ UNCHANGED <<kept, counts>>
     ELSE /\ Save(th.obj, [round EXCEPT !.queued = [urls |-> th.urls, by |-> SelectedBy(th.urls, round.ai)]])
          /\ Go(t, IF round.req.lens = "trending" /\ th.started # {}
                   THEN [th EXCEPT !.at = "noting"] ELSE Idle)
  /\ UNCHANGED <<lake, seen, cards, running, ai, sent>>

\* TrendLedger.remember, of each article sent: the latest round's card stands.
Note(t) ==
  LET th == threads[t]
      noted == [k \in Keys |-> IF \E u \in th.started : Key(u) = k THEN objects[th.obj].id
                               ELSE cards.memory[k]] IN
  /\ th.at = "noting" /\ Go(t, Idle)
  /\ \/ cards' = [memory |-> noted, file |-> noted] /\ Holds
     \/ cards' = [cards EXCEPT !.memory = noted] /\ Fails
  /\ UNCHANGED <<lake, seen, kept, running, ai, sent>>

\* An analysis stores its article.
Analysed ==
  /\ \E s \in sent : Key(s.url) \notin lake /\ lake' = lake \cup {Key(s.url)}
  /\ UNCHANGED <<seen, cards, kept, running, ai, threads, sent, counts>>

\* The process ends and starts again: what the files hold is there (attach).
Crash ==
  /\ Fails
  /\ objects' = << >> /\ memory' = << >> /\ running' = 0 /\ ai' = NoAI
  /\ threads' = [t \in Threads |-> Idle]
  /\ seen' = [seen EXCEPT !.memory = seen.file] /\ cards' = [cards EXCEPT !.memory = cards.file]
  /\ UNCHANGED <<lake, disk, sent>>

OfRequest(t) ==
  \/ Start(t) \/ Read(t) \/ Offer(t) \/ AskMore(t) \/ ShowMore(t)
  \/ AskAI(t) \/ StartAI(t) \/ AskQueue(t) \/ Send(t) \/ Sent(t) \/ Note(t)
OfSelection == OpenAI \/ Choose \/ Record \/ EndAI
Next == (\E t \in Threads : OfRequest(t)) \/ OfSelection \/ Analysed \/ Crash

Spec == Init /\ [][Next]_vars

-----------------------------------------------------------------------------
(* Properties. *)

\* Every variable has its type.
TypeOK ==
  /\ lake \subseteq Keys /\ running \in {0} \cup Ids
  /\ seen \in [{"memory", "file"} -> [Keys -> Sighting]]
  /\ cards \in [{"memory", "file"} -> [Keys -> {0} \cup Ids]]
  /\ \A i \in DOMAIN objects : objects[i] \in RoundRecord
  /\ ToSet(memory) \subseteq DOMAIN objects /\ Len(memory) <= Memory
  /\ \A i \in Ids : disk[i] \in RoundRecord \cup {NoRound}
  /\ ai.at \in {"none", "unstarted", "started", "choosing", "done", "failed", "ended"}
  /\ ai.obj \in Nat /\ ai.picks \subseteq Links
  /\ \A t \in Threads : threads[t].at \in {"idle", "reading", "read", "more", "starting",
                                           "queueing", "noting"}
  /\ sent \subseteq [url : Links, no : Nat, round : {0} \cup Ids]

AllRounds == ({objects[i] : i \in DOMAIN objects} \cup {disk[i] : i \in Ids}) \ {NoRound}

\* Only what a round shows is chosen, by the AI or a person, and within its limits,
\* while more of it comes into view, the AI reads it, and copies of it are read
\* back from disk (MAX_LISTED, MAX_SELECTED).
NothingButTheShown ==
  \A r \in AllRounds :
    /\ Len(r.shown) <= MaxListed
    /\ r.ai.picks \cup r.queued.urls \subseteq ToSet(r.shown)
    /\ Cardinality(r.queued.urls) <= MaxSelected

\* Every article that a source or signal gave is accounted for in its row: stored
\* already, left out, too old, left for a later round, or a candidate, none of them
\* fewer than none; and every candidate is in view or in reserve (totals).
EveryArticleIsAccountedFor ==
  \A r \in AllRounds :
    /\ \A i \in DOMAIN r.rows :
         LET row == r.rows[i] IN
         /\ {row.already, row.screened, row.deferred, row.notArticles, row.stale} \subseteq Nat
         /\ row.discovered = row.already + Len(row.picked) + row.screened + row.deferred +
                             (IF r.req.lens = "trending" THEN row.notArticles + row.stale ELSE 0)
    /\ Len(r.shown \o r.reserve) = Cardinality(UNION {ToSet(r.rows[i].picked) : i \in DOMAIN r.rows})

\* Whose articles the screen spares: a positive outlet's, in a round of topics.
Exempt(req, row) == req.lens = "topics" /\ Source[row.from].positive

\* A round offers an article once, however many sources carry it, nothing that was
\* stored when it was made, and, when the screen was reached, nothing that its edition
\* leaves out, unless a positive outlet chose it in a round of topics.
OffersOnlyWhatIsNew ==
  \A r \in AllRounds :
    LET all == r.shown \o r.reserve IN
    /\ \A i, j \in DOMAIN all : Key(all[i]) = Key(all[j]) => i = j
    /\ \A i \in DOMAIN all :
         /\ Key(all[i]) \notin r.known
         /\ r.screen = "ok" =>
              \E k \in DOMAIN r.rows :
                /\ all[i] \in ToSet(r.rows[k].picked)
                /\ ~LeftOut(all[i], r.req.edition, Exempt(r.req, r.rows[k]))

\* Each article that a round met has one place: the list, or a number that says why not.
EveryArticleHasItsPlace == EveryArticleIsAccountedFor /\ OffersOnlyWhatIsNew

\* When an article was first seen never changes in the file, over rounds, threads
\* and restarts; and its feed's time, once known, stays.
FirstSightingStands ==
  [][\A k \in Keys : seen.file[k] # NotSeen =>
       /\ seen'.file[k].at = seen.file[k].at
       /\ seen.file[k].dated => seen'.file[k].dated]_vars

\* The flag names the one AI selection there is, and is free when there is none: a
\* request is about to start it, its thread runs, on that round whichever object of it it
\* holds, or its thread could not be started. The first two end and clear the flag
\* (finally), the last does not.
SelectionHasTheFlag ==
  LET starting == {t \in Threads : threads[t].at = "starting"} IN
  /\ Cardinality(starting) <= 1
  /\ ai.at # "none" => starting = {}
  /\ running # 0 <=> ai.at # "none" \/ starting # {}
  /\ \A t \in starting : objects[threads[t].obj].id = running
  /\ ai.at \in {"unstarted", "started"} => ai.obj = running
  /\ ai.at \in {"choosing", "done", "failed"} => objects[ai.obj].id = running

\* "A round is sent once" (docs/decisions/selection.md): two requests never both send
\* its articles, save the same one again, which is one analysis.
RoundIsSentOnce ==
  \A a, b \in sent : a.round # 0 /\ a.round = b.round /\ a.no # b.no => a.url = b.url
=============================================================================
