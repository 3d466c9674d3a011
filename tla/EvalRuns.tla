------------------------------- MODULE EvalRuns -------------------------------
(***************************************************************************)
(* The benchmarks' run loop (evaluation/runner.py, writing.py), the files a *)
(* run leaves (store.py) and the replay of one run by another (replay.py).  *)
(*                                                                         *)
(* A run is a directory.  Sessions of it follow one another: each reads     *)
(* what is finished, puts the rest through a pool of threads, and appends a *)
(* line to results.jsonl for each unit; a run that searches also appends    *)
(* what it found to evidence.jsonl, from which another run may answer       *)
(* instead of searching.  A session may be stopped, or crash between any    *)
(* two steps, or in the middle of a line.                                   *)
(***************************************************************************)
EXTENDS Integers, Sequences, FiniteSets

CONSTANTS
  Runs,         \* run directories
  SourceOf,     \* the run a replay answers from
  Rows,         \* rows of the dataset (or texts of the writing benchmark)
  Order,        \* the rows as the dataset lists them
  Workers,      \* threads a session's pool may have
  Plans,        \* bound: how each run may be configured, and its sessions
  MaxSessions,  \* bound: sessions of a run
  MaxCrashes,   \* bound: crashes
  None          \* no such thing

Searching == {"full", "retrieval"}
Modes == Searching \cup {"oracle", "closed_book", "replay", "writing"}

\* limit: the first rows only. repeats: of the writing benchmark.
Option == [fresh : BOOLEAN, retry : BOOLEAN, limit : Nat, repeats : Nat]

\* workers: of its pool (max_workers). sessions, options: bounds, how many sessions there are and how each may start.
Plan == [mode : Modes, loop : BOOLEAN, workers : SUBSET Workers,
         sessions : 0..MaxSessions, options : SUBSET Option]

ASSUME EvalRunsAssumption ==
  /\ Order \in Seq(Rows)
  /\ \A r \in Rows : \E i \in 1..Len(Order) : Order[i] = r
  /\ \A i, j \in 1..Len(Order) : Order[i] = Order[j] => i = j  \* a duplicate is refused
  /\ SourceOf \in [Runs -> Runs]
  /\ \A p \in Plans : /\ p \in [Runs -> Plan]
                      /\ \A d \in Runs : \A o \in p[d].options :
                           IF p[d].mode = "writing" THEN ~o.retry ELSE o.repeats = 1
                      /\ \A d \in Runs : p[d].loop => p[d].mode \in {"full", "retrieval", "oracle"}
  /\ MaxSessions \in Nat /\ MaxCrashes \in Nat
  /\ None \notin Rows

VARIABLES
  plan,      \* how each run is configured: part of its key, so it never changes
  results,   \* results.jsonl of each run
  evidence,  \* evidence.jsonl of each run
  manifest,  \* the sessions of run.json
  session,   \* the session in progress, or how the last one ended
  worker,    \* what each thread of the session's pool does
  crashes    \* how often a session has crashed

vars == <<plan, results, evidence, manifest, session, worker, crashes>>

-----------------------------------------------------------------------------
(* Records and files *)

\* A unit is a row, or a text and one of its repeats.
Units == Rows \X Nat

Sessions == Nat \ {0}

\* A line of results.jsonl: whether the check went through, and whether search
\* or the model was out of reach while it did; who wrote it.
Record == [id : Units, ok : BOOLEAN, unavailable : BOOLEAN, session : Sessions]

\* What a thread's recorder holds: the claim it was retrieved for, and whether
\* by the pass that is judged or by the second look's wider search.
Retrieval == [of : Units, pass : {"first", "second"}]

\* A line of evidence.jsonl.
Entry == [id : Units, kept : Retrieval, session : Sessions]

\* A line that is not JSON.
Junk == [id |-> None]

ASSUME NoneAssumption == None \notin Units \cup Retrieval \cup Record \cup Entry \cup {Junk}

\* open: the last line has no newline after it.
File(L) == [lines : Seq(L \cup {Junk}), open : BOOLEAN]
Empty == [lines |-> << >>, open |-> FALSE]

LastOf(s) == s[Len(s)]
AllButLast(s) == SubSeq(s, 1, Len(s) - 1)

\* Written after a line that has no newline, a record is glued to it.
Appended(f, line) ==
  IF f.open THEN [lines |-> Append(AllButLast(f.lines), Junk), open |-> FALSE]
  ELSE [lines |-> Append(f.lines, line), open |-> FALSE]

\* What is left of an append by a crash in the middle of it.
Torn(f) ==
  [lines |-> IF f.open THEN Append(AllButLast(f.lines), Junk) ELSE Append(f.lines, Junk),
   open |-> TRUE]

\* What a crash may leave of a file that some thread was about to append one of
\* these lines to: nothing of it, half of it, all but the newline, or all.
Interrupted(f, pending) ==
  {f} \cup UNION {{Torn(f), Appended(f, line), [Appended(f, line) EXCEPT !.open = TRUE]} :
                   line \in pending}

\* A bad line that is not the last is not a torn write: load refuses it.
Damaged(f) == \E i \in 1..(Len(f.lines) - 1) : f.lines[i] = Junk

\* Fault: the torn line is cut, but a record may still lack its newline.
MendedByCut(f) ==
  IF f.lines # << >> /\ LastOf(f.lines) = Junk
    THEN [lines |-> AllButLast(f.lines), open |-> FALSE] ELSE f

\* What load leaves of the file: a torn last line is cut off, a record that
\* lacks its newline is given one.
Mended(f) ==
  IF f.lines # << >> /\ LastOf(f.lines) = Junk
    THEN [lines |-> AllButLast(f.lines), open |-> FALSE]
    ELSE [f EXCEPT !.open = FALSE]

\* The last line for an id; lines that are not JSON are passed over.
Latest(f, id) ==
  LET at == {i \in 1..Len(f.lines) : f.lines[i].id = id}
  IN IF at = {} THEN None ELSE f.lines[CHOOSE i \in at : \A j \in at : j <= i]

IsDone(record, retry) ==
  record # None /\ record.ok /\ ~(retry /\ record.unavailable)

\* The kept retrievals, as a replay reads them: the file is not mended for it.
Snapshot(f) ==
  [r \in Rows |-> LET e == Latest(f, <<r, 0>>) IN IF e = None THEN None ELSE e.kept]
NoSnapshot == [r \in Rows |-> None]

-----------------------------------------------------------------------------
(* Sessions *)

\* How a session is over, and how far it is otherwise.
Ends == {"never", "finished", "crashed", "refused"}
Stages == {"set_aside", "set_aside_evidence", "loading", "opening", "mapping"} \cup Ends

\* n: how many there have been. todo: units no thread has begun. pending: what
\* the session set out to run. stop: no new unit is to start. snapshot: what a
\* replay answers from, read as it starts.
Session == [at : Stages, n : Nat, option : Option, stop : BOOLEAN,
            todo : Seq(Units), pending : SUBSET Units,
            snapshot : [Rows -> Retrieval \cup {None}]]

Plain == [fresh |-> FALSE, retry |-> FALSE, limit |-> 0, repeats |-> 1]

Over(d) == session[d].at \in Ends

\* A session of the manifest.
Entered == [n : Sessions, finished : BOOLEAN, stopped : BOOLEAN]

\* taken: what the recorder keeps for the thread; it outlives the unit.
Worker == [at : {"idle", "checking", "keepingEvidence", "looping", "keeping"},
           unit : Units \cup {None}, taken : Retrieval \cup {None},
           record : Record \cup {None}]
Idle == [at |-> "idle", unit |-> None, taken |-> None, record |-> None]

Init ==
  /\ plan \in Plans
  /\ results = [d \in Runs |-> Empty]
  /\ evidence = [d \in Runs |-> Empty]
  /\ manifest = [d \in Runs |-> << >>]
  /\ session = [d \in Runs |-> [at |-> "never", n |-> 0, stop |-> FALSE, todo |-> << >>,
                                pending |-> {}, snapshot |-> NoSnapshot,
                                option |-> Plain]]
  /\ worker = [d \in Runs |-> [w \in Workers |-> Idle]]
  /\ crashes = 0

OfTexts(d) == plan[d].mode = "writing"

\* What is left to do, in the order it is run: of the first rows of the dataset;
\* of the writing benchmark, all texts once, then all again.
FirstRows(o) == SubSeq(Order, 1, IF o.limit < Len(Order) THEN o.limit ELSE Len(Order))
Left(d, o, units) ==
  LET left[n \in 0..Len(units)] ==
        IF n = 0 THEN << >>
        ELSE IF IsDone(Latest(results[d], units[n]), o.retry) THEN left[n - 1]
        ELSE Append(left[n - 1], units[n])
  IN left[Len(units)]

PendingRows(d, o) == Left(d, o, [i \in 1..Len(FirstRows(o)) |-> <<Order[i], 0>>])
PendingTexts(d, o) ==
  LET n == Len(FirstRows(o))
  IN Left(d, o, [i \in 1..(o.repeats * n) |-> <<Order[((i - 1) % n) + 1], (i - 1) \div n>>])

Pending(d) ==
  LET o == session[d].option
  IN IF OfTexts(d) THEN PendingTexts(d, o) ELSE PendingRows(d, o)

Goto(d, stage) == session' = [session EXCEPT ![d].at = stage]

Start(d) ==
  \E o \in plan[d].options :
    /\ Over(d) /\ session[d].n < plan[d].sessions
    /\ plan[d].mode = "replay" => evidence[SourceOf[d]].lines # << >>
    /\ session' = [session EXCEPT ![d] =
         [at |-> IF o.fresh THEN "set_aside" ELSE "loading", n |-> session[d].n + 1,
          option |-> o, stop |-> FALSE, todo |-> << >>, pending |-> {},
          snapshot |-> IF plan[d].mode = "replay" THEN Snapshot(evidence[SourceOf[d]])
                       ELSE NoSnapshot]]
    /\ UNCHANGED <<plan, results, evidence, manifest, worker, crashes>>

\* Fault: the evidence goes first.
SetAsideBackwards(d) ==
  /\ session[d].at = "set_aside"
  /\ evidence' = [evidence EXCEPT ![d] = Empty]
  /\ Goto(d, "set_aside_evidence")
  /\ UNCHANGED <<plan, results, manifest, worker, crashes>>

\* A run over texts keeps no evidence.
AfterSetAside(d) == IF OfTexts(d) THEN "loading" ELSE "set_aside_evidence"

SetAside(d) ==
  /\ session[d].at = "set_aside"
  /\ results' = [results EXCEPT ![d] = Empty]
  /\ Goto(d, AfterSetAside(d))
  /\ UNCHANGED <<plan, evidence, manifest, worker, crashes>>

SetAsideEvidence(d) ==
  /\ session[d].at = "set_aside_evidence"
  /\ evidence' = [evidence EXCEPT ![d] = Empty]
  /\ Goto(d, "loading")
  /\ UNCHANGED <<plan, results, manifest, worker, crashes>>

\* pending() reads the results, and mends the file as it does; a damaged one
\* is refused.
Load(d) ==
  /\ session[d].at = "loading"
  /\ IF Damaged(results[d])
       THEN Goto(d, "refused") /\ UNCHANGED results
       ELSE /\ results' = [results EXCEPT ![d] = Mended(@)]
            /\ session' = [session EXCEPT
                 ![d].at = "opening", ![d].todo = Pending(d),
                 ![d].pending = {Pending(d)[i] : i \in 1..Len(Pending(d))}]
  /\ UNCHANGED <<plan, evidence, manifest, worker, crashes>>

Open(d) ==
  /\ session[d].at = "opening"
  /\ manifest' = [manifest EXCEPT ![d] =
                    Append(@, [n |-> session[d].n, finished |-> FALSE, stopped |-> FALSE])]
  /\ Goto(d, "mapping")
  /\ UNCHANGED <<plan, results, evidence, worker, crashes>>

Stop(d) ==
  /\ session[d].at = "mapping" /\ ~session[d].stop
  /\ session' = [session EXCEPT ![d].stop = TRUE]
  /\ UNCHANGED <<plan, results, evidence, manifest, worker, crashes>>

-----------------------------------------------------------------------------
(* A thread and its unit *)

At(d, w, places) == session[d].at = "mapping" /\ worker[d][w].at \in places

Take(d, w) ==
  /\ w \in plan[d].workers
  /\ At(d, w, {"idle"}) /\ session[d].todo # << >>
  /\ session' = [session EXCEPT ![d].todo = Tail(@)]
  /\ worker' = IF session[d].stop THEN worker
               ELSE [worker EXCEPT ![d][w].at = "checking",
                                   ![d][w].unit = Head(session[d].todo)]
  /\ UNCHANGED <<plan, results, evidence, manifest, crashes>>

RecordOf(d, w, ok, unavailable) ==
  [id |-> worker[d][w].unit, ok |-> ok, unavailable |-> unavailable, session |-> session[d].n]

Failed(d, w) == RecordOf(d, w, FALSE, FALSE)

\* Fault: the thread's last retrieval is still there.
StillHeld(taken) == taken

\* What the recorder holds as a claim begins: nothing of the claim before it.
Begun(taken) == None

\* Of a claim's retrievals, the recorder keeps the first.
Taken(taken, retrieval) == IF taken = None THEN retrieval ELSE taken

\* What the recorder may hold when the check returns or raises: an exception may
\* come before any retrieval; a second look may have searched again.
Held(d, w, returned) ==
  LET before == Begun(worker[d][w].taken)
      first == Taken(before, [of |-> worker[d][w].unit, pass |-> "first"])
      second == Taken(first, [of |-> worker[d][w].unit, pass |-> "second"])
  IN {first, second} \cup (IF returned THEN {} ELSE {before, worker[d][w].taken})

\* Whoever judges: a run that searches keeps the evidence of a claim that was
\* judged before its record is written.
Search(d, w) ==
  /\ At(d, w, {"checking"}) /\ plan[d].mode \in Searching
  /\ \/ \E unavailable \in BOOLEAN, held \in Held(d, w, TRUE) :
          worker' = [worker EXCEPT ![d][w].at = "keepingEvidence", ![d][w].taken = held,
                                   ![d][w].record = RecordOf(d, w, TRUE, unavailable)]
     \/ \E held \in Held(d, w, FALSE) :
          worker' = [worker EXCEPT ![d][w].at = "keeping", ![d][w].taken = held,
                                   ![d][w].record = Failed(d, w)]
  /\ UNCHANGED <<plan, results, evidence, manifest, session, crashes>>

AfterCheck(d) == IF plan[d].loop THEN "looping" ELSE "keeping"

\* From the annotator's pages, or from nothing at all.
Judge(d, w) ==
  /\ At(d, w, {"checking"}) /\ plan[d].mode \in {"oracle", "closed_book"}
  /\ \/ \E unavailable \in BOOLEAN :
          worker' = [worker EXCEPT ![d][w].at = AfterCheck(d),
                                   ![d][w].record = RecordOf(d, w, TRUE, unavailable)]
     \/ worker' = [worker EXCEPT ![d][w].at = "keeping", ![d][w].record = Failed(d, w)]
  /\ UNCHANGED <<plan, results, evidence, manifest, session, crashes>>

\* The corrector's metrics of a text; a model that cannot be reached is not ok.
JudgeText(d, w) ==
  /\ At(d, w, {"checking"}) /\ OfTexts(d)
  /\ \E record \in {RecordOf(d, w, TRUE, FALSE), Failed(d, w)} :
       worker' = [worker EXCEPT ![d][w].at = "keeping", ![d][w].record = record]
  /\ UNCHANGED <<plan, results, evidence, manifest, session, crashes>>

\* A claim that the snapshot does not have is an error, never a search.
Replay(d, w) ==
  /\ At(d, w, {"checking"}) /\ plan[d].mode = "replay"
  /\ \E ok, unavailable \in BOOLEAN :
       /\ ok => session[d].snapshot[worker[d][w].unit[1]] # None
       /\ unavailable => ok
       /\ worker' = [worker EXCEPT ![d][w].at = "keeping",
                                   ![d][w].record = RecordOf(d, w, ok, unavailable)]
  /\ UNCHANGED <<plan, results, evidence, manifest, session, crashes>>

KeepEvidence(d, w) ==
  /\ At(d, w, {"keepingEvidence"})
  /\ evidence' = IF worker[d][w].taken = None THEN evidence
                 ELSE [evidence EXCEPT ![d] =
                         Appended(@, [id |-> worker[d][w].unit, kept |-> worker[d][w].taken,
                                      session |-> session[d].n])]
  /\ worker' = [worker EXCEPT ![d][w].at = AfterCheck(d)]
  /\ UNCHANGED <<plan, results, manifest, session, crashes>>

\* The tuning loop looks again, and at the annotator's pages; what it finds is
\* set beside the first verdict.  If it raises, the claim is an error.
Loop(d, w) ==
  /\ At(d, w, {"looping"})
  /\ \E record \in {worker[d][w].record, Failed(d, w)} :
       worker' = [worker EXCEPT ![d][w].at = "keeping", ![d][w].record = record]
  /\ UNCHANGED <<plan, results, evidence, manifest, session, crashes>>

Keep(d, w) ==
  /\ At(d, w, {"keeping"})
  /\ results' = [results EXCEPT ![d] = Appended(@, worker[d][w].record)]
  /\ worker' = [worker EXCEPT ![d][w] = [Idle EXCEPT !.taken = worker[d][w].taken]]
  /\ UNCHANGED <<plan, evidence, manifest, session, crashes>>

\* Fault: a session that was stopped says it ran everything.
NeverStopped(d) == [n |-> session[d].n, finished |-> TRUE, stopped |-> FALSE]

\* The session's entry in the manifest is replaced by what became of it.
Outcome(d) == [n |-> session[d].n, finished |-> TRUE, stopped |-> session[d].stop]

Finish(d) ==
  /\ session[d].at = "mapping" /\ session[d].todo = << >>
  /\ \A w \in Workers : worker[d][w].at = "idle"
  /\ manifest' = [manifest EXCEPT ![d] =
       Append(IF LastOf(@).n = session[d].n THEN AllButLast(@) ELSE @, Outcome(d))]
  /\ Goto(d, "finished")
  /\ worker' = [worker EXCEPT ![d] = [w \in Workers |-> Idle]]
  /\ UNCHANGED <<plan, results, evidence, crashes>>

\* The process dies; a line some thread was writing may be cut anywhere.
Crash(d) ==
  /\ ~Over(d) /\ crashes < MaxCrashes
  /\ LET keeping == {w \in Workers : At(d, w, {"keeping"})}
         noting == {w \in Workers : At(d, w, {"keepingEvidence"}) /\ worker[d][w].taken # None}
     IN /\ \E f \in Interrupted(results[d], {worker[d][w].record : w \in keeping}) :
             results' = [results EXCEPT ![d] = f]
        /\ \E f \in Interrupted(evidence[d],
                      {[id |-> worker[d][w].unit, kept |-> worker[d][w].taken,
                        session |-> session[d].n] : w \in noting}) :
             evidence' = [evidence EXCEPT ![d] = f]
  /\ Goto(d, "crashed")
  /\ worker' = [worker EXCEPT ![d] = [w \in Workers |-> Idle]]
  /\ crashes' = crashes + 1
  /\ UNCHANGED <<plan, manifest>>

Working(d, w) ==
  Take(d, w) \/ Search(d, w) \/ Judge(d, w) \/ JudgeText(d, w) \/ Replay(d, w)
  \/ KeepEvidence(d, w) \/ Loop(d, w) \/ Keep(d, w)

Running(d) == SetAside(d) \/ SetAsideEvidence(d) \/ Load(d) \/ Open(d) \/ Finish(d)

Next == \E d \in Runs : \/ Start(d) \/ Running(d) \/ Stop(d) \/ Crash(d)
                        \/ \E w \in Workers : Working(d, w)

Spec == Init /\ [][Next]_vars

\* A session that goes on does its next step, and so does each of its threads:
\* a check returns or raises.  Nobody has to start, stop or crash one.
FairSpec ==
  Spec /\ \A d \in Runs : WF_vars(Running(d)) /\ \A w \in Workers : WF_vars(Working(d, w))

-----------------------------------------------------------------------------
(* Properties *)

\* The variables have the shape the code gives them.
TypeOK ==
  /\ plan \in Plans
  /\ results \in [Runs -> File(Record)]
  /\ evidence \in [Runs -> File(Entry)]
  /\ manifest \in [Runs -> Seq(Entered)]
  /\ session \in [Runs -> Session]
  /\ worker \in [Runs -> [Workers -> Worker]]
  /\ crashes \in 0..MaxCrashes

Lines(f) == {f.lines[i] : i \in 1..Len(f.lines)} \ {Junk}

\* Hours of model time are not lost by a crash, whatever line it cuts: a unit
\* that is done, as the session's options have it, is still done after any step
\* but the one that sets the results aside.
DoneStaysDone ==
  [][\A d \in Runs : \A line \in Lines(results[d]) :
       LET done(f) == IsDone(Latest(f, line.id), session[d].option.retry)
       IN session[d].at # "set_aside" /\ done(results[d]) => done(results'[d])]_vars

\* What evidence.jsonl says of a claim is what the pass that was judged found for
\* that claim: not what the thread found for the claim before it, nor what a
\* second look added.
EvidenceIsItsOwn ==
  \A d \in Runs : \A e \in Lines(evidence[d]) :
    e.kept = [of |-> e.id, pass |-> "first"]

\* Every claim a searching run has judged can be replayed, through crashes and
\* fresh starts, as long as no crash has torn a line of the evidence file.
ReplayableUnlessTorn ==
  \A d \in Runs :
    plan[d].mode \in Searching /\ (\A i \in 1..Len(evidence[d].lines) : evidence[d].lines[i] # Junk)
    => \A r \in Lines(results[d]) : r.ok => Latest(evidence[d], r.id) # None

\* What another run replays is what this one was judged on: no more, no less, and
\* for the claim it is filed under.
EvidenceCanBeReplayed == EvidenceIsItsOwn /\ ReplayableUnlessTorn

\* Every claim a searching run has judged can be replayed.  It cannot: nothing
\* mends the evidence file, so the line after a torn one is lost with it.
Replayable ==
  \A d \in Runs :
    plan[d].mode \in Searching
    => \A r \in Lines(results[d]) : r.ok => Latest(evidence[d], r.id) # None

\* What became of the n-th session: it crashed, or the manifest says that it
\* finished, and unless it was stopped each unit it set out to run has a record.
Accounted(d, n) ==
  \/ session[d].n = n /\ session[d].at = "crashed"
  \/ \E i \in 1..Len(manifest[d]) :
       /\ manifest[d][i].n = n /\ manifest[d][i].finished
       /\ \A j \in 1..Len(manifest[d]) : j # i => manifest[d][j].n # n
       /\ manifest[d][i].stopped
          \/ \A id \in session[d].pending : \E r \in Lines(results[d]) : r.id = id /\ r.session = n

\* A session that starts is accounted for in the end; in particular none is
\* refused because of what a crash left of the results file, and the manifest
\* lists each once.
EverySessionIsAccountedFor ==
  \A d \in Runs : \A n \in 1..MaxSessions :
    (session[d].n = n /\ ~Over(d)) ~> Accounted(d, n)
=============================================================================
