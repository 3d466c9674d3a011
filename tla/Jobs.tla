-------------------------------- MODULE Jobs --------------------------------
(***************************************************************************)
(* Analysis jobs: the in-memory registry, its journal on disk and the pool *)
(* that runs them (backend/src/services/job_store.py, job_journal.py,      *)
(* job_queue.py, job_runner.py and the routes that post and poll).         *)
(*                                                                         *)
(* One thread at a time works for a job: the handler that posts it, then,  *)
(* for an article, a worker of the pool (the fact-checker serialises the   *)
(* events of its own threads).  So `thread[j]` is where that thread is.    *)
(* Every method of the store changes memory under the lock and writes its  *)
(* journal line after the lock is let go: two actions here.  The journal   *)
(* is attached (LAKE_ENABLED), as it is before the first request.          *)
(***************************************************************************)
EXTENDS Integers, Sequences, FiniteSets

CONSTANTS
  Jobs,          \* job ids; each is used once (uuid4)
  Urls,          \* what comparable_url makes of the posted addresses
  NoUrl,         \* of a job not posted yet, and of a claim
  NoJob,         \* nothing in flight for an address
  Workers,       \* size of the pool (ANALYSIS_MAX_CONCURRENCY)
  KeepFinished,  \* finished jobs kept in memory (JOB_STORE_KEEP_FINISHED)
  MaxPhases,     \* bound: events a run reports after "initializing"
  MaxDeaths,     \* bound: times the process dies
  WritesMayFail  \* whether a journal line may be lost or cut short

ASSUME JobsAssumption ==
  /\ IsFiniteSet(Jobs)
  /\ NoUrl \notin Urls
  /\ NoJob \notin Jobs
  /\ Workers \in Nat \ {0}
  /\ KeepFinished \in Nat
  /\ MaxPhases \in Nat
  /\ MaxDeaths \in Nat
  /\ WritesMayFail \in BOOLEAN

VARIABLES
  memory,    \* _jobs: the status of each job held, "absent" of the others
  url,       \* the address a job is about
  flight,    \* _in_flight: the active job of an address
  finished,  \* the finished jobs in memory, by updated_at
  file,      \* the journal: each job's file
  thread,    \* where the thread that works for a job is
  queue,     \* the pool's queue
  serving,   \* whether the process runs
  deaths     \* how often it died

jobVars == <<memory, url, flight, finished, file, thread, queue, serving, deaths>>

-----------------------------------------------------------------------------
(* The journal. *)

Lines == {"created", "event", "result", "error", "torn"}

\* The whole lines of a file; `open` when the last is torn and without its
\* newline, so that whatever is appended becomes part of it.
File == [lines : Seq(Lines), open : BOOLEAN]

NoFile == [lines |-> << >>, open |-> FALSE]

\* The file after a line is written, and after it is written in part.
Whole(f, line) ==
  IF f.open THEN [f EXCEPT !.open = FALSE] ELSE [f EXCEPT !.lines = Append(@, line)]

Part(f) ==
  IF f.open THEN f ELSE [lines |-> Append(f.lines, "torn"), open |-> TRUE]

\* append never raises: a line that cannot be written is lost.
Written(f, line) ==
  {Whole(f, line)} \cup IF WritesMayFail THEN {f, Part(f)} ELSE {}

\* Fault: a run the process died in is reported as it was.
LoadAsItWas(lines) ==
  IF \A c \in DOMAIN lines : lines[c] # "created" THEN "unknown"
  ELSE IF lines[Len(lines)] = "result" THEN "done"
  ELSE IF lines[Len(lines)] = "error" THEN "failed"
  ELSE "running"

\* Fault: a torn line makes the file unreadable.
LoadWhole(lines) ==
  IF \A c \in DOMAIN lines : lines[c] # "created" THEN "unknown"
  ELSE IF \E i \in DOMAIN lines : lines[i] = "torn" THEN "unknown"
  ELSE IF lines[Len(lines)] = "result" THEN "done"
  ELSE "failed"

\* load: nothing before "created" counts, torn lines are skipped, a run with
\* no outcome was interrupted and has failed.
Load(lines) ==
  IF \A c \in DOMAIN lines : lines[c] # "created" THEN "unknown"
  ELSE IF \E c, i \in DOMAIN lines :
            /\ c < i
            /\ lines[c] = "created" /\ lines[i] = "result"
            /\ \A k \in DOMAIN lines : k > i => lines[k] = "torn"
  THEN "done"
  ELSE "failed"

ActiveStatus == {"queued", "running"}

\* get: memory first, then the journal.  "unknown" is the route's 404.
Answer(j) == IF memory[j] # "absent" THEN memory[j] ELSE Load(file[j].lines)

-----------------------------------------------------------------------------
(* Posting a job. *)

Moves(j, from, to) ==
  /\ thread[j].at = from
  /\ thread' = [thread EXCEPT ![j].at = to]

JobsInit ==
  /\ memory = [j \in Jobs |-> "absent"]
  /\ url = [j \in Jobs |-> NoUrl]
  /\ flight = [u \in Urls |-> NoJob]
  /\ finished = << >>
  /\ file = [j \in Jobs |-> NoFile]
  /\ thread = [j \in Jobs |-> [at |-> "none", phases |-> 0]]
  /\ queue = << >>
  /\ serving = TRUE
  /\ deaths = 0

\* Fault: nobody looks whether the address is in flight.
PostAnyway(j, u) ==
  /\ serving
  /\ Moves(j, "none", "posted")
  /\ memory' = [memory EXCEPT ![j] = "queued"]
  /\ url' = [url EXCEPT ![j] = u]
  /\ flight' = [flight EXCEPT ![u] = j]
  /\ UNCHANGED <<finished, file, queue, serving, deaths>>

\* get_or_create, when it creates; when it reuses a job nothing changes.
Post(j, u) ==
  /\ serving
  /\ flight[u] # NoJob => memory[flight[u]] = "absent"
  /\ Moves(j, "none", "posted")
  /\ memory' = [memory EXCEPT ![j] = "queued"]
  /\ url' = [url EXCEPT ![j] = u]
  /\ flight' = [flight EXCEPT ![u] = j]
  /\ UNCHANGED <<finished, file, queue, serving, deaths>>

\* create, for a claim: not deduplicated, worked on by its handler.
PostClaim(j) ==
  /\ serving
  /\ Moves(j, "none", "posted")
  /\ memory' = [memory EXCEPT ![j] = "queued"]
  /\ UNCHANGED <<url, flight, finished, file, queue, serving, deaths>>

\* The "created" line; then _start_job submits an article to the pool.
Submit(j) ==
  /\ Moves(j, "posted", "submitted")
  /\ \E f \in Written(file[j], "created") : file' = [file EXCEPT ![j] = f]
  /\ queue' = IF url[j] # NoUrl THEN Append(queue, j) ELSE queue
  /\ UNCHANGED <<memory, url, flight, finished, serving, deaths>>

-----------------------------------------------------------------------------
(* Running it. *)

\* The jobs a worker of the pool works for.
OnAWorker ==
  {j \in Jobs : url[j] # NoUrl /\ thread[j].at \in {"working", "reporting", "done",
                                                  "failed", "recorded"}}

\* The first event: of an article when a worker takes it, the oldest first
\* ("initializing"); of a claim in its own handler.
Start(j) ==
  /\ Moves(j, "submitted", "reporting")
  /\ \/ /\ url[j] # NoUrl
        /\ queue # << >> /\ Head(queue) = j
        /\ Cardinality(OnAWorker) < Workers
        /\ queue' = Tail(queue)
     \/ url[j] = NoUrl /\ queue' = queue
  /\ memory' = [memory EXCEPT ![j] = "running"]
  /\ UNCHANGED <<url, flight, finished, file, serving, deaths>>

\* add_event: whatever the status was, the job is running.
Event(j) ==
  /\ thread[j].at = "working"
  /\ thread[j].phases < MaxPhases
  /\ thread' = [thread EXCEPT ![j] = [at |-> "reporting", phases |-> @.phases + 1]]
  /\ memory' = [memory EXCEPT ![j] = "running"]
  /\ UNCHANGED <<url, flight, finished, file, queue, serving, deaths>>

RecordEvent(j) ==
  /\ Moves(j, "reporting", "working")
  /\ \E f \in Written(file[j], "event") : file' = [file EXCEPT ![j] = f]
  /\ UNCHANGED <<memory, url, flight, finished, queue, serving, deaths>>

\* complete and fail, under the lock: a run reports one outcome, its last
\* phase ("done", "cache_hit", "failed") or the exception that ended it.
Settle(j, outcome) ==
  /\ Moves(j, "working", outcome)
  /\ memory' = [memory EXCEPT ![j] = outcome]
  /\ flight' = [u \in Urls |-> IF flight[u] = j THEN NoJob ELSE flight[u]]
  /\ finished' = Append(finished, j)
  /\ UNCHANGED <<url, file, queue, serving, deaths>>

\* The outcome's line, written outside the lock.
RecordOutcome(j) ==
  /\ \E outcome \in {<<"done", "result">>, <<"failed", "error">>} :
       /\ Moves(j, outcome[1], "recorded")
       /\ \E f \in Written(file[j], outcome[2]) : file' = [file EXCEPT ![j] = f]
  /\ UNCHANGED <<memory, url, flight, finished, queue, serving, deaths>>

\* _evict: the finished jobs beyond the cap leave memory, oldest first.
Evict(j) ==
  LET excess == Len(finished) - KeepFinished
      out    == {finished[i] : i \in 1..excess}
  IN /\ Moves(j, "recorded", "gone")
     /\ memory' = [k \in Jobs |-> IF k \in out THEN "absent" ELSE memory[k]]
     /\ finished' = IF excess > 0 THEN SubSeq(finished, excess + 1, Len(finished)) ELSE finished
     /\ UNCHANGED <<url, flight, file, queue, serving, deaths>>

-----------------------------------------------------------------------------
(* The process: its memory and threads go, the journal stays. *)

Writing == {j \in Jobs : thread[j].at \in {"posted", "reporting", "done", "failed"}}

\* A line may be cut short; one written whole is a step before the crash.
ServerDies ==
  /\ serving
  /\ deaths < MaxDeaths
  /\ \E cut \in SUBSET Writing :
       file' = [j \in Jobs |-> IF j \in cut THEN Part(file[j]) ELSE file[j]]
  /\ serving' = FALSE
  /\ deaths' = deaths + 1
  /\ memory' = [j \in Jobs |-> "absent"]
  /\ flight' = [u \in Urls |-> NoJob]
  /\ finished' = << >>
  /\ queue' = << >>
  /\ thread' = [j \in Jobs |-> IF thread[j].at = "none" THEN thread[j]
                               ELSE [thread[j] EXCEPT !.at = "gone"]]
  /\ UNCHANGED url

ServerStarts ==
  /\ ~serving
  /\ serving' = TRUE
  /\ UNCHANGED <<memory, url, flight, finished, file, thread, queue, deaths>>

-----------------------------------------------------------------------------

Work(j) ==
  \/ Submit(j)
  \/ Start(j)
  \/ Event(j)
  \/ RecordEvent(j)
  \/ \E outcome \in {"done", "failed"} : Settle(j, outcome)
  \/ RecordOutcome(j)
  \/ Evict(j)

JobsNext ==
  \/ \E j \in Jobs : (\E u \in Urls : Post(j, u)) \/ PostClaim(j) \/ Work(j)
  \/ ServerDies
  \/ ServerStarts

JobsSpec == JobsInit /\ [][JobsNext]_jobVars

\* Threads go on with the job they work for: scraping, searches and model
\* calls all have timeouts, so a phase ends.
JobsFairness == \A j \in Jobs : WF_jobVars(Work(j))

JobsFairSpec == JobsSpec /\ JobsFairness

-----------------------------------------------------------------------------
(* What must hold. *)

Places == {"none", "posted", "submitted", "reporting", "working", "done",
           "failed", "recorded", "gone"}

\* Types of every variable: the registry, the journal, the threads, the pool.
JobsOK ==
  /\ memory \in [Jobs -> {"absent", "queued", "running", "done", "failed"}]
  /\ url \in [Jobs -> Urls \cup {NoUrl}]
  /\ flight \in [Urls -> Jobs \cup {NoJob}]
  /\ finished \in Seq(Jobs)
  /\ file \in [Jobs -> File]
  /\ thread \in [Jobs -> [at : Places, phases : 0..MaxPhases]]
  /\ queue \in Seq(Jobs)
  /\ serving \in BOOLEAN
  /\ deaths \in 0..MaxDeaths

\* The places of a thread that still owes the job its outcome.
Owing == {"posted", "submitted", "reporting", "working"}

\* Two requests for one address never run the pipeline twice at once,
\* whatever finished, was evicted or crashed in between.
OneRunPerUrl ==
  \A j, k \in Jobs :
    /\ url[j] = url[k] /\ url[j] # NoUrl
    /\ thread[j].at \in Owing /\ thread[k].at \in Owing
    => j = k

\* An address is in flight exactly while its job is queued or running: a job
\* that ended never keeps its address from being analysed again.
FlightIsActive ==
  \A u \in Urls, j \in Jobs :
    flight[u] = j <=> url[j] = u /\ thread[j].at \in Owing

\* A poller is told "queued" or "running" exactly while a thread works
\* towards the outcome: no eviction, crash or lost line leaves a job that
\* looks alive with nobody behind it, or takes a live one out of memory,
\* where add_event, complete and fail would drop what it reports.
ActiveMeansAlive ==
  \A j \in Jobs : Answer(j) \in ActiveStatus <=> thread[j].at \in Owing

\* Memory holds the finished jobs the cap allows, and one for each thread
\* between its outcome and its eviction.
MemoryIsBounded ==
  Len(finished) <= KeepFinished
    + Cardinality({j \in Jobs : thread[j].at \in {"done", "failed", "recorded"}})

\* Once a job's outcome is on disk - its "created" line and its outcome, both
\* whole - every later poll gives it, through eviction, torn lines of other
\* writes, crash and restart.
OutcomeStands ==
  [][\A j \in Jobs :
       LET lines == file[j].lines
       IN (/\ \E c \in DOMAIN lines : lines[c] = "created"
           /\ \E i \in DOMAIN lines : lines[i] \in {"result", "error"})
          => Answer(j)' = Answer(j)]_jobVars

\* What a poller sees moves on: a run that ended, was evicted or was cut off
\* is never seen queued or running again.
NeverAliveAgain ==
  [][\A j \in Jobs :
       (thread[j].at # "none" /\ Answer(j) \notin ActiveStatus)
       => Answer(j)' \notin ActiveStatus]_jobVars

\* Whoever polls stops: a job posted ends in an answer that is not "queued"
\* or "running", whatever waits in front of it and whatever crashes.
PollingEnds ==
  \A j \in Jobs : Answer(j) \in ActiveStatus ~> Answer(j) \notin ActiveStatus

\* The comment of `complete`: the outcome is journalled before the job can be
\* evicted, so what is evicted is never missing its outcome.
JournalledBeforeEvicted ==
  \A j \in Jobs :
    thread[j].at \in {"done", "failed"} => memory[j] # "absent"
=============================================================================
