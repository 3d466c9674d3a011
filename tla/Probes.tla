------------------------------- MODULE Probes -------------------------------
(***************************************************************************)
(* What the system knows about its sources: the counts of every request    *)
(* (services/scraper/request_stats.py), the source probe                   *)
(* (source_probe.py) and the source check (source_check.py).               *)
(*                                                                         *)
(* A probe runs on a background thread, one at a time; a check runs in the *)
(* thread of its POST, and nothing stops two from overlapping.  Either     *)
(* reads several sources at once, each on a thread of its own: it finds    *)
(* the source's links, then extracts a sample of them one after another.   *)
(* The extractor answers only "article or None", so why is read back, by   *)
(* URL, from what it recorded: a probe keeps a recorder for each source, a *)
(* check uses one for the life of the process.  Every record is counted in *)
(* the one store of the process, which is written to its file each time.   *)
(*                                                                         *)
(* A source's discovery is one record here; URLs and times are not kept in *)
(* the counts, only outcomes.                                              *)
(***************************************************************************)
EXTENDS Naturals, Sequences, FiniteSets, SequencesExt, TLC

CONSTANTS Sources,
          Feeds,        \* what a feed may list: a set of sequences of URLs
          Sections,     \* what a source's topic pages may list
          MaxRuns,      \* bound: probes and checks started
          PerSource,    \* articles extracted per source
          MaxFailures,  \* bound: saves and searches that fail
          MaxCrashes    \* bound: restarts of the process

ASSUME ProbesAssumption ==
    /\ MaxRuns \in Nat /\ PerSource \in Nat /\ MaxFailures \in Nat /\ MaxCrashes \in Nat

VARIABLES
    store,    \* the counts in memory: [since, counts]
    file,     \* the counts on disk
    writer,   \* the thread that holds the store's lock, or Nobody
    snapshot, \* [threads -> what each is about to write]
    recorded, \* by_url of each recorder: [recorder -> [url -> outcome]]
    run,      \* [Probes \cup Checks -> "idle", "reading"]
    task,     \* [run, source -> where its thread is]
    probe,    \* the singleton SourceProbe: [running, error, report]
    saved,    \* source_probe.json
    checked,  \* last_run of the SourceCheckService; history: the sources read whole
    runs, failures, crashes
probeVars == <<store, file, writer, snapshot, recorded, run, task, probe, saved, checked,
          runs, failures, crashes>>

\* The n-th run started is a probe, n, or a check, MaxRuns + n.
Probes == 1..MaxRuns
Checks == (MaxRuns + 1)..(2 * MaxRuns)

RequestOutcomes == {"ok", "failed"}
NoOutcome == "none"
OfChecks == << >>
Nobody == <<"nobody">>
Runs == Probes \cup Checks
SourceThreads == Runs \X Sources
NoCounts == [o \in RequestOutcomes |-> 0]
NoStore == [since |-> 0, counts |-> NoCounts]
NoReport == [n |-> 0, status |-> << >>]

\* What an extraction comes to: whether it gave an article, whether that had title,
\* author and date, and what it recorded.  It may raise before it records, or after.
Extractions ==
    {[news |-> TRUE,  complete |-> TRUE,  outcome |-> "ok"],
     [news |-> TRUE,  complete |-> FALSE, outcome |-> "ok"],
     [news |-> FALSE, complete |-> FALSE, outcome |-> "failed"],
     [news |-> FALSE, complete |-> FALSE, outcome |-> NoOutcome],
     [news |-> FALSE, complete |-> FALSE, outcome |-> "ok"]}

NoTask == [at |-> "idle", feed |-> << >>, sections |-> << >>, left |-> << >>,
         saw |-> << >>, sample |-> << >>]
----------------------------------------------------------------------------
(* The counts of every request *)

\* Fault: the snapshot is written after the lock is given back.
GiveBackFirst(t) == Nobody

\* The lock is held from the count to the end of the write.
HeldWhileSaving(t) == t

\* A record: by URL in the recorder, then in the counts of the process.
Counted(t, o) ==
    /\ writer = Nobody
    /\ store' = [store EXCEPT !.counts[o] = @ + 1]
    /\ snapshot' = [snapshot EXCEPT ![t] = store']
    /\ writer' = HeldWhileSaving(t)

\* The snapshot goes to a temporary file that replaces the old one.  A write that
\* fails is logged, and the next one brings the file up to date.
Save(t) ==
    /\ \/ file' = snapshot[t] /\ UNCHANGED failures
       \/ failures < MaxFailures /\ failures' = failures + 1 /\ UNCHANGED file
    /\ snapshot' = [snapshot EXCEPT ![t] = NoStore]
    /\ writer' = IF writer = t THEN Nobody ELSE writer
----------------------------------------------------------------------------
(* A source's thread *)

IsProbe(t) == t[1] \in Probes

\* The first of one, the first of the other, the second of one...
Alternated(a, b) ==
    LET both == Zip(a, b)
    IN  FlattenSeq(both) \o SubSeq(a, Len(both) + 1, Len(a)) \o SubSeq(b, Len(both) + 1, Len(b))

First(s, n) == SubSeq(s, 1, IF n < Len(s) THEN n ELSE Len(s))

\* What the topic pages add to the feed.
Extra(feed, sections) == SelectSeq(sections, LAMBDA u : u \notin ToSet(feed))

\* The probe reads the feed and always the topic pages; the check takes the links
\* of the first step that has any.  A discovery that raises found nothing.
Discover(t) ==
    /\ task[t].at = "discover"
    /\ \E feed \in Feeds, sections \in Sections :
          LET links == IF IsProbe(t) THEN Alternated(feed, Extra(feed, sections))
                       ELSE IF feed # << >> THEN feed ELSE sections
          IN  /\ Counted(t, IF links = << >> THEN "failed" ELSE "ok")
              /\ task' = [task EXCEPT ![t] = [NoTask EXCEPT
                            !.at = "found", !.feed = feed, !.sections = sections,
                            !.left = First(links, PerSource)]]
    /\ UNCHANGED <<file, recorded, run, probe, saved, checked, runs, failures, crashes>>

\* Fault: one recorder for every source of a probe.
OneRecorder(t) == IF IsProbe(t) THEN <<t[1]>> ELSE OfChecks

\* A probe's source has its own recorder, the checks share theirs.
Recorder(t) == IF IsProbe(t) THEN t ELSE OfChecks

RecordersIn == {Recorder(t) : t \in SourceThreads} \cup {OneRecorder(t) : t \in SourceThreads}

\* The outcome last recorded of a URL is the one kept.
With(known, url, o) ==
    [u \in DOMAIN known \cup {url} |-> IF u = url THEN o ELSE known[u]]

\* The extractor records what the page came to, unless it raised before.
Extract(t) ==
    /\ task[t].at = "sample" /\ task[t].left # << >>
    /\ \E x \in Extractions :
          /\ task' = [task EXCEPT ![t].saw = Append(@, x),
                                  ![t].at = IF x.outcome = NoOutcome THEN "read" ELSE "saving"]
          /\ IF x.outcome = NoOutcome
             THEN UNCHANGED <<recorded, store, writer, snapshot>>
             ELSE /\ recorded' = [recorded EXCEPT
                                    ![Recorder(t)] = With(@, Head(task[t].left), x.outcome)]
                  /\ Counted(t, x.outcome)
    /\ UNCHANGED <<file, run, probe, saved, checked, runs, failures, crashes>>

\* The rest of the record, still under the store's lock.
Store(t) ==
    /\ task[t].at \in {"found", "saving"}
    /\ Save(t)
    /\ task' = [task EXCEPT ![t].at = IF @ = "found" THEN "sample" ELSE "read"]
    /\ UNCHANGED <<store, recorded, run, probe, saved, checked, runs, crashes>>

\* What is known of the page under its URL by now.
Seen(t) ==
    LET known == recorded[Recorder(t)]  url == Head(task[t].left)
    IN  IF url \in DOMAIN known THEN known[url] ELSE NoOutcome

\* The sample's line: what the recorder holds for the URL, beside the article.  An
\* extraction of a check that raised is an error, whatever the recorder holds.
Read(t) ==
    /\ task[t].at = "read"
    /\ LET x == Last(task[t].saw)
           raised == ~x.news /\ x.outcome # "failed"
           known == Seen(t)
           outcome == IF raised /\ (~IsProbe(t) \/ known = NoOutcome) THEN "failed"
                      ELSE IF known # NoOutcome THEN known
                      ELSE IF x.news THEN "ok" ELSE "failed"
       IN  task' = [task EXCEPT
              ![t].sample = Append(@, [news |-> x.news, complete |-> x.complete,
                                       outcome |-> outcome]),
              ![t].left = Tail(@), ![t].at = "sample"]
    /\ UNCHANGED <<store, file, writer, snapshot, recorded, run, probe, saved, checked,
                   runs, failures, crashes>>

SampleRead(t) == task[t].at = "sample" /\ task[t].left = << >>
----------------------------------------------------------------------------
(* What a source is called *)

Count(s, Test(_)) == Cardinality({i \in DOMAIN s : Test(s[i])})

\* classify_source: `up` needs links in the feed and half the sample.
Classify(k) ==
    LET extracted == Count(k.sample, LAMBDA x : x.news)
    IN  IF \/ k.feed = << >> /\ k.sections = << >>
           \/ k.sample # << >> /\ extracted = 0 THEN "down"
        ELSE IF \/ k.feed = << >> \/ k.sample = << >>
                \/ 2 * extracted < Len(k.sample) THEN "degraded"
        ELSE "up"

\* Fault: an article without its title, author or date counts as whole.
NothingMissing(x) == FALSE

\* A sample's missing metadata, asked only of one whose outcome is ok.
Missing(x) == ~x.complete

\* SourceCheck.verdict, read from the recorded outcomes.
Verdict(k) ==
    LET ok == {i \in DOMAIN k.sample : k.sample[i].outcome = "ok"}
    IN  IF ok = {} THEN "broken"
        ELSE IF ok # DOMAIN k.sample \/ \E i \in ok : Missing(k.sample[i]) THEN "partial"
        ELSE "ok"
----------------------------------------------------------------------------
(* A run *)

Launch(r, S) ==
    /\ run' = [run EXCEPT ![r] = "reading"]
    /\ task' = [t \in SourceThreads |-> IF t[1] # r THEN task[t]
                                  ELSE IF t[2] \in S THEN [NoTask EXCEPT !.at = "discover"]
                                  ELSE NoTask]
    /\ runs < MaxRuns /\ runs' = runs + 1

\* False, a 409, while one is running.
MayProbe == ~probe.running

\* POST /scraper/probe, for all the sources or some of them.
StartProbe ==
    /\ MayProbe
    /\ \E r \in Probes, S \in SUBSET Sources :
          /\ S # {} /\ r = runs + 1
          /\ Launch(r, S)
    /\ probe' = [probe EXCEPT !.running = TRUE, !.error = FALSE]
    /\ recorded' = [x \in RecordersIn |->
                        IF x = OfChecks THEN recorded[x] ELSE << >>]
    /\ UNCHANGED <<store, file, writer, snapshot, saved, checked, failures, crashes>>

SourcesOf(r) == {s \in Sources : task[<<r, s>>].at # "idle"}
Done(r) == run[r] = "reading" /\ \A s \in SourcesOf(r) : SampleRead(<<r, s>>)

Report(r, Call(_)) == [n |-> r, status |-> [s \in SourcesOf(r) |-> Call(task[<<r, s>>])]]

RunEnded(r) == /\ run' = [run EXCEPT ![r] = "idle"]
            /\ task' = [t \in SourceThreads |-> IF t[1] = r THEN NoTask ELSE task[t]]

\* Every source is in and the search engine was asked: the report is shown, and
\* written to its file if it can be; the probe may be started again.
FinishProbe(r) ==
    /\ Done(r) /\ RunEnded(r)
    /\ probe' = [probe EXCEPT !.running = FALSE, !.report = Report(r, Classify)]
    /\ \/ saved' = Report(r, Classify) /\ UNCHANGED failures
       \/ failures < MaxFailures /\ failures' = failures + 1 /\ UNCHANGED saved
    /\ UNCHANGED <<store, file, writer, snapshot, recorded, checked, runs, crashes>>

\* Fault: the flag is cleared only when the run succeeded.
ErrorKept == [probe EXCEPT !.error = TRUE]

\* The finally of the background thread.
ErrorShown == [probe EXCEPT !.error = TRUE, !.running = FALSE]

\* Something outside a source's own steps raised: there is no new report.
FailProbe(r) ==
    /\ Done(r) /\ RunEnded(r) /\ failures < MaxFailures
    /\ probe' = ErrorShown
    /\ failures' = failures + 1
    /\ UNCHANGED <<store, file, writer, snapshot, recorded, saved, checked, runs, crashes>>

\* POST /sources/check.
StartCheck ==
    /\ \E r \in Checks, S \in SUBSET Sources :
          S # {} /\ r = MaxRuns + runs + 1 /\ Launch(r, S)
    /\ UNCHANGED <<store, file, writer, snapshot, recorded, probe, saved, checked, failures, crashes>>

FinishCheck(r) ==
    /\ Done(r) /\ RunEnded(r)
    /\ checked' = [report |-> Report(r, Verdict),
                   whole |-> {s \in SourcesOf(r) : \A i \in DOMAIN task[<<r, s>>].saw :
                                                    task[<<r, s>>].saw[i].complete}]
    /\ UNCHANGED <<store, file, writer, snapshot, recorded, probe, saved, runs, failures, crashes>>

\* The process ends and starts again: threads and recorders are gone, the counts
\* are the file's - none, from now on, if it cannot be read - and the report is the
\* one on disk.
Restart ==
    /\ crashes < MaxCrashes /\ crashes' = crashes + 1
    /\ \E readable \in BOOLEAN :
          store' = IF readable THEN file
                   ELSE [since |-> crashes + 1, counts |-> NoCounts]
    /\ writer' = Nobody /\ snapshot' = [t \in SourceThreads |-> NoStore]
    /\ recorded' = [x \in RecordersIn |-> << >>]
    /\ run' = [r \in Runs |-> "idle"]
    /\ task' = [t \in SourceThreads |-> NoTask]
    /\ probe' = [running |-> FALSE, error |-> FALSE, report |-> saved]
    /\ checked' = [report |-> NoReport, whole |-> {}]
    /\ UNCHANGED <<file, saved, runs, failures>>

ProbesInit ==
    /\ store = NoStore /\ file = NoStore /\ writer = Nobody
    /\ snapshot = [t \in SourceThreads |-> NoStore]
    /\ recorded = [x \in RecordersIn |-> << >>]
    /\ run = [r \in Runs |-> "idle"] /\ task = [t \in SourceThreads |-> NoTask]
    /\ probe = [running |-> FALSE, error |-> FALSE, report |-> NoReport]
    /\ saved = NoReport
    /\ checked = [report |-> NoReport, whole |-> {}]
    /\ runs = 0 /\ failures = 0 /\ crashes = 0

ProbesNext ==
    \/ StartProbe \/ StartCheck \/ Restart
    \/ \E t \in SourceThreads : Discover(t) \/ Extract(t) \/ Store(t) \/ Read(t)
    \/ \E r \in Probes : FinishProbe(r) \/ FailProbe(r)
    \/ \E r \in Checks : FinishCheck(r)

ProbesSpec == ProbesInit /\ [][ProbesNext]_probeVars
----------------------------------------------------------------------------
(* What they must guarantee *)

\* The counts survive: the file is never replaced by an older snapshot of the same
\* counts, however the requests of several threads interleave, writes fail and the
\* process restarts; only a file that could not be read at the start is begun anew.
CountsNeverGoBack ==
    [][file'.since = file.since =>
          \A o \in RequestOutcomes : file'.counts[o] >= file.counts[o]]_probeVars

\* A probe says why: each line of a sample holds what its own extraction recorded,
\* though the sources of a run, and checks beside it, read the same pages at once.
ProbesSayWhatTheySaw ==
    \A t \in Probes \X Sources : \A i \in DOMAIN task[t].sample :
        task[t].saw[i].outcome \in {NoOutcome, task[t].sample[i].outcome}

\* A working source works: whatever another check left in the shared recorder, a
\* source is reported "ok" only if each page of its sample gave a whole article.
OkMeansWhole ==
    \A s \in DOMAIN checked.report.status :
        checked.report.status[s] = "ok" => s \in checked.whole

\* The page that polls the probe is never stuck nor misled, and no site is asked by
\* two probes: `running` says whether a probe is, after failed runs and restarts too,
\* and no two ever are.
OneProbeShown ==
    /\ probe.running = (\E r \in Probes : run[r] # "idle")
    /\ Cardinality({r \in Probes : run[r] # "idle"}) <= 1

\* What the page of the sources shows of a probe is what happened, to whoever polls
\* it and to whoever started it.
ProbesAreTrue == ProbesSayWhatTheySaw /\ OkMeansWhole /\ OneProbeShown

\* What the check's own recorder says of its purpose: why an article is missing.
ChecksSayWhatTheySaw ==
    \A t \in Checks \X Sources : \A i \in DOMAIN task[t].sample :
        task[t].saw[i].outcome = "failed" => task[t].sample[i].outcome = "failed"
=============================================================================
