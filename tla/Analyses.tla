------------------------------- MODULE Analyses -------------------------------
(***************************************************************************)
(* An article's way through AnalysisService (services/analysis_service.py): *)
(* the result cache, the scrape, the lake's three layers written as their   *)
(* stages complete (repositories/), admission and the corpus of articles    *)
(* already admitted (services/admission/), the fact-check, and the edition's *)
(* graph with its resynchronisation from the lake (services/graph/).        *)
(*                                                                         *)
(* Analyses run side by side: on the workers of posted jobs, and on those   *)
(* of an ingestion.  Every write may fail on its own, and the process may   *)
(* die between any two steps.                                               *)
(***************************************************************************)
EXTENDS Integers, FiniteSets

CONSTANTS
  Runs,          \* analyses
  Urls,          \* articles
  StoryOf,       \* what an article tells: copies of one story have one
  Blocking,      \* stories that a fact-check finds FALSE or MISLEADING now and then
  Requests,      \* bound: what each analysis may be asked: [url, edition, force]
  MaxTroubles,   \* bound: calls, reads and writes that fail, and crashes
  Editions,      \* editions that are analysed here
  HasGraph,      \* editions that have a graph of their own
  NoRun          \* no analysis

Request == [url : Urls, edition : Editions, force : BOOLEAN]

ASSUME AnalysesAssumption ==
  /\ IsFiniteSet(Runs)
  /\ Requests \in [Runs -> SUBSET Request]
  /\ Editions \subseteq {"positive", "devastating"} /\ HasGraph \subseteq Editions
  /\ Blocking \subseteq {StoryOf[u] : u \in Urls}
  /\ MaxTroubles \in Nat
  /\ NoRun \notin Runs

VARIABLES
  run,       \* each analysis
  lake,      \* the records of the three layers
  manifest,  \* how often the audit log names each record
  cache,     \* the kept result of each article and edition
  corpus,    \* articles remembered as admitted (the vector store)
  graph,     \* what each edition's graph says of each article
  sync,      \* a resynchronisation of a graph
  clock,     \* moments stamped on reports and records
  faults,    \* failures so far
  crashes    \* crashes so far

stored == <<lake, manifest, cache, corpus, graph>>
vars == <<run, lake, manifest, cache, corpus, graph, sync, clock, faults, crashes>>

Layers == {"raw", "processed", "exploitation"}

\* Record ids are made of the layer, the extraction's article id and the run.
Ids == Layers \X Runs

\* An admitted article has been checked (or, in the other edition, left alone).
Report == [passed : BOOLEAN, duplicate : BOOLEAN, blocking : BOOLEAN, checked : Nat]
NoReport == [passed |-> FALSE, duplicate |-> FALSE, blocking |-> FALSE, checked |-> 0]

\* parent: whether the record names the one it derives from. report: what is
\* attached to the processed record. produced: when the record was made.
Record == [url : Urls, edition : Editions, parent : BOOLEAN, report : Report,
           publishable : BOOLEAN, produced : Nat]
NoRecord == [url |-> NoRun]

Stages == {"waiting", "storingRaw", "storingProcessed", "admitting", "checking",
           "storingReport", "storingServed", "storingGraph", "caching"}
Ends == {"hit", "failed", "done", "dead"}

\* held: layers whose write returned a record. hasRun: a lake run was started.
\* beside: analyses admitted, and not yet remembered, when this one was.
Run == [at : Stages \cup Ends, request : Request \cup {NoRun}, hasRun : BOOLEAN,
        held : SUBSET Layers, report : Report, beside : SUBSET Runs]

Waiting == [at |-> "waiting", request |-> NoRun, hasRun |-> FALSE, held |-> {},
            report |-> NoReport, beside |-> {}]

\* A result is kept with the run that made it and what it says of its storage.
Entry == [run : Runs, persisted : BOOLEAN]
NoEntry == [run |-> NoRun, persisted |-> FALSE]

\* The pipeline's part of an article's node: the run that wrote it last.
Node == [run : Runs \cup {NoRun}, checked : Nat]
NoNode == [run |-> NoRun, checked |-> 0]

\* todo: records a resynchronisation has listed and still writes.
Sync == [edition : Editions \cup {NoRun}, todo : SUBSET Runs]
NoSync == [edition |-> NoRun, todo |-> {}]

Init ==
  /\ run = [r \in Runs |-> Waiting]
  /\ lake = [id \in Ids |-> NoRecord]
  /\ manifest = [id \in Ids |-> 0]
  /\ cache = [k \in Urls \X Editions |-> NoEntry]
  /\ corpus = {}
  /\ graph = [e \in HasGraph |-> [u \in Urls |-> NoNode]]
  /\ sync = NoSync
  /\ clock = 0 /\ faults = 0 /\ crashes = 0

Url(r) == run[r].request.url
Edition(r) == run[r].request.edition
Key(r) == <<Url(r), Edition(r)>>

At(r, stage) == run[r].at = stage
Goto(r, stage) == run' = [run EXCEPT ![r].at = stage]

\* Each failure counts against the bound.
Fails == faults + crashes < MaxTroubles /\ faults' = faults + 1

-----------------------------------------------------------------------------
(* From the request to the checked article *)

\* The cache is asked first, unless the caller wants a fresh analysis; the key is
\* the article and the effective thresholds, the edition among them.
HasResult(q) == cache[<<q.url, q.edition>>] # NoEntry

\* A scrape that fails ends the analysis with an error, which is never cached; a
\* lake run that cannot be started is told, and nothing will be stored.
Begin(r) ==
  \E q \in Requests[r] :
    /\ At(r, "waiting")
    /\ \/ /\ ~q.force /\ HasResult(q)
          /\ run' = [run EXCEPT ![r].at = "hit", ![r].request = q]
          /\ UNCHANGED faults
       \/ /\ q.force \/ ~HasResult(q)
          /\ \/ /\ run' = [run EXCEPT ![r].at = "storingRaw", ![r].request = q,
                                      ![r].hasRun = TRUE]
                /\ UNCHANGED faults
             \/ Fails /\ run' = [run EXCEPT ![r].at = "storingRaw", ![r].request = q]
             \/ Fails /\ run' = [run EXCEPT ![r].at = "failed", ![r].request = q]
    /\ UNCHANGED <<stored, sync, clock, crashes>>

\* Fault: the line is written first.
LoggedFirst(r, layer, record, next) ==
  /\ \/ /\ lake' = [lake EXCEPT ![<<layer, r>>] = record]
        /\ manifest' = [manifest EXCEPT ![<<layer, r>>] = @ + 1]
        /\ run' = [next EXCEPT ![r].held = @ \cup {layer}]
        /\ UNCHANGED faults
     \/ Fails /\ run' = next /\ UNCHANGED <<lake, manifest>>
     \/ /\ Fails /\ run' = next /\ UNCHANGED lake
        /\ manifest' = [manifest EXCEPT ![<<layer, r>>] = @ + 1]

\* JsonFileLakeBackend.write: the file is replaced, then the manifest gets a line.
\* It may raise before the one or between the two, and then returns no record.
Write(r, layer, record, next) ==
  /\ \/ /\ lake' = [lake EXCEPT ![<<layer, r>>] = record]
        /\ manifest' = [manifest EXCEPT ![<<layer, r>>] = @ + 1]
        /\ run' = [next EXCEPT ![r].held = @ \cup {layer}]
        /\ UNCHANGED faults
     \/ Fails /\ run' = next /\ UNCHANGED <<lake, manifest>>
     \/ Fails /\ run' = next /\ UNCHANGED manifest
        /\ lake' = [lake EXCEPT ![<<layer, r>>] = record]

\* A layer is written as its stage completes; without a run there is nothing to
\* write, and a failure is told and does not stop the analysis.
Store(r, layer, record, next) ==
  /\ IF run[r].hasRun THEN Write(r, layer, record, next)
     ELSE run' = next /\ UNCHANGED <<lake, manifest, faults>>
  /\ UNCHANGED <<cache, corpus, graph, sync, crashes>>

RecordOf(r, parent, report) ==
  [url |-> Url(r), edition |-> Edition(r), parent |-> parent, report |-> report,
   publishable |-> FALSE, produced |-> 0]

After(r, stage) == [run EXCEPT ![r].at = stage]

StoreRaw(r) ==
  /\ At(r, "storingRaw")
  /\ Store(r, "raw", RecordOf(r, FALSE, NoReport), After(r, "storingProcessed"))
  /\ UNCHANGED clock

\* An exception in the enrichment, as in the fact-check below, fails the job.
StoreProcessed(r) ==
  /\ At(r, "storingProcessed")
  /\ \/ Store(r, "processed", RecordOf(r, "raw" \in run[r].held, NoReport), After(r, "admitting"))
     \/ Goto(r, "failed") /\ Fails /\ UNCHANGED <<stored, sync, crashes>>
  /\ UNCHANGED clock

-----------------------------------------------------------------------------
(* Admission, the fact-check and what is remembered *)

\* The duplicate check searches the corpus, past the article itself.
Duplicate(r) == \E u \in corpus : u # Url(r) /\ StoryOf[u] = StoryOf[Url(r)]

\* Admitted and not yet remembered: the check runs meanwhile, for minutes.
Checking == {s \in Runs : run[s].at = "checking"}

\* Topic and tone may keep an article out too.
Admit(r) ==
  /\ At(r, "admitting")
  /\ \/ /\ ~Duplicate(r)
        /\ run' = [run EXCEPT ![r].at = "checking", ![r].beside = Checking]
        /\ UNCHANGED clock
     \/ /\ clock' = clock + 1
        /\ run' = [run EXCEPT ![r].at = "storingReport",
             ![r].report = [NoReport EXCEPT !.duplicate = Duplicate(r), !.checked = clock + 1]]
  /\ UNCHANGED <<stored, sync, faults, crashes>>

Verdicts(r) ==
  IF Edition(r) = "positive" /\ StoryOf[Url(r)] \in Blocking THEN BOOLEAN ELSE {FALSE}

\* Fault: only what was fact-checked is remembered.
RememberChecked(r) ==
  /\ corpus' = IF Edition(r) = "positive" THEN corpus \cup {Url(r)} ELSE corpus
  /\ UNCHANGED faults

\* One point per article: what is stored of it is deleted, then it is stored.  A
\* failure of either is only logged.
Remember(r) ==
  \/ corpus' = corpus \cup {Url(r)} /\ UNCHANGED faults
  \/ corpus' = corpus \ {Url(r)} /\ Fails
  \/ UNCHANGED corpus /\ Fails

\* The Devastating edition is not fact-checked: the report says nobody did.  Only
\* after its check is an article remembered.
Check(r) ==
  /\ At(r, "checking")
  /\ \/ /\ clock' = clock + 1
        /\ \E blocking \in Verdicts(r) :
             run' = [run EXCEPT ![r].at = "storingReport", ![r].report =
               [passed |-> TRUE, duplicate |-> FALSE, blocking |-> blocking,
                checked |-> clock + 1]]
        /\ Remember(r)
     \/ /\ Edition(r) = "positive" /\ Goto(r, "failed") /\ Fails
        /\ UNCHANGED <<clock, corpus>>
  /\ UNCHANGED <<lake, manifest, cache, graph, sync, crashes>>

-----------------------------------------------------------------------------
(* What is stored of it *)

\* The processed record is written again, with the report attached.
StoreReport(r) ==
  /\ At(r, "storingReport")
  /\ Store(r, "processed", RecordOf(r, "raw" \in run[r].held, run[r].report),
           After(r, "storingServed"))
  /\ UNCHANGED clock

\* Publishable: admitted, and not found wrong.
Publishable(report) == report.passed /\ ~report.blocking

StoreServed(r) ==
  /\ At(r, "storingServed")
  /\ Store(r, "exploitation",
           [RecordOf(r, "processed" \in run[r].held, NoReport)
              EXCEPT !.publishable = Publishable(run[r].report), !.produced = clock + 1],
           After(r, "storingGraph"))
  /\ clock' = clock + 1

\* What the result says of its storage: whether each layer returned a record.
Persisted(r) == run[r].held = Layers

StoreGraph(r) ==
  /\ At(r, "storingGraph")
  /\ Goto(r, "caching")
  /\ IF Edition(r) \in HasGraph
       THEN \/ /\ graph' = [graph EXCEPT ![Edition(r)][Url(r)] =
                              [run |-> r, checked |-> run[r].report.checked]]
               /\ UNCHANGED faults
            \/ Fails /\ UNCHANGED graph
       ELSE UNCHANGED <<graph, faults>>
  /\ UNCHANGED <<lake, manifest, cache, corpus, sync, clock, crashes>>

\* The result is kept whatever became of its storage.
SetCache(r) ==
  /\ At(r, "caching")
  /\ \/ /\ cache' = [cache EXCEPT ![Key(r)] = [run |-> r, persisted |-> Persisted(r)]]
        /\ UNCHANGED faults
     \/ Fails /\ UNCHANGED cache
  /\ Goto(r, "done")
  /\ UNCHANGED <<lake, manifest, corpus, graph, sync, clock, crashes>>

-----------------------------------------------------------------------------
(* Resynchronisation of a graph from the lake *)

\* Records with a report, of the edition.
Verified(e) ==
  {r \in Runs : LET p == lake[<<"processed", r>>]
                IN p # NoRecord /\ p.report # NoReport /\ p.edition = e}

\* Of each article, the run that was checked last.
Newest(e) ==
  {r \in Verified(e) : \A s \in Verified(e) :
     LET p == lake[<<"processed", r>>]  q == lake[<<"processed", s>>]
     IN q.url = p.url => q.report.checked <= p.report.checked}

SyncStart(e) ==
  /\ sync = NoSync
  /\ Newest(e) # {}
  /\ sync' = [edition |-> e, todo |-> Newest(e)]
  /\ UNCHANGED <<run, stored, clock, faults, crashes>>

SyncWrite(r) ==
  /\ sync' = IF sync.todo = {r} THEN NoSync ELSE [sync EXCEPT !.todo = @ \ {r}]
  /\ r \in sync.todo
  /\ LET p == lake[<<"processed", r>>]
     IN \/ /\ graph' = [graph EXCEPT ![sync.edition][p.url] =
                          [run |-> r, checked |-> p.report.checked]]
           /\ UNCHANGED faults
        \/ Fails /\ UNCHANGED graph
  /\ UNCHANGED <<run, lake, manifest, cache, corpus, clock, crashes>>

-----------------------------------------------------------------------------

\* The process dies; the lake, the corpus, the graph and the cache remain.
CrashRuns ==
  /\ faults + crashes < MaxTroubles
  /\ \E r \in Runs : run[r].at \in Stages \ {"waiting"}
  /\ run' = [r \in Runs |-> IF run[r].at \in Stages \ {"waiting"}
                            THEN [run[r] EXCEPT !.at = "dead"] ELSE run[r]]
  /\ sync' = NoSync
  /\ crashes' = crashes + 1
  /\ UNCHANGED <<stored, clock, faults>>

Advance(r) ==
  \/ Begin(r) \/ StoreRaw(r) \/ StoreProcessed(r) \/ Admit(r) \/ Check(r) \/ StoreReport(r) \/ StoreServed(r) \/ StoreGraph(r)
  \/ SetCache(r)

Syncing == (\E e \in HasGraph : SyncStart(e)) \/ (\E r \in Runs : SyncWrite(r))

Next == (\E r \in Runs : Advance(r)) \/ Syncing \/ CrashRuns

Spec == Init /\ [][Next]_vars

-----------------------------------------------------------------------------
(* Properties *)

Moments == 0..(2 * Cardinality(Runs))

\* The variables have the shape the code gives them.
AnalysesTypeOK ==
  /\ run \in [Runs -> Run]
  /\ lake \in [Ids -> Record \cup {NoRecord}]
  /\ manifest \in [Ids -> 0..2]
  /\ cache \in [Urls \X Editions -> Entry \cup {NoEntry}]
  /\ corpus \subseteq Urls
  /\ graph \in [HasGraph -> [Urls -> Node]]
  /\ sync \in Sync
  /\ clock \in Moments /\ faults + crashes \in 0..MaxTroubles

InLake(layer, r) == lake[<<layer, r>>] # NoRecord

\* Where a served document came from can be told, whatever failed or died on the
\* way: the audit log names no record that is not there, a record names no parent
\* that is not there, and a result that says it is persisted has all three layers,
\* each linked to the one before.
LakeIsTraceable ==
  /\ \A id \in Ids : manifest[id] > 0 => lake[id] # NoRecord
  /\ \A r \in Runs :
       /\ InLake("processed", r) /\ lake[<<"processed", r>>].parent => InLake("raw", r)
       /\ InLake("exploitation", r) /\ lake[<<"exploitation", r>>].parent => InLake("processed", r)
       /\ Persisted(r) =>
            /\ \A layer \in Layers : manifest[<<layer, r>>] > 0
            /\ lake[<<"processed", r>>].parent /\ lake[<<"exploitation", r>>].parent

Admitted(r) == run[r].report.passed

\* Two articles with one story are both let in only when each was being checked
\* as the other was admitted: nothing remembers an article before its check.
CopiesAreCaught ==
  faults = 0 /\ crashes = 0 =>
    \A r, s \in Runs :
      r # s /\ Admitted(r) /\ Admitted(s) /\ Url(r) # Url(s) /\ StoryOf[Url(r)] = StoryOf[Url(s)]
      => r \in run[s].beside \/ s \in run[r].beside

\* What a resynchronisation would write of an article is what its last analysis
\* left in the graph.  It is not, when two analyses of one article overlap: the
\* one checked last is not always the one that writes last.
GraphIsWhatSyncWrites ==
  faults = 0 /\ crashes = 0 /\ sync = NoSync /\ (\A r \in Runs : run[r].at \notin Stages \ {"waiting"})
  => \A e \in HasGraph : \A r \in Newest(e) : graph[e][lake[<<"processed", r>>].url].run = r
=============================================================================
