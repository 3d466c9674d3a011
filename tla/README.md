# inspiring-news: a verification project

inspiring-news finds news articles, checks their claims against the web with a
language model, and gives a newsroom what it needs to write, review, rewrite and
publish stories of its own from what was checked. This directory holds TLA+ models of
its backend and its labelling tool, the TLC configurations that check them on small
instances, and proofs that TLAPS checks for instances of any size.

Run everything from here: `tlc -workers 2 -config drafts_safety.cfg MCDrafts.tla`
checks a model, `tlapm PollingProofs.tla` checks proofs.

## 1. The system

Paths are below `src/backend/src/` unless they say otherwise.

| Component | State it keeps | Operations | Modelled in |
|---|---|---|---|
| Drafts and publishing: `services/writer/`, `services/corrector/`, `services/publishing/`, `services/trends/angles.py`, the routes in `api/` | one JSON file per draft, one per public page, one lock | create, generate, review, rewrite, edit, accept a correction, restore, approve, publish, unpublish, clear what a crash cut off | `Drafts`, `Editorial` (who may do what when); `Writing` (what a text rests on) |
| Analysis jobs: `services/job_store.py`, `job_journal.py`, `job_queue.py`, `job_runner.py`, `api/routes.py` | the registry in memory, addresses in flight, one journal file per job, the pool's queue | post, deduplicate, report, complete, fail, evict, poll, reload after a restart | `Jobs` |
| Analysis pipeline: `services/analysis_service.py`, `analysis_cache.py`, `services/admission/` | the result cache, the corpus of admitted articles | scrape, enrich, store raw and processed, admit, check, store verified, cache | `Analyses` |
| Fact-checking: `services/fact_checker/` | none between articles | select claims, search, rank, judge, recalibrate, look a second time, report | `Claims` |
| Bounded fan-out: `services/concurrency.py` | one semaphore per outside service | permit, `bounded_map` with a timeout and late answers | `Searches`, `Pages`, `Claims` |
| Search client and page cache: `services/search.py`, `services/duckduckgo.py`, `services/fact_checker/retrieval/scraper.py` | answers and pages with an expiry, requests in flight, the fallback's pause | lead or follow, fall back, pause, expire, evict, give up waiting | `Searches`, `Pages` |
| Language model client: `services/llms.py` | one permit, token counts | complete with retries, wait for a rate limit | `Claims` |
| Lake and reader index: `repositories/`, `services/reader/` | JSON files, a manifest, an index with stamps | write, list, refresh, rebuild | `Analyses`, `Reader` |
| Knowledge graph: `services/graph/` | claims, verdicts, entities, pages, edges | write an analysis, write a label, prune, resynchronise | `Knowledge`, `Analyses` |
| Ingestion and selection: `services/ingestion_service.py`, `services/selection/`, `services/trends/`, `services/scraper/` | rounds in memory and on disk, sightings, the AI's place | discover, screen, rank, list more, let the AI choose, choose, send, ingest | `Discovery`, `Rounds` |
| Source probes and request counts: `services/scraper/source_probe.py`, `source_check.py`, `request_stats.py` | counts, the last reports, recorders | probe, check, count, save, load | `Probes` |
| Evaluation harness: `evaluation/` | a manifest, append-only result and evidence files, judgements | run, resume, retry, replay, set aside; score, compare, attribute, pool | `EvalRuns`, `Measures` |
| Labelling tool: `src/labeller/app.py`, `services/labelling_batch.py` | one file per fact, a frozen split, a queue, a daily batch | label, edit, review, exclude, split, ask, save, mark | `Labelling` |
| Service container: `container.py` | one global per service, one re-entrant lock | ask for a service | `Services` |
| Inference server, enrichment processors, frontend | - | - | not modelled (section 7) |

How they interact. A request posts an analysis job; a worker of the pool runs the
pipeline, which scrapes one page, enriches it and fans its claims out over bounded
pools; each claim fans its queries and pages out again, and every call to an outside
service takes that service's permit. Results go to the lake in three layers and to the
graph; the reader's index is refreshed from the lake; a draft starts from an article the
reader publishes and then lives on its own. Rounds send what was chosen to jobs, and
labels go to the graph beside the analyses. Everything but the labelling tool and the
benchmarks runs in one process with threads: what the components share is memory behind
locks, and files.

What is hard here, and what each component must get right:

- *Drafts*: minutes-long background steps beside people acting on the same draft; every
  result is computed from a read made long before. Right means: one step at a time, no
  result on a text it was not made from, no review beside a text it did not read, no
  approval that outlives its text, nothing public that nobody approved, no history lost.
- *Writing*: a text is corrected, rewritten, edited and restored in any order. Right
  means: its citations resolve, its figures and angles have an origin, its scores are
  bound by what the checks found, its page names who made it.
- *Jobs*: registry, journal and eviction are steps of several threads in several lock
  sections; lines may be lost or torn. Right means: one run per address, an answer
  "queued" or "running" only while somebody works, outcomes that stay, bounded memory.
- *Pipeline, lake, reader*: many writes, each of which may fail on its own or be the last
  before a crash. Right means: what a later layer says, an earlier one can show, and
  the feed is what the newest analyses say.
- *Search, pages, permits*: shared flights, expiring answers, nested bounded pools.
  Right means: nobody waits for ever, a follower learns what its leader learned, and no
  failure is taken for an empty answer.
- *Verdicts*: rules over counts, citations and stances, twice over when a second look is
  taken. Right means: a definitive verdict has the sources it needs, from outlets that
  are not the article's own, and an outage is no verdict.
- *Rounds*: one object in memory and another read back from disk, on several threads.
  Right means: only what was shown is chosen, every article met is counted once, one AI
  at a time.
- *Evaluation and labels*: resumable appends, a split that must not move. Right means:
  nothing finished is lost, no fact changes sides, and numbers mean what they say.
- *Container*: getters that build through getters under one lock. Right means: one of each.

`PROJECT.json` lists the hazards at their lines, with the properties that cover them.

## 2. The modules

### Drafts - one draft and its public page

Drafts share nothing but the store's lock, so one draft is enough. `draft` is the
draft file (`NoDraft` before it exists), `page` the published snapshot, `lock` the
handler that holds the store's lock between two writes, `request[r]` where a request
handler is, `job[t]` where a background thread is. `crashes` and `signed` (the text a
person approved last) are the model's own.

A change made with `DraftStore.update` reads, changes and saves under the lock, the
save is a rename: one action (`Edit`, `AcceptCorrection`, `Restore`, `Approve`,
`Attach...`, `Keep`, `RecordArticle`, `Release`). What the code does in several lock
sections is several actions:

- `create_draft` saves the draft (`Create`), then claims it (`StartWriter`);
- `rewrite_draft` checks an unlocked read (`CheckRewrite`), then claims (`StartRewrite`);
- `publish_draft` and `unpublish_draft` hold the lock over two writes, the page and
  the draft (`PublishPage`, `PublishSave`, and so on): nobody else can act between
  them, a crash or a failing save can; `withdraw` runs after the lock is let go;
- background work: `ReadToReview`, `AttachReview`; `StartRound`, `Keep`,
  `RereadToReview`, `AttachRewriteReview` for each round; any of it may `Fail`; the end
  is `Release`, whose own save may fail (`ReleaseFails`).

Texts are model values; one of them, the headline, has no body. What a model writes or
a person types is any text. A review carries the text it read (`of`), a ghost that the
program does not store: `ReviewsDescribeTheirText` is about it. `record_material`, the
generating step's first write, changes only sources and fact checks, which are
`Writing`'s subject. `get` outside the lock is atomic: the file is replaced by a rename.

### Editorial - the promise

The newsroom as its readers see it: a person signs a text, a signed text goes public,
it is taken down. `Drafts` implements it with `public <- page`
(`OnlyApprovedTextIsPublic`, checked by TLC and proved).

### Writing - what a draft's text rests on

One draft, one step at a time (who runs when is Drafts' subject). A page of the article
or of related news, a fact-check and an angle bring sources, numbered once
(`build_sources`); the writer cites them by number; the cleaning of a text, the reviewer's checks
and its ceilings, the correction it proposes, rewriting rounds, edits and restores follow.
A sentence is the terms it shares with others and the numbers it cites; a figure is a
term of its own kind. What the model writes comes from a small set that keeps, drops,
moves and invents. `disclosure` walks the revisions as `lineage` does.

### Jobs - registry, journal, pool

`memory` holds the status of each job in `_jobs`, `flight` is `_in_flight`, `finished`
the finished jobs in memory in the order `_evict` sorts them into, `file` the journal,
`queue` the pool's queue and `thread[j]` the place of the one thread that works for a
job. One place per job is enough: the poster hands the job to the pool, and the
fact-checker serialises the events of its own threads.

Each method of `JobStore` is a lock section and then, outside the lock, a journal line:
two actions, e.g. `Settle` and `RecordOutcome`, then `Evict` in a third. `Answer` is
what `get` returns. `Load` is what `JobJournal.load` makes of a file: lines
before "created" do not count, torn lines are skipped, a run without an outcome has
failed. `Written` gives the outcomes of an append: the line, nothing, or half a line,
which swallows the line appended after it. A crash may cut any line being written.

Reusing a job that is in flight changes nothing and is no action. The early returns of
`add_event`, `complete` and `fail` for a job that is not held are dead code as long as
`ActiveMeansAlive` (proved) holds, so the actions do without them. The journal is
attached at startup, before the first request; without one (`LAKE_ENABLED` off) nothing is
evicted and nothing survives a restart, which needs no model.

### Searches - one search client and its fallback

`caller[c]` is where a thread that searches is: behind a flight (`waiting`), or leading
one through SearXNG's permit and request, the fallback's look at its pause, its permit
and request, the lock that takes the flight down and remembers results (`Land`), and
`done.set` (`Announce`). `inflight[q]` is `_inflight` (a flight is its leader), `cache`
is `_cache` as a sequence in the dict's order, `paused` is `_paused_until`. A flight
that is announced no longer changes, so `Announce` gives its waiting callers what they
will read. The permits are counts of the callers that hold them.

Time is ticks: an answer's age goes up to `Ttl`, which stands for anything older, a
pause goes down to 0; no clock bounds the behaviours. What a service sends is reduced to
its kind. `broken` is an answer on which the code raises something other than
`SearchUnavailableError` (JSON that is no object, a link that `urlparse` rejects).
`learned` is a ghost, what the service said, for `FailureIsNotNothing`.

### Pages - reading evidence

A call reads a list of pages with one thread for each (`bounded_map`), may stop waiting
(`TimesUp`) and then answers "late" for the rest, whose threads run on. A thread leads or follows the
fetch of its page in the cache, takes SCRAPE's permit, and goes through the cascade of
strategies one after the other, with PARSE around every parse and BROWSER around the render.
A page is remembered for `Ttl`, a failure for `FailureTtl`; a full cache drops the
oldest quarter. Other readers - an article's scrape, the writer's related news - pass the cache by.

### Claims - the fact-check of one article

Each claim has a place in its walk: searching, looking into the corpus, scraping and
ranking, waiting for the model's permit, being judged (all sources at once or one by one), being
recalibrated, and the same again in the second look. `opt` is the thresholds of the run.
Which pages are found, how they rank, what the model answers and when a deadline runs out
is left to chance; the rules after it are the code's: `Recalibrated`, floors, caps,
stances, the choice between first and second verdict, `Reported` with the article's
verdict and coverage. Pages are on outlets; the article itself is a page like others.

### Analyses and Reader - from a request to the feed

`run[r].at` is where an analysis is: each stage ends with the write that the code makes
of it (`StoreRaw`, `StoreProcessed`, `StoreReport`, `StoreServed`, `StoreGraph`,
`Remember`), each may fail on its own and the run goes on, and `Crash` may come between
any two. `held` is the layers whose write returned a record, which is what the next
layer links to. A record and its manifest line are two writes, and a crash may come between.
`Admit` compares with the corpus; `Check` ends the fact-check and adds to it. `sync` is a
resynchronisation of a graph from the lake beside all this, `cache` the finished
results. `Reader` extends `Analyses` with the index: one refresh lists, then reads what
is new, and may fail to read a record. The reader's view is computed as `_rebuild` does, newest run of each article first.

### Discovery and Rounds - from sources to a choice

`Discovery` has no state: what the cascade of steps finds in a source, what is left out
and under which reason, the share of each source, the mission screen, the ranking with
its stories, for both lenses (topics, trends). What a link is (article, old, off the
mission, a death, a roundup) is a fact of the link; scores are chance: any order of what
remains may be best. `Rounds` runs it: `objects` are the round objects, `memory` and `disk`
point to them, so that a round pushed out of memory and read back is another object
than the one a thread still holds, as in Python. `running` is `_running`, `ai` the
selection's thread, or, at "unstarted", the one that `start()` failed to start. A row of a
round says which source or signal it is of (`from`), as whom the screen spares depends on it.

### Labelling - the annotator's files

A handler's file writes are a list `todo`, carried out one at a time; a crash drops the
rest. Hand edits may break a file or move it to `excluded/`. `manifest` is the frozen
split with the recheck sample; `HashRank` the order of the hashes of the facts' ids.
`astray` is a ghost: facts that may be apart from their group, because an edit or a broken
file put them out of the sight of the split's rule, because a second freeze was cut off before
it wrote them, or because they were placed in a group that already had such a fact
(`Strays`). The backend's batch runs on its own thread and is polled.

### Knowledge - what two writers leave in a graph

Each write is one transaction and each node its key, so a graph is sets. `WriteAnalysis`
clears the pipeline's edges of the article and writes the new ones, `WriteLabelledFact` the same
for one labelled fact; both prune orphans. Ghosts remember each writer's last word.

### Probes - counts, probes and checks

A task is a source being read by a probe or a check: discover, then extract a sample,
each recorded in a recorder (one per source for a probe, one per process for checks)
and counted in the store. A count changes memory and takes its snapshot and writes the
file under one lock: the thread is `writer` in between, where a write may fail or a
crash come. `since` says with which beginning a count started: a file that cannot be
read at a start is begun anew.

### EvalRuns and Measures - benchmarks and their numbers

`EvalRuns`: a run is a directory with a manifest, `results.jsonl` and `evidence.jsonl`.
A session loads the results, mends a torn end, sets files aside when it is asked to start
afresh, puts what is left to do through its pool, and appends a line for each unit.
A crash may tear a line. A replay answers from the evidence of another run. How each run
is configured is `plan`, which never changes.
`Measures`: operators over the latest records of two runs - outcomes, agreement, macro
F1 and kappa as pairs of integers, attribution to stages, the value of second looks,
retrieval ranks, pooled judgements with their sessions, rank statistics of predictions,
the writing benchmark's detection of defects - with a state machine that produces the records, judgements and
predictions they are evaluated on. `PerfectMeansPerfect` and `TiesCountHalf` compare
them with what they mean at both ends.

### Services - the container

`stack[t]` is the getters a thread is inside, innermost first, each at its first check,
the lock, the second check, building, or releasing. `Needs` is read off the getters.
`built` is the globals, `made` counts constructions, `owner` and `depth` are the lock.
`Layer` orders the services; that getters ask only for lower layers is
`NeedsAreLayered`, a lemma of `SharedProofs` that TLC also evaluates (`ContainerAssumption` of `MCShared`).

The server that dies is one process in the code and two counters in the models: `Crash` and
`Restart` are Drafts' words for it, `ServerDies` and `ServerStarts` those of Jobs, so that one
module can extend both. The names of Knowledge's specification begin with `Graph` for the same reason.

The `MC` modules give TLC constants and symmetries. Five of them hold two components that
share no state (`MCPolling`: Jobs and Drafts; `MCShared`: Searches and Services;
`MCAnalysis`: Reader with Analyses, and Claims; `MCLabelling`: Labelling and Knowledge;
`MCEvaluation`: EvalRuns and Measures): the variable `part`, chosen at the
start, says which component a behaviour is of, and the other stays at its initial state.
Nothing is composed by this; it lets one run ask one question of components that a user
meets together. Where components do interact, they are one state machine: Drafts with its
page, Jobs with journal and pool, Searches with permits and fallback, Pages with
permits and pools, Analyses with Reader, lake, graph and cache, Discovery with Rounds.

Operators whose comment begins with "Fault:" are not part of a specification. Each is a
plausible bug in the definition that follows it: put in that definition's place it must
break the property `PROJECT.json` pairs it with, which shows that the property says
something. A `TypeOK` states the types of a module's variables. Those of
Drafts and Searches (`TypeCorrect`), Jobs (`JobsTypes`) and EvalRuns (`EvalTypes`) are proved; the others hold on the instances of the runs
(`INVARIANT TypeOK`), which do not list them, as a type says nothing of a hazard.

## 3. The runs

| Run | Shows | States |
|---|---|---|
| `drafts_safety` (`MCDrafts`) | One draft under two handlers and two background threads, failing saves and a crash: what its reviews describe, what is approved, and that only an approved text is ever public. | 752,000 |
| `drafts_early_act` (`MCDrafts`) | A draft acted on between the save and the claim of its creation: the generated article replaces the text a person approved, and the approval stays. | violation |
| `polling` (`MCPolling`) | What a page polls for ends. Two jobs for one address, a pool of one worker, a memory that keeps no finished job, journal lines lost or cut short, and a crash: one run for an address, outcomes that stand, and an answer in the end. And every step that keeps a draft busy ends, through a crash. | 669,000 |
| `shared` (`MCShared`) | Three claims and two queries, one permit for each service, answers that expire and are evicted, failures, a challenged fallback; and two threads that ask the container for its deepest services at once, with a construction that fails: every search and every call ends, an outage is never told as an empty web, and no service is built twice. | 315,000 |
| `pages` (`MCPages`) | A claim with a deadline reads two pages beside another claim, a writer or an article scrape of the same page: one fetch for all who read it as evidence, and every thread ends, the late ones too. | 105,000 |
| `evaluation` (`MCEvaluation`) | Benchmark runs of every kind that are resumed, retried, started afresh, stopped and crash in the middle of a line, one of them replayed by another; and what is measured of two runs whatever they recorded, of pages pooled while a person judges, of predictions, and of texts. | 222,000 |
| `analysis` (`MCAnalysis`) | Two claims of one article share the language model's permit: searches, calls and deadlines that fail, sources judged together or one by one, and a second, wider look. And two analyses, of one article or of two copies of a story, store their layers beside a graph resynchronisation and the reader's refreshes, with a failed call or a crash anywhere. A fact-check never stands still before its report (deadlock is checked). | 3,302,000 |
| `ingestion` (`MCRounds`) | Two rounds and an ingestion on two threads, over a feed, a section page and a trend, with a write, a model or a part that fails, or a restart: what is shown, chosen, sent and kept. | 310,000 |
| `round_sent_twice` (`MCRounds`) | Two requests that send a round at once both pass the check that it was not sent, since the round is marked only after its analyses have started. | violation |
| `writing` (`MCWriting`) | What a draft says and rests on through writing, review, proposed corrections, rewrites, edits and restores: citations resolve, figures have an origin, scores are bound, angles are sourced, the disclosure is true. | 2,009,000 |
| `labelling` (`MCLabelling`) | Facts labelled, mutated, edited, reviewed, left out and broken by hand, the split frozen twice over, and daily batches asked for, lost, saved and marked, with crashes between two files of one handler; and the graph the labels and the analyses are both written to. | 763,000 |
| `probes` (`MCProbes`) | Probes and checks that read the same pages at once, count every request in one file, fail and are cut off by a restart: what their reports say, and the counts. | 2,410,000 |

Bounds.

- *Drafts* (`drafts_safety`, `drafts_early_act`, in part `polling`). Three texts: the
  placeholder and two with a body, so that a text can be replaced by another, come back,
  and be taken for the other. Two handlers and two threads are the least that can race.
  Three revisions let a restore, a correction and a rewrite follow one another; two
  rounds are the least with a "next" round. One crash is enough: a second starts from
  a state the first can leave. `polling` has two revisions and saves that succeed.
- *Jobs* (`polling`). Two jobs for one address are the least that deduplicate, follow one another
  and evict; a memory that keeps no finished job evicts each at once, where the code
  keeps 200. Lines are lost or torn anywhere, one crash.
- *Searches* (`shared`). Three callers are the least for a leader, a follower and a leader
  of another query that evicts what they learned; a fourth search makes use of what was
  remembered, or finds it expired. One permit each makes every permit contended; a pause
  of one tick and answers of two keep the code's order, five minutes and ten.
- *Services* (`shared`). Two threads and the three entry points that between them reach the deepest
  chains; two calls each, one construction that fails.
- *Pages* (`pages`). A claim with a deadline and two pages, and beside it a claim, a writer or an
  article for one of them; one permit of each kind, a cache of one entry, a page kept for two ticks
  and a failure for one. One page says it needs a browser.
- *Claims* (`analysis`). One claim found by the web, the corpus and both looks, one with
  a single page, one that says the same as the first; two workers and one model
  permit; four settings of thresholds that between them use each rule; one failure.
- *Analyses and Reader* (`analysis`). Two analyses: of one article twice, or of two copies
  of one story, in two editions of which one has a graph; one failure or crash.
- *Rounds* (`ingestion`, `round_sent_twice`). Two threads; a feed, a section page, and a
  trend that carry an article twice, a roundup, an old one and `c`, a death for one edition and
  off the subject for the other, which the feed, a positive outlet and the trend carry; memory for one round, so that the second pushes the first out; three
  requests, one fault.
  Sending waits for nothing, so the run of the finding needs one round.
- *Writing* (`writing`). A related page that the corpus and the web spell differently,
  one fact-check, two angles of which one is wanted, texts that keep, drop, move and invent,
  two rounds and three revisions, one failure. Scores are in units of a twentieth of a point
  (`Tenth = 2`), the targets 85 and 66.7: a text that cites two of its three facts is at
  66.67, under its target, and at it once rounded.
- *Labelling* (`labelling`). Two sources that share a page; `MCBound` gives a behaviour
  either all three facts and no batch, or batches with fewer facts; one edit by hand, one
  crash. *Knowledge*: two articles, two claims, one link, two facts, three writes, the
  least for one writer to write, the other, and the first again.
- *Probes* (`probes`). Two sources with one page each and a feed; `MCBound` keeps at
  most two sources being read at once, one fault, and two pages read at a moment.
- *EvalRuns* (`evaluation`). Two rows, two sessions, one crash; five plans, one for each
  way the loop branches (a searching run with a second look; a retrieval run and its
  replay; an oracle; a closed book; the writing benchmark with repeats). *Measures*: two
  runs, two claims, ten records each may hold, three pages, four predictions.

Deadlock is checked in `polling`, where a draft always has a next step and a job that
ended may stutter, and in `analysis`, where a fact-check may not stand still before its
report. Elsewhere the system may stop when its bounds are used up (every job id and every
call is used once, crashes and requests are bounded); there liveness, where it is checked, says that nobody is left waiting.

Symmetry is used in safety runs only, over texts, handlers, threads, articles, claims
and facts that no definition tells apart.

## 4. Fairness

`polling` assumes of a draft weak fairness of each handler that began something, each
background thread, and the restart of a dead process: threads are scheduled, model
calls have timeouts and end in an answer or an error (`Fail` is always possible), and
the service is run under a supervisor. Persons owe nothing. Of jobs it assumes weak
fairness of the thread that works for each job; every outside call of a run has a
timeout, and `MaxPhases` bounds what a run reports. No restart is assumed there: a dead
process answers nobody, and the journal never says "running".

`shared` assumes weak fairness of every thread in a search or in a getter: requests have
timeouts, constructors end or raise. `pages` assumes it of every page's thread and of
every call's return; nothing makes a deadline pass (`TimesUp` has no fairness), so calls
end with or without it. Python's semaphores and locks are not first come, first served, so strong
fairness of a permit would be too much to assume; weak fairness is enough because
an article sends finitely many queries and reads finitely many pages, so a permit does not stay taken by others.

`evaluation` assumes weak fairness of a session's main thread and of its pool's threads,
for `EverySessionIsAccountedFor`. Nobody has to start a session, and nothing crashes by fairness.

## 5. Findings

1. *An approval that outlives its text* (`drafts_early_act`). `create_draft` saves the
   draft and claims it in two steps. Edited and approved in between, the draft keeps
   its approval when the generated text replaces the one approved. All other runs and the
   theorems about approval take `EarlyActs` as false: nobody acts on a draft before its
   creation has claimed it.
2. *A round sent twice* (`round_sent_twice`). "A round is sent once"
   (`docs/decisions/selection.md:237`). `queue` looks at `queued` without a lock, starts
   every analysis, and marks the round only then: two requests both pass. What only one of
   them chose is analysed beyond the round's limit, and the record of agreement is the
   second's. `NothingButTheShown` holds for each request on its own.

Seen while modelling, without a run of their own.

Drafts, jobs, searches:

- *A page nobody can take down.* `unpublish_draft` removes the page "whatever the records
  say" because of "a crash between writing the page and saving the draft"
  (`publish_routes.py:215-217`) - but it refuses a draft that is not `published` first
  (line 212), and after that crash the draft is `approved`.
- *Withdraw after the lock.* When the save of a publication fails, the lock is let go
  before `withdraw` removes the page. A second publish of the same draft that gets in
  between succeeds, and its page is then removed: the draft says published and there is
  no page. An unpublish whose save fails ends the same way.
- *A release that fails.* `release` saves the draft; if that save fails, the draft stays
  busy until the next start of the process, where the module's text says "always clear
  `busy`". `BusyEnds` is about saves that succeed.
- *Evicted before journalled.* A job counts as finished before its outcome is on disk, so
  another thread may evict it (`job_store.py:148`); until its line is written `get`
  reports it interrupted. It takes as many later outcomes as the cap allows.
- *Lost lines.* The journal is fail-soft by design. A job whose "created" line was lost
  is unknown (404) once it is evicted or the process restarts, and a half-written event
  line takes the next line with it. `OutcomeStands` says what is left.
- *Asked during the pause.* The fallback is looked at for a pause before the wait for its
  permit (`duckduckgo.py:53-54`); a caller that passed the look sends its request after
  another caller's challenge.
- *A failure nobody expected.* Only `SearchUnavailableError` is put on a flight. When a
  service's answer makes the leader raise anything else, the leader's caller sees the
  exception and its followers get `[]`. `FailureIsNotNothing` is therefore about the
  failures it recognises.
- *The oldest entry.* The cache drops the dict's first key as the oldest; a key stored
  again after it expired keeps its old place, and may be dropped while still fresh.
- *Whoever waits for the browser.* `concurrency.py:118-121` says that BROWSER is often
  awaited under SCRAPE. Pages read as evidence or for writing never reach the browser, and an article is
  read without SCRAPE's permit: as the callers stand, the nesting does not occur.

Analyses, reader, claims:

- *A record missed.* A record that cannot be read during a refresh is skipped, but the
  listing's stamps are kept: it is looked at again only when another record changes.
- *Persisted without its report.* A result says `persisted` when any processed record
  stands (`second or first`), also when the one with the report failed.
- *A result without its layers.* A run whose storage failed is cached like any other
  (with `persisted` false) and answers later requests without being stored.
- *Copies side by side.* Two copies of one story whose checks overlap are both admitted;
  `CopiesAreCaught` says that this is the only way.
- *Graph and lake.* A resynchronisation writes what it listed; an analysis that wrote in
  between is overwritten by its older record until the next (`graph_sync.py:136-137`
  expects the opposite).
- *Coverage.* A claim judged from the internal corpus while the search was down counts as
  not checked. A claim below the evidence floor takes a second look that neither judges
  nor fetches again what the first rejected (`second_look.py:21-24`). A model that is lost
  in the second look replaces a definitive first verdict by UNVERIFIED.
- *Outlets.* Sources from the corpus have no `domain` (`vector_retriever.py:64-77`), so the count of
  distinct domains takes their addresses for outlets (`confidence_scorer.py:93-95`).

Rounds:

- A round read back from disk while a thread holds the first object loses what one of the
  two changed. A crash leaves an AI selection "running" in the file. `start_ai_selection`
  does not look at `queued`. Section pages are screened by the positive edition's
  `off_mission` for both editions.
- *A thread that cannot start.* `start_ai_selection` sets `_running` and saves the round as
  running before `Thread.start()` (`selection_service.py:247-263`). When that raises, the
  request fails and nothing is taken back: every other selection is refused, and this round
  shows no more, until a restart; its file says "running" after that, too. `StartAI` has the
  step (`ai.at = "unstarted"`), and `SelectionHasTheFlag` says that it is the only way for the
  flag to stand without a request or a thread that will clear it.

Writing:

- The safety line can stand twice: it is added to a text that already ends with the
  model's own, or with a line the reviewer's correction kept (`rewriter.py:453`,
  `article_writer.py:202`; `docs/decisions/editions.md:144-147` says once), and accepting
  a correction may drop it. Sources found by exact URL meet a list deduplicated by
  comparable URL. Fitting the material to its size may drop the sources of an angle that
  is kept. Restoring the text of a first round brings back its review without a proposal.
- *A ceiling is rounded.* `_bind` compares a score with the exact ceiling and stores the
  ceiling rounded to a tenth (`draft_reviewer.py:638-639`), which may be higher: a text a
  little below its target reads as meeting it (4 uncited of 21 facts give 80.952, stored as
  81.0; 17 of 113 give 84.956, stored as the default target 85.0), and a score between the two
  is raised. `MetMeansGrounded` therefore allows half a tenth of a point; without that
  allowance it is false of the model, as of the code.

Labelling and graph:

- Editing a fact's article after the freeze may split a group (`app.py:498-503`), and the
  rule does not see facts whose file is broken; both are `astray` in the model. `split`
  freezes by the manifest and `create` by files. A crash between a fact and its mark in the
  queue leaves the claim pending. The recheck sample may shrink where the docstring says
  it only grows (`app.py:806-830`).
- The verdict the pipeline gave stays on a claim a fact still holds after its article
  dropped it (`graph_writer.py:84-87`); two facts that were checked against one page share
  the edge, and one's clearing takes the other's; Evidence nodes are never pruned.

Evaluation and probes:

- `evidence.jsonl` is appended to without having been loaded, so a line after a torn one
  is glued to it and lost, where `docs/decisions/evaluation.md:240-242` promises the mending
  that the results get. `EvidenceCanBeReplayed` is therefore about runs no crash has torn
  the evidence of. `prepare_corpus` copies a tree in place: a crash leaves part of it.
- A second look replaces the first verdict in the loop's policy also when the look lost its search.
  Pages pooled while a judging session is open are lost at the session's next answer and
  come back at the next pooling.
- Two source checks that overlap share one recorder by address, and one may report what the
  other met. A thread that cannot be started leaves the probe "running". `perSource` 0
  reads as degraded. `RequestStats.reset` has no caller.

## 6. Proofs

Eight modules prove, for every value of the constants that satisfies the modules' assumptions.

`PollingProofs`, about what a page polls for, a draft and a job.

Of Drafts, for any sets of texts, handlers and threads and any bounds, with failing
saves and crashes; the four theorems about approval assume `~EarlyActs`.
The argument has three layers, each an inductive invariant that uses the one before:

- `MutexInv` - who works. `OneStepAtATime` alone is not inductive: that a claim finds no
  thread active needs "a thread is active only on a draft that is busy with its kind";
  that a thread's text stays the draft's needs all changes to be refused while busy
  (`NoResultIsStale`); and that a publishing handler keeps everyone out needs
  `Locked`, which ties the lock to the handler between its two writes. Gives `TypeCorrect`,
  `OneStepHolds`, `NoStaleResult`.
- `ApprovalInv` - what is approved. Adds where the page comes from (`Placed`) and that a
  draft being generated is not approved (`GeneratingIsDraft`; the one conjunct that
  needs `~EarlyActs`). Gives `ApprovalHolds`, `FrozenHolds`, `GoneHolds`, and with them
  `PromiseKept`, the refinement of `Editorial`.
- `ReviewInv` - what reviews describe. `ReviewsDescribeTheirText` and
  `LastRevisionIsContent` together are inductive over `MutexInv`, whose
  `NoResultIsStale` says what a review that lands has read. Gives `ReviewsHold`,
  `LastRevisionHolds`, `HistoryHolds`.

Of Jobs, for any jobs, addresses, workers, cap and lost or torn lines, from
`JobsAssumption`. Three invariants:

- `RegistryInv` - who is held. `ActiveMeansAlive` and `OneRunPerUrl` are not inductive:
  an eviction keeps them only because what it takes has ended (`FinishedHaveEnded`) and
  ended once (`EndsOnce`: an id twice in `finished` would leave one behind that memory
  no longer holds), a new job keeps them because nothing is known of its id
  (`NewIsUnknown`), and deduplication looks at `flight` and `memory`, which
  `FlightIsActive` and `HeldIsOwed` tie to the threads. Gives `JobsTypes`,
  `FlightHolds`, `OneRunHolds`, `ActiveHolds`.
- `JournalInv` - what is on disk: no outcome before the run has one, and memory, while
  it holds an ended job, says what its file would. `StepOfAJob` lists what a
  step can do to one job; `LoadOutcome` says that an outcome's line decides the load.
  Gives `OutcomeHolds` and, with `RegistryInv`, `NeverAliveHolds`.
- `MemoryIsBounded` is inductive with types alone (`BoundHolds`).

`SharedProofs`, about what threads of one process share:

- Searches, for any number of callers, queries and permits, any cache and any times, from
  `SearchesAssumption`. `FlightInv` conjoins the safety properties with two facts that are
  left over between the steps: whoever searches has a query, and what lands is what was
  learned. The conjuncts need each other: that results may be remembered without making
  another leader's request needless (`AskedOnlyWhenUnknown`) is because nobody else leads
  that query (`FlightsAreLed`), and that nobody waits for a caller that already returned
  (`WaitersAreHeard`) is because a flight that can be found is led. `RememberHolds` is the
  lemma about the cache.
- Services (`OneHolds`), for any number of threads, calls and failures. `ContainerInv`: a
  global holds the one construction there was (`Kept`); all getters around the innermost are
  building, in rising layers (`Nested`), so that no service is below itself; the lock's depth
  is the number of getters past it (`Locked`); and a service being built is not there yet
  (`Told`). That getters ask only for lower layers is a lemma about `Needs`.

`ScrapingProofs`, about what reads the web:

- Pages (`OneFetchHolds`), for any calls, pages and limits. `FetchInv`: a page has one
  leader among the threads that read it as evidence, a follower's leader still leads or is
  about to announce (`Followed`), and a call that was not made has no thread. The last is
  what makes a new call's threads add nobody. The steps of the cascade are one lemma
  (`CascadeKeeps`): a thread in it stays a leader.
- Probes (`CountsHold`, `ProbesHold`). `CountInv`: who writes has held the lock since its
  snapshot, so the snapshot is what memory holds, and memory is never behind the file of the
  same beginning. `ReportInv`: a thread has a line for each page it extracted but the one it
  reads (`Sampled`); the recorder of a probe has what the extraction came to until the line
  is written (`Told`), because a probe's recorder is its own, which is why nothing of the
  kind is said of checks; and only one probe runs, the one the flag is for (`RunInv`).

`AnalysisProofs`, for any analyses, claims and troubles:

- `TraceHolds` (`LakeIsTraceable`): `TraceInv` says per analysis how far it may have written
  (`Progress`), what each record names (`Linked`), and that a logged record exists. A record
  names a parent just when the parent's write returned, and no earlier layer returns one
  later. `CopiesHold` (`CopiesAreCaught`): `CopiesInv` adds that an admitted article is in the
  corpus from its check on and, until then, among those being checked beside it.
- `FeedHolds` (`FeedFollowsLake`): `FeedInv` adds that every served record has a moment of
  its own (`ServedInv`), so that "the newest of an article" names one, and that a refresh
  drops nothing of its listing but what it could not read (`IndexInv`).
- `GroundedHolds` and `IndependentHolds`: `ClaimsInv` follows a claim's sources from the
  search to the check. What was found is never the article itself and has one page of an
  outlet on the web (`Apart`); ranking, capping and a second look keep that; the answers are
  one for each source in turn; and a check is sound when it is made (`JudgedIsSound`) and
  when a second look or the consensus rewrites it (`ConcludedIsSound`, `EndedIsSound`).

`RoundsProofs`, from `RoundsAssumption` and `DiscoveryAssumption`: `FirstSightingHolds`
(`SightingInv`: memory knows what the file knows, so writing it back moves no moment),
`SelectionHolds` (`SelectionInv`: `running` is set exactly while one request is about to start
a selection, its thread exists, or it could not be started; and `FlagInv`, below), and
`NothingElseIsChosen` (`ShownInv`): what was chosen lies
between a check against a round's list and the write of the round, in another thread or after a
restart, maybe in another object of the same round. It stays in view because no step takes
anything out of the list of any object (`Grows`), which stays within `MaxListed`.

That the flag names the round (`FlagInv`) joins the two: the request has an object of it in
hand, hands its number to the thread, and the thread looks the number up, so it needs that an
object stays that of its round (`KeepNumbers`) and that a file has the round of its number
(`Numbered`), whatever is saved, pushed out and read back in between (`SaveNumbers`,
`GotNumbers`).

`PlacesHold` (`EveryArticleHasItsPlace`) is about what a round was offered, whichever object it
is read from, in memory, on disk or in a thread. `PlaceInv` says that every round offers well
(`OfferWell`): each row's numbers account for what its source gave, and a candidate is there
once, new when the round was made, and, where the screen was reached, left in by it in a row
that picked it (`LeftIn`): an article, and neither a death nor off the subject of the round's
edition, unless `Exempt` spares its source, a positive outlet in a round of topics. Only
`Offer` makes an offer; every other step writes, reads back, drops or adds to a round that
offers the same (`SaveAdds`, `GotAdds`). What an offer needs of the step before is `ReadInv`: a thread that has read its
sources holds, for each, new articles of that source, none twice, whichever source has it too, and
none that was known (`FoundWell`). Under both are lemmas about the funnel itself: what the
cascade takes of a list (`TakenIs`, `PickedIs`), what joining lists keeps (`FlattenIs`,
`EachIs`), that two sources share no article (`TakenApart`, `SharedIs`), and that ranking
leaves out nothing and adds nothing (`OrderIs`). `DiscoveryAssumption` says that a source
and a signal list sequences of links, and that there is no other.

`WritingProofs`, for any sources, texts, edits, scores, targets, numbers of rounds and units to
the tenth of a point, from `WritingAssumption` (finite sentences and sets of edits; what a
claim's check cites and an angle offers are addresses). One inductive invariant, `WritingInv`, has the four properties as
corollaries (`TextHolds`, `BrightSideHolds`, `DisclosureHolds`, `ProposalHolds`). A property
of the text alone is not inductive: a restore brings a revision back, so every revision has to
be traced, with its review (`Handed`); a correction that is accepted is one the review holds, so a
review's proposal has to be traced to the text it was made for (`Fits`); and who the page
names is computed back along the restores, which `Made` says of every revision at once.
`NoNewFigures` and `Repaired` say what a proposal and an edit do. `ScoredMean` says what a score
that meets its target means: the ceilings are fractions (`ShareBinds`, `CostBinds`), `RoundedIs`
puts what is stored within half a tenth of them, and that is all the target is missed by.

`EvaluationProofs`, in two parts:

- Measures, from `MeasuresAssumption`. `OutageHolds`, `StagesHold` and `LooksHold` are
  arithmetic over finite sets: the records a run can have (`RecordsInv`) are those of answers,
  and a difference of two counts is the difference of what each has alone (`AloneCounts`).
  `PoolingHolds` is an action property: `PoolInv` says that an open session holds every
  judgement of the file. `ScoresHold` (`ScoresMeanWhatTheySay`) goes through sums. A sum over
  a set is made by taking out one element after the other, and does not depend on which
  (`FoldExists`, `FoldTakesAny`), so it can be split, scaled and compared term by term
  (`SumApart`, `SumOfTimes`, `SumBelow`). Macro-F1 is a sum of terms none of which exceeds the common
  denominator, which each class's own divides (`ProductIs`): it is 1 only if every class has
  all its claims and no other's (`MacroIs`). Chance is at most every claim with every claim
  (`ChanceIs`), so kappa's denominator is not negative (`KappaIs`). A rank is what a prediction
  beats of all, itself and its ties counted as halves (`RankIsRow`); among themselves the positives
  beat as many as there are pairs of them (`SquareOfRows`), which is what the formula by
  ranks takes off (`RankIsAuc`). The first half needs no invariant, as it is so of any
  verdicts; the second needs that scores are numbers (`ScoresInv`).
- EvalRuns, from `EvalRunsAssumption`. `EvidenceHolds` and `DoneHolds` share `EvalInv`: what
  is ahead of a session is each unit once, by one thread, and not done (`Ahead`), which is
  why no line of this session goes over one that was done; a unit that was judged has its evidence from
  the line the thread wrote before (`Evident`), and the evidence has lines of its own
  first pass only (`OwnLines`). `Became` says what an append, a mending and a crash make of
  a file, `LinesBecame`, `FoundBecame` and `LatestBecame` what each means for its readers.

`LabellingProofs`, about what people label:

- Labelling, from its assumptions, for any sources, pages, facts, edits, batches and crashes.
  One inductive invariant, `LabelInv`, serves `QueueHolds`, `GroupsHold` and `SidesHold`. A
  freeze writes file after file, and between two of them the sides on disk say nothing of
  groups: `Aimed` says instead that there is a goal, a side for each fact, that the files and
  what is still to be written come to (`HeadsFor`), that the manifest is written last and says
  the goal, and that the goal keeps groups together once there is a manifest or one to come
  (`Whole`). That no fact changes its half follows from the same conjunct: only facts that the
  manifest does not name are ever written with another side. `MarksInv` follows a
  fact from the claim it was labelled from through the mark that is still to be written;
  `BatchesInv` says of the batch that is waited for that its articles are new to every saved one,
  as nothing was saved since it was asked for (`Awaited`). That the rule gives a
  group one side where nothing in it is astray is a lemma about `AssignSplits`.
- Knowledge, from `KnowledgeAssumption` (nodes of different labels are different nodes).
  `GraphInv` gives `WordsHold`: that an edge leads from a node that is there (`Woven`), so that
  pruning takes no edge along, and that every edge of the labeller says what its fact says
  now (`FactEdges`). A claim that is shared keeps one writer's word because the other clears
  only edges with its own method.

What proving taught of the model. `GroupsStayWhole` was too strong as TLC had checked it with one
edit: with two, a fact that is labelled into a group whose facts an edit or a second
freeze that was cut off had put apart follows one of them, and is apart from the others for as long as
the split is frozen. The ghost `astray` has these facts now, and the property is about each pair
of facts outside it, which says more of a group that has some. Two translations of `if`/`elif` chains were CASE
expressions whose guards overlap, where the value is any of the arms (the recalibration of a
verdict in Claims, the trigger of a look in Measures); they are IF now. Folds and `SelectSeq`
that a proof goes through are recursive functions: what the funnel takes of a list in
Discovery, the sums and the product in Measures. Assumptions were missing: that a round's
list is capped by no less than what is listed, that a dataset names a claim once
(`dataset.py:359-374` refuses a duplicate), that sentences, edits and the units of a writing
run are finite, that a unit is clean or aimed at a metric the corrector has, and that what a
verdict cites is among its evidence. That the numbers of a row add up was not enough, as one
of them may be negative then; `EveryArticleIsAccountedFor` says that none is.

Functions defined by recursion are reasoned about with `Least`, `Induction` and
`StepByStep`: induction over numbers as a fact about sets of them, from the
well-foundedness of `<`; over the parts of a finite set, `OneByOne`. The theorems of the library that take a predicate as a parameter
cannot be used.

Every invariant and every action property of a passing run is stated by a theorem. Only
model-checked is:

- Liveness (`BusyEnds`, `PollingEnds`, `SearchEnds`, `EveryCallReturns`, `ReadingEnds`,
  `EverySessionIsAccountedFor`): fairness is out of the prover's reach.

## 7. Not modelled, and why

- *Functions of text and numbers, or input and output*: prompts, excerpts, query wording, extraction from
  HTML, enrichment, sentiment and readability; a model of them would repeat them. The
  inference server answers each request from its models and keeps nothing; its permit in the backend
  (INFERENCE) is held by callers that wait for nothing else. The frontend shows the backend's state.
- *Drafts and Writing*: echoes of sources, withheld claims, checks of language, headline and
  coverage.
- *Searches and Pages*: `last_route`, a label for reports; `health`, which only takes a
  permit; answers' parsing; a limit of zero permits, which means unbounded and is for tests.
- *Claims*: token accounting; liveness, for which the state space with fairness is too
  large (that a check never stands still is checked instead).
- *Analyses, Knowledge*: sources' and signals' repositories (settings), the graph's topics,
  article and source nodes, and its reader.
- *Rounds*: typed seeds, titles, scores; reads of sightings or the ledger that fail and are
  then overwritten.
- *Labelling*: two annotators' join, timing, statistics, agreement; the command line
  beside a running server.
- *Evaluation*: intervals (resampling), dates, freshness, effort, usage, tables per
  language; two judging sessions at once; the trend experiments (`trend_experiments.py`), which
  are scripts over recorded rounds.
- *Services*: the lake and the graph are taken as enabled. *Probes*: how many sources are
  read at once (`PROBE_CONCURRENCY`, `CHECK_CONCURRENCY`).

## 8. What is left to do

- Abstract specifications: for Jobs, a registry that forgets nothing; for Searches, a
  client without sharing; for Analyses with Reader, a feed that is a function of the runs.
- Compositions: Rounds with Jobs, so that a chosen article is followed to its outcome;
  Claims with Searches and Pages, whose permits are nested in one process.
- Components: the trend experiments, the statistics of the evaluation as a reference
  definition over small samples, the two annotators' join of the labelling tool.
