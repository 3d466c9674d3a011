------------------------------ MODULE Labelling ------------------------------
(***************************************************************************)
(* The labelling tool (labeller/app.py) and the backend's daily batch      *)
(* (services/labelling_batch.py).  A person labels claims, one file per    *)
(* fact; the set is split once into a tuning and a held-out half; the      *)
(* day's batch proposes articles that were never labelled or proposed.     *)
(*                                                                         *)
(* The tool's server is single-threaded, so one handler or command runs at *)
(* a time, but each writes several files one after the other: `todo` is    *)
(* what the running one has still to write, and a crash drops it.  A page  *)
(* is its comparable URL; a claim is its article (one claim each).         *)
(***************************************************************************)
EXTENDS Integers, Sequences, FiniteSets

CONSTANTS Pages,        \* articles the sources link to
          Sources,      \* 1..n, the sources in the order of their ids
          LinksOf,      \* [Sources -> SUBSET Pages]: what discovery returns
          MaxFacts,     \* bound: fact numbers given out
          HashRank,     \* [1..MaxFacts -> Nat]: order of the SHA-256 of the ids
          BatchSize,    \* articles asked for
          MaxBatches,   \* bound: requests for a batch
          FormPages,    \* the articles typed in the form, or none
          MaxEdits,     \* bound: edits, reviews and moves of files by hand
          MaxCrashes    \* bound: crashes and restarts

Ids == 1..MaxFacts
Sides == {"train", "test"}
LabelNames == {"TRUE", "FALSE"}
NoPage == "no article"
NoRef == <<0, NoPage>>
NotFrozen == [frozen |-> FALSE, side |-> << >>, recheck |-> {}]
Idle == [running |-> FALSE, req |-> 0, exclude |-> {}, error |-> FALSE,
         batch |-> [req |-> 0, items |-> {}, skipped |-> {}]]

ASSUME LabellingAssumption ==
    /\ MaxFacts \in Nat \ {0} /\ BatchSize \in Nat \ {0}
    /\ LinksOf \in [Sources -> SUBSET Pages] /\ NoPage \notin Pages
    /\ FormPages \subseteq Pages \cup {NoPage}
    /\ HashRank \in [Ids -> Nat]

VARIABLES facts,      \* manual/: number -> fact, for the files that exist
          excluded,   \* excluded/: facts a person moved out of the set
          broken,     \* files of manual/ that are not JSON after a hand edit
          manifest,   \* split.json
          queue,      \* queue/: the saved batches, in order
          pending,    \* the server's memory: the batch asked for, or 0
          backend,    \* LabellingBatch in the backend
          todo,       \* file writes the running handler has still to make
          astray,     \* history: facts that may be apart from their group
          requests, edits, crashes
vars == <<facts, excluded, broken, manifest, queue, pending, backend,
          todo, astray, requests, edits, crashes>>
----------------------------------------------------------------------------
(* The set of facts *)

Merge(f, g) == [x \in DOMAIN f \cup DOMAIN g |-> IF x \in DOMAIN g THEN g[x] ELSE f[x]]
With(f, x, value) == Merge(f, [y \in {x} |-> value])
Without(f, S) == [x \in DOMAIN f \ S |-> f[x]]

Fact(page, label, source, side, ref) ==
    [page |-> page, label |-> label, source |-> source, split |-> side,
     first |-> "none", ref |-> ref]

Load == Without(facts, broken)

SidesOf(fs) == [f \in DOMAIN fs |-> fs[f].split]

Greatest(S) == CHOOSE n \in S : \A k \in S : k <= n

\* Fault: the numbers of facts left out of the set are given out again.
NumbersOfTheSet == Greatest({0} \cup DOMAIN facts) + 1

\* A number no file of manual/ or excluded/ has.
NextNumber == Greatest({0} \cup DOMAIN facts \cup DOMAIN excluded) + 1

\* Two facts that must share a side: one article, or a mutation and its source.
Linked(fs, f, g) ==
    \/ fs[f].page # NoPage /\ fs[f].page = fs[g].page
    \/ fs[f].source = g \/ fs[g].source = f

GroupOf(fs, f) ==
    {g \in DOMAIN fs :
        \A S \in SUBSET DOMAIN fs :
            (f \in S /\ \A x \in S, y \in DOMAIN fs : Linked(fs, x, y) => y \in S)
                => g \in S}

SplitGroups(fs) == {GroupOf(fs, f) : f \in DOMAIN fs}

\* The side of a group some of whose facts were placed before.
Placed(G, frozen) == {frozen[f] : f \in G \cap DOMAIN frozen}
FirstSide(sides) == IF "test" \in sides THEN "test" ELSE "train"

\* Fault: a new fact is placed without looking at its article or its source.
EachFactAlone(fs, frozen) ==
    {s \in [DOMAIN fs -> Sides] : \A f \in DOMAIN frozen : s[f] = frozen[f]}

\* Every outcome of the rule.  Which side a new group takes depends on how many
\* facts of its verdict, language and topic group each half holds, and on a hash.
AssignSplits(fs, frozen) ==
    LET groups == SplitGroups(fs)
    IN  {s \in [DOMAIN fs -> Sides] :
            \A G \in groups :
                LET sides == Placed(G, frozen)
                IN  IF sides = {} THEN \A f, g \in G : s[f] = s[g]
                    ELSE \A f \in G : s[f] = IF f \in DOMAIN frozen THEN frozen[f]
                                             ELSE FirstSide(sides)}

\* A fifth of the held-out half: what was reviewed, then the lowest hashes.
ReviewSample(fs) ==
    LET test == {f \in DOMAIN fs : fs[f].split = "test"}
        reviewed == {f \in test : fs[f].first # "none"}
        rest == test \ reviewed
        room == (Cardinality(test) + 4) \div 5 - Cardinality(reviewed)
    IN  reviewed \cup
        {f \in rest : Cardinality({g \in rest : HashRank[g] < HashRank[f]}) < room}

Manifest(fs) == [frozen |-> TRUE, side |-> SidesOf(fs),
                 recheck |-> ReviewSample(fs)]
----------------------------------------------------------------------------
(* The files a handler writes, in order *)

WriteFact(f, fact) == [to |-> "fact", id |-> f, value |-> fact]
WriteManifest(fs) == [to |-> "manifest", id |-> 0, value |-> Manifest(fs)]
MarkLabelled(ref, f) == [to |-> "queue", id |-> f, value |-> ref]

Ready == todo = << >>

\* What marking a claim makes of it: a skipped claim that has facts is put back
\* among the labelled ones, any other among the pending.
Marked(claim, status, new) ==
    LET all == claim.facts \cup new
    IN  [status |-> IF status = "pending" /\ all # {} THEN "labelled" ELSE status,
         facts |-> all]

Mark(q, ref, status, new) ==
    [q EXCEPT ![ref[1]].items[ref[2]] = Marked(@, status, new)]

Apply(w) ==
    /\ facts' = IF w.to = "fact" THEN With(facts, w.id, w.value) ELSE facts
    /\ manifest' = IF w.to = "manifest" THEN w.value ELSE manifest
    /\ queue' = IF w.to = "queue" THEN Mark(queue, w.value, "labelled", {w.id})
                ELSE queue

Unwritten == {todo[n].id : n \in {k \in DOMAIN todo : todo[k].to = "fact"}}

\* The handler goes on to its next file.
Write ==
    /\ ~Ready
    /\ Apply(Head(todo))
    /\ todo' = Tail(todo)
    /\ UNCHANGED <<excluded, broken, pending, backend, astray, requests,
                   edits, crashes>>
----------------------------------------------------------------------------
(* Labelling *)

\* A mutation's source must be a readable, natural TRUE fact of the set.
SourceOk(source) ==
    source = 0 \/ /\ source \in DOMAIN Load
                  /\ facts[source].label = "TRUE" /\ facts[source].source = 0

\* The guide's rules a form is held to, of which the model tells one apart: a
\* claim made from another's evidence is refuted by it.
Valid(label, source) == source # 0 => label = "FALSE"

\* History: facts placed in a group some of which are astray may be apart from the rest.
Strays(fs, placed) == {f \in placed : GroupOf(fs, f) \cap astray # {}}

\* Store.create: the number, the side, then the fact's file, the manifest when
\* the split is frozen, and the claim of the batch it was labelled from.
Create(page, label, source, ref) ==
    LET new == NextNumber
        fact == Fact(page, label, source, "test", ref)
        marks == IF ref = NoRef THEN << >> ELSE <<MarkLabelled(ref, new)>>
    IN  /\ new <= MaxFacts
        /\ Valid(label, source) /\ SourceOk(source)
        /\ IF manifest.frozen
           THEN \E sides \in AssignSplits(With(Load, new, fact), SidesOf(Load)) :
                   LET placed == [fact EXCEPT !.split = sides[new]]
                       all == With(Load, new, placed)
                   IN  /\ facts' = With(facts, new, placed)
                       /\ todo' = <<WriteManifest(all)>> \o marks
                       /\ astray' = astray \cup broken \cup Strays(all, {new})
           ELSE /\ facts' = With(facts, new, fact)
                /\ todo' = marks
                /\ UNCHANGED astray

CreateFact ==
    /\ Ready
    /\ \E page \in FormPages, label \in LabelNames :
          Create(page, label, 0, NoRef)
    /\ UNCHANGED <<excluded, broken, manifest, queue, pending, backend,
                   requests, edits, crashes>>

\* A claim of the day's batch is labelled; the form is filled with its article.
LabelFromBatch ==
    /\ Ready
    /\ \E b \in DOMAIN queue : \E page \in DOMAIN queue[b].items :
          Create(page, "TRUE", 0, <<b, page>>)
    /\ UNCHANGED <<excluded, broken, manifest, queue, pending, backend,
                   requests, edits, crashes>>

\* A FALSE fact made from a TRUE one: same article, date and evidence.
Mutate ==
    /\ Ready
    /\ \E source \in DOMAIN Load :
          Create(facts[source].page, "FALSE", source, NoRef)
    /\ UNCHANGED <<excluded, broken, manifest, queue, pending, backend,
                   requests, edits, crashes>>

\* Fault: an edit puts the fact back on the held-out side.
RecordAnew(previous, page, label) ==
    [previous EXCEPT !.page = page, !.label = label, !.split = "test"]

\* An edit keeps the side, the review, the provenance and the number.
BuildRecord(previous, page, label) ==
    [previous EXCEPT !.page = page, !.label = label]

Update ==
    /\ Ready /\ edits < MaxEdits
    /\ edits' = edits + 1
    /\ \E f \in DOMAIN Load, page \in FormPages, label \in LabelNames :
          /\ <<page, label>> # <<facts[f].page, facts[f].label>>
          /\ Valid(label, facts[f].source) /\ SourceOk(facts[f].source)
          /\ facts' = [facts EXCEPT ![f] = BuildRecord(@, page, label)]
          /\ astray' = IF manifest.frozen /\ page # facts[f].page
                       THEN astray \cup {f} ELSE astray
    /\ UNCHANGED <<excluded, broken, manifest, queue, pending, backend,
                   todo, requests, crashes>>

\* The blind second label; the first one stays what agreement is measured on.
Review ==
    /\ Ready /\ edits < MaxEdits
    /\ edits' = edits + 1
    /\ \E f \in DOMAIN Load :
          /\ facts[f].first = "none"
          /\ facts' = [facts EXCEPT ![f].first = facts[f].label]
    /\ UNCHANGED <<excluded, broken, manifest, queue, pending, backend,
                   todo, astray, requests, crashes>>

\* Each of some facts once, by its number.
InOrder(S) ==
    {s \in [1..Cardinality(S) -> S] :
        /\ \A f \in S : \E i \in DOMAIN s : s[i] = f
        /\ \A i, j \in DOMAIN s : i < j => s[i] < s[j]}

\* `split`: the facts the manifest names keep their side, the others are placed;
\* every changed fact is written, then the manifest.  A broken file refuses it.
Split ==
    /\ Ready /\ broken = {} /\ facts # << >>
    /\ \E sides \in AssignSplits(facts, Without(manifest.side,
                                     DOMAIN manifest.side \ DOMAIN facts)) :
          LET after == [f \in DOMAIN facts |-> [facts[f] EXCEPT !.split = sides[f]]]
          IN  /\ \E changed \in InOrder({f \in DOMAIN facts : after[f] # facts[f]}) :
                    todo' = [n \in DOMAIN changed |->
                                WriteFact(changed[n], after[changed[n]])]
                            \o <<WriteManifest(after)>>
              /\ astray' = astray \cup Strays(after, DOMAIN facts \ DOMAIN manifest.side)
    /\ UNCHANGED <<facts, excluded, broken, manifest, queue, pending,
                   backend, requests, edits, crashes>>

\* What a person does to the files: a fact is left out of the set, an edit
\* breaks one, and the broken one is repaired.
LeaveOut ==
    /\ Ready /\ edits < MaxEdits
    /\ edits' = edits + 1
    /\ \E f \in DOMAIN facts :
          /\ excluded' = With(excluded, f, facts[f])
          /\ facts' = Without(facts, {f})
          /\ broken' = broken \ {f}
    /\ UNCHANGED <<manifest, queue, pending, backend, todo, astray,
                   requests, crashes>>

Break ==
    /\ Ready /\ edits < MaxEdits
    /\ edits' = edits + 1
    /\ broken = {}
    /\ \E f \in DOMAIN facts : broken' = {f}
    /\ UNCHANGED <<facts, excluded, manifest, queue, pending, backend,
                   todo, astray, requests, crashes>>

Repair ==
    /\ Ready /\ broken # {}
    /\ broken' = {}
    /\ UNCHANGED <<facts, excluded, manifest, queue, pending, backend,
                   todo, astray, requests, edits, crashes>>
----------------------------------------------------------------------------
(* The day's batch *)

\* The articles of saved batches, and those they had tried in vain.
Proposed(q) == UNION {DOMAIN q[b].items \cup q[b].skipped : b \in DOMAIN q}

\* Fault: only what a batch proposed is known, not what it had tried.
KnownItems == UNION {DOMAIN queue[b].items : b \in DOMAIN queue}

KnownUrls == Proposed(queue)

BatchRequest == ({Load[f].page : f \in DOMAIN Load} \ {NoPage}) \cup KnownUrls

\* The backend's thread starts unless one is running, and forgets the last error.
Started(req, exclude) ==
    [backend EXCEPT !.running = TRUE, !.req = req, !.exclude = exclude,
                    !.error = FALSE]

\* What the labeller makes of its call: it waits for the batch, or the answer was
\* lost on the way and the backend builds one nobody waits for.
CallOutcomes(req) == {req, 0}

\* One request at a time, in the labeller and in the backend.
Fetch ==
    /\ Ready /\ pending = 0
    /\ requests < MaxBatches
    /\ ~backend.running
    /\ requests' = requests + 1
    /\ backend' = Started(requests + 1, BatchRequest)
    /\ pending' \in CallOutcomes(requests + 1)
    /\ UNCHANGED <<facts, excluded, broken, manifest, queue, todo, astray,
                   edits, crashes>>

\* A page two sources link to is drawn for the first of them.
SourceOf(page) == CHOOSE s \in Sources :
                     /\ page \in LinksOf[s]
                     /\ \A t \in Sources : page \in LinksOf[t] => s <= t

Least(m, n) == IF m <= n THEN m ELSE n
From(S, s) == {p \in S : SourceOf(p) = s}

\* One page per source and round, until there are n.
Draw(fresh, n) ==
    {D \in SUBSET fresh :
        /\ Cardinality(D) = Least(n, Cardinality(fresh))
        /\ \A s, t \in Sources :
              Cardinality(From(D, s)) > Cardinality(From(D, t)) + 1
                  => From(D, t) = From(fresh, t)}

Oversample == 2
ScreenSpare == 2

\* The screen leaves out what is off the publication's mission, or nothing when
\* inference/ cannot be reached.
Screen(drawn) == SUBSET drawn

\* Of what passed, the first ones are extracted; an article without text, without
\* a topic of ours or without a checkable claim is skipped.
FirstOf(kept) == {C \in SUBSET kept :
                     Cardinality(C) = Least(BatchSize * Oversample, Cardinality(kept))}
Prepare(candidates) == SUBSET candidates

\* Recent first, wanted topics next; one per source before a source's second.
Choose(ready) ==
    {C \in SUBSET ready :
        /\ Cardinality(C) = Least(BatchSize, Cardinality(ready))
        /\ (\E s \in Sources : Cardinality(From(C, s)) > 1)
              => \A t \in Sources : From(ready, t) # {} => From(C, t) # {}}

Fresh(exclude) == (UNION {LinksOf[s] : s \in Sources}) \ exclude

BatchBuilt ==
    /\ backend.running
    /\ \E drawn \in Draw(Fresh(backend.exclude), BatchSize * Oversample * ScreenSpare) :
       \E passed \in Screen(drawn) :
       \E candidates \in FirstOf(passed) :
       \E ready \in Prepare(candidates) :
       \E chosen \in Choose(ready) :
          backend' = [backend EXCEPT !.running = FALSE, !.exclude = {},
                        !.batch = [req |-> backend.req, items |-> chosen,
                                   skipped |-> candidates \ ready]]
    /\ UNCHANGED <<facts, excluded, broken, manifest, queue, pending, todo,
                   astray, requests, edits, crashes>>

\* The last batch stays what the backend answers with, beside the error.
BatchFailed ==
    /\ backend.running
    /\ backend' = [backend EXCEPT !.running = FALSE, !.exclude = {}, !.error = TRUE]
    /\ UNCHANGED <<facts, excluded, broken, manifest, queue, pending, todo,
                   astray, requests, edits, crashes>>

NewBatch(batch) ==
    [req |-> batch.req, skipped |-> batch.skipped,
     items |-> [p \in batch.items |-> [status |-> "pending", facts |-> {}]]]

\* Queue.save: one file per request.
SaveBatch(batch) ==
    IF \E b \in DOMAIN queue : queue[b].req = batch.req THEN queue
    ELSE Append(queue, NewBatch(batch))

\* Polled by the page: the finished batch is saved when it is the one asked for.
BatchStatus ==
    /\ Ready /\ pending # 0
    /\ ~backend.running
    /\ pending' = 0
    /\ queue' = IF ~backend.error /\ backend.batch.req = pending
                THEN SaveBatch(backend.batch) ELSE queue
    /\ UNCHANGED <<facts, excluded, broken, manifest, backend, todo, astray,
                   requests, edits, crashes>>

\* A claim is skipped with a reason, or put back.
MarkClaim ==
    /\ Ready
    /\ \E b \in DOMAIN queue : \E page \in DOMAIN queue[b].items,
          status \in {"skipped", "pending"} :
          /\ queue' = Mark(queue, <<b, page>>, status, {})
          /\ queue' # queue
    /\ UNCHANGED <<facts, excluded, broken, manifest, pending, backend, todo,
                   astray, requests, edits, crashes>>

\* The labeller stops: what it had still to write, and the batch it waited for.  A
\* second freeze that is cut off may have moved part of a group.
LabellerCrash ==
    /\ crashes < MaxCrashes
    /\ todo # << >> \/ pending # 0
    /\ todo' = << >> /\ pending' = 0
    /\ crashes' = crashes + 1
    /\ astray' = IF manifest.frozen THEN astray \cup Unwritten ELSE astray
    /\ UNCHANGED <<facts, excluded, broken, manifest, queue, backend, requests, edits>>

BackendRestart ==
    /\ crashes < MaxCrashes
    /\ backend # Idle
    /\ backend' = Idle
    /\ crashes' = crashes + 1
    /\ UNCHANGED <<facts, excluded, broken, manifest, queue, pending, todo,
                   astray, requests, edits>>

Init ==
    /\ facts = << >> /\ excluded = << >> /\ broken = {}
    /\ manifest = NotFrozen
    /\ queue = << >> /\ pending = 0 /\ backend = Idle /\ todo = << >>
    /\ astray = {} /\ requests = 0 /\ edits = 0 /\ crashes = 0

Next ==
    \/ Write \/ CreateFact \/ LabelFromBatch \/ Mutate \/ Update \/ Review
    \/ Split \/ LeaveOut \/ Break \/ Repair
    \/ Fetch \/ BatchBuilt \/ BatchFailed \/ BatchStatus \/ MarkClaim
    \/ LabellerCrash \/ BackendRestart

Spec == Init /\ [][Next]_vars
----------------------------------------------------------------------------
(* What the labelled set and its queue must guarantee *)

Everywhere == Merge(facts, excluded)

\* The files are what the tool writes: numbers within the set, labels, sides, and
\* a queue whose claims are one of the three statuses.
TypeOK ==
    /\ DOMAIN facts \cup DOMAIN excluded \subseteq Ids
    /\ \A f \in DOMAIN facts :
          /\ facts[f].label \in LabelNames /\ facts[f].split \in Sides
          /\ facts[f].page \in Pages \cup {NoPage}
          /\ facts[f].source \in {0} \cup Ids
    /\ broken \subseteq DOMAIN facts /\ astray \subseteq Ids
    /\ \A b \in DOMAIN queue : \A p \in DOMAIN queue[b].items :
          queue[b].items[p].status \in {"pending", "labelled", "skipped"}
    /\ pending \in 0..MaxBatches

\* A fact's number is never given to another one, even one left out of the set
\* since: every fact a batch's claim names is a fact labelled from that claim.
QueueNamesItsFacts ==
    \A b \in DOMAIN queue : \A p \in DOMAIN queue[b].items :
        \A f \in queue[b].items[p].facts :
            f \in DOMAIN Everywhere /\ Everywhere[f].ref = <<b, p>>

\* Once the split is frozen, claims of one article, and a synthetic FALSE and the
\* fact it was made from, are on one side, or tuning on one would be tuning on the
\* other.  Left apart are facts an edit moved to another article, those a person had
\* broken while another was placed, those a second freeze was cut off before, and the
\* facts placed in a group that has one of these.
GroupsStayWhole ==
    manifest.frozen =>
        \A f, g \in (DOMAIN manifest.side \cap DOMAIN facts) \ astray :
            Linked(facts, f, g) => facts[f].split = facts[g].split

\* A fact the frozen split names keeps its side: no edit, review, new fact or second
\* freeze moves it to the other half.
FrozenSidesStand ==
    [][\A f \in DOMAIN manifest.side \cap DOMAIN facts \cap DOMAIN facts' :
          facts'[f].split = facts[f].split]_vars

\* No article is in two batches, whether it was proposed or tried in vain, however
\* requests, lost answers, restarts and labelled facts interleave.
NothingProposedTwice ==
    \A b, c \in DOMAIN queue : b # c =>
        (DOMAIN queue[b].items \cup queue[b].skipped)
            \cap (DOMAIN queue[c].items \cup queue[c].skipped) = {}

\* The queue is a memory that holds: what was proposed, and what became of it.
QueueRemembers == QueueNamesItsFacts /\ NothingProposedTwice

\* What the code says of its re-check sample: adding facts only adds to it.
RecheckOnlyGrows ==
    [][DOMAIN facts # DOMAIN facts' /\ DOMAIN facts \subseteq DOMAIN facts'
          => ReviewSample(facts) \subseteq ReviewSample(facts')]_vars
=============================================================================
