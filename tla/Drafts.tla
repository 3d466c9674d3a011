------------------------------- MODULE Drafts -------------------------------
(***************************************************************************)
(* One draft of the newsroom and its public page                           *)
(* (backend/src/services/writer/draft_store.py and the routes above it).   *)
(*                                                                         *)
(* The draft is one JSON file; every change of it is a read-change-save    *)
(* under the store's lock (DraftStore.update), so a change is one action   *)
(* here.  What is NOT one action in the code is not one here:              *)
(*   - a background step (generating, reviewing, rewriting) marks the      *)
(*     draft busy, then works in a thread over several lock sections;      *)
(*   - creating a draft saves it and claims it in two lock sections;       *)
(*   - a rewrite request is checked on an unlocked read, then claimed;     *)
(*   - publishing writes the page, then saves the draft, in one lock       *)
(*     section that a crash or a failing save can cut in two.              *)
(*                                                                         *)
(* Drafts share nothing but the lock, so one draft is enough.              *)
(***************************************************************************)
EXTENDS Naturals, Sequences

CONSTANTS
  Texts,         \* what a draft's content can be
  Headline,      \* the placeholder content: a title and an empty body
  NoText,        \* no text: no page, no proposed correction
  NoDraft,       \* the draft file does not exist yet
  NoReview,      \* review is None
  NoOne,         \* nobody holds the store's lock
  Requests,      \* the request handlers of FastAPI's thread pool
  Threads,       \* the background threads
  MaxRounds,     \* most rewrite rounds a request may ask for (MAX_ROUNDS)
  MaxRevisions,  \* bound: revisions a draft gets
  MaxCrashes,    \* bound: times the process dies
  SavesMayFail,  \* whether a write to the disk may fail
  EarlyActs      \* whether anyone acts on a draft its creation has saved
                 \* but not yet claimed (it is in GET /drafts already)

ASSUME DraftsAssumption ==
  /\ Headline \in Texts
  /\ NoText \notin Texts
  /\ NoOne \notin Requests
  /\ MaxRounds \in Nat \ {0}
  /\ MaxRevisions \in Nat
  /\ MaxCrashes \in Nat
  /\ SavesMayFail \in BOOLEAN
  /\ EarlyActs \in BOOLEAN

VARIABLES
  draft,    \* the draft file
  page,     \* the published snapshot, what the public reads
  lock,     \* the handler that holds the store's lock between two steps
  request,  \* where each handler is
  job,      \* where each background thread is
  up,       \* whether the process runs
  crashes,  \* how often it died
  signed    \* history: the text a person approved last

vars == <<draft, page, lock, request, job, up, crashes, signed>>

-----------------------------------------------------------------------------
(* The data. *)

Kinds == {"generating", "reviewing", "rewriting"}

\* A review, with the text it read: a ghost, DraftReview does not keep it.
Review == [of : Texts, corrected : Texts \cup {NoText}]

Revision == [content : Texts, review : Review \cup {NoReview}]

Draft == [content   : Texts,
          review    : Review \cup {NoReview},
          revisions : Seq(Revision),
          status    : {"draft", "approved", "published"},
          busy      : Kinds \cup {"none"},
          error     : {"none", "failed", "interrupted"}]

ASSUME NoDraftAssumption == NoDraft \notin Draft

NewDraft == [content |-> Headline, review |-> NoReview, revisions |-> << >>,
             status |-> "draft", busy |-> "none", error |-> "none"]

\* at: start -> (read -> (kept -> reread ->)) ended.  `text` is the text a
\* result is meant for, `seen` the one a review read.
Job == [kind   : Kinds \cup {"none"},
        at     : {"idle", "start", "read", "kept", "reread", "ended"},
        text   : Texts \cup {NoText},
        seen   : Texts \cup {NoText},
        number : 0..MaxRounds,
        rounds : 0..MaxRounds,
        below  : BOOLEAN,
        failed : BOOLEAN]

IdleJob == [kind |-> "none", at |-> "idle", text |-> NoText, seen |-> NoText,
            number |-> 0, rounds |-> 0, below |-> FALSE, failed |-> FALSE]

\* The body is empty in the placeholder alone.
HasBody(text) == text # Headline

Active(t) == job[t].at # "idle"

Exists == draft # NoDraft

Busy == Exists /\ draft.busy # "none"

Status == IF Exists THEN draft.status ELSE "draft"

\* Fault: the new text inherits the review of the old one.
ReviseKeepingReview(d, text) ==
  [d EXCEPT !.revisions = Append(@, [content |-> text, review |-> NoReview]),
            !.content = text]

\* revise: the outgoing revision keeps the review of its own text, a new one
\* is appended, the draft's review is cleared.
Revise(d, text) ==
  LET n    == Len(d.revisions)
      kept == IF n > 0 /\ d.review # NoReview /\ d.revisions[n].review = NoReview
              THEN [d.revisions EXCEPT ![n].review = d.review]
              ELSE d.revisions
  IN [d EXCEPT !.revisions = Append(kept, [content |-> text, review |-> NoReview]),
               !.content = text,
               !.review = NoReview]

CanRevise == Len(draft.revisions) < MaxRevisions

\* A change of the draft: the process runs, the file is there, the lock free.
CanUpdate == up /\ Exists /\ lock = NoOne

\* What a person's request sees: nobody reaches the draft between its save
\* and its claim unless EarlyActs.
Reached == EarlyActs \/ \A r \in Requests : request[r] # "created"

-----------------------------------------------------------------------------
(* Creation and the claim of background steps. *)

Init ==
  /\ draft = NoDraft
  /\ page = NoText
  /\ lock = NoOne
  /\ request = [r \in Requests |-> "idle"]
  /\ job = [t \in Threads |-> IdleJob]
  /\ up = TRUE
  /\ crashes = 0
  /\ signed = NoText

\* create_draft, first half: the placeholder is saved, not busy.
Create(r) ==
  /\ up /\ ~Exists /\ lock = NoOne
  /\ request[r] = "idle"
  /\ draft' = NewDraft
  /\ request' = [request EXCEPT ![r] = "created"]
  /\ UNCHANGED <<page, lock, job, up, crashes, signed>>

\* run_in_background: claim (busy set, error cleared), then the thread.
Claim(t, kind, rounds) ==
  /\ CanUpdate
  /\ ~Busy
  /\ job[t].at = "idle"
  /\ draft' = [draft EXCEPT !.busy = kind, !.error = "none"]
  /\ job' = [job EXCEPT ![t] = [IdleJob EXCEPT !.kind = kind, !.at = "start",
                                               !.number = 1, !.rounds = rounds]]

\* A claim on a busy draft: DraftBusy, answered as a 409.
ClaimRefused == CanUpdate /\ Busy /\ UNCHANGED <<draft, job>>

\* create_draft, second half: the writer's start.
StartWriter(r) ==
  /\ request[r] = "created"
  /\ (\E t \in Threads : Claim(t, "generating", 1)) \/ ClaimRefused
  /\ request' = [request EXCEPT ![r] = "idle"]
  /\ UNCHANGED <<page, lock, up, crashes, signed>>

\* review_draft: any status, any text.
StartReview ==
  /\ Reached
  /\ \E t \in Threads : Claim(t, "reviewing", 1)
  /\ UNCHANGED <<page, lock, request, up, crashes, signed>>

\* rewrite_draft, before the lock: a read, and what it refuses.
CheckRewrite(r) ==
  /\ up /\ Exists /\ Reached
  /\ request[r] = "idle"
  /\ ~Busy
  /\ draft.status # "published"
  /\ draft.review # NoReview
  /\ request' = [request EXCEPT ![r] = "checked"]
  /\ UNCHANGED <<draft, page, lock, job, up, crashes, signed>>

StartRewrite(r) ==
  /\ request[r] = "checked"
  /\ \/ \E t \in Threads, n \in 1..MaxRounds : Claim(t, "rewriting", n)
     \/ ClaimRefused
  /\ request' = [request EXCEPT ![r] = "idle"]
  /\ UNCHANGED <<page, lock, up, crashes, signed>>

-----------------------------------------------------------------------------
(* What a person changes: each a single update, refused while busy. *)

Changed(d) ==
  /\ draft' = [d EXCEPT !.status = "draft"]
  /\ UNCHANGED <<page, lock, request, job, up, crashes, signed>>

\* Fault: a change is taken while a step runs.
ChangeWhileBusy ==
  CanUpdate /\ Reached /\ draft.status # "published" /\ CanRevise

\* The refusals of edit_draft, accept_correction and restore_revision.
CanChange ==
  /\ CanUpdate /\ Reached
  /\ ~Busy
  /\ draft.status # "published"
  /\ CanRevise

Edit(text) ==
  /\ CanChange
  /\ Changed(Revise(draft, text))

AcceptCorrection ==
  /\ CanChange
  /\ draft.review # NoReview
  /\ draft.review.corrected # NoText
  /\ Changed(Revise(draft, draft.review.corrected))

\* An earlier revision's text comes back with the review of that text.
Restore(i) ==
  LET earlier == draft.revisions[i]
  IN /\ CanChange
     /\ i \in DOMAIN draft.revisions
     /\ earlier.content # draft.content
     /\ Changed([Revise(draft, earlier.content) EXCEPT !.review = earlier.review])

Approve ==
  /\ CanUpdate /\ Reached
  /\ ~Busy
  /\ draft.status # "published"
  /\ HasBody(draft.content)
  /\ draft' = [draft EXCEPT !.status = "approved"]
  /\ signed' = draft.content
  /\ UNCHANGED <<page, lock, request, job, up, crashes>>

-----------------------------------------------------------------------------
(* Publishing: the page and the draft file are two writes. *)

Step(r, from, to) ==
  /\ request[r] = from
  /\ request' = [request EXCEPT ![r] = to]

\* Fault: nobody asks whether the text was approved.
PublishUnapproved(r) ==
  /\ CanUpdate /\ Reached
  /\ ~Busy
  /\ draft.status # "published"
  /\ Step(r, "idle", "paged")
  /\ page' = draft.content
  /\ lock' = r
  /\ UNCHANGED <<draft, job, up, crashes, signed>>

\* publish_draft, in `update`: the page is written, the lock kept.
PublishPage(r) ==
  /\ CanUpdate /\ Reached
  /\ ~Busy
  /\ draft.status = "approved"
  /\ Step(r, "idle", "paged")
  /\ page' = draft.content
  /\ lock' = r
  /\ UNCHANGED <<draft, job, up, crashes, signed>>

PublishSave(r) ==
  /\ Step(r, "paged", "idle")
  /\ draft' = [draft EXCEPT !.status = "published"]
  /\ lock' = NoOne
  /\ UNCHANGED <<page, job, up, crashes, signed>>

\* The save raises: the lock is let go, the page still to be taken down.
PublishSaveFails(r) ==
  /\ SavesMayFail
  /\ Step(r, "paged", "withdrawing")
  /\ lock' = NoOne
  /\ UNCHANGED <<draft, page, job, up, crashes, signed>>

\* withdraw: outside the lock; a failure of its own is only logged.
Withdraw(r) ==
  /\ Step(r, "withdrawing", "idle")
  /\ \/ page' = NoText
     \/ SavesMayFail /\ page' = page
  /\ UNCHANGED <<draft, lock, job, up, crashes, signed>>

\* unpublish_draft, in `update`: the page is removed, the lock kept.
UnpublishPage(r) ==
  /\ CanUpdate /\ Reached
  /\ ~Busy
  /\ draft.status = "published"
  /\ Step(r, "idle", "unpaged")
  /\ page' = NoText
  /\ lock' = r
  /\ UNCHANGED <<draft, job, up, crashes, signed>>

UnpublishSave(r) ==
  /\ Step(r, "unpaged", "idle")
  /\ draft' = [draft EXCEPT !.status = "approved"]
  /\ lock' = NoOne
  /\ UNCHANGED <<page, job, up, crashes, signed>>

UnpublishSaveFails(r) ==
  /\ SavesMayFail
  /\ Step(r, "unpaged", "idle")
  /\ lock' = NoOne
  /\ UNCHANGED <<draft, page, job, up, crashes, signed>>

-----------------------------------------------------------------------------
(* The background threads. *)

\* A thread's step that leaves the draft alone, one that ends it.
Goes(t, new) == job' = [job EXCEPT ![t] = new]

Ends(t, failure) == Goes(t, [job[t] EXCEPT !.at = "ended", !.failed = failure])

Unsaved == UNCHANGED <<draft, page, lock, request, up, crashes, signed>>

Saved == UNCHANGED <<page, lock, request, up, crashes, signed>>

At(t, kind, at) == job[t].kind = kind /\ job[t].at = at

\* generate: the article written from its sources replaces the content.
RecordArticle(t) ==
  /\ At(t, "generating", "start")
  /\ CanUpdate /\ CanRevise
  /\ \E text \in Texts :
       /\ HasBody(text)
       /\ draft' = Revise(draft, text)
  /\ Ends(t, FALSE)
  /\ Saved

\* review_draft's work: what is read now is what the review is of.
ReadToReview(t) ==
  /\ At(t, "reviewing", "start")
  /\ Goes(t, [job[t] EXCEPT !.at = "read", !.text = draft.content, !.seen = draft.content])
  /\ Unsaved

\* attach: only onto the text it read (StaleReview otherwise).
Attach(t, corrected) ==
  /\ draft.content = job[t].text
  /\ draft' = [draft EXCEPT !.review = [of |-> job[t].seen, corrected |-> corrected]]

Stale(t) == draft.content # job[t].text

Proposals == {text \in Texts : HasBody(text)} \cup {NoText}

AttachReview(t) ==
  /\ At(t, "reviewing", "read")
  /\ CanUpdate
  /\ \E corrected \in Proposals : Attach(t, corrected)
  /\ Ends(t, FALSE)
  /\ Saved

\* run, the top of a round: refused on a published or unreviewed draft,
\* over once every target is met, else the text to rewrite is read.
StartRound(t) ==
  /\ At(t, "rewriting", "start")
  /\ IF draft.status = "published" \/ draft.review = NoReview
     THEN Ends(t, TRUE)
     ELSE IF job[t].number > 1 /\ ~job[t].below
     THEN Ends(t, FALSE)
     ELSE Goes(t, [job[t] EXCEPT !.at = "read", !.text = draft.content])
  /\ Unsaved

\* Fault: a rewritten text keeps the approval of the old one.
KeepApproval(t) ==
  /\ At(t, "rewriting", "read")
  /\ CanUpdate /\ CanRevise
  /\ ~Stale(t)
  /\ \E text \in Texts :
       /\ HasBody(text)
       /\ text # job[t].text
       /\ draft' = Revise(draft, text)
       /\ Goes(t, [job[t] EXCEPT !.at = "kept", !.text = text])
  /\ Saved

\* keep: the rewrite becomes the content, and the draft a draft again.
Keep(t) ==
  /\ At(t, "rewriting", "read")
  /\ CanUpdate /\ CanRevise
  /\ ~Stale(t)
  /\ draft.status # "published"
  /\ \E text \in Texts :
       /\ HasBody(text)
       /\ text # job[t].text
       /\ draft' = [Revise(draft, text) EXCEPT !.status = "draft"]
       /\ Goes(t, [job[t] EXCEPT !.at = "kept", !.text = text])
  /\ Saved

\* _review reads the draft again for the reviewer.
RereadToReview(t) ==
  /\ At(t, "rewriting", "kept")
  /\ Goes(t, [job[t] EXCEPT !.at = "reread", !.seen = draft.content])
  /\ Unsaved

\* _review's attach.  A correction is proposed unless another round follows:
\* one is left and a scored metric is below its target.
AttachRewriteReview(t) ==
  /\ At(t, "rewriting", "reread")
  /\ CanUpdate
  /\ \E below \in BOOLEAN, corrected \in Proposals :
       /\ (below /\ job[t].number < job[t].rounds) => corrected = NoText
       /\ Attach(t, corrected)
       /\ IF job[t].number < job[t].rounds
          THEN Goes(t, [job[t] EXCEPT !.at = "start", !.number = job[t].number + 1,
                                      !.below = below])
          ELSE Ends(t, FALSE)
  /\ Saved

\* Any failure of the work: a model that cannot be reached, a rewrite not
\* kept, a stale text, a save that failed.
Fail(t) ==
  /\ job[t].at \in {"start", "read", "kept", "reread"}
  /\ Ends(t, TRUE)
  /\ Unsaved

Released(d, error) == [d EXCEPT !.busy = "none", !.error = error]

Release(t) ==
  /\ job[t].at = "ended"
  /\ CanUpdate
  /\ draft' = Released(draft, IF job[t].failed THEN "failed" ELSE "none")
  /\ Goes(t, IdleJob)
  /\ Saved

\* The release's own save fails: the thread is gone, the draft still busy.
ReleaseFails(t) ==
  /\ SavesMayFail
  /\ job[t].at = "ended"
  /\ CanUpdate
  /\ Goes(t, IdleJob)
  /\ Unsaved

-----------------------------------------------------------------------------
(* The process. *)

Crash ==
  /\ up
  /\ crashes < MaxCrashes
  /\ up' = FALSE
  /\ crashes' = crashes + 1
  /\ lock' = NoOne
  /\ request' = [r \in Requests |-> "idle"]
  /\ job' = [t \in Threads |-> IdleJob]
  /\ UNCHANGED <<draft, page, signed>>

\* Fault: a draft cut off by the crash stays busy.
RestartAsIs ==
  /\ ~up
  /\ up' = TRUE
  /\ UNCHANGED <<draft, page, lock, request, job, crashes, signed>>

\* A new DraftStore: _clear_stale_busy releases what the crash cut off.
Restart ==
  /\ ~up
  /\ up' = TRUE
  /\ draft' = IF Busy THEN Released(draft, "interrupted") ELSE draft
  /\ UNCHANGED <<page, lock, request, job, crashes, signed>>

-----------------------------------------------------------------------------

Person ==
  \/ StartReview
  \/ \E text \in Texts : Edit(text)
  \/ AcceptCorrection
  \/ \E i \in 1..MaxRevisions : Restore(i)
  \/ Approve
  \/ \E r \in Requests : \/ Create(r)
                         \/ CheckRewrite(r)
                         \/ PublishPage(r)
                         \/ UnpublishPage(r)

\* A handler goes on with what it began.
Handler(r) ==
  \/ StartWriter(r)
  \/ StartRewrite(r)
  \/ PublishSave(r)
  \/ PublishSaveFails(r)
  \/ Withdraw(r)
  \/ UnpublishSave(r)
  \/ UnpublishSaveFails(r)

Thread(t) ==
  \/ RecordArticle(t)
  \/ ReadToReview(t)
  \/ AttachReview(t)
  \/ StartRound(t)
  \/ Keep(t)
  \/ RereadToReview(t)
  \/ AttachRewriteReview(t)
  \/ Fail(t)
  \/ Release(t)
  \/ ReleaseFails(t)

Next ==
  \/ Person
  \/ \E r \in Requests : Handler(r)
  \/ \E t \in Threads : Thread(t)
  \/ Crash
  \/ Restart

Spec == Init /\ [][Next]_vars

\* What the scheduler owes: handlers and threads that began go on, a model
\* call ends in an answer or an error, a dead process is started again.
\* Persons owe nothing.
Fairness ==
  /\ \A r \in Requests : WF_vars(Handler(r))
  /\ \A t \in Threads : WF_vars(Thread(t))
  /\ WF_vars(Restart)

FairSpec == Spec /\ Fairness

-----------------------------------------------------------------------------
(* What must hold. *)

\* Types of every variable: the draft file, the page, handlers and threads.
TypeOK ==
  /\ draft \in Draft \cup {NoDraft}
  /\ page \in Texts \cup {NoText}
  /\ lock \in Requests \cup {NoOne}
  /\ request \in [Requests -> {"idle", "created", "checked", "paged",
                               "withdrawing", "unpaged"}]
  /\ job \in [Threads -> Job]
  /\ up \in BOOLEAN
  /\ crashes \in 0..MaxCrashes
  /\ signed \in Texts \cup {NoText}

\* At most one background step works on a draft, and it is the one `busy`
\* names: the claim is what keeps two threads off the same text.
OneStepAtATime ==
  \A t \in Threads : Active(t) =>
    /\ Exists /\ draft.busy = job[t].kind
    /\ \A u \in Threads : Active(u) => u = t

\* The text a thread means its result for is the draft's text until the
\* result lands: no edit, restore or other step comes between, so the stale
\* checks of review_routes.py and rewriter.py never have to fire.
NoResultIsStale ==
  \A t \in Threads :
    job[t].at \in {"read", "kept", "reread"} =>
      /\ Exists /\ draft.content = job[t].text
      /\ (job[t].at = "reread" \/ job[t].kind = "reviewing") => job[t].seen = job[t].text

\* A review never describes text it did not read, neither the draft's nor
\* the one a revision keeps and `restore` brings back.
ReviewsDescribeTheirText ==
  Exists =>
    /\ draft.review # NoReview => draft.review.of = draft.content
    /\ \A i \in DOMAIN draft.revisions :
         LET r == draft.revisions[i]
         IN r.review # NoReview => r.review.of = r.content

\* The last revision's content is the draft's, and its review is still the
\* draft's own: `revise` finds the place to keep it free.
LastRevisionIsContent ==
  Exists => LET n == Len(draft.revisions)
            IN n > 0 => draft.revisions[n] = [content |-> draft.content, review |-> NoReview]

\* What stands approved or published is the text a person approved, whatever
\* ran in the background since.
ApprovalStands ==
  Status \in {"approved", "published"} => draft.content = signed

\* The text of a published draft never changes under its page: it takes an
\* unpublish first.
PublishedTextIsFrozen ==
  [][Status = "published" => draft'.content = draft.content]_vars

\* A draft that stops being published is off the public page, whatever failed
\* before.
UnpublishedMeansGone ==
  [][Status = "published" /\ Status' # "published" => page' = NoText]_vars

\* The history only grows: no step changes a revision's text or loses the
\* review a revision has, and a draft's review is not lost when its text is
\* replaced but kept with that text.
HistoryOnlyGrows ==
  [][Exists =>
       /\ Len(draft'.revisions) >= Len(draft.revisions)
       /\ \A i \in DOMAIN draft.revisions :
            LET was == draft.revisions[i]
                is  == draft'.revisions[i]
            IN /\ is.content = was.content
               /\ is.review # was.review =>
                    was.review = NoReview /\ is.review = draft.review]_vars

\* No handler is between two of its writes.
Quiet == \A r \in Requests : request[r] \notin {"paged", "unpaged", "withdrawing"}

\* While no write was lost, the page is what the draft file says: the text of
\* a published draft and nothing otherwise.
PageMatchesStatus ==
  (crashes = 0 /\ ~SavesMayFail /\ Quiet) =>
    page = IF Status = "published" THEN draft.content ELSE NoText

\* Every background step ends: `busy` is cleared by its thread or by the next
\* start of the process.
BusyEnds == Busy ~> ~Busy

\* The comment of unpublish_draft: the page goes whatever the records say,
\* so a page that is public can be taken down by unpublishing - which takes
\* a draft that says it is published.
UnpublishReachesThePage ==
  (up /\ Quiet /\ page # NoText) => Status = "published"

\* The page, as the newsroom's promise sees it.
Promise == INSTANCE Editorial WITH public <- page

\* A public page shows what a person approved last before it went up, through
\* crashes, failing writes, rewrites and restores.
OnlyApprovedTextIsPublic == Promise!Spec
=============================================================================
