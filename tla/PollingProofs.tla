--------------------------- MODULE PollingProofs ---------------------------
(***************************************************************************)
(* What a page polls for.  Of Drafts, for every set of texts, handlers and *)
(* threads, every number of rounds, revisions and crashes, and failing     *)
(* writes.  Of Jobs, for any number of jobs, addresses and workers, any    *)
(* cap on finished jobs, and journal lines that may be lost or torn.       *)
(***************************************************************************)
EXTENDS Drafts, Jobs, FiniteSetTheorems, TLAPS

-----------------------------------------------------------------------------
(* Revising and releasing a draft. *)

\* revise keeps a draft a draft, changes the content to the text given, clears
\* the review and touches neither status nor busy.
LEMMA ReviseType ==
  ASSUME NEW d \in Draft, NEW text \in Texts
  PROVE  /\ Revise(d, text) \in Draft
         /\ Revise(d, text).content = text
         /\ Revise(d, text).review = NoReview
         /\ Revise(d, text).status = d.status
         /\ Revise(d, text).busy = d.busy
         /\ Revise(d, text).error = d.error
  <1> DEFINE n == Len(d.revisions)
             kept == IF n > 0 /\ d.review # NoReview /\ d.revisions[n].review = NoReview
                     THEN [d.revisions EXCEPT ![n].review = d.review]
                     ELSE d.revisions
             new == [content |-> text, review |-> NoReview]
  <1>1. d.revisions \in Seq(Revision) /\ d.review \in Review \cup {NoReview}
    BY DEF Draft
  <1>2. kept \in Seq(Revision)
    <2>1. CASE n > 0 /\ d.review # NoReview
      <3>1. n \in 1..Len(d.revisions) BY <1>1, <2>1
      <3>2. d.revisions[n] \in Revision BY <1>1, <3>1
      <3>3. [d.revisions[n] EXCEPT !.review = d.review] \in Revision
        BY <1>1, <3>2 DEF Revision
      <3>4. [d.revisions EXCEPT ![n].review = d.review] \in Seq(Revision)
        BY <1>1, <3>1, <3>3
      <3> QED BY <1>1, <3>4
    <2>2. CASE ~(n > 0 /\ d.review # NoReview)
      BY <1>1, <2>2
    <2> QED BY <2>1, <2>2
  <1>3. new \in Revision BY DEF Revision
  <1>4. Append(kept, new) \in Seq(Revision) BY <1>2, <1>3
  <1>5. Revise(d, text) = [d EXCEPT !.revisions = Append(kept, new),
                                    !.content = text, !.review = NoReview]
    BY DEF Revise
  <1> HIDE DEF kept, new
  <1> QED BY <1>4, <1>5 DEF Draft

\* Releasing a draft clears busy, keeps everything else but the error.
LEMMA ReleasedType ==
  ASSUME NEW d \in Draft, NEW error \in {"none", "failed", "interrupted"}
  PROVE  /\ Released(d, error) \in Draft
         /\ Released(d, error).busy = "none"
         /\ Released(d, error).content = d.content
         /\ Released(d, error).review = d.review
         /\ Released(d, error).revisions = d.revisions
         /\ Released(d, error).status = d.status
  BY DEF Released, Draft

\* A new draft is a draft.
LEMMA NewDraftType == NewDraft \in Draft
  BY DraftsAssumption DEF NewDraft, Draft

\* A thread that does nothing is a job.
LEMMA IdleJobType == IdleJob \in Job
  BY DraftsAssumption DEF IdleJob, Job

\* A thread's step changes its own record and no other.
LEMMA GoesType ==
  ASSUME job \in [Threads -> Job], NEW t \in Threads, NEW new \in Job, Goes(t, new)
  PROVE  /\ job' \in [Threads -> Job]
         /\ job'[t] = new
         /\ \A u \in Threads : u # t => job'[u] = job[u]
  BY DEF Goes

\* A thread that is at its end keeps its kind, and the others their places.
LEMMA EndsType ==
  ASSUME job \in [Threads -> Job], NEW t \in Threads, NEW failure \in BOOLEAN,
         Ends(t, failure)
  PROVE  /\ job' \in [Threads -> Job]
         /\ job'[t].at = "ended"
         /\ job'[t].kind = job[t].kind
         /\ \A u \in Threads : u # t => job'[u] = job[u]
  <1>1. [job[t] EXCEPT !.at = "ended", !.failed = failure] \in Job
    BY DEF Job
  <1>2. /\ job' \in [Threads -> Job]
        /\ job'[t] = [job[t] EXCEPT !.at = "ended", !.failed = failure]
        /\ \A u \in Threads : u # t => job'[u] = job[u]
    BY <1>1, GoesType DEF Ends
  <1> QED BY <1>2 DEF Job

\* A claim marks the draft busy with the thread's kind, for one idle thread.
LEMMA ClaimType ==
  ASSUME TypeOK, NEW t \in Threads, NEW kind \in Kinds, NEW rounds \in 1..MaxRounds,
         Claim(t, kind, rounds)
  PROVE  /\ Exists /\ lock = NoOne /\ ~Busy /\ up /\ job[t].at = "idle"
         /\ draft \in Draft /\ draft' \in Draft
         /\ draft'.busy = kind /\ draft'.status = draft.status
         /\ draft'.content = draft.content
         /\ draft'.review = draft.review /\ draft'.revisions = draft.revisions
         /\ job' \in [Threads -> Job]
         /\ job'[t].kind = kind /\ job'[t].at = "start"
         /\ \A u \in Threads : u # t => job'[u] = job[u]
  <1>1. draft \in Draft BY DEF Claim, CanUpdate, Exists, TypeOK
  <1>2. /\ draft' \in Draft /\ draft'.busy = kind /\ draft'.status = draft.status
        /\ draft'.content = draft.content
        /\ draft'.review = draft.review /\ draft'.revisions = draft.revisions
    BY <1>1 DEF Claim, Draft
  <1> DEFINE new == [IdleJob EXCEPT !.kind = kind, !.at = "start",
                                    !.number = 1, !.rounds = rounds]
  <1>3. new \in Job /\ new.kind = kind /\ new.at = "start"
    <2>1. 1 \in 0..MaxRounds /\ rounds \in 0..MaxRounds
      BY DraftsAssumption
    <2> QED BY <2>1, IdleJobType DEF Job
  <1>4. job \in [Threads -> Job] /\ Goes(t, new)
    BY DEF TypeOK, Claim, Goes
  <1> HIDE DEF new
  <1>5. /\ job' \in [Threads -> Job] /\ job'[t] = new
        /\ \A u \in Threads : u # t => job'[u] = job[u]
    BY <1>3, <1>4, GoesType
  <1> QED BY <1>1, <1>2, <1>3, <1>5 DEF Claim, CanUpdate

\* What a person's change leaves: a draft, unchanged elsewhere.
LEMMA ChangedType ==
  ASSUME TypeOK, NEW d \in Draft, Changed(d)
  PROVE  TypeOK' /\ draft' \in Draft /\ draft'.status = "draft"
         /\ draft'.content = d.content /\ draft'.busy = d.busy
  <1>1. draft' \in Draft /\ draft'.status = "draft" /\ draft'.content = d.content
        /\ draft'.busy = d.busy
    BY DEF Changed, Draft
  <1> QED BY <1>1 DEF Changed, TypeOK

\* A handler's step keeps the handlers' type.
LEMMA RequestType ==
  ASSUME TypeOK, NEW r \in Requests,
         NEW to \in {"idle", "created", "checked", "paged", "withdrawing", "unpaged"},
         request' = [request EXCEPT ![r] = to]
  PROVE  /\ request' \in [Requests -> {"idle", "created", "checked", "paged",
                                       "withdrawing", "unpaged"}]
         /\ request'[r] = to
         /\ \A q \in Requests : q # r => request'[q] = request[q]
  BY DEF TypeOK

-----------------------------------------------------------------------------
(***************************************************************************)
(* The first inductive invariant: who may change the draft when.  A thread *)
(* that works has the draft's busy flag, a handler between the page and    *)
(* the save has the lock and found the draft not busy, and neither exists  *)
(* without a draft or in a process that is down.                           *)
(***************************************************************************)

InUse ==
  /\ \A r \in Requests : request[r] # "idle" => up /\ Exists
  /\ \A t \in Threads : Active(t) => up /\ Exists

Locked ==
  \A r \in Requests :
    /\ request[r] = "paged" => lock = r /\ ~Busy /\ Status = "approved"
    /\ request[r] = "unpaged" => lock = r /\ ~Busy /\ Status = "published" /\ page = NoText

KindsTold == \A t \in Threads : Active(t) => job[t].kind \in Kinds

MutexInv == TypeOK /\ InUse /\ Locked /\ KindsTold /\ OneStepAtATime /\ NoResultIsStale

\* At first nobody works.
LEMMA MutexInit == Init => MutexInv
  <1> SUFFICES ASSUME Init PROVE MutexInv
    OBVIOUS
  <1>1. TypeOK BY DraftsAssumption, IdleJobType DEF Init, TypeOK
  <1>2. \A t \in Threads : job[t].at = "idle"
    BY DEF Init, IdleJob
  <1>3. \A r \in Requests : request[r] = "idle"
    BY DEF Init
  <1> QED BY <1>1, <1>2, <1>3
      DEF MutexInv, InUse, Locked, KindsTold, OneStepAtATime, NoResultIsStale, Active

\* A change a person makes to a draft that is not busy leaves the threads out.
LEMMA MutexUpdate ==
  ASSUME MutexInv, CanUpdate, ~Busy,
         draft' \in Draft, draft'.busy = "none",
         signed' \in Texts \cup {NoText},
         UNCHANGED <<page, lock, request, job, up, crashes>>
  PROVE  MutexInv'
  <1>1. \A t \in Threads : ~Active(t)
    BY DEF MutexInv, OneStepAtATime, KindsTold, Kinds, Busy
  <1>2. \A r \in Requests : request[r] \notin {"paged", "unpaged"}
    BY DraftsAssumption DEF MutexInv, Locked, CanUpdate
  <1>3. TypeOK' BY DEF MutexInv, TypeOK
  <1>4. Exists' BY NoDraftAssumption DEF Exists
  <1> QED BY <1>1, <1>2, <1>3, <1>4
      DEF MutexInv, InUse, Locked, KindsTold, OneStepAtATime, NoResultIsStale, Active

\* A claim takes an idle draft and an idle thread.
LEMMA MutexClaim ==
  ASSUME MutexInv, NEW t \in Threads, NEW kind \in Kinds, NEW rounds \in 1..MaxRounds,
         Claim(t, kind, rounds),
         request' \in [Requests -> {"idle", "created", "checked", "paged",
                                    "withdrawing", "unpaged"}],
         \A r \in Requests : request'[r] = request[r] \/ request'[r] = "idle",
         UNCHANGED <<page, lock, up, crashes, signed>>
  PROVE  MutexInv'
  <1>1. TypeOK BY DEF MutexInv
  <1>2. /\ lock = NoOne /\ ~Busy /\ up
        /\ draft' \in Draft /\ draft'.busy = kind
        /\ job' \in [Threads -> Job]
        /\ job'[t].kind = kind /\ job'[t].at = "start"
        /\ \A u \in Threads : u # t => job'[u] = job[u]
    BY <1>1, ClaimType
  <1>3. \A u \in Threads : ~Active(u)
    BY <1>2 DEF MutexInv, OneStepAtATime, KindsTold, Kinds, Busy
  <1>4. \A r \in Requests : request[r] \notin {"paged", "unpaged"}
    BY <1>2, DraftsAssumption DEF MutexInv, Locked
  <1>5. TypeOK' BY <1>1, <1>2 DEF TypeOK
  <1>6. Exists' BY <1>2, NoDraftAssumption DEF Exists
  <1>7. \A u \in Threads : Active(u)' => u = t
    BY <1>2, <1>3 DEF Active
  <1>8. InUse' BY <1>2, <1>6 DEF InUse
  <1>9. Locked' BY <1>4 DEF Locked
  <1>10. KindsTold' BY <1>2, <1>7 DEF KindsTold
  <1>11. OneStepAtATime' BY <1>2, <1>6, <1>7 DEF OneStepAtATime
  <1>12. \A u \in Threads : job'[u].at \in {"idle", "start"}
    <2>1. \A u \in Threads : u # t => job'[u].at = "idle"
      BY <1>2, <1>3 DEF Active
    <2> QED BY <1>2, <2>1
  <1>13. NoResultIsStale' BY <1>12 DEF NoResultIsStale
  <1> QED BY <1>5, <1>8, <1>9, <1>10, <1>11, <1>13 DEF MutexInv

\* A step of a working thread: its own record, and of the draft nothing the
\* busy flag stands for.
LEMMA MutexThread ==
  ASSUME MutexInv, NEW t \in Threads, Active(t),
         draft' \in Draft, draft'.busy = draft.busy,
         job' \in [Threads -> Job],
         job'[t].kind = job[t].kind,
         job'[t].at \in {"read", "kept", "reread"} =>
           /\ draft'.content = job'[t].text
           /\ (job'[t].at = "reread" \/ job'[t].kind = "reviewing")
                => job'[t].seen = job'[t].text,
         \A u \in Threads : u # t => job'[u] = job[u],
         Saved
  PROVE  MutexInv'
  <1> USE DEF Saved
  <1>1. up /\ Exists /\ draft.busy = job[t].kind /\ job[t].kind \in Kinds
    BY DEF MutexInv, InUse, OneStepAtATime, KindsTold
  <1>2. \A u \in Threads : u # t => ~Active(u)
    BY DEF MutexInv, OneStepAtATime
  <1>3. \A u \in Threads : u # t => ~Active(u)'
    BY <1>2 DEF Active
  <1>4. Exists' BY NoDraftAssumption DEF Exists
  <1>5. Busy BY <1>1 DEF Busy, Kinds
  <1>6. \A r \in Requests : request[r] \notin {"paged", "unpaged"}
    BY <1>5 DEF MutexInv, Locked
  <1>7. TypeOK' BY DEF MutexInv, TypeOK
  <1>8. InUse' BY <1>1, <1>4 DEF InUse
  <1>9. Locked' BY <1>6 DEF Locked
  <1>10. KindsTold' BY <1>1, <1>3 DEF KindsTold
  <1>11. OneStepAtATime' BY <1>1, <1>3, <1>4 DEF OneStepAtATime
  <1>12. NoResultIsStale'
    <2> SUFFICES ASSUME NEW u \in Threads, (job[u].at \in {"read", "kept", "reread"})'
                 PROVE (/\ Exists /\ draft.content = job[u].text
                        /\ (job[u].at = "reread" \/ job[u].kind = "reviewing")
                             => job[u].seen = job[u].text)'
      BY DEF NoResultIsStale
    <2>1. u = t BY <1>3 DEF Active
    <2> QED BY <1>4, <2>1
  <1> QED BY <1>7, <1>8, <1>9, <1>10, <1>11, <1>12 DEF MutexInv

\* A handler that moves without touching the draft's busy flag.
LEMMA MutexRequest ==
  ASSUME MutexInv, NEW r \in Requests,
         NEW to \in {"idle", "created", "checked", "paged", "withdrawing", "unpaged"},
         up, request' = [request EXCEPT ![r] = to],
         draft' \in Draft, draft'.busy = "none", ~Busy,
         page' \in Texts \cup {NoText},
         lock' \in Requests \cup {NoOne},
         \A q \in Requests : q # r => request[q] \notin {"paged", "unpaged"},
         to = "paged" => lock' = r /\ draft'.status = "approved",
         to = "unpaged" => lock' = r /\ draft'.status = "published" /\ page' = NoText,
         UNCHANGED <<job, up, crashes, signed>>
  PROVE  MutexInv'
  <1>1. /\ request' \in [Requests -> {"idle", "created", "checked", "paged",
                                      "withdrawing", "unpaged"}]
        /\ request'[r] = to
        /\ \A q \in Requests : q # r => request'[q] = request[q]
    BY RequestType DEF MutexInv
  <1>2. \A t \in Threads : ~Active(t)
    BY DEF MutexInv, OneStepAtATime, KindsTold, Kinds, Busy
  <1>3. \A t \in Threads : ~Active(t)'
    BY <1>2 DEF Active
  <1>4. Exists' BY NoDraftAssumption DEF Exists
  <1>5. ~Busy' BY DEF Busy
  <1>6. TypeOK' BY <1>1 DEF MutexInv, TypeOK
  <1>7. InUse' BY <1>3, <1>4 DEF InUse
  <1>8. Locked'
    <2>1. Status' = draft'.status BY <1>4 DEF Status
    <2> QED BY <1>1, <1>5, <2>1 DEF Locked
  <1>9. KindsTold' /\ OneStepAtATime' BY <1>3 DEF KindsTold, OneStepAtATime
  <1>10. NoResultIsStale' BY <1>3 DEF NoResultIsStale, Active
  <1> QED BY <1>6, <1>7, <1>8, <1>9, <1>10 DEF MutexInv

\* What a person does in one step keeps who works.
LEMMA MutexPerson == MutexInv /\ Person => MutexInv'
  <1> SUFFICES ASSUME MutexInv, Person PROVE MutexInv'
    OBVIOUS
  <1>0. TypeOK /\ (Exists => draft \in Draft) BY DEF MutexInv, TypeOK, Exists
  <1>1. CASE StartReview
    <2>1. \A r \in Requests : request'[r] = request[r]
          /\ request' \in [Requests -> {"idle", "created", "checked", "paged",
                                        "withdrawing", "unpaged"}]
      BY <1>0, <1>1 DEF StartReview, TypeOK
    <2> QED BY <1>1, <2>1, MutexClaim, DraftsAssumption DEF StartReview, Kinds, TypeOK, MutexInv
  <1>2. ASSUME NEW d \in Draft, d.busy = draft.busy, CanChange, Changed(d) PROVE MutexInv'
    <2>1. draft' \in Draft /\ draft'.busy = "none"
      BY <1>0, <1>2, ChangedType DEF CanChange, CanUpdate, Busy
    <2>2. signed \in Texts \cup {NoText} BY <1>0 DEF TypeOK
    <2> QED BY <1>2, <2>1, <2>2, MutexUpdate DEF CanChange, Changed
  <1>3. ASSUME NEW text \in Texts, Edit(text) PROVE MutexInv'
    BY <1>0, <1>2, <1>3, ReviseType DEF Edit, CanChange, CanUpdate
  <1>4. CASE AcceptCorrection
    <2>1. draft \in Draft /\ draft.review.corrected \in Texts
      BY <1>0, <1>4 DEF AcceptCorrection, CanChange, CanUpdate, Draft, Review
    <2> QED BY <1>2, <1>4, <2>1, ReviseType DEF AcceptCorrection
  <1>5. ASSUME NEW i \in 1..MaxRevisions, Restore(i) PROVE MutexInv'
    <2>1. draft \in Draft BY <1>0, <1>5 DEF Restore, CanChange, CanUpdate
    <2>2. draft.revisions[i] \in Revision
      BY <1>5, <2>1 DEF Restore, Draft
    <2>3. draft.revisions[i].content \in Texts
          /\ draft.revisions[i].review \in Review \cup {NoReview}
      BY <2>2 DEF Revision
    <2> DEFINE d == Revise(draft, draft.revisions[i].content)
               e == [d EXCEPT !.review = draft.revisions[i].review]
    <2>4. d \in Draft /\ d.busy = draft.busy BY <2>1, <2>3, ReviseType
    <2>5. e \in Draft /\ e.busy = d.busy
      BY <2>3, <2>4 DEF Draft
    <2>6. CanChange /\ Changed(e) BY <1>5 DEF Restore
    <2> HIDE DEF d, e
    <2> QED BY <1>2, <2>4, <2>5, <2>6
  <1>6. CASE Approve
    <2>1. draft \in Draft BY <1>0, <1>6 DEF Approve, CanUpdate
    <2>2. draft' \in Draft /\ draft'.busy = draft.busy /\ signed' \in Texts
      BY <1>6, <2>1 DEF Approve, Draft
    <2> QED BY <1>6, <2>2, MutexUpdate DEF Approve, CanUpdate, Busy
  <1>7. ASSUME NEW r \in Requests, Create(r) PROVE MutexInv'
    <2>1. ~Busy /\ draft' \in Draft /\ draft'.busy = "none"
      BY <1>7, NewDraftType DEF Create, Busy, NewDraft
    <2>2. \A q \in Requests : request[q] = "idle"
      BY <1>7 DEF Create, MutexInv, InUse
    <2> QED BY <1>0, <1>7, <2>1, <2>2, MutexRequest DEF Create, TypeOK
  <1>8. ASSUME NEW r \in Requests, CheckRewrite(r) PROVE MutexInv'
    <2>1. /\ request' \in [Requests -> {"idle", "created", "checked", "paged",
                                        "withdrawing", "unpaged"}]
          /\ request'[r] = "checked"
          /\ \A q \in Requests : q # r => request'[q] = request[q]
      BY <1>0, <1>8, RequestType DEF CheckRewrite
    <2> QED BY <1>0, <1>8, <2>1
        DEF CheckRewrite, MutexInv, TypeOK, InUse, Locked, KindsTold, OneStepAtATime,
            NoResultIsStale, Active, Exists, Busy, Status
  <1>9. ASSUME NEW r \in Requests, PublishPage(r) PROVE MutexInv'
    <2>1. draft \in Draft /\ draft.content \in Texts /\ draft.busy = "none"
      BY <1>0, <1>9 DEF PublishPage, CanUpdate, Draft, Busy
    <2>2. \A q \in Requests : request[q] \notin {"paged", "unpaged"}
      BY <1>9, DraftsAssumption DEF PublishPage, CanUpdate, MutexInv, Locked
    <2> QED BY <1>9, <2>1, <2>2, MutexRequest DEF PublishPage, Step, CanUpdate
  <1>10. ASSUME NEW r \in Requests, UnpublishPage(r) PROVE MutexInv'
    <2>1. draft \in Draft /\ draft.busy = "none"
      BY <1>0, <1>10 DEF UnpublishPage, CanUpdate, Busy
    <2>2. \A q \in Requests : request[q] \notin {"paged", "unpaged"}
      BY <1>10, DraftsAssumption DEF UnpublishPage, CanUpdate, MutexInv, Locked
    <2> QED BY <1>10, <2>1, <2>2, MutexRequest DEF UnpublishPage, Step, CanUpdate
  <1> QED BY <1>1, <1>3, <1>4, <1>5, <1>6, <1>7, <1>8, <1>9, <1>10 DEF Person

\* The steps of a handler keep who works.
LEMMA MutexHandler ==
  ASSUME MutexInv, NEW r \in Requests, Handler(r)
  PROVE  MutexInv'
  <1>0. /\ TypeOK /\ (Exists => draft \in Draft)
        /\ request[r] # "idle" => up /\ Exists
    BY DEF MutexInv, TypeOK, Exists, InUse
  <1>a. ASSUME request' = [request EXCEPT ![r] = "idle"]
        PROVE  /\ request' \in [Requests -> {"idle", "created", "checked", "paged",
                                             "withdrawing", "unpaged"}]
               /\ \A q \in Requests : request'[q] = request[q] \/ request'[q] = "idle"
    BY <1>0, <1>a, RequestType
  <1>b. ASSUME request' = [request EXCEPT ![r] = "idle"],
               UNCHANGED <<draft, page, lock, job, up, crashes, signed>>
        PROVE  MutexInv'
    BY <1>0, <1>a, <1>b
    DEF MutexInv, TypeOK, InUse, Locked, KindsTold, OneStepAtATime,
        NoResultIsStale, Active, Exists, Busy, Status
  <1>1. CASE StartWriter(r)
    <2>1. CASE \E t \in Threads : Claim(t, "generating", 1)
      BY <1>1, <1>a, <2>1, MutexClaim, DraftsAssumption DEF StartWriter, Kinds
    <2>2. CASE ClaimRefused
      BY <1>1, <1>b, <2>2 DEF StartWriter, ClaimRefused
    <2> QED BY <1>1, <2>1, <2>2 DEF StartWriter
  <1>2. CASE StartRewrite(r)
    <2>1. CASE \E t \in Threads, n \in 1..MaxRounds : Claim(t, "rewriting", n)
      BY <1>2, <1>a, <2>1, MutexClaim DEF StartRewrite, Kinds
    <2>2. CASE ClaimRefused
      BY <1>2, <1>b, <2>2 DEF StartRewrite, ClaimRefused
    <2> QED BY <1>2, <2>1, <2>2 DEF StartRewrite
  <1>c. ASSUME request[r] \in {"paged", "unpaged"}
        PROVE  /\ lock = r /\ ~Busy /\ up /\ draft \in Draft /\ draft.busy = "none"
               /\ \A q \in Requests : q # r => request[q] \notin {"paged", "unpaged"}
    BY <1>0, <1>c DEF MutexInv, Locked, Busy
  <1>3. CASE PublishSave(r)
    <2>1. draft' \in Draft /\ draft'.busy = "none"
      BY <1>3, <1>c DEF PublishSave, Step, Draft
    <2> QED BY <1>0, <1>3, <1>c, <2>1, MutexRequest DEF PublishSave, Step, TypeOK
  <1>4. CASE PublishSaveFails(r)
    BY <1>0, <1>4, <1>c, MutexRequest DEF PublishSaveFails, Step, TypeOK
  <1>5. CASE Withdraw(r)
    <2>1. /\ request' \in [Requests -> {"idle", "created", "checked", "paged",
                                        "withdrawing", "unpaged"}]
          /\ request'[r] = "idle"
          /\ \A q \in Requests : q # r => request'[q] = request[q]
      BY <1>0, <1>5, RequestType DEF Withdraw, Step
    <2>2. page' = NoText \/ page' = page BY <1>5 DEF Withdraw
    <2> QED BY <1>0, <1>5, <2>1, <2>2
        DEF Withdraw, MutexInv, TypeOK, InUse, Locked, KindsTold, OneStepAtATime,
            NoResultIsStale, Active, Exists, Busy, Status
  <1>6. CASE UnpublishSave(r)
    <2>1. draft' \in Draft /\ draft'.busy = "none"
      BY <1>6, <1>c DEF UnpublishSave, Step, Draft
    <2> QED BY <1>0, <1>6, <1>c, <2>1, MutexRequest DEF UnpublishSave, Step, TypeOK
  <1>7. CASE UnpublishSaveFails(r)
    BY <1>0, <1>7, <1>c, MutexRequest DEF UnpublishSaveFails, Step, TypeOK
  <1> QED BY <1>1, <1>2, <1>3, <1>4, <1>5, <1>6, <1>7 DEF Handler

\* Attaching a review changes the review alone, and it is a review of the text
\* that is the draft's.
LEMMA AttachType ==
  ASSUME MutexInv, NEW t \in Threads, AttachReview(t) \/ AttachRewriteReview(t)
  PROVE  /\ Active(t) /\ draft \in Draft /\ draft' \in Draft
         /\ draft'.busy = draft.busy /\ draft'.status = draft.status
         /\ draft'.content = draft.content /\ draft'.revisions = draft.revisions
         /\ draft'.review \in Review /\ draft'.review.of = draft.content
  <1>1. PICK corrected \in Proposals : Attach(t, corrected)
    BY DEF AttachReview, AttachRewriteReview
  <1>2. Active(t) /\ draft \in Draft
    BY DEF AttachReview, AttachRewriteReview, At, Active, MutexInv, InUse, TypeOK, Exists
  <1>3. draft.content \in Texts /\ job[t].seen = draft.content
    BY <1>2 DEF AttachReview, AttachRewriteReview, At, MutexInv, NoResultIsStale, Draft
  <1>4. [of |-> job[t].seen, corrected |-> corrected] \in Review
    BY <1>3 DEF Review, Proposals
  <1> QED BY <1>1, <1>2, <1>3, <1>4 DEF Attach, Draft

\* The steps of the background threads keep who works.
LEMMA MutexThreads ==
  ASSUME MutexInv, NEW t \in Threads, Thread(t)
  PROVE  MutexInv'
  <1>0. TypeOK /\ job \in [Threads -> Job] /\ job[t] \in Job
    BY DEF MutexInv, TypeOK
  <1>a. ASSUME job[t].at # "idle"
        PROVE  /\ Active(t) /\ up /\ draft \in Draft /\ draft.content \in Texts
               /\ draft.busy = job[t].kind
    BY <1>0, <1>a DEF MutexInv, TypeOK, InUse, OneStepAtATime, Exists, Draft, Active
  <1>1. CASE RecordArticle(t)
    <2>1. PICK text \in Texts : draft' = Revise(draft, text)
      BY <1>1 DEF RecordArticle
    <2>2. draft' \in Draft /\ draft'.busy = draft.busy
      BY <1>1, <1>a, <2>1, ReviseType DEF RecordArticle, At
    <2> QED BY <1>0, <1>1, <1>a, <2>2, EndsType, MutexThread DEF RecordArticle, At
  <1>2. CASE ReadToReview(t)
    <2> DEFINE new == [job[t] EXCEPT !.at = "read", !.text = draft.content,
                                     !.seen = draft.content]
    <2>1. new \in Job /\ new.kind = job[t].kind /\ new.at = "read"
          /\ new.text = draft.content /\ new.seen = draft.content
      BY <1>0, <1>2, <1>a DEF ReadToReview, At, Job
    <2>2. Goes(t, new) /\ Unsaved BY <1>2 DEF ReadToReview
    <2> HIDE DEF new
    <2> QED BY <1>0, <1>2, <1>a, <2>1, <2>2, GoesType, MutexThread
        DEF ReadToReview, At, Unsaved, Saved
  <1>3. CASE AttachReview(t)
    BY <1>0, <1>3, AttachType, EndsType, MutexThread DEF AttachReview
  <1>4. CASE StartRound(t)
    <2>1. Active(t) /\ draft \in Draft BY <1>4, <1>a DEF StartRound, At
    <2>2. CASE \E failure \in BOOLEAN : Ends(t, failure)
      BY <1>0, <1>4, <2>1, <2>2, EndsType, MutexThread DEF StartRound, Unsaved, Saved
    <2>3. CASE Goes(t, [job[t] EXCEPT !.at = "read", !.text = draft.content])
      <3> DEFINE new == [job[t] EXCEPT !.at = "read", !.text = draft.content]
      <3>1. new \in Job /\ new.kind = "rewriting" /\ new.at = "read"
            /\ new.text = draft.content
        BY <1>0, <1>4, <1>a DEF StartRound, At, Job
      <3>2. Goes(t, new) BY <2>3
      <3>3. job[t].kind = "rewriting" BY <1>4 DEF StartRound, At
      <3> HIDE DEF new
      <3> QED BY <1>0, <1>4, <2>1, <3>1, <3>2, <3>3, GoesType, MutexThread
          DEF StartRound, Unsaved, Saved
    <2> QED BY <1>4, <2>2, <2>3 DEF StartRound
  <1>5. CASE Keep(t)
    <2>1. PICK text \in Texts :
            /\ draft' = [Revise(draft, text) EXCEPT !.status = "draft"]
            /\ Goes(t, [job[t] EXCEPT !.at = "kept", !.text = text])
      BY <1>5 DEF Keep
    <2>2. Active(t) /\ draft \in Draft /\ job[t].kind = "rewriting"
      BY <1>5, <1>a DEF Keep, At
    <2>3. draft' \in Draft /\ draft'.busy = draft.busy /\ draft'.content = text
      <3>1. Revise(draft, text) \in Draft /\ Revise(draft, text).busy = draft.busy
            /\ Revise(draft, text).content = text
        BY <2>2, ReviseType
      <3> QED BY <2>1, <3>1 DEF Draft
    <2> DEFINE new == [job[t] EXCEPT !.at = "kept", !.text = text]
    <2>4. new \in Job /\ new.kind = "rewriting" /\ new.at = "kept" /\ new.text = text
      BY <1>0, <2>2 DEF Job
    <2>5. Goes(t, new) BY <2>1
    <2> HIDE DEF new
    <2> QED BY <1>0, <1>5, <2>2, <2>3, <2>4, <2>5, GoesType, MutexThread DEF Keep
  <1>6. CASE RereadToReview(t)
    <2> DEFINE new == [job[t] EXCEPT !.at = "reread", !.seen = draft.content]
    <2>1. draft.content = job[t].text
      BY <1>6 DEF RereadToReview, At, MutexInv, NoResultIsStale
    <2>2. new \in Job /\ new.kind = job[t].kind /\ new.at = "reread"
          /\ new.text = draft.content /\ new.seen = draft.content
      BY <1>0, <1>6, <1>a, <2>1 DEF RereadToReview, At, Job
    <2>3. Goes(t, new) /\ Unsaved BY <1>6 DEF RereadToReview
    <2> HIDE DEF new
    <2> QED BY <1>0, <1>6, <1>a, <2>2, <2>3, GoesType, MutexThread
        DEF RereadToReview, At, Unsaved, Saved
  <1>7. CASE AttachRewriteReview(t)
    <2>1. PICK below \in BOOLEAN, corrected \in Proposals :
            /\ Attach(t, corrected)
            /\ IF job[t].number < job[t].rounds
               THEN Goes(t, [job[t] EXCEPT !.at = "start", !.number = job[t].number + 1,
                                           !.below = below])
               ELSE Ends(t, FALSE)
      BY <1>7 DEF AttachRewriteReview
    <2>2. draft' \in Draft /\ draft'.busy = draft.busy
      BY <1>7, AttachType
    <2>3. Active(t) /\ Saved BY <1>7, <1>a DEF AttachRewriteReview, At
    <2>4. CASE job[t].number < job[t].rounds
      <3> DEFINE new == [job[t] EXCEPT !.at = "start", !.number = job[t].number + 1,
                                       !.below = below]
      <3>1. job[t].number + 1 \in 0..MaxRounds
        BY <1>0, <2>4, DraftsAssumption DEF Job
      <3>2. new \in Job /\ new.kind = job[t].kind /\ new.at = "start"
        BY <1>0, <3>1 DEF Job
      <3>3. Goes(t, new) BY <2>1, <2>4
      <3> HIDE DEF new
      <3> QED BY <1>0, <2>2, <2>3, <3>2, <3>3, GoesType, MutexThread
    <2>5. CASE ~(job[t].number < job[t].rounds)
      BY <1>0, <2>1, <2>2, <2>3, <2>5, EndsType, MutexThread
    <2> QED BY <2>4, <2>5
  <1>8. CASE Fail(t)
    BY <1>0, <1>8, <1>a, EndsType, MutexThread DEF Fail, Unsaved, Saved
  <1>9. ASSUME job[t].at = "ended", Goes(t, IdleJob), Saved,
               draft' \in Draft
        PROVE  MutexInv'
    <2>1. \A u \in Threads : ~Active(u)'
      BY <1>0, <1>9, IdleJobType, GoesType
      DEF MutexInv, OneStepAtATime, Active, IdleJob
    <2>2. \A r \in Requests : request[r] \notin {"paged", "unpaged"}
      BY <1>9 DEF MutexInv, Locked, KindsTold, OneStepAtATime, Kinds, Busy, Active
    <2>3. Exists' BY <1>9, NoDraftAssumption DEF Exists
    <2>4. job' \in [Threads -> Job] BY <1>0, <1>9, IdleJobType, GoesType
    <2>5. TypeOK' BY <1>0, <1>9, <2>4 DEF TypeOK, Saved
    <2>6. InUse' BY <1>9, <2>1, <2>3 DEF InUse, Saved, MutexInv
    <2>7. Locked' BY <1>9, <2>2 DEF Locked, Saved
    <2>8. KindsTold' /\ OneStepAtATime' BY <2>1 DEF KindsTold, OneStepAtATime
    <2>9. NoResultIsStale' BY <2>1 DEF NoResultIsStale, Active
    <2> QED BY <2>5, <2>6, <2>7, <2>8, <2>9 DEF MutexInv
  <1>10. CASE Release(t)
    <2>1. draft' \in Draft
      BY <1>10, <1>a, ReleasedType DEF Release
    <2> QED BY <1>9, <1>10, <2>1 DEF Release
  <1>11. CASE ReleaseFails(t)
    BY <1>9, <1>11, <1>a DEF ReleaseFails, Unsaved, Saved
  <1> QED BY <1>1, <1>2, <1>3, <1>4, <1>5, <1>6, <1>7, <1>8, <1>10, <1>11 DEF Thread

\* A crash and a restart keep who works.
LEMMA MutexProcess ==
  ASSUME MutexInv, Crash \/ Restart
  PROVE  MutexInv'
  <1>0. TypeOK BY DEF MutexInv
  <1>1. CASE Crash
    <2>1. crashes' \in 0..MaxCrashes
      BY <1>0, <1>1, DraftsAssumption DEF Crash, TypeOK
    <2>2. TypeOK' BY <1>0, <1>1, <2>1, IdleJobType DEF Crash, TypeOK
    <2>3. \A t \in Threads : job'[t].at = "idle" BY <1>1 DEF Crash, IdleJob
    <2>4. \A r \in Requests : request'[r] = "idle" BY <1>1 DEF Crash
    <2> QED BY <2>2, <2>3, <2>4
        DEF MutexInv, InUse, Locked, KindsTold, OneStepAtATime, NoResultIsStale, Active
  <1>2. CASE Restart
    <2>1. /\ \A t \in Threads : ~Active(t)
          /\ \A r \in Requests : request[r] = "idle"
      BY <1>2 DEF Restart, MutexInv, InUse
    <2>2. draft' \in Draft \cup {NoDraft}
      BY <1>0, <1>2, ReleasedType DEF Restart, TypeOK, Busy, Exists
    <2>3. TypeOK' BY <1>0, <1>2, <2>2 DEF Restart, TypeOK
    <2> QED BY <1>2, <2>1, <2>3
        DEF Restart, MutexInv, InUse, Locked, KindsTold, OneStepAtATime,
            NoResultIsStale, Active
  <1> QED BY <1>1, <1>2

\* Every step keeps who works.
LEMMA MutexNext == MutexInv /\ [Next]_vars => MutexInv'
  <1> SUFFICES ASSUME MutexInv, [Next]_vars PROVE MutexInv'
    OBVIOUS
  <1>1. CASE UNCHANGED vars
    BY <1>1 DEF vars, MutexInv, TypeOK, InUse, Locked, KindsTold, OneStepAtATime,
                NoResultIsStale, Active, Exists, Busy, Status
  <1>2. CASE Person BY <1>2, MutexPerson
  <1>3. CASE \E r \in Requests : Handler(r) BY <1>3, MutexHandler
  <1>4. CASE \E t \in Threads : Thread(t) BY <1>4, MutexThreads
  <1>5. CASE Crash \/ Restart BY <1>5, MutexProcess
  <1> QED BY <1>1, <1>2, <1>3, <1>4, <1>5 DEF Next

\* Who works: the invariant holds.
LEMMA MutexHolds == Spec => []MutexInv
  BY MutexInit, MutexNext, PTL DEF Spec

\* Type correctness: no step leaves a draft file, a handler or a thread in a
\* shape the code does not know.
THEOREM TypeCorrect == Spec => []TypeOK
  <1>1. MutexInv => TypeOK BY DEF MutexInv
  <1> QED BY <1>1, MutexHolds, PTL

\* The claim is a lock: two background steps never work on one draft, and the
\* one that does is the one `busy` names - whatever crashes and failing writes
\* come between, and however early somebody acts on the draft.
THEOREM OneStepHolds == Spec => []OneStepAtATime
  <1>1. MutexInv => OneStepAtATime BY DEF MutexInv
  <1> QED BY <1>1, MutexHolds, PTL

\* The text a thread read is the draft's text until its result lands: the stale
\* checks of the review and the rewrite guard what the claim already excludes.
THEOREM NoStaleResult == Spec => []NoResultIsStale
  <1>1. MutexInv => NoResultIsStale BY DEF MutexInv
  <1> QED BY <1>1, MutexHolds, PTL

-----------------------------------------------------------------------------
(***************************************************************************)
(* The second invariant: what an approval is worth.  Generation is the one *)
(* step that replaces the text without looking at the status, so it has to *)
(* meet a draft that is neither approved nor published - which takes that  *)
(* nobody acts on a draft before its creation has claimed it.              *)
(***************************************************************************)

Placed ==
  \A r \in Requests : request[r] = "created" =>
    /\ Status = "draft" /\ ~Busy
    /\ \A q \in Requests : q # r => request[q] = "idle"

GeneratingIsDraft ==
  \A t \in Threads : Active(t) /\ job[t].kind = "generating" => Status = "draft"

ApprovalInv == MutexInv /\ Placed /\ GeneratingIsDraft /\ ApprovalStands

\* At first nothing is approved or public.
LEMMA ApprovalInit == Init => ApprovalInv
  <1> SUFFICES ASSUME Init PROVE ApprovalInv
    OBVIOUS
  <1> QED BY MutexInit DEF Init, IdleJob, ApprovalInv, Placed, GeneratingIsDraft, ApprovalStands,
             Active, Status, Exists

\* With the claim pending nobody else is there: a step that needs a busy draft,
\* or a handler of its own, finds no draft just created.
LEMMA NobodyCreates ==
  ASSUME ApprovalInv,
         \/ Busy
         \/ \E t \in Threads : Active(t)
         \/ \E r \in Requests : request[r] \notin {"idle", "created"}
  PROVE  \A r \in Requests : request[r] # "created"
  BY DEF ApprovalInv, Placed, MutexInv, OneStepAtATime, KindsTold, Kinds, Busy

\* A step on a text: it stays as it is, or the draft is a draft again.
LEMMA ApprovalStep ==
  ASSUME ApprovalInv, MutexInv',
         Exists => (draft'.status = draft.status /\ draft'.content = draft.content)
                     \/ draft'.status = "draft",
         Exists, Exists', signed' = signed,
         \A t \in Threads : Active(t)' /\ job'[t].kind = "generating" =>
           (Active(t) /\ job[t].kind = "generating") \/ draft'.status = "draft",
         \A r \in Requests : request'[r] # "created"
  PROVE  ApprovalInv'
  BY DEF ApprovalInv, Placed, GeneratingIsDraft, ApprovalStands, Status

\* A background step keeps what is approved and public.
LEMMA ApprovalThreads ==
  ASSUME ApprovalInv, NEW t \in Threads, Thread(t)
  PROVE  ApprovalInv'
  <1>0. MutexInv /\ MutexInv' /\ TypeOK /\ job \in [Threads -> Job] /\ job[t] \in Job
    BY MutexThreads DEF ApprovalInv, MutexInv, TypeOK
  <1>1. Active(t)
    BY DEF Thread, RecordArticle, ReadToReview, AttachReview, StartRound, Keep,
           RereadToReview, AttachRewriteReview, Fail, Release, ReleaseFails, At, Active,
           MutexInv, TypeOK, Job
  <1>2. Exists /\ draft \in Draft
    BY <1>0, <1>1 DEF MutexInv, InUse, TypeOK, Exists
  <1>3. \A r \in Requests : request[r] # "created"
    BY <1>1, NobodyCreates
  <1>4. \A u \in Threads : u # t => ~Active(u)
    BY <1>0, <1>1 DEF MutexInv, OneStepAtATime
  <1>5. /\ Saved
        /\ \A u \in Threads : u # t => job'[u] = job[u]
        /\ job'[t].kind = job[t].kind \/ job'[t].at = "idle"
    <2>1. ASSUME NEW new \in Job, Goes(t, new), new.kind = job[t].kind \/ new.at = "idle"
          PROVE  /\ \A u \in Threads : u # t => job'[u] = job[u]
                 /\ job'[t].kind = job[t].kind \/ job'[t].at = "idle"
      BY <1>0, <2>1, GoesType
    <2>2. ASSUME NEW failure \in BOOLEAN, Ends(t, failure)
          PROVE  /\ \A u \in Threads : u # t => job'[u] = job[u]
                 /\ job'[t].kind = job[t].kind \/ job'[t].at = "idle"
      BY <1>0, <2>2, EndsType
    <2>3. /\ \A u \in Threads : u # t => job'[u] = job[u]
          /\ job'[t].kind = job[t].kind \/ job'[t].at = "idle"
      <3>1. CASE Release(t) \/ ReleaseFails(t)
        BY <2>1, <3>1, IdleJobType DEF Release, ReleaseFails, IdleJob
      <3>2. CASE RecordArticle(t) \/ AttachReview(t) \/ Fail(t)
        BY <2>2, <3>2 DEF RecordArticle, AttachReview, Fail
      <3>3. CASE ReadToReview(t)
        BY <1>0, <3>3 DEF ReadToReview, Goes, Job
      <3>4. CASE Keep(t)
        BY <1>0, <3>4 DEF Keep, Goes, Job
      <3>5. CASE RereadToReview(t)
        BY <1>0, <3>5 DEF RereadToReview, Goes, Job
      <3>6. CASE StartRound(t)
        <4>1. CASE \E failure \in BOOLEAN : Ends(t, failure)
          BY <2>2, <4>1
        <4>2. CASE Goes(t, [job[t] EXCEPT !.at = "read", !.text = draft.content])
          BY <1>0, <4>2 DEF Goes, Job
        <4> QED BY <3>6, <4>1, <4>2 DEF StartRound
      <3>7. CASE AttachRewriteReview(t)
        <4>1. CASE Ends(t, FALSE)
          BY <2>2, <4>1
        <4>2. ASSUME NEW below \in BOOLEAN,
                     Goes(t, [job[t] EXCEPT !.at = "start", !.number = job[t].number + 1,
                                            !.below = below])
              PROVE  /\ \A u \in Threads : u # t => job'[u] = job[u]
                     /\ job'[t].kind = job[t].kind
          BY <1>0, <4>2 DEF Goes, Job
        <4> QED BY <3>7, <4>1, <4>2 DEF AttachRewriteReview
      <3> QED BY <3>1, <3>2, <3>3, <3>4, <3>5, <3>6, <3>7 DEF Thread
    <2>4. Saved
      BY DEF Thread, RecordArticle, ReadToReview, AttachReview, StartRound, Keep,
             RereadToReview, AttachRewriteReview, Fail, Release, ReleaseFails, Saved, Unsaved
    <2> QED BY <2>3, <2>4
  <1>6. /\ draft' \in Draft
        /\ \/ draft'.status = draft.status /\ draft'.content = draft.content
           \/ draft'.status = "draft"
    <2>1. CASE RecordArticle(t)
      <3>1. Status = "draft"
        BY <1>1, <2>1 DEF RecordArticle, At, ApprovalInv, GeneratingIsDraft
      <3>2. PICK text \in Texts : draft' = Revise(draft, text)
        BY <2>1 DEF RecordArticle
      <3> QED BY <1>2, <3>1, <3>2, ReviseType DEF Status
    <2>2. CASE Keep(t)
      <3>1. PICK text \in Texts : draft' = [Revise(draft, text) EXCEPT !.status = "draft"]
        BY <2>2 DEF Keep
      <3>2. Revise(draft, text) \in Draft BY <1>2, ReviseType
      <3> QED BY <3>1, <3>2 DEF Draft
    <2>3. CASE AttachReview(t) \/ AttachRewriteReview(t)
      BY <1>0, <2>3, AttachType
    <2>4. CASE Release(t)
      BY <1>2, <2>4, ReleasedType DEF Release
    <2>5. CASE Unsaved
      BY <1>2, <2>5 DEF Unsaved
    <2> QED BY <2>1, <2>2, <2>3, <2>4, <2>5
        DEF Thread, ReadToReview, StartRound, RereadToReview, Fail, ReleaseFails
  <1>7. Exists' BY <1>6, NoDraftAssumption DEF Exists
  <1>8. \A u \in Threads : Active(u)' /\ job'[u].kind = "generating" =>
          Active(u) /\ job[u].kind = "generating"
    BY <1>1, <1>4, <1>5 DEF Active
  <1>9. \A r \in Requests : request'[r] # "created"
    BY <1>3, <1>5 DEF Saved
  <1> QED BY <1>0, <1>2, <1>5, <1>6, <1>7, <1>8, <1>9, ApprovalStep DEF Saved

\* A person's steps keep what is approved.
LEMMA ApprovalPerson ==
  ASSUME ApprovalInv, ~EarlyActs, Person
  PROVE  ApprovalInv'
  <1>0. MutexInv /\ MutexInv' /\ TypeOK /\ (Exists => draft \in Draft)
    BY MutexPerson DEF ApprovalInv, MutexInv, TypeOK, Exists
  <1>a. ASSUME Reached PROVE \A r \in Requests : request[r] # "created"
    BY <1>a DEF Reached
  <1>1. CASE StartReview
    <2>1. PICK t \in Threads : Claim(t, "reviewing", 1)
      BY <1>1 DEF StartReview
    <2>2. /\ Exists /\ draft' \in Draft
          /\ draft'.status = draft.status /\ draft'.content = draft.content
          /\ job'[t].kind = "reviewing"
          /\ \A u \in Threads : u # t => job'[u] = job[u]
      BY <1>0, <2>1, ClaimType, DraftsAssumption DEF Kinds
    <2>3. Exists' BY <2>2, NoDraftAssumption DEF Exists
    <2>4. \A u \in Threads : Active(u)' /\ job'[u].kind = "generating" =>
            Active(u) /\ job[u].kind = "generating"
      BY <2>2 DEF Active
    <2> QED BY <1>0, <1>1, <1>a, <2>2, <2>3, <2>4, ApprovalStep DEF StartReview
  <1>2. ASSUME NEW d \in Draft, CanChange, Changed(d) PROVE ApprovalInv'
    <2>1. draft' \in Draft /\ draft'.status = "draft" BY <1>0, <1>2, ChangedType
    <2>2. Exists /\ Exists'
      BY <1>2, <2>1, NoDraftAssumption DEF CanChange, CanUpdate, Exists
    <2> QED BY <1>0, <1>2, <1>a, <2>1, <2>2, ApprovalStep DEF CanChange, Changed, Active
  <1>3. ASSUME NEW text \in Texts, Edit(text) PROVE ApprovalInv'
    BY <1>0, <1>2, <1>3, ReviseType DEF Edit, CanChange, CanUpdate
  <1>4. CASE AcceptCorrection
    <2>1. draft \in Draft /\ draft.review.corrected \in Texts
      BY <1>0, <1>4 DEF AcceptCorrection, CanChange, CanUpdate, Draft, Review
    <2> QED BY <1>2, <1>4, <2>1, ReviseType DEF AcceptCorrection
  <1>5. ASSUME NEW i \in 1..MaxRevisions, Restore(i) PROVE ApprovalInv'
    <2>1. draft \in Draft BY <1>0, <1>5 DEF Restore, CanChange, CanUpdate
    <2>2. draft.revisions[i] \in Revision
      BY <1>5, <2>1 DEF Restore, Draft
    <2>3. draft.revisions[i].content \in Texts
          /\ draft.revisions[i].review \in Review \cup {NoReview}
      BY <2>2 DEF Revision
    <2> DEFINE d == Revise(draft, draft.revisions[i].content)
               e == [d EXCEPT !.review = draft.revisions[i].review]
    <2>4. d \in Draft BY <2>1, <2>3, ReviseType
    <2>5. e \in Draft BY <2>3, <2>4 DEF Draft
    <2>6. CanChange /\ Changed(e) BY <1>5 DEF Restore
    <2> HIDE DEF d, e
    <2> QED BY <1>2, <2>5, <2>6
  <1>6. CASE Approve
    <2>1. draft \in Draft BY <1>0, <1>6 DEF Approve, CanUpdate
    <2>2. draft' \in Draft /\ draft'.content = draft.content
      BY <1>6, <2>1 DEF Approve, Draft
    <2>3. \A t \in Threads : ~Active(t)'
      BY <1>0, <1>6 DEF Approve, MutexInv, OneStepAtATime, KindsTold, Kinds, Busy, Active
    <2>4. \A r \in Requests : request'[r] # "created"
      BY <1>6, <1>a DEF Approve
    <2> QED BY <1>0, <1>6, <2>2, <2>3, <2>4
        DEF Approve, ApprovalInv, Placed, GeneratingIsDraft, ApprovalStands
  <1>7. ASSUME NEW r \in Requests, Create(r) PROVE ApprovalInv'
    <2>1. draft' \in Draft /\ draft'.busy = "none" /\ draft'.status = "draft"
      BY <1>7, NewDraftType DEF Create, NewDraft
    <2>2. \A q \in Requests : request[q] = "idle"
      BY <1>0, <1>7 DEF Create, MutexInv, InUse
    <2>3. Status' = "draft" /\ ~Busy' BY <2>1 DEF Status, Busy
    <2>4. \A q \in Requests : q # r => request'[q] = "idle"
      BY <1>0, <1>7, <2>2 DEF Create, TypeOK
    <2>5. \A t \in Threads : ~Active(t)'
      BY <1>0, <1>7 DEF Create, MutexInv, InUse, Active
    <2> QED BY <1>0, <2>3, <2>4, <2>5
        DEF ApprovalInv, Placed, GeneratingIsDraft, ApprovalStands
  <1>8. ASSUME NEW r \in Requests, CheckRewrite(r) \/ PublishPage(r) \/ UnpublishPage(r)
        PROVE  ApprovalInv'
    <2>1. /\ UNCHANGED <<draft, job, signed>> /\ Reached
          /\ \E to \in {"checked", "paged", "unpaged"} :
               request' = [request EXCEPT ![r] = to]
      BY <1>8 DEF CheckRewrite, PublishPage, UnpublishPage, Step
    <2>2. \A q \in Requests : request'[q] # "created"
      BY <1>0, <1>a, <2>1 DEF TypeOK
    <2> QED BY <1>0, <2>1, <2>2
        DEF ApprovalInv, Placed, GeneratingIsDraft, ApprovalStands, Active, Status, Exists
  <1> QED BY <1>1, <1>3, <1>4, <1>5, <1>6, <1>7, <1>8 DEF Person

\* A handler's steps keep what is approved and public.
LEMMA ApprovalHandler ==
  ASSUME ApprovalInv, NEW r \in Requests, Handler(r)
  PROVE  ApprovalInv'
  <1>0. /\ MutexInv /\ MutexInv' /\ TypeOK
        /\ request[r] # "idle" => Exists /\ draft \in Draft
    BY MutexHandler DEF ApprovalInv, MutexInv, TypeOK, InUse, Exists
  <1>a. ASSUME \E to \in {"idle", "withdrawing"} : request' = [request EXCEPT ![r] = to],
               UNCHANGED <<draft, job, signed>>
        PROVE  ApprovalInv'
    <2>1. \A q \in Requests : request'[q] = "created" => q # r /\ request[q] = "created"
      BY <1>0, <1>a DEF TypeOK
    <2>2. \A q \in Requests : request'[q] = request[q] \/ q = r
      BY <1>0, <1>a DEF TypeOK
    <2>3. Placed'
      <3> SUFFICES ASSUME NEW p \in Requests, request'[p] = "created"
                   PROVE  /\ Status' = "draft" /\ ~Busy'
                          /\ \A q \in Requests : q # p => request'[q] = "idle"
        BY DEF Placed
      <3>1. request[p] = "created" /\ p # r BY <2>1
      <3>2. Status = "draft" /\ ~Busy /\ \A q \in Requests : q # p => request[q] = "idle"
        BY <3>1 DEF ApprovalInv, Placed
      <3>3. Status' = Status /\ Busy' = Busy BY <1>a DEF Status, Busy, Exists
      <3>4. request[r] = "idle" BY <3>1, <3>2
      <3>5. FALSE
        BY <3>4 DEF Handler, StartWriter, StartRewrite, PublishSave, PublishSaveFails,
                    Withdraw, UnpublishSave, UnpublishSaveFails, Step
      <3> QED BY <3>5
    <2> QED BY <1>0, <1>a, <2>3
        DEF ApprovalInv, GeneratingIsDraft, ApprovalStands, Active, Status, Exists
  <1>1. CASE StartWriter(r)
    <2>1. CASE \E t \in Threads : Claim(t, "generating", 1)
      <3>1. PICK t \in Threads : Claim(t, "generating", 1) BY <2>1
      <3>2. /\ Exists /\ draft' \in Draft
            /\ draft'.status = draft.status /\ draft'.content = draft.content
            /\ \A u \in Threads : u # t => job'[u] = job[u]
        BY <1>0, <3>1, ClaimType, DraftsAssumption DEF Kinds
      <3>3. Exists' BY <3>2, NoDraftAssumption DEF Exists
      <3>4. Status = "draft" /\ \A q \in Requests : q # r => request[q] = "idle"
        BY <1>1 DEF StartWriter, ApprovalInv, Placed
      <3>5. \A q \in Requests : request'[q] # "created"
        BY <1>0, <1>1, <3>4 DEF StartWriter, TypeOK
      <3> QED BY <1>0, <1>1, <3>2, <3>3, <3>4, <3>5, ApprovalStep DEF StartWriter, Status
    <2>2. CASE ClaimRefused
      BY <1>1, <1>a, <2>2 DEF StartWriter, ClaimRefused
    <2> QED BY <1>1, <2>1, <2>2 DEF StartWriter
  <1>2. CASE StartRewrite(r)
    <2>1. CASE \E t \in Threads, n \in 1..MaxRounds : Claim(t, "rewriting", n)
      <3>1. PICK t \in Threads, n \in 1..MaxRounds : Claim(t, "rewriting", n) BY <2>1
      <3>2. /\ Exists /\ draft' \in Draft
            /\ draft'.status = draft.status /\ draft'.content = draft.content
            /\ job'[t].kind = "rewriting"
            /\ \A u \in Threads : u # t => job'[u] = job[u]
        BY <1>0, <3>1, ClaimType DEF Kinds
      <3>3. Exists' BY <3>2, NoDraftAssumption DEF Exists
      <3>4. \A q \in Requests : request[q] # "created"
        BY <1>2, NobodyCreates DEF StartRewrite
      <3>5. \A q \in Requests : request'[q] # "created"
        BY <1>0, <1>2, <3>4 DEF StartRewrite, TypeOK
      <3>6. \A u \in Threads : Active(u)' /\ job'[u].kind = "generating" =>
              Active(u) /\ job[u].kind = "generating"
        BY <3>2 DEF Active
      <3> QED BY <1>0, <1>2, <3>2, <3>3, <3>5, <3>6, ApprovalStep DEF StartRewrite
    <2>2. CASE ClaimRefused
      BY <1>2, <1>a, <2>2 DEF StartRewrite, ClaimRefused
    <2> QED BY <1>2, <2>1, <2>2 DEF StartRewrite
  <1>3. CASE PublishSave(r) \/ UnpublishSave(r)
    <2>1. /\ request[r] \in {"paged", "unpaged"}
          /\ request' = [request EXCEPT ![r] = "idle"]
          /\ UNCHANGED <<job, signed>>
      BY <1>3 DEF PublishSave, UnpublishSave, Step
    <2>2. draft \in Draft /\ Exists BY <1>0, <2>1
    <2>3. ~Busy /\ draft.content = signed
      BY <1>0, <2>1, <2>2 DEF MutexInv, Locked, ApprovalInv, ApprovalStands
    <2>4. draft'.content = draft.content
      BY <1>3, <2>2 DEF PublishSave, UnpublishSave, Draft
    <2>5. \A t \in Threads : ~Active(t)'
      BY <1>0, <2>1, <2>3 DEF MutexInv, OneStepAtATime, KindsTold, Kinds, Busy, Active
    <2>6. \A q \in Requests : request'[q] # "created"
      BY <1>0, <2>1, NobodyCreates DEF TypeOK
    <2> QED BY <1>0, <2>1, <2>3, <2>4, <2>5, <2>6
        DEF ApprovalInv, Placed, GeneratingIsDraft, ApprovalStands
  <1>4. CASE PublishSaveFails(r) \/ UnpublishSaveFails(r) \/ Withdraw(r)
    BY <1>a, <1>4 DEF PublishSaveFails, UnpublishSaveFails, Withdraw, Step
  <1> QED BY <1>1, <1>2, <1>3, <1>4 DEF Handler

\* Every step keeps what is approved.
LEMMA ApprovalNext == ~EarlyActs /\ ApprovalInv /\ [Next]_vars => ApprovalInv'
  <1> SUFFICES ASSUME ~EarlyActs, ApprovalInv, [Next]_vars PROVE ApprovalInv'
    OBVIOUS
  <1>0. MutexInv /\ MutexInv' /\ TypeOK
    BY MutexNext DEF ApprovalInv, MutexInv
  <1>1. CASE UNCHANGED vars
    BY <1>0, <1>1 DEF vars, ApprovalInv, Placed, GeneratingIsDraft, ApprovalStands, Active,
                      Status, Busy, Exists
  <1>2. CASE Person BY <1>2, ApprovalPerson
  <1>3. CASE \E r \in Requests : Handler(r) BY <1>3, ApprovalHandler
  <1>4. CASE \E t \in Threads : Thread(t) BY <1>4, ApprovalThreads
  <1>5. CASE Crash
    <2>1. /\ \A t \in Threads : job'[t].at = "idle"
          /\ \A r \in Requests : request'[r] = "idle"
          /\ UNCHANGED <<draft, signed>>
      BY <1>5 DEF Crash, IdleJob
    <2> QED BY <1>0, <2>1
        DEF ApprovalInv, Placed, GeneratingIsDraft, ApprovalStands, Active, Status, Exists
  <1>6. CASE Restart
    <2>1. /\ \A t \in Threads : ~Active(t)
          /\ \A r \in Requests : request[r] = "idle"
          /\ UNCHANGED <<job, request, signed>>
      BY <1>0, <1>6 DEF Restart, MutexInv, InUse
    <2>2. Status' = Status /\ (Exists => draft'.content = draft.content)
      BY <1>0, <1>6, ReleasedType, NoDraftAssumption DEF Restart, TypeOK, Busy, Exists, Status
    <2>3. Status \in {"approved", "published"} => Exists BY DEF Status
    <2> QED BY <1>0, <2>1, <2>2, <2>3
        DEF ApprovalInv, Placed, GeneratingIsDraft, ApprovalStands, Active
  <1> QED BY <1>1, <1>2, <1>3, <1>4, <1>5, <1>6 DEF Next

\* What is approved: the invariant holds.
LEMMA ApprovalInvHolds ==
  ASSUME ~EarlyActs
  PROVE  Spec => []ApprovalInv
  <1>1. ApprovalInv /\ [Next]_vars => ApprovalInv'
    BY ApprovalNext
  <1> QED BY <1>1, ApprovalInit, PTL DEF Spec

\* While nobody acts on a draft before its creation claims it, what stands
\* approved or published is the text a person approved, through every rewrite,
\* restore, crash and failing write.
THEOREM ApprovalHolds ==
  ASSUME ~EarlyActs
  PROVE  Spec => []ApprovalStands
  <1>1. ApprovalInv => ApprovalStands BY DEF ApprovalInv
  <1> QED BY <1>1, ApprovalInvHolds, PTL

-----------------------------------------------------------------------------
(* What the public sees. *)

\* Every step is one the newsroom promises, or changes nothing it promises.
LEMMA PromiseStep ==
  ApprovalInv /\ [Next]_vars => [Promise!Next]_<<signed, page>>
  <1> SUFFICES ASSUME ApprovalInv, Next, UNCHANGED <<signed, page>> => FALSE
               PROVE  Promise!Next
    BY DEF vars
  <1>0. TypeOK /\ (Exists => draft \in Draft)
    BY DEF ApprovalInv, MutexInv, TypeOK, Exists
  <1>1. CASE Approve
    <2>1. draft.content \in Texts BY <1>0, <1>1 DEF Approve, CanUpdate, Draft
    <2> QED BY <1>1, <2>1 DEF Approve, Promise!Next, Promise!Sign
  <1>2. ASSUME NEW r \in Requests, PublishPage(r) PROVE Promise!Next
    <2>1. draft.content = signed /\ draft.content \in Texts
      BY <1>0, <1>2 DEF PublishPage, CanUpdate, Draft, ApprovalInv, ApprovalStands, Status
    <2> QED BY <1>2, <2>1 DEF PublishPage, Promise!Next, Promise!Publish
  <1>3. ASSUME NEW r \in Requests, UnpublishPage(r) \/ Withdraw(r) PROVE Promise!Next
    BY <1>3 DEF UnpublishPage, Withdraw, Promise!Next, Promise!TakeDown
  <1>4. CASE Person
    BY <1>1, <1>2, <1>3, <1>4
    DEF Person, StartReview, Edit, AcceptCorrection, Restore, Changed, Create, CheckRewrite
  <1>5. CASE \E r \in Requests : Handler(r)
    BY <1>3, <1>5
    DEF Handler, StartWriter, StartRewrite, PublishSave, PublishSaveFails,
        UnpublishSave, UnpublishSaveFails
  <1>6. CASE \E t \in Threads : Thread(t)
    BY <1>6
    DEF Thread, RecordArticle, ReadToReview, AttachReview, StartRound, Keep,
        RereadToReview, AttachRewriteReview, Fail, Release, ReleaseFails, Saved, Unsaved
  <1>7. CASE Crash \/ Restart
    BY <1>7 DEF Crash, Restart
  <1> QED BY <1>4, <1>5, <1>6, <1>7 DEF Next

\* The draft, its threads and its handlers keep the newsroom's promise: a page
\* goes up with the text a person approved last, and then only comes down.
THEOREM PromiseKept ==
  ASSUME ~EarlyActs
  PROVE  Spec => OnlyApprovedTextIsPublic
  <1>1. Init => Promise!Init
    BY DEF Init, Promise!Init
  <1>2. ApprovalInv /\ [Next]_vars => [Promise!Next]_<<signed, page>>
    BY PromiseStep
  <1> QED BY <1>1, <1>2, ApprovalInvHolds, PTL
          DEF Spec, OnlyApprovedTextIsPublic, Promise!Spec

\* No step changes the text of a published draft.
LEMMA FrozenStep ==
  ApprovalInv /\ [Next]_vars =>
    [Status = "published" => draft'.content = draft.content]_vars
  <1> SUFFICES ASSUME ApprovalInv, Next, Status = "published"
               PROVE  draft'.content = draft.content
    OBVIOUS
  <1>0. MutexInv /\ TypeOK /\ Exists /\ draft \in Draft /\ draft.status = "published"
    BY DEF ApprovalInv, MutexInv, TypeOK, Exists, Status
  <1>1. CASE Person
    <2>1. CASE StartReview
      BY <1>0, <2>1, ClaimType, DraftsAssumption DEF StartReview, Kinds
    <2>2. ~CanChange /\ ~Approve /\ \A r \in Requests : ~Create(r)
      BY <1>0 DEF CanChange, Approve, Create
    <2>3. CASE UNCHANGED draft
      BY <2>3
    <2> QED BY <1>1, <2>1, <2>2, <2>3
        DEF Person, Edit, AcceptCorrection, Restore, CheckRewrite, PublishPage, UnpublishPage
  <1>2. ASSUME NEW r \in Requests, Handler(r) PROVE draft'.content = draft.content
    <2>1. ASSUME NEW t \in Threads, NEW kind \in Kinds, NEW n \in 1..MaxRounds,
                 Claim(t, kind, n)
          PROVE  draft'.content = draft.content
      BY <1>0, <2>1, ClaimType
    <2>2. CASE StartWriter(r) \/ StartRewrite(r)
      BY <2>1, <2>2, DraftsAssumption DEF StartWriter, StartRewrite, ClaimRefused, Kinds
    <2>3. CASE PublishSave(r) \/ UnpublishSave(r)
      BY <1>0, <2>3 DEF PublishSave, UnpublishSave, Draft
    <2> QED BY <1>2, <2>2, <2>3
        DEF Handler, PublishSaveFails, UnpublishSaveFails, Withdraw
  <1>3. ASSUME NEW t \in Threads, Thread(t) PROVE draft'.content = draft.content
    <2>1. ~RecordArticle(t)
      BY <1>0 DEF RecordArticle, At, ApprovalInv, GeneratingIsDraft, Active, Status
    <2>2. ~Keep(t)
      BY <1>0 DEF Keep
    <2>3. CASE AttachReview(t) \/ AttachRewriteReview(t)
      BY <1>0, <2>3 DEF AttachReview, AttachRewriteReview, Attach, Draft
    <2>4. CASE Release(t)
      BY <1>0, <2>4, ReleasedType DEF Release
    <2> QED BY <1>3, <2>1, <2>2, <2>3, <2>4
        DEF Thread, ReadToReview, StartRound, RereadToReview, Fail, ReleaseFails, Unsaved
  <1>4. CASE Crash \/ Restart
    BY <1>0, <1>4, ReleasedType DEF Crash, Restart
  <1> QED BY <1>1, <1>2, <1>3, <1>4 DEF Next

\* The live article never changes with no one deciding to republish: the text
\* of a published draft is fixed until it is unpublished.
THEOREM FrozenHolds ==
  ASSUME ~EarlyActs
  PROVE  Spec => PublishedTextIsFrozen
  <1>1. ApprovalInv /\ [Next]_vars =>
          [Status = "published" => draft'.content = draft.content]_vars
    BY FrozenStep
  <1> QED BY <1>1, ApprovalInvHolds, PTL DEF Spec, PublishedTextIsFrozen

\* A draft that stops being published is off the page: only unpublishing does
\* it, and unpublishing removes the page before it saves the draft.
LEMMA GoneStep ==
  ApprovalInv /\ [Next]_vars =>
    [Status = "published" /\ Status' # "published" => page' = NoText]_vars
  <1> SUFFICES ASSUME ApprovalInv, Next, Status = "published", Status' # "published"
               PROVE  page' = NoText
    OBVIOUS
  <1>0. MutexInv /\ TypeOK /\ Exists /\ draft \in Draft /\ draft.status = "published"
    BY DEF ApprovalInv, MutexInv, TypeOK, Exists, Status
  <1>a. ASSUME draft' \in Draft, draft'.status = "published" PROVE FALSE
    BY <1>a, NoDraftAssumption DEF Status, Exists
  <1>b. ASSUME UNCHANGED draft PROVE FALSE
    BY <1>b DEF Status, Exists
  <1>c. ASSUME NEW t \in Threads, NEW kind \in Kinds, NEW n \in 1..MaxRounds,
               Claim(t, kind, n)
        PROVE  FALSE
    BY <1>0, <1>a, <1>c, ClaimType
  <1>1. CASE Person
    <2>1. ~StartReview
      BY <1>c, DraftsAssumption DEF StartReview, Kinds
    <2>2. ~CanChange /\ ~Approve /\ \A r \in Requests : ~Create(r)
      BY <1>0 DEF CanChange, Approve, Create
    <2> QED BY <1>1, <1>b, <2>1, <2>2
        DEF Person, Edit, AcceptCorrection, Restore, CheckRewrite, PublishPage, UnpublishPage
  <1>2. ASSUME NEW r \in Requests, Handler(r) PROVE page' = NoText
    <2>1. CASE UnpublishSave(r)
      BY <1>0, <2>1 DEF UnpublishSave, Step, MutexInv, Locked
    <2>2. ~PublishSave(r)
      BY <1>0 DEF PublishSave, Step, MutexInv, Locked, Status
    <2>3. ~StartWriter(r) /\ ~StartRewrite(r)
      BY <1>b, <1>c, DraftsAssumption DEF StartWriter, StartRewrite, ClaimRefused, Kinds
    <2> QED BY <1>2, <1>b, <2>1, <2>2, <2>3
        DEF Handler, PublishSaveFails, UnpublishSaveFails, Withdraw
  <1>3. ASSUME NEW t \in Threads, Thread(t) PROVE FALSE
    <2>1. ~RecordArticle(t)
      BY <1>0 DEF RecordArticle, At, ApprovalInv, GeneratingIsDraft, Active, Status
    <2>2. ~Keep(t)
      BY <1>0 DEF Keep
    <2>3. ~AttachReview(t) /\ ~AttachRewriteReview(t)
      BY <1>0, <1>a, AttachType
    <2>4. CASE Release(t)
      BY <1>0, <1>a, <2>4, ReleasedType DEF Release
    <2> QED BY <1>3, <1>b, <2>1, <2>2, <2>3, <2>4
        DEF Thread, ReadToReview, StartRound, RereadToReview, Fail, ReleaseFails, Unsaved
  <1>4. CASE Crash \/ Restart
    BY <1>0, <1>4, <1>a, <1>b, ReleasedType DEF Crash, Restart
  <1> QED BY <1>1, <1>2, <1>3, <1>4 DEF Next

\* Unpublishing is never undone by what failed before it: once a draft stops
\* being published there is no page of it.
THEOREM GoneHolds ==
  ASSUME ~EarlyActs
  PROVE  Spec => UnpublishedMeansGone
  <1>1. ApprovalInv /\ [Next]_vars =>
          [Status = "published" /\ Status' # "published" => page' = NoText]_vars
    BY GoneStep
  <1> QED BY <1>1, ApprovalInvHolds, PTL DEF Spec, UnpublishedMeansGone

-----------------------------------------------------------------------------
(***************************************************************************)
(* The third invariant: reviews and the history.  `revise` may give the    *)
(* draft's review to the last revision because that revision's text is the *)
(* draft's; `restore` may take a revision's review because it is of that   *)
(* revision's text.                                                        *)
(***************************************************************************)

Described(d) ==
  /\ d.review # NoReview => d.review.of = d.content
  /\ \A i \in DOMAIN d.revisions :
       d.revisions[i].review # NoReview => d.revisions[i].review.of = d.revisions[i].content

LastIsContent(d) ==
  LET n == Len(d.revisions)
  IN n > 0 => d.revisions[n] = [content |-> d.content, review |-> NoReview]

\* A revision keeps every review with the text it read.
LEMMA ReviseDescribed ==
  ASSUME NEW d \in Draft, NEW text \in Texts, Described(d), LastIsContent(d)
  PROVE  Described(Revise(d, text)) /\ LastIsContent(Revise(d, text))
  <1> DEFINE n == Len(d.revisions)
             kept == IF n > 0 /\ d.review # NoReview /\ d.revisions[n].review = NoReview
                     THEN [d.revisions EXCEPT ![n].review = d.review]
                     ELSE d.revisions
             new == [content |-> text, review |-> NoReview]
             e == Revise(d, text)
  <1>1. d.revisions \in Seq(Revision) /\ d.review \in Review \cup {NoReview} /\ n \in Nat
    BY DEF Draft
  <1>2. /\ kept \in Seq(Revision) /\ Len(kept) = n
        /\ \A i \in 1..n : kept[i].review # NoReview => kept[i].review.of = kept[i].content
    <2>1. CASE n > 0 /\ d.review # NoReview /\ d.revisions[n].review = NoReview
      <3>1. n \in 1..n /\ \A i \in 1..n : d.revisions[i] \in Revision
        BY <1>1, <2>1
      <3>2. [d.revisions[n] EXCEPT !.review = d.review] \in Revision
        BY <1>1, <3>1 DEF Revision
      <3>3. kept = [d.revisions EXCEPT ![n] = [d.revisions[n] EXCEPT !.review = d.review]]
        BY <2>1
      <3>4. kept \in Seq(Revision) /\ Len(kept) = n
        BY <1>1, <3>1, <3>2, <3>3
      <3>5. /\ kept[n].review = d.review /\ kept[n].content = d.content
            /\ \A i \in 1..n : i # n => kept[i] = d.revisions[i]
        <4>1. /\ kept[n] = [d.revisions[n] EXCEPT !.review = d.review]
              /\ \A i \in 1..n : i # n => kept[i] = d.revisions[i]
          BY <1>1, <3>1, <3>3
        <4>2. d.revisions[n] \in Revision /\ d.revisions[n].content = d.content
          BY <2>1, <3>1 DEF LastIsContent
        <4>3. /\ [d.revisions[n] EXCEPT !.review = d.review].review = d.review
              /\ [d.revisions[n] EXCEPT !.review = d.review].content = d.content
          BY <4>2 DEF Revision
        <4> QED BY <4>1, <4>3
      <3> QED BY <1>1, <3>4, <3>5 DEF Described
    <2>2. CASE ~(n > 0 /\ d.review # NoReview /\ d.revisions[n].review = NoReview)
      <3>1. kept = d.revisions BY <2>2
      <3>2. DOMAIN d.revisions = 1..n BY <1>1
      <3> HIDE DEF kept
      <3> QED BY <1>1, <3>1, <3>2 DEF Described
    <2> QED BY <2>1, <2>2
  <1>3. new \in Revision BY DEF Revision
  <1>4. e.revisions = Append(kept, new) /\ e.content = text /\ e.review = NoReview
    BY DEF Revise, Draft
  <1> HIDE DEF kept, e
  <1>5. /\ Len(e.revisions) = n + 1 /\ DOMAIN e.revisions = 1..(n + 1)
        /\ e.revisions[n + 1] = new
        /\ \A i \in 1..n : e.revisions[i] = kept[i]
    BY <1>1, <1>2, <1>3, <1>4
  <1> USE DEF e
  <1>6. Described(e)
    BY <1>1, <1>2, <1>4, <1>5 DEF Described
  <1>7. LastIsContent(e)
    BY <1>1, <1>4, <1>5 DEF LastIsContent
  <1> QED BY <1>6, <1>7

ReviewInv == MutexInv /\ ReviewsDescribeTheirText /\ LastRevisionIsContent

\* What the reviews' invariant says is said of one draft.
LEMMA ReviewInvParts ==
  ReviewsDescribeTheirText /\ LastRevisionIsContent
    <=> (Exists => Described(draft) /\ LastIsContent(draft))
  BY DEF ReviewsDescribeTheirText, LastRevisionIsContent, Described, LastIsContent

\* What a step may leave of a draft: the same text with the same review, with
\* no review or with one of that text, or a revision of it.
LEMMA ReviewStep ==
  ASSUME ReviewInv, MutexInv', Exists,
         \/ /\ draft'.content = draft.content /\ draft'.revisions = draft.revisions
            /\ draft'.review = draft.review \/ draft'.review.of = draft.content
         \/ \E text \in Texts :
              /\ draft \in Draft
              /\ draft'.content = text
              /\ draft'.revisions = Revise(draft, text).revisions
              /\ draft'.review = NoReview \/ draft'.review.of = text
  PROVE  ReviewInv'
  <1>1. Described(draft) /\ LastIsContent(draft)
    BY ReviewInvParts DEF ReviewInv
  <1>2. Described(draft') /\ LastIsContent(draft')
    <2>1. CASE \E text \in Texts :
                 /\ draft \in Draft
                 /\ draft'.content = text
                 /\ draft'.revisions = Revise(draft, text).revisions
                 /\ draft'.review = NoReview \/ draft'.review.of = text
      <3>1. PICK text \in Texts :
                 /\ draft \in Draft
                 /\ draft'.content = text
                 /\ draft'.revisions = Revise(draft, text).revisions
                 /\ draft'.review = NoReview \/ draft'.review.of = text
        BY <2>1
      <3>2. /\ Described(Revise(draft, text)) /\ LastIsContent(Revise(draft, text))
            /\ Revise(draft, text).content = text
        BY <1>1, <3>1, ReviseDescribed, ReviseType
      <3> QED BY <3>1, <3>2 DEF Described, LastIsContent
    <2>2. CASE /\ draft'.content = draft.content /\ draft'.revisions = draft.revisions
               /\ draft'.review = draft.review \/ draft'.review.of = draft.content
      BY <1>1, <2>2 DEF Described, LastIsContent
    <2> QED BY <2>1, <2>2
  <1>3. ReviewsDescribeTheirText' /\ LastRevisionIsContent'
    BY <1>2 DEF ReviewsDescribeTheirText, LastRevisionIsContent, Described, LastIsContent
  <1> QED BY <1>3 DEF ReviewInv

\* Every step keeps reviews with the text they read.
LEMMA ReviewNext == ReviewInv /\ [Next]_vars => ReviewInv'
  <1> SUFFICES ASSUME ReviewInv, [Next]_vars PROVE ReviewInv'
    OBVIOUS
  <1>0. /\ MutexInv /\ MutexInv' /\ TypeOK /\ (Exists => draft \in Draft)
    BY MutexNext DEF ReviewInv, MutexInv, TypeOK, Exists
  <1>a. ASSUME UNCHANGED draft PROVE ReviewInv'
    BY <1>0, <1>a DEF ReviewInv, ReviewsDescribeTheirText, LastRevisionIsContent, Exists
  <1>b. ASSUME NEW t \in Threads, NEW kind \in Kinds, NEW n \in 1..MaxRounds,
               Claim(t, kind, n)
        PROVE  ReviewInv'
    BY <1>0, <1>b, ClaimType, ReviewStep
  <1>c. ASSUME NEW text \in Texts, NEW status, Exists,
               draft' = [Revise(draft, text) EXCEPT !.status = status]
        PROVE  ReviewInv'
    <2>1. draft \in Draft /\ Revise(draft, text) \in Draft
          /\ Revise(draft, text).content = text /\ Revise(draft, text).review = NoReview
      BY <1>0, <1>c, ReviseType
    <2>2. /\ draft'.content = text /\ draft'.review = NoReview
          /\ draft'.revisions = Revise(draft, text).revisions
      BY <1>c, <2>1 DEF Draft
    <2> QED BY <1>0, <1>c, <2>1, <2>2, ReviewStep
  <1>1. CASE Person
    <2>1. CASE StartReview
      BY <1>b, <2>1, DraftsAssumption DEF StartReview, Kinds
    <2>2. ASSUME NEW text \in Texts, Edit(text) PROVE ReviewInv'
      BY <1>c, <2>2 DEF Edit, Changed, CanChange, CanUpdate
    <2>3. CASE AcceptCorrection
      <3>1. draft.review.corrected \in Texts
        BY <1>0, <2>3 DEF AcceptCorrection, CanChange, CanUpdate, Draft, Review
      <3> QED BY <1>c, <2>3, <3>1 DEF AcceptCorrection, Changed, CanChange, CanUpdate
    <2>4. ASSUME NEW i \in 1..MaxRevisions, Restore(i) PROVE ReviewInv'
      <3>1. draft \in Draft /\ Exists BY <1>0, <2>4 DEF Restore, CanChange, CanUpdate
      <3>2. draft.revisions[i] \in Revision
        BY <2>4, <3>1 DEF Restore, Draft
      <3> DEFINE text == draft.revisions[i].content
                 review == draft.revisions[i].review
      <3>3. text \in Texts /\ review \in Review \cup {NoReview}
        BY <3>2 DEF Revision
      <3>4. review = NoReview \/ review.of = text
        BY <2>4, <3>1 DEF Restore, ReviewInv, ReviewsDescribeTheirText
      <3>5. draft' = [[Revise(draft, text) EXCEPT !.review = review] EXCEPT !.status = "draft"]
        BY <2>4 DEF Restore, Changed
      <3> HIDE DEF text, review
      <3>6. Revise(draft, text) \in Draft /\ Revise(draft, text).content = text
        BY <3>1, <3>3, ReviseType
      <3>7. /\ draft'.content = text /\ draft'.review = review
            /\ draft'.revisions = Revise(draft, text).revisions
        BY <3>5, <3>6 DEF Draft
      <3> QED BY <1>0, <3>1, <3>3, <3>4, <3>7, ReviewStep
    <2>5. CASE Approve
      <3>1. draft \in Draft /\ Exists BY <1>0, <2>5 DEF Approve, CanUpdate
      <3> QED BY <1>0, <2>5, <3>1, ReviewStep DEF Approve, Draft
    <2>6. ASSUME NEW r \in Requests, Create(r) PROVE ReviewInv'
      BY <1>0, <2>6
      DEF Create, NewDraft, ReviewInv, ReviewsDescribeTheirText, LastRevisionIsContent
    <2> QED BY <1>1, <1>a, <2>1, <2>2, <2>3, <2>4, <2>5, <2>6
        DEF Person, CheckRewrite, PublishPage, UnpublishPage
  <1>2. ASSUME NEW r \in Requests, Handler(r) PROVE ReviewInv'
    <2>1. CASE StartWriter(r) \/ StartRewrite(r)
      BY <1>a, <1>b, <2>1, DraftsAssumption DEF StartWriter, StartRewrite, ClaimRefused, Kinds
    <2>2. CASE PublishSave(r) \/ UnpublishSave(r)
      <3>1. draft \in Draft /\ Exists
        BY <1>0, <2>2 DEF PublishSave, UnpublishSave, Step, MutexInv, InUse
      <3> QED BY <1>0, <2>2, <3>1, ReviewStep DEF PublishSave, UnpublishSave, Draft
    <2> QED BY <1>2, <1>a, <2>1, <2>2
        DEF Handler, PublishSaveFails, UnpublishSaveFails, Withdraw
  <1>3. ASSUME NEW t \in Threads, Thread(t) PROVE ReviewInv'
    <2>1. CASE RecordArticle(t)
      <3>1. PICK text \in Texts : draft' = Revise(draft, text)
        BY <2>1 DEF RecordArticle
      <3>2. draft \in Draft /\ Exists
        BY <1>0, <2>1 DEF RecordArticle, CanUpdate
      <3> QED BY <1>0, <3>1, <3>2, ReviseType, ReviewStep
    <2>2. CASE Keep(t)
      BY <1>c, <2>2 DEF Keep, CanUpdate
    <2>3. CASE AttachReview(t) \/ AttachRewriteReview(t)
      BY <1>0, <2>3, AttachType, ReviewStep DEF MutexInv, InUse
    <2>4. CASE Release(t)
      BY <1>0, <2>4, ReleasedType, ReviewStep DEF Release, CanUpdate
    <2> QED BY <1>3, <1>a, <2>1, <2>2, <2>3, <2>4
        DEF Thread, ReadToReview, StartRound, RereadToReview, Fail, ReleaseFails, Unsaved
  <1>4. CASE Crash
    BY <1>4, <1>a DEF Crash
  <1>5. CASE Restart
    BY <1>0, <1>5, <1>a, ReleasedType, ReviewStep DEF Restart, Busy
  <1>6. CASE UNCHANGED vars
    BY <1>6, <1>a DEF vars
  <1> QED BY <1>1, <1>2, <1>3, <1>4, <1>5, <1>6 DEF Next

\* What reviews describe: the invariant holds.
LEMMA ReviewInvHolds == Spec => []ReviewInv
  <1>1. Init => ReviewInv
    BY MutexInit DEF Init, ReviewInv, ReviewsDescribeTheirText, LastRevisionIsContent, Exists
  <1> QED BY <1>1, ReviewNext, PTL DEF Spec

\* A review never describes text it did not read: not after an edit, a rewrite,
\* a crash between the rewrite and its review, nor after a restore.
THEOREM ReviewsHold == Spec => []ReviewsDescribeTheirText
  <1>1. ReviewInv => ReviewsDescribeTheirText BY DEF ReviewInv
  <1> QED BY <1>1, ReviewInvHolds, PTL

\* The last revision is the draft's text, waiting for the draft's review.
THEOREM LastRevisionHolds == Spec => []LastRevisionIsContent
  <1>1. ReviewInv => LastRevisionIsContent BY DEF ReviewInv
  <1> QED BY <1>1, ReviewInvHolds, PTL

\* revise appends one revision and changes none but, for its review, the last.
LEMMA ReviseHistory ==
  ASSUME NEW d \in Draft, NEW text \in Texts
  PROVE  LET e == Revise(d, text)
         IN /\ Len(e.revisions) >= Len(d.revisions)
            /\ \A i \in DOMAIN d.revisions :
                 /\ e.revisions[i].content = d.revisions[i].content
                 /\ e.revisions[i].review # d.revisions[i].review =>
                      d.revisions[i].review = NoReview /\ e.revisions[i].review = d.review
  <1> DEFINE n == Len(d.revisions)
             kept == IF n > 0 /\ d.review # NoReview /\ d.revisions[n].review = NoReview
                     THEN [d.revisions EXCEPT ![n].review = d.review]
                     ELSE d.revisions
             new == [content |-> text, review |-> NoReview]
             e == Revise(d, text)
  <1>1. /\ d.revisions \in Seq(Revision) /\ d.review \in Review \cup {NoReview} /\ n \in Nat
        /\ DOMAIN d.revisions = 1..n /\ \A i \in 1..n : d.revisions[i] \in Revision
    BY DEF Draft
  <1>2. /\ kept \in Seq(Revision) /\ Len(kept) = n
        /\ \A i \in 1..n :
             /\ kept[i].content = d.revisions[i].content
             /\ kept[i].review # d.revisions[i].review =>
                  d.revisions[i].review = NoReview /\ kept[i].review = d.review
    <2>1. CASE n > 0 /\ d.review # NoReview /\ d.revisions[n].review = NoReview
      <3>1. n \in 1..n BY <1>1, <2>1
      <3>2. /\ [d.revisions[n] EXCEPT !.review = d.review] \in Revision
            /\ [d.revisions[n] EXCEPT !.review = d.review].review = d.review
            /\ [d.revisions[n] EXCEPT !.review = d.review].content = d.revisions[n].content
        BY <1>1, <3>1 DEF Revision
      <3>3. kept = [d.revisions EXCEPT ![n] = [d.revisions[n] EXCEPT !.review = d.review]]
        BY <2>1
      <3>4. /\ kept \in Seq(Revision) /\ Len(kept) = n
            /\ kept[n] = [d.revisions[n] EXCEPT !.review = d.review]
            /\ \A i \in 1..n : i # n => kept[i] = d.revisions[i]
        BY <1>1, <3>1, <3>2, <3>3
      <3> QED BY <2>1, <3>2, <3>4
    <2>2. CASE ~(n > 0 /\ d.review # NoReview /\ d.revisions[n].review = NoReview)
      <3>1. kept = d.revisions BY <2>2
      <3> HIDE DEF kept
      <3> QED BY <1>1, <3>1
    <2> QED BY <2>1, <2>2
  <1>3. new \in Revision BY DEF Revision
  <1>4. e.revisions = Append(kept, new)
    BY DEF Revise, Draft
  <1> HIDE DEF kept, e
  <1>5. /\ Len(e.revisions) = n + 1
        /\ \A i \in 1..n : e.revisions[i] = kept[i]
    BY <1>1, <1>2, <1>3, <1>4
  <1> QED BY <1>1, <1>2, <1>5 DEF e

\* The history as one step may change it.
Grows ==
  Exists =>
    /\ Len(draft'.revisions) >= Len(draft.revisions)
    /\ \A i \in DOMAIN draft.revisions :
         LET was == draft.revisions[i]
             is  == draft'.revisions[i]
         IN /\ is.content = was.content
            /\ is.review # was.review => was.review = NoReview /\ is.review = draft.review

\* Every step keeps the history.
LEMMA GrowsStep == MutexInv /\ [Next]_vars => [Grows]_vars
  <1> SUFFICES ASSUME MutexInv, Next, Exists PROVE Grows
    BY DEF Grows
  <1>0. TypeOK /\ draft \in Draft /\ Len(draft.revisions) \in Nat
    BY DEF MutexInv, TypeOK, Exists, Draft
  <1>a. ASSUME draft'.revisions = draft.revisions PROVE Grows
    BY <1>0, <1>a DEF Grows
  <1>b. ASSUME NEW t \in Threads, NEW kind \in Kinds, NEW n \in 1..MaxRounds,
               Claim(t, kind, n)
        PROVE  Grows
    BY <1>0, <1>a, <1>b, ClaimType
  <1>c. ASSUME NEW text \in Texts, draft'.revisions = Revise(draft, text).revisions PROVE Grows
    BY <1>0, <1>c, ReviseHistory DEF Grows
  <1>d. ASSUME NEW d \in Draft, Changed(d) PROVE draft'.revisions = d.revisions
    BY <1>d DEF Changed, Draft
  <1>1. CASE Person
    <2>1. CASE StartReview
      BY <1>b, <2>1, DraftsAssumption DEF StartReview, Kinds
    <2>2. ASSUME NEW text \in Texts, Edit(text) PROVE Grows
      BY <1>0, <1>c, <1>d, <2>2, ReviseType DEF Edit
    <2>3. CASE AcceptCorrection
      <3>1. draft.review.corrected \in Texts
        BY <1>0, <2>3 DEF AcceptCorrection, Draft, Review
      <3> QED BY <1>0, <1>c, <1>d, <2>3, <3>1, ReviseType DEF AcceptCorrection
    <2>4. ASSUME NEW i \in 1..MaxRevisions, Restore(i) PROVE Grows
      <3>1. draft.revisions[i] \in Revision
        BY <1>0, <2>4 DEF Restore, Draft
      <3> DEFINE text == draft.revisions[i].content
                 review == draft.revisions[i].review
                 e == [Revise(draft, text) EXCEPT !.review = review]
      <3>2. text \in Texts /\ review \in Review \cup {NoReview}
        BY <3>1 DEF Revision
      <3>3. Changed(e) BY <2>4 DEF Restore
      <3> HIDE DEF text, review
      <3>4. e \in Draft /\ e.revisions = Revise(draft, text).revisions
        BY <1>0, <3>2, ReviseType DEF Draft
      <3> HIDE DEF e
      <3> QED BY <1>c, <1>d, <3>2, <3>3, <3>4
    <2>5. CASE Approve
      BY <1>0, <1>a, <2>5 DEF Approve, Draft
    <2>6. \A r \in Requests : ~Create(r)
      BY DEF Create
    <2> QED BY <1>1, <1>a, <2>1, <2>2, <2>3, <2>4, <2>5, <2>6
        DEF Person, CheckRewrite, PublishPage, UnpublishPage
  <1>2. ASSUME NEW r \in Requests, Handler(r) PROVE Grows
    <2>1. CASE StartWriter(r) \/ StartRewrite(r)
      BY <1>a, <1>b, <2>1, DraftsAssumption DEF StartWriter, StartRewrite, ClaimRefused, Kinds
    <2>2. CASE PublishSave(r) \/ UnpublishSave(r)
      BY <1>0, <1>a, <2>2 DEF PublishSave, UnpublishSave, Draft
    <2> QED BY <1>2, <1>a, <2>1, <2>2
        DEF Handler, PublishSaveFails, UnpublishSaveFails, Withdraw
  <1>3. ASSUME NEW t \in Threads, Thread(t) PROVE Grows
    <2>1. CASE RecordArticle(t)
      BY <1>c, <2>1 DEF RecordArticle
    <2>2. CASE Keep(t)
      <3>1. PICK text \in Texts : draft' = [Revise(draft, text) EXCEPT !.status = "draft"]
        BY <2>2 DEF Keep
      <3>2. draft'.revisions = Revise(draft, text).revisions
        BY <1>0, <3>1, ReviseType DEF Draft
      <3> QED BY <1>c, <3>2
    <2>3. CASE AttachReview(t) \/ AttachRewriteReview(t)
      BY <1>a, <2>3, AttachType
    <2>4. CASE Release(t)
      BY <1>0, <1>a, <2>4, ReleasedType DEF Release
    <2> QED BY <1>3, <1>a, <2>1, <2>2, <2>3, <2>4
        DEF Thread, ReadToReview, StartRound, RereadToReview, Fail, ReleaseFails, Unsaved
  <1>4. CASE Crash \/ Restart
    BY <1>0, <1>a, <1>4, ReleasedType DEF Crash, Restart
  <1> QED BY <1>1, <1>2, <1>3, <1>4 DEF Next

\* Nothing is lost: no step changes a revision's text or a review it has, and a
\* text that is replaced keeps its review in the history.
THEOREM HistoryHolds == Spec => HistoryOnlyGrows
  <1>1. MutexInv /\ [Next]_vars => [Grows]_vars
    BY GrowsStep
  <1>2. HistoryOnlyGrows <=> [][Grows]_vars
    BY PTL DEF HistoryOnlyGrows, Grows
  <1> QED BY <1>1, <1>2, MutexHolds, PTL DEF Spec


-----------------------------------------------------------------------------
(* The operators. *)

\* A move changes one thread's place and leaves its phases.
LEMMA MovesType ==
  ASSUME JobsOK, NEW j \in Jobs, NEW from, NEW to \in Places, Moves(j, from, to)
  PROVE  /\ thread' \in [Jobs -> [at : Places, phases : 0..MaxPhases]]
         /\ thread[j].at = from /\ thread'[j].at = to
         /\ \A k \in Jobs : k # j => thread'[k] = thread[k]
  BY DEF Moves, JobsOK

\* Appending to a file gives a file, whatever becomes of the line.
LEMMA WrittenType ==
  ASSUME NEW f \in File, NEW line \in Lines
  PROVE  Written(f, line) \subseteq File /\ Part(f) \in File
  <1>1. /\ "torn" \in Lines
        /\ f.lines \in Seq(Lines) /\ f.open \in BOOLEAN
    BY DEF File, Lines
  <1>2. Append(f.lines, "torn") \in Seq(Lines) /\ Append(f.lines, line) \in Seq(Lines)
    BY <1>1
  <1>3. Part(f) \in File BY <1>1, <1>2 DEF Part, File
  <1>4. Whole(f, line) \in File
    <2>1. CASE f.open BY <1>1, <2>1 DEF Whole, File
    <2>2. CASE ~f.open
      <3>1. Whole(f, line) = [f EXCEPT !.lines = Append(f.lines, line)]
        BY <2>2 DEF Whole
      <3> QED BY <1>1, <1>2, <3>1 DEF File
    <2> QED BY <2>1, <2>2
  <1> QED BY <1>3, <1>4 DEF Written

\* A line recorded changes one file.
LEMMA RecordedType ==
  ASSUME JobsOK, NEW j \in Jobs, NEW line \in Lines, NEW f \in Written(file[j], line),
         file' = [file EXCEPT ![j] = f]
  PROVE  /\ file' \in [Jobs -> File]
         /\ file'[j] = f
         /\ \A k \in Jobs : k # j => file'[k] = file[k]
  <1>1. f \in File BY WrittenType DEF JobsOK
  <1> QED BY <1>1 DEF JobsOK

\* A file never reads as a job that is queued or running.
LEMMA LoadIsFinal ==
  ASSUME NEW lines PROVE Load(lines) \in {"unknown", "done", "failed"}
  BY DEF Load

-----------------------------------------------------------------------------
(* The registry: who is held, in flight and evicted. *)

\* A job is held as active exactly while its thread owes the outcome.
HeldIsOwed ==
  \A j \in Jobs : memory[j] \in ActiveStatus <=> thread[j].at \in Owing

\* What may be evicted has ended.
FinishedHaveEnded ==
  \A i \in DOMAIN finished : memory[finished[i]] \in {"done", "failed"}

\* A job ends once.
EndsOnce ==
  \A i, k \in DOMAIN finished : finished[i] = finished[k] => i = k

\* Nothing is known of an id not used yet.
NewIsUnknown ==
  \A j \in Jobs : thread[j].at = "none" => memory[j] = "absent" /\ url[j] = NoUrl

RegistryInv ==
  /\ JobsOK
  /\ NewIsUnknown
  /\ FlightIsActive
  /\ HeldIsOwed
  /\ FinishedHaveEnded
  /\ EndsOnce

\* The registry is empty at first.
LEMMA RegistryInit == JobsInit => RegistryInv
  <1> SUFFICES ASSUME JobsInit PROVE RegistryInv
    OBVIOUS
  <1>1. << >> \in Seq(Lines) /\ NoFile \in File
    BY DEF NoFile, File
  <1>2. 0 \in 0..MaxDeaths /\ 0 \in 0..MaxPhases
    BY JobsAssumption
  <1>3. JobsOK BY <1>1, <1>2 DEF JobsInit, JobsOK, Places
  <1>4. FlightIsActive BY JobsAssumption DEF JobsInit, FlightIsActive, Owing
  <1>5. HeldIsOwed BY DEF JobsInit, HeldIsOwed, ActiveStatus, Owing
  <1>6. FinishedHaveEnded BY DEF JobsInit, FinishedHaveEnded
  <1>7. NewIsUnknown /\ EndsOnce BY DEF JobsInit, NewIsUnknown, EndsOnce
  <1> QED BY <1>3, <1>4, <1>5, <1>6, <1>7 DEF RegistryInv

\* A step that only changes one thread's place within, or outside, what it
\* owes, and at most that job's active status, keeps the registry.
LEMMA SamePlace ==
  ASSUME RegistryInv, JobsOK', NEW j \in Jobs,
         \A k \in Jobs : k # j => thread'[k].at = thread[k].at,
         \A k \in Jobs : k # j => memory'[k] = memory[k],
         thread[j].at \in Owing <=> thread'[j].at \in Owing,
         thread'[j].at # "none",
         memory'[j] = memory[j]
           \/ (thread[j].at \in Owing /\ memory'[j] \in ActiveStatus),
         UNCHANGED <<url, flight, finished>>
  PROVE  RegistryInv'
  <1>1. FlightIsActive'
    BY DEF RegistryInv, FlightIsActive
  <1>2. HeldIsOwed'
    BY DEF RegistryInv, HeldIsOwed
  <1>3. FinishedHaveEnded'
    <2> SUFFICES ASSUME NEW i \in DOMAIN finished
                 PROVE memory'[finished[i]] \in {"done", "failed"}
      BY DEF FinishedHaveEnded
    <2>1. finished[i] \in Jobs /\ memory[finished[i]] \in {"done", "failed"}
      BY DEF RegistryInv, JobsOK, FinishedHaveEnded
    <2>2. CASE finished[i] # j BY <2>1, <2>2
    <2>3. CASE finished[i] = j
      <3>1. thread[j].at \notin Owing
        BY <2>1, <2>3 DEF RegistryInv, HeldIsOwed, ActiveStatus
      <3> QED BY <2>1, <2>3, <3>1
    <2> QED BY <2>2, <2>3
  <1>4. NewIsUnknown' /\ EndsOnce'
    BY DEF RegistryInv, NewIsUnknown, EndsOnce
  <1> QED BY <1>1, <1>2, <1>3, <1>4 DEF RegistryInv

\* A new job under an address that is not in flight, or a claim.
LEMMA PostKeeps ==
  ASSUME RegistryInv, NEW j \in Jobs,
         (\E u \in Urls : Post(j, u)) \/ PostClaim(j)
  PROVE  RegistryInv'
  <1>0. JobsOK BY DEF RegistryInv
  <1>1. Moves(j, "none", "posted") BY DEF Post, PostClaim
  <1>2. /\ thread' \in [Jobs -> [at : Places, phases : 0..MaxPhases]]
        /\ thread[j].at = "none" /\ thread'[j].at = "posted"
        /\ \A k \in Jobs : k # j => thread'[k] = thread[k]
    BY <1>0, <1>1, MovesType DEF Places
  <1>3. /\ memory' = [memory EXCEPT ![j] = "queued"]
        /\ UNCHANGED <<finished, file, queue, serving, deaths>>
    BY DEF Post, PostClaim
  <1>4. JobsOK'
    BY <1>0, <1>2, <1>3 DEF JobsOK, Post, PostClaim
  <1>5. HeldIsOwed'
    BY <1>0, <1>2, <1>3 DEF RegistryInv, HeldIsOwed, ActiveStatus, Owing, JobsOK
  <1>6. FinishedHaveEnded'
    <2> SUFFICES ASSUME NEW i \in DOMAIN finished
                 PROVE memory'[finished[i]] \in {"done", "failed"}
      BY <1>3 DEF FinishedHaveEnded
    <2>1. finished[i] \in Jobs /\ memory[finished[i]] \in {"done", "failed"}
      BY DEF RegistryInv, JobsOK, FinishedHaveEnded
    <2>2. finished[i] # j
      BY <1>2, <2>1 DEF RegistryInv, NewIsUnknown
    <2> QED BY <1>0, <1>3, <2>1, <2>2 DEF JobsOK
  <1>7. FlightIsActive'
    <2>1. CASE PostClaim(j)
      <3>1. UNCHANGED <<url, flight>> /\ url[j] = NoUrl
        BY <1>2, <2>1 DEF PostClaim, RegistryInv, NewIsUnknown
      <3> QED BY <1>2, <3>1, JobsAssumption DEF RegistryInv, FlightIsActive, Owing
    <2>2. ASSUME NEW u \in Urls, Post(j, u) PROVE FlightIsActive'
      <3>1. flight[u] = NoJob
        <4>1. SUFFICES ASSUME flight[u] # NoJob PROVE FALSE
          OBVIOUS
        <4>2. flight[u] \in Jobs /\ memory[flight[u]] = "absent"
          BY <1>0, <2>2, <4>1 DEF Post, JobsOK
        <4>3. memory[flight[u]] \in ActiveStatus
          BY <4>2 DEF RegistryInv, FlightIsActive, HeldIsOwed
        <4> QED BY <4>2, <4>3 DEF ActiveStatus
      <3>2. /\ url' = [url EXCEPT ![j] = u] /\ url'[j] = u
            /\ flight' = [flight EXCEPT ![u] = j]
        BY <1>0, <2>2 DEF Post, JobsOK
      <3>3. \A k \in Jobs : ~(url[k] = u /\ thread[k].at \in Owing)
        BY <3>1, JobsAssumption DEF RegistryInv, FlightIsActive
      <3>4. \A v \in Urls : flight[v] # j
        BY <1>2 DEF RegistryInv, FlightIsActive, Owing
      <3>5. thread'[j].at \in Owing
        BY <1>2 DEF Owing
      <3> SUFFICES ASSUME NEW v \in Urls, NEW k \in Jobs
                   PROVE flight'[v] = k <=> url'[k] = v /\ thread'[k].at \in Owing
        BY DEF FlightIsActive
      <3>6. flight[v] = k <=> url[k] = v /\ thread[k].at \in Owing
        BY DEF RegistryInv, FlightIsActive
      <3>7. flight'[v] = IF v = u THEN j ELSE flight[v]
        BY <1>0, <3>2 DEF JobsOK
      <3>8. url'[k] = IF k = j THEN u ELSE url[k]
        BY <1>0, <3>2 DEF JobsOK
      <3>9. CASE k = j
        BY <3>4, <3>5, <3>7, <3>8, <3>9
      <3>10. CASE k # j
        BY <1>2, <3>3, <3>6, <3>7, <3>8, <3>10
      <3> QED BY <3>9, <3>10
    <2> QED BY <2>1, <2>2
  <1>8. NewIsUnknown' /\ EndsOnce'
    BY <1>0, <1>2, <1>3 DEF RegistryInv, NewIsUnknown, EndsOnce, JobsOK, Post, PostClaim
  <1> QED BY <1>4, <1>5, <1>6, <1>7, <1>8 DEF RegistryInv

\* complete and fail end the job and free its address.
LEMMA SettleKeeps ==
  ASSUME RegistryInv, NEW j \in Jobs, NEW outcome \in {"done", "failed"}, Settle(j, outcome)
  PROVE  RegistryInv'
  <1>0. JobsOK BY DEF RegistryInv
  <1>1. /\ thread' \in [Jobs -> [at : Places, phases : 0..MaxPhases]]
        /\ thread[j].at = "working" /\ thread'[j].at = outcome
        /\ \A k \in Jobs : k # j => thread'[k] = thread[k]
    BY <1>0, MovesType DEF Settle, Places
  <1>2. /\ memory' = [memory EXCEPT ![j] = outcome]
        /\ finished' = Append(finished, j)
        /\ flight' = [u \in Urls |-> IF flight[u] = j THEN NoJob ELSE flight[u]]
        /\ UNCHANGED <<url, file, queue, serving, deaths>>
    BY DEF Settle
  <1>3. finished' \in Seq(Jobs) /\ finished \in Seq(Jobs)
    BY <1>0, <1>2 DEF JobsOK
  <1>4. JobsOK'
    BY <1>0, <1>1, <1>2, <1>3 DEF JobsOK
  <1>5. HeldIsOwed'
    BY <1>0, <1>1, <1>2 DEF RegistryInv, HeldIsOwed, ActiveStatus, Owing, JobsOK
  <1>6. FinishedHaveEnded'
    <2> SUFFICES ASSUME NEW i \in DOMAIN finished'
                 PROVE memory'[finished'[i]] \in {"done", "failed"}
      BY DEF FinishedHaveEnded
    <2>1. i \in DOMAIN finished => memory[finished[i]] \in {"done", "failed"}
      BY DEF RegistryInv, FinishedHaveEnded
    <2>2. \/ i \in DOMAIN finished /\ finished'[i] = finished[i]
          \/ finished'[i] = j
      BY <1>2, <1>3
    <2>3. finished'[i] \in Jobs BY <1>3
    <2> QED BY <1>0, <1>2, <2>1, <2>2, <2>3 DEF JobsOK
  <1>7. FlightIsActive'
    <2> SUFFICES ASSUME NEW u \in Urls, NEW k \in Jobs
                 PROVE flight'[u] = k <=> url[k] = u /\ thread'[k].at \in Owing
      BY <1>2 DEF FlightIsActive
    <2>1. flight'[u] = IF flight[u] = j THEN NoJob ELSE flight[u]
      BY <1>2
    <2>2. flight[u] = k <=> url[k] = u /\ thread[k].at \in Owing
      BY DEF RegistryInv, FlightIsActive
    <2>3. CASE k = j
      BY <1>1, <2>1, <2>3, JobsAssumption DEF Owing
    <2>4. CASE k # j
      BY <1>1, <2>1, <2>2, <2>4, JobsAssumption
    <2> QED BY <2>3, <2>4
  <1>8. NewIsUnknown'
    BY <1>0, <1>1, <1>2 DEF RegistryInv, NewIsUnknown, JobsOK
  <1>9. EndsOnce'
    <2>1. \A i \in DOMAIN finished : finished[i] # j
      BY <1>1 DEF RegistryInv, FinishedHaveEnded, HeldIsOwed, ActiveStatus, Owing
    <2> QED BY <1>2, <1>3, <2>1 DEF RegistryInv, EndsOnce
  <1> QED BY <1>4, <1>5, <1>6, <1>7, <1>8, <1>9 DEF RegistryInv

\* _evict takes only what has ended out of memory.
LEMMA EvictKeeps ==
  ASSUME RegistryInv, NEW j \in Jobs, Evict(j)
  PROVE  RegistryInv'
  <1>0. JobsOK BY DEF RegistryInv
  <1> DEFINE excess == Len(finished) - KeepFinished
             out    == {finished[i] : i \in 1..excess}
  <1>1. /\ thread' \in [Jobs -> [at : Places, phases : 0..MaxPhases]]
        /\ thread[j].at = "recorded" /\ thread'[j].at = "gone"
        /\ \A k \in Jobs : k # j => thread'[k] = thread[k]
    BY <1>0, MovesType DEF Evict, Places
  <1>2. /\ memory' = [k \in Jobs |-> IF k \in out THEN "absent" ELSE memory[k]]
        /\ finished' = IF excess > 0 THEN SubSeq(finished, excess + 1, Len(finished)) ELSE finished
        /\ UNCHANGED <<url, flight, file, queue, serving, deaths>>
    BY DEF Evict
  <1>3. finished \in Seq(Jobs) /\ KeepFinished \in Nat /\ excess \in Int
        /\ excess <= Len(finished)
    BY <1>0, JobsAssumption DEF JobsOK
  <1>4. \A k \in out : k \in Jobs /\ memory[k] \in {"done", "failed"}
    BY <1>3 DEF RegistryInv, FinishedHaveEnded
  <1> HIDE DEF out
  <1>5. finished' \in Seq(Jobs)
    BY <1>2, <1>3
  <1>6. JobsOK'
    BY <1>0, <1>1, <1>2, <1>5 DEF JobsOK
  <1>7. HeldIsOwed'
    BY <1>1, <1>2, <1>4 DEF RegistryInv, HeldIsOwed, ActiveStatus, Owing
  <1>8. FlightIsActive'
    BY <1>1, <1>2 DEF RegistryInv, FlightIsActive, Owing
  <1>9. NewIsUnknown'
    BY <1>1, <1>2 DEF RegistryInv, NewIsUnknown
  <1>10. FinishedHaveEnded' /\ EndsOnce'
    <2>1. CASE excess <= 0
      <3>1. 1..excess = {} /\ finished' = finished
        BY <1>2, <1>3, <2>1
      <3>2. memory' = [k \in Jobs |-> memory[k]]
        BY <1>2, <3>1 DEF out
      <3> QED BY <1>0, <1>3, <3>1, <3>2 DEF RegistryInv, FinishedHaveEnded, EndsOnce, JobsOK
    <2>2. CASE excess > 0
      <3>1. \A i \in DOMAIN finished' : /\ i + excess \in DOMAIN finished
                                       /\ finished'[i] = finished[i + excess]
        BY <1>2, <1>3, <2>2
      <3>2. \A i \in DOMAIN finished' : finished'[i] \notin out
        BY <1>3, <1>5, <2>2, <3>1 DEF RegistryInv, EndsOnce, out
      <3>3. \A i \in DOMAIN finished' : finished'[i] \in Jobs
        BY <1>5
      <3>4. FinishedHaveEnded'
        BY <1>2, <3>1, <3>2, <3>3 DEF RegistryInv, FinishedHaveEnded
      <3>5. EndsOnce'
        BY <1>3, <1>5, <3>1 DEF RegistryInv, EndsOnce
      <3> QED BY <3>4, <3>5
    <2> QED BY <1>3, <2>1, <2>2
  <1> QED BY <1>6, <1>7, <1>8, <1>9, <1>10 DEF RegistryInv

\* Every step keeps the registry.
LEMMA RegistryNext == RegistryInv /\ [JobsNext]_jobVars => RegistryInv'
  <1> SUFFICES ASSUME RegistryInv, [JobsNext]_jobVars PROVE RegistryInv'
    OBVIOUS
  <1>0. JobsOK BY DEF RegistryInv
  <1>1. ASSUME NEW j \in Jobs, (\E u \in Urls : Post(j, u)) \/ PostClaim(j)
        PROVE  RegistryInv'
    BY <1>1, PostKeeps
  <1>2. ASSUME NEW j \in Jobs, Work(j) PROVE RegistryInv'
    <2>1. CASE Submit(j)
      <3>1. /\ thread' \in [Jobs -> [at : Places, phases : 0..MaxPhases]]
            /\ thread[j].at = "posted" /\ thread'[j].at = "submitted"
            /\ \A k \in Jobs : k # j => thread'[k] = thread[k]
        BY <1>0, <2>1, MovesType DEF Submit, Places
      <3>2. file' \in [Jobs -> File]
        BY <1>0, <2>1, RecordedType DEF Submit, Lines
      <3>3. queue' \in Seq(Jobs)
        <4>1. queue \in Seq(Jobs) BY <1>0 DEF JobsOK
        <4>2. Append(queue, j) \in Seq(Jobs) BY <4>1
        <4>3. queue' = Append(queue, j) \/ queue' = queue BY <2>1 DEF Submit
        <4> QED BY <4>1, <4>2, <4>3
      <3>4. UNCHANGED <<memory, url, flight, finished, serving, deaths>>
        BY <2>1 DEF Submit
      <3>5. JobsOK' BY <1>0, <3>1, <3>2, <3>3, <3>4 DEF JobsOK
      <3> QED BY <3>1, <3>4, <3>5, SamePlace DEF Owing
    <2>2. CASE Start(j)
      <3>1. /\ thread' \in [Jobs -> [at : Places, phases : 0..MaxPhases]]
            /\ thread[j].at = "submitted" /\ thread'[j].at = "reporting"
            /\ \A k \in Jobs : k # j => thread'[k] = thread[k]
        BY <1>0, <2>2, MovesType DEF Start, Places
      <3>2. /\ memory' = [memory EXCEPT ![j] = "running"]
            /\ UNCHANGED <<url, flight, finished, file, serving, deaths>>
        BY <2>2 DEF Start
      <3>3. queue' \in Seq(Jobs)
        <4>1. queue \in Seq(Jobs) BY <1>0 DEF JobsOK
        <4>2. queue # << >> => Tail(queue) \in Seq(Jobs) BY <4>1
        <4>3. (queue # << >> /\ queue' = Tail(queue)) \/ queue' = queue BY <2>2 DEF Start
        <4> QED BY <4>1, <4>2, <4>3
      <3>4. JobsOK' BY <1>0, <3>1, <3>2, <3>3 DEF JobsOK
      <3>5. memory'[j] \in ActiveStatus /\ \A k \in Jobs : k # j => memory'[k] = memory[k]
        BY <1>0, <3>2 DEF JobsOK, ActiveStatus
      <3> QED BY <3>1, <3>2, <3>4, <3>5, SamePlace DEF Owing
    <2>3. CASE Event(j)
      <3>1. /\ thread[j].at = "working" /\ thread[j].phases \in 0..MaxPhases
            /\ thread[j].phases < MaxPhases
        BY <1>0, <2>3 DEF Event, JobsOK
      <3> DEFINE new == [at |-> "reporting", phases |-> thread[j].phases + 1]
      <3>2. new \in [at : Places, phases : 0..MaxPhases]
        BY <3>1, JobsAssumption DEF Places
      <3>3. thread' = [thread EXCEPT ![j] = new]
        BY <2>3 DEF Event
      <3>4. new.at = "reporting" OBVIOUS
      <3> HIDE DEF new
      <3>5. /\ thread' \in [Jobs -> [at : Places, phases : 0..MaxPhases]]
            /\ thread'[j] = new
            /\ \A k \in Jobs : k # j => thread'[k] = thread[k]
        BY <1>0, <3>2, <3>3 DEF JobsOK
      <3>6. /\ memory' = [memory EXCEPT ![j] = "running"]
            /\ UNCHANGED <<url, flight, finished, file, queue, serving, deaths>>
        BY <2>3 DEF Event
      <3>7. JobsOK' BY <1>0, <3>5, <3>6 DEF JobsOK
      <3>8. memory'[j] \in ActiveStatus /\ \A k \in Jobs : k # j => memory'[k] = memory[k]
        BY <1>0, <3>6 DEF JobsOK, ActiveStatus
      <3> QED BY <3>1, <3>4, <3>5, <3>6, <3>7, <3>8, SamePlace DEF Owing
    <2>4. CASE RecordEvent(j)
      <3>1. /\ thread' \in [Jobs -> [at : Places, phases : 0..MaxPhases]]
            /\ thread[j].at = "reporting" /\ thread'[j].at = "working"
            /\ \A k \in Jobs : k # j => thread'[k] = thread[k]
        BY <1>0, <2>4, MovesType DEF RecordEvent, Places
      <3>2. file' \in [Jobs -> File]
        BY <1>0, <2>4, RecordedType DEF RecordEvent, Lines
      <3>3. UNCHANGED <<memory, url, flight, finished, queue, serving, deaths>>
        BY <2>4 DEF RecordEvent
      <3>4. JobsOK' BY <1>0, <3>1, <3>2, <3>3 DEF JobsOK
      <3> QED BY <3>1, <3>3, <3>4, SamePlace DEF Owing
    <2>5. CASE \E outcome \in {"done", "failed"} : Settle(j, outcome)
      BY <2>5, SettleKeeps
    <2>6. CASE RecordOutcome(j)
      <3>1. PICK outcome \in {<<"done", "result">>, <<"failed", "error">>} :
              /\ Moves(j, outcome[1], "recorded")
              /\ \E f \in Written(file[j], outcome[2]) : file' = [file EXCEPT ![j] = f]
        BY <2>6 DEF RecordOutcome
      <3>2. outcome[1] \in {"done", "failed"} /\ outcome[2] \in Lines
        BY DEF Lines
      <3>3. /\ thread' \in [Jobs -> [at : Places, phases : 0..MaxPhases]]
            /\ thread[j].at \in {"done", "failed"} /\ thread'[j].at = "recorded"
            /\ \A k \in Jobs : k # j => thread'[k] = thread[k]
        BY <1>0, <3>1, <3>2, MovesType DEF Places
      <3>4. file' \in [Jobs -> File]
        BY <1>0, <3>1, <3>2, RecordedType
      <3>5. UNCHANGED <<memory, url, flight, finished, queue, serving, deaths>>
        BY <2>6 DEF RecordOutcome
      <3>6. JobsOK' BY <1>0, <3>3, <3>4, <3>5 DEF JobsOK
      <3> QED BY <3>3, <3>5, <3>6, SamePlace DEF Owing
    <2>7. CASE Evict(j)
      BY <2>7, EvictKeeps
    <2> QED BY <1>2, <2>1, <2>2, <2>3, <2>4, <2>5, <2>6, <2>7 DEF Work
  <1>3. CASE ServerDies
    <2>1. /\ thread' = [j \in Jobs |-> IF thread[j].at = "none" THEN thread[j]
                                     ELSE [thread[j] EXCEPT !.at = "gone"]]
          /\ memory' = [j \in Jobs |-> "absent"]
          /\ flight' = [u \in Urls |-> NoJob]
          /\ finished' = << >> /\ queue' = << >>
          /\ deaths' = deaths + 1 /\ deaths < MaxDeaths
          /\ serving' = FALSE /\ UNCHANGED url
      BY <1>3 DEF ServerDies
    <2>2. \A j \in Jobs : /\ [thread[j] EXCEPT !.at = "gone"] \in [at : Places, phases : 0..MaxPhases]
                          /\ [thread[j] EXCEPT !.at = "gone"].at = "gone"
      BY <1>0 DEF JobsOK, Places
    <2>3. /\ thread' \in [Jobs -> [at : Places, phases : 0..MaxPhases]]
          /\ \A j \in Jobs : /\ thread'[j].at \in {"none", "gone"}
                             /\ thread'[j].at = "none" <=> thread[j].at = "none"
      BY <1>0, <2>1, <2>2 DEF JobsOK
    <2>4. file' \in [Jobs -> File]
      <3>1. PICK cut \in SUBSET Writing :
              file' = [j \in Jobs |-> IF j \in cut THEN Part(file[j]) ELSE file[j]]
        BY <1>3 DEF ServerDies
      <3>2. \A j \in Jobs : file[j] \in File /\ Part(file[j]) \in File
        <4>1. "event" \in Lines BY DEF Lines
        <4> QED BY <1>0, <4>1, WrittenType DEF JobsOK
      <3> QED BY <3>1, <3>2
    <2>5. deaths' \in 0..MaxDeaths
      BY <1>0, <2>1, JobsAssumption DEF JobsOK
    <2>6. JobsOK'
      <3>1. finished' \in Seq(Jobs) /\ queue' \in Seq(Jobs) BY <2>1
      <3>2. memory' \in [Jobs -> {"absent", "queued", "running", "done", "failed"}]
        BY <2>1
      <3>3. flight' \in [Urls -> Jobs \cup {NoJob}] BY <2>1
      <3>4. url' \in [Jobs -> Urls \cup {NoUrl}] /\ serving' \in BOOLEAN
        BY <1>0, <2>1 DEF JobsOK
      <3> QED BY <2>3, <2>4, <2>5, <3>1, <3>2, <3>3, <3>4 DEF JobsOK
    <2>7. FlightIsActive'
      BY <2>1, <2>3, JobsAssumption DEF FlightIsActive, Owing
    <2>8. HeldIsOwed' BY <2>1, <2>3 DEF HeldIsOwed, Owing, ActiveStatus
    <2>9. FinishedHaveEnded' /\ EndsOnce'
      BY <2>1 DEF FinishedHaveEnded, EndsOnce
    <2>10. NewIsUnknown'
      BY <2>1, <2>3 DEF RegistryInv, NewIsUnknown
    <2> QED BY <2>6, <2>7, <2>8, <2>9, <2>10 DEF RegistryInv
  <1>4. CASE ServerStarts \/ UNCHANGED jobVars
    <2>1. UNCHANGED <<memory, url, flight, finished, file, thread, queue, deaths>>
      BY <1>4 DEF ServerStarts, jobVars
    <2>2. serving' \in BOOLEAN BY <1>0, <1>4 DEF ServerStarts, jobVars, JobsOK
    <2>3. JobsOK' BY <1>0, <2>1, <2>2 DEF JobsOK
    <2> QED BY <2>1, <2>3 DEF RegistryInv, FlightIsActive, HeldIsOwed, FinishedHaveEnded,
          EndsOnce, NewIsUnknown
  <1> QED BY <1>1, <1>2, <1>3, <1>4 DEF JobsNext

\* The registry's invariant holds.
LEMMA RegistryHolds == JobsSpec => []RegistryInv
  BY RegistryInit, RegistryNext, PTL DEF JobsSpec

\* Every variable keeps its type.
THEOREM JobsTypes == JobsSpec => []JobsOK
  <1>1. RegistryInv => JobsOK BY DEF RegistryInv
  <1> QED BY <1>1, RegistryHolds, PTL

\* An address is in flight exactly while its job is queued or running.
THEOREM FlightHolds == JobsSpec => []FlightIsActive
  <1>1. RegistryInv => FlightIsActive BY DEF RegistryInv
  <1> QED BY <1>1, RegistryHolds, PTL

\* The pipeline never runs twice at once for one address.
THEOREM OneRunHolds == JobsSpec => []OneRunPerUrl
  <1>1. RegistryInv => OneRunPerUrl
    <2> SUFFICES ASSUME RegistryInv, NEW j \in Jobs, NEW k \in Jobs,
                        url[j] = url[k], url[j] # NoUrl,
                        thread[j].at \in Owing, thread[k].at \in Owing
                 PROVE j = k
      BY DEF OneRunPerUrl
    <2>1. url[j] \in Urls BY DEF RegistryInv, JobsOK
    <2> QED BY <2>1 DEF RegistryInv, FlightIsActive
  <1> QED BY <1>1, RegistryHolds, PTL

\* Whoever is told "queued" or "running" has a thread working for them, and
\* whoever has one is told so.
THEOREM ActiveHolds == JobsSpec => []ActiveMeansAlive
  <1>1. RegistryInv => ActiveMeansAlive
    <2> SUFFICES ASSUME RegistryInv, NEW j \in Jobs
                 PROVE Answer(j) \in ActiveStatus <=> thread[j].at \in Owing
      BY DEF ActiveMeansAlive
    <2>1. memory[j] \in ActiveStatus <=> thread[j].at \in Owing
      BY DEF RegistryInv, HeldIsOwed
    <2>2. Load(file[j].lines) \notin ActiveStatus
      BY LoadIsFinal DEF ActiveStatus
    <2> QED BY <2>1, <2>2 DEF Answer, ActiveStatus
  <1> QED BY <1>1, RegistryHolds, PTL

-----------------------------------------------------------------------------
(* The journal: what is on disk of a job, and what it makes a poller read. *)

HasOutcome(lines) == \E i \in DOMAIN lines : lines[i] \in {"result", "error"}
HasCreated(lines) == \E c \in DOMAIN lines : lines[c] = "created"

\* Of one job: no outcome is on disk before it is reported, what memory holds
\* of an ended run is its outcome, and the file says what memory says.
Journalled(j) ==
  /\ thread[j].at \notin {"recorded", "gone"} => ~HasOutcome(file[j].lines)
  /\ thread[j].at \in {"done", "failed"} => memory[j] \in {thread[j].at, "absent"}
  /\ memory[j] # "absent" /\ HasCreated(file[j].lines) /\ HasOutcome(file[j].lines)
     => Load(file[j].lines) = memory[j]

JournalInv == \A j \in Jobs : Journalled(j)

\* What one step does to one job: nothing but an eviction by another thread's
\* step; a step on the way to the outcome; the outcome; its line; the thread's
\* end; the crash.
Untouched(k) ==
  /\ thread'[k].at = thread[k].at
  /\ file'[k] = file[k]
  /\ memory'[k] \in {memory[k], "absent"}

OnItsWay(k) ==
  /\ thread[k].at \in Owing \cup {"none"}
  /\ thread'[k].at \in Owing
  /\ file'[k] \in {file[k]} \cup Written(file[k], "created") \cup Written(file[k], "event")

OutcomeDue(k) ==
  /\ thread[k].at \in Owing
  /\ thread'[k].at \in {"done", "failed"}
  /\ memory'[k] = thread'[k].at
  /\ file'[k] = file[k]

IsRecorded(k) ==
  /\ thread[k].at \in {"done", "failed"}
  /\ thread'[k].at = "recorded"
  /\ memory'[k] = memory[k]
  /\ file'[k] \in Written(file[k], IF thread[k].at = "done" THEN "result" ELSE "error")

Leaves(k) ==
  /\ thread[k].at = "recorded"
  /\ thread'[k].at = "gone"
  /\ file'[k] = file[k]
  /\ memory'[k] \in {memory[k], "absent"}

IsCutOff(k) ==
  /\ thread'[k].at = "gone"
  /\ memory'[k] = "absent"
  /\ \/ file'[k] = file[k]
     \/ thread[k].at \notin {"recorded", "gone"} /\ file'[k] = Part(file[k])

\* Those are all there are.
LEMMA StepOfAJob ==
  ASSUME JobsOK, [JobsNext]_jobVars, NEW k \in Jobs
  PROVE  Untouched(k) \/ OnItsWay(k) \/ OutcomeDue(k) \/ IsRecorded(k) \/ Leaves(k) \/ IsCutOff(k)
  <1>1. ASSUME NEW j \in Jobs, (\E u \in Urls : Post(j, u)) \/ PostClaim(j)
        PROVE  Untouched(k) \/ OnItsWay(k)
    <2>1. /\ Moves(j, "none", "posted") /\ file' = file
          /\ memory' = [memory EXCEPT ![j] = "queued"]
      BY <1>1 DEF Post, PostClaim
    <2>2. /\ thread[j].at = "none" /\ thread'[j].at = "posted"
          /\ \A i \in Jobs : i # j => thread'[i] = thread[i]
      BY <2>1, MovesType DEF Places
    <2>3. CASE k = j BY <2>1, <2>2, <2>3 DEF OnItsWay, Owing
    <2>4. CASE k # j BY <2>1, <2>2, <2>4 DEF Untouched, JobsOK
    <2> QED BY <2>3, <2>4
  <1>2. ASSUME NEW j \in Jobs, Submit(j) PROVE Untouched(k) \/ OnItsWay(k)
    <2>1. /\ thread[j].at = "posted" /\ thread'[j].at = "submitted"
          /\ \A i \in Jobs : i # j => thread'[i] = thread[i]
      BY <1>2, MovesType DEF Submit, Places
    <2>2. PICK f \in Written(file[j], "created") : file' = [file EXCEPT ![j] = f]
      BY <1>2 DEF Submit
    <2>3. file'[j] = f /\ \A i \in Jobs : i # j => file'[i] = file[i]
      BY <2>2, RecordedType DEF Lines
    <2>4. memory' = memory BY <1>2 DEF Submit
    <2> QED BY <2>1, <2>3, <2>4 DEF Untouched, OnItsWay, Owing
  <1>3. ASSUME NEW j \in Jobs, Start(j) PROVE Untouched(k) \/ OnItsWay(k)
    <2>1. /\ thread[j].at = "submitted" /\ thread'[j].at = "reporting"
          /\ \A i \in Jobs : i # j => thread'[i] = thread[i]
      BY <1>3, MovesType DEF Start, Places
    <2>2. file' = file /\ memory' = [memory EXCEPT ![j] = "running"]
      BY <1>3 DEF Start
    <2>3. k # j => memory'[k] = memory[k] BY <2>2 DEF JobsOK
    <2> QED BY <2>1, <2>2, <2>3 DEF Untouched, OnItsWay, Owing
  <1>4. ASSUME NEW j \in Jobs, Event(j) PROVE Untouched(k) \/ OnItsWay(k)
    <2>1. /\ thread[j].at = "working" /\ file' = file
          /\ memory' = [memory EXCEPT ![j] = "running"]
          /\ thread' = [thread EXCEPT ![j] = [at |-> "reporting", phases |-> @.phases + 1]]
      BY <1>4 DEF Event
    <2>2. CASE k = j
      <3>1. thread'[j].at = "reporting" BY <2>1 DEF JobsOK
      <3> QED BY <2>1, <2>2, <3>1 DEF OnItsWay, Owing
    <2>3. CASE k # j BY <2>1, <2>3 DEF Untouched, JobsOK
    <2> QED BY <2>2, <2>3
  <1>5. ASSUME NEW j \in Jobs, RecordEvent(j) PROVE Untouched(k) \/ OnItsWay(k)
    <2>1. /\ thread[j].at = "reporting" /\ thread'[j].at = "working"
          /\ \A i \in Jobs : i # j => thread'[i] = thread[i]
      BY <1>5, MovesType DEF RecordEvent, Places
    <2>2. PICK f \in Written(file[j], "event") : file' = [file EXCEPT ![j] = f]
      BY <1>5 DEF RecordEvent
    <2>3. file'[j] = f /\ \A i \in Jobs : i # j => file'[i] = file[i]
      BY <2>2, RecordedType DEF Lines
    <2>4. memory' = memory BY <1>5 DEF RecordEvent
    <2> QED BY <2>1, <2>3, <2>4 DEF Untouched, OnItsWay, Owing
  <1>6. ASSUME NEW j \in Jobs, NEW outcome \in {"done", "failed"}, Settle(j, outcome)
        PROVE  Untouched(k) \/ OutcomeDue(k)
    <2>1. /\ thread[j].at = "working" /\ thread'[j].at = outcome
          /\ \A i \in Jobs : i # j => thread'[i] = thread[i]
      BY <1>6, MovesType DEF Settle, Places
    <2>2. file' = file /\ memory' = [memory EXCEPT ![j] = outcome]
      BY <1>6 DEF Settle
    <2>3. memory'[j] = outcome /\ (k # j => memory'[k] = memory[k])
      BY <2>2 DEF JobsOK
    <2> QED BY <2>1, <2>2, <2>3 DEF Untouched, OutcomeDue, Owing
  <1>7. ASSUME NEW j \in Jobs, RecordOutcome(j) PROVE Untouched(k) \/ IsRecorded(k)
    <2>1. PICK outcome \in {<<"done", "result">>, <<"failed", "error">>} :
            /\ Moves(j, outcome[1], "recorded")
            /\ \E f \in Written(file[j], outcome[2]) : file' = [file EXCEPT ![j] = f]
      BY <1>7 DEF RecordOutcome
    <2>2. /\ outcome[1] \in {"done", "failed"} /\ outcome[2] \in Lines
          /\ outcome[2] = IF outcome[1] = "done" THEN "result" ELSE "error"
      BY DEF Lines
    <2>3. /\ thread[j].at = outcome[1] /\ thread'[j].at = "recorded"
          /\ \A i \in Jobs : i # j => thread'[i] = thread[i]
      BY <2>1, MovesType DEF Places
    <2>4. PICK f \in Written(file[j], outcome[2]) : file' = [file EXCEPT ![j] = f]
      BY <2>1
    <2>5. file'[j] = f /\ \A i \in Jobs : i # j => file'[i] = file[i]
      BY <2>2, <2>4, RecordedType
    <2>6. memory' = memory BY <1>7 DEF RecordOutcome
    <2> QED BY <2>2, <2>3, <2>4, <2>5, <2>6 DEF Untouched, IsRecorded
  <1>8. ASSUME NEW j \in Jobs, Evict(j) PROVE Untouched(k) \/ Leaves(k)
    <2>1. /\ thread[j].at = "recorded" /\ thread'[j].at = "gone"
          /\ \A i \in Jobs : i # j => thread'[i] = thread[i]
      BY <1>8, MovesType DEF Evict, Places
    <2>2. file' = file /\ memory'[k] \in {memory[k], "absent"}
      BY <1>8 DEF Evict
    <2> QED BY <2>1, <2>2 DEF Untouched, Leaves
  <1>9. ASSUME ServerDies PROVE Untouched(k) \/ IsCutOff(k)
    <2>1. /\ thread' = [j \in Jobs |-> IF thread[j].at = "none" THEN thread[j]
                                     ELSE [thread[j] EXCEPT !.at = "gone"]]
          /\ memory' = [j \in Jobs |-> "absent"]
      BY <1>9 DEF ServerDies
    <2>2. PICK cut \in SUBSET Writing :
            file' = [j \in Jobs |-> IF j \in cut THEN Part(file[j]) ELSE file[j]]
      BY <1>9 DEF ServerDies
    <2>3. /\ file'[k] = IF k \in cut THEN Part(file[k]) ELSE file[k]
          /\ memory'[k] = "absent"
      BY <2>1, <2>2
    <2>4. k \in cut => thread[k].at \in {"posted", "reporting", "done", "failed"}
      BY DEF Writing
    <2>5. CASE thread[k].at = "none"
      BY <2>1, <2>3, <2>4, <2>5 DEF Untouched
    <2>6. CASE thread[k].at # "none"
      <3>1. thread'[k].at = "gone" BY <2>1, <2>6 DEF JobsOK
      <3> QED BY <2>3, <2>4, <3>1 DEF IsCutOff
    <2> QED BY <2>5, <2>6
  <1>10. CASE ServerStarts \/ UNCHANGED jobVars
    BY <1>10 DEF ServerStarts, jobVars, Untouched
  <1> QED BY <1>1, <1>2, <1>3, <1>4, <1>5, <1>6, <1>7, <1>8, <1>9, <1>10 DEF JobsNext, Work

\* A line is appended whole, torn, or not at all.
LEMMA LinesWritten ==
  ASSUME NEW f \in File, NEW line \in Lines, NEW g \in Written(f, line) \cup {f, Part(f)}
  PROVE  \/ g.lines = f.lines
         \/ g.lines = Append(f.lines, "torn")
         \/ g \in Written(f, line) /\ g.lines = Append(f.lines, line)
  <1>1. f.lines \in Seq(Lines) /\ f.open \in BOOLEAN BY DEF File
  <1>2. Whole(f, line).lines \in {f.lines, Append(f.lines, line)}
    BY <1>1 DEF Whole, File
  <1>3. Part(f).lines \in {f.lines, Append(f.lines, "torn")}
    BY <1>1 DEF Part
  <1>4. g = f \/ g = Part(f) \/ (g = Whole(f, line) /\ g \in Written(f, line))
    BY DEF Written
  <1> QED BY <1>2, <1>3, <1>4

\* An outcome appears on disk only as a line that is one.
LEMMA OutcomeAppended ==
  ASSUME NEW lines \in Seq(Lines), NEW line \in Lines, ~HasOutcome(lines),
         HasOutcome(Append(lines, line))
  PROVE  line \in {"result", "error"}
  BY DEF HasOutcome

\* The outcome's line is what a later load answers.
LEMMA LoadOutcome ==
  ASSUME NEW lines \in Seq(Lines), NEW line \in {"result", "error"}, ~HasOutcome(lines),
         HasCreated(Append(lines, line))
  PROVE  Load(Append(lines, line)) = IF line = "result" THEN "done" ELSE "failed"
  <1> DEFINE all == Append(lines, line)
  <1>1. /\ all \in Seq(Lines) /\ Len(all) = Len(lines) + 1
        /\ DOMAIN all = 1..(Len(lines) + 1)
        /\ all[Len(lines) + 1] = line
        /\ \A i \in 1..Len(lines) : all[i] = lines[i] /\ i \in DOMAIN lines
    BY DEF Lines
  <1> HIDE DEF all
  <1>2. PICK c \in DOMAIN all : all[c] = "created" BY DEF HasCreated, all
  <1>3. c < Len(lines) + 1 BY <1>1, <1>2
  <1>4. \A i \in 1..Len(lines) : all[i] \notin {"result", "error"}
    BY <1>1 DEF HasOutcome
  <1>5. CASE line = "result"
    <2>1. /\ Len(lines) + 1 \in DOMAIN all
          /\ \A k \in DOMAIN all : ~(k > Len(lines) + 1)
      BY <1>1
    <2>2. \E d, i \in DOMAIN all :
            /\ d < i
            /\ all[d] = "created" /\ all[i] = "result"
            /\ \A k \in DOMAIN all : k > i => all[k] = "torn"
      BY <1>1, <1>2, <1>3, <1>5, <2>1
    <2> QED BY <1>2, <1>5, <2>2 DEF Load, all
  <1>6. CASE line = "error"
    <2>1. \A i \in DOMAIN all : all[i] # "result"
      BY <1>1, <1>4, <1>6
    <2> QED BY <1>2, <1>6, <2>1 DEF Load, all
  <1> QED BY <1>5, <1>6

\* The journal is empty at first.
LEMMA JournalInit == JobsInit => JournalInv
  BY DEF JobsInit, JournalInv, Journalled, HasOutcome, NoFile

\* Every step keeps what the journal says of a job.
LEMMA JournalNext == JobsOK /\ JournalInv /\ [JobsNext]_jobVars => JournalInv'
  <1> SUFFICES ASSUME JobsOK, JournalInv, [JobsNext]_jobVars, NEW k \in Jobs
               PROVE  Journalled(k)'
    BY DEF JournalInv
  <1>0. Journalled(k) BY DEF JournalInv
  <1>1. file[k] \in File /\ file[k].lines \in Seq(Lines) BY DEF JobsOK, File
  <1>2. CASE Untouched(k)
    BY <1>0, <1>2 DEF Untouched, Journalled
  <1>3. CASE OnItsWay(k)
    <2>1. ~HasOutcome(file[k].lines) BY <1>0, <1>3 DEF OnItsWay, Owing, Journalled
    <2>2. \E line \in {"created", "event"} : file'[k] \in Written(file[k], line) \cup {file[k], Part(file[k])}
      BY <1>3 DEF OnItsWay
    <2>3. PICK line \in {"created", "event", "torn"} :
            file'[k].lines = file[k].lines \/ file'[k].lines = Append(file[k].lines, line)
      BY <1>1, <2>2, LinesWritten DEF Lines
    <2>4. ~HasOutcome(file'[k].lines)
      BY <1>1, <2>1, <2>3, OutcomeAppended DEF Lines
    <2> QED BY <1>3, <2>4 DEF OnItsWay, Owing, Journalled
  <1>4. CASE OutcomeDue(k)
    <2>1. ~HasOutcome(file[k].lines) BY <1>0, <1>4 DEF OutcomeDue, Owing, Journalled
    <2> QED BY <1>4, <2>1 DEF OutcomeDue, Journalled
  <1>5. CASE IsRecorded(k)
    <2> DEFINE line == IF thread[k].at = "done" THEN "result" ELSE "error"
    <2>1. ~HasOutcome(file[k].lines) /\ memory[k] \in {thread[k].at, "absent"}
      BY <1>0, <1>5 DEF IsRecorded, Journalled
    <2>2. \/ file'[k].lines = file[k].lines
          \/ file'[k].lines = Append(file[k].lines, "torn")
          \/ file'[k].lines = Append(file[k].lines, line)
      BY <1>1, <1>5, LinesWritten DEF IsRecorded, Lines
    <2>3. ~HasOutcome(Append(file[k].lines, "torn"))
      BY <1>1, <2>1, OutcomeAppended DEF Lines
    <2>4. ASSUME memory[k] # "absent", HasCreated(file'[k].lines), HasOutcome(file'[k].lines)
          PROVE  Load(file'[k].lines) = memory[k]
      <3>1. file'[k].lines = Append(file[k].lines, line)
        BY <2>1, <2>2, <2>3, <2>4
      <3>2. Load(file'[k].lines) = IF line = "result" THEN "done" ELSE "failed"
        BY <1>1, <2>1, <2>4, <3>1, LoadOutcome
      <3> QED BY <1>5, <2>1, <2>4, <3>2 DEF IsRecorded
    <2> QED BY <1>5, <2>4 DEF IsRecorded, Journalled
  <1>6. CASE Leaves(k)
    BY <1>0, <1>6 DEF Leaves, Journalled
  <1>7. CASE IsCutOff(k)
    BY <1>7 DEF IsCutOff, Journalled
  <1> QED BY <1>2, <1>3, <1>4, <1>5, <1>6, <1>7, StepOfAJob

\* What the journal says of a job agrees with what memory says.
LEMMA JournalHolds == JobsSpec => []JournalInv
  <1>1. RegistryInv => JobsOK BY DEF RegistryInv
  <1> QED BY <1>1, JournalInit, JournalNext, RegistryHolds, PTL DEF JobsSpec

\* An outcome that is on disk is every later poll's answer: through an
\* eviction, lines torn by other writes, a crash and a restart.
THEOREM OutcomeHolds == JobsSpec => OutcomeStands
  <1>1. RegistryInv /\ JournalInv /\ [JobsNext]_jobVars =>
          [\A j \in Jobs :
             LET lines == file[j].lines
             IN (/\ \E c \in DOMAIN lines : lines[c] = "created"
                 /\ \E i \in DOMAIN lines : lines[i] \in {"result", "error"})
                => Answer(j)' = Answer(j)]_jobVars
    <2> SUFFICES ASSUME RegistryInv, JournalInv, [JobsNext]_jobVars, NEW j \in Jobs,
                        HasCreated(file[j].lines), HasOutcome(file[j].lines)
                 PROVE  Answer(j)' = Answer(j)
      BY DEF HasCreated, HasOutcome
    <2>0. JobsOK /\ Journalled(j) BY DEF RegistryInv, JournalInv
    <2>1. thread[j].at \in {"recorded", "gone"}
      BY <2>0 DEF Journalled
    <2>2. Untouched(j) \/ Leaves(j) \/ IsCutOff(j)
      BY <2>0, <2>1, StepOfAJob DEF OnItsWay, OutcomeDue, IsRecorded, Owing
    <2>3. file'[j] = file[j] /\ memory'[j] \in {memory[j], "absent"}
      BY <2>1, <2>2 DEF Untouched, Leaves, IsCutOff
    <2> QED BY <2>0, <2>3 DEF Answer, Journalled
  <1> QED BY <1>1, RegistryHolds, JournalHolds, PTL DEF JobsSpec, OutcomeStands

\* A run seen ended, evicted or cut off is never seen alive again.
THEOREM NeverAliveHolds == JobsSpec => NeverAliveAgain
  <1>1. RegistryInv /\ RegistryInv' /\ [JobsNext]_jobVars =>
          [\A j \in Jobs :
             (thread[j].at # "none" /\ Answer(j) \notin ActiveStatus)
             => Answer(j)' \notin ActiveStatus]_jobVars
    <2> SUFFICES ASSUME RegistryInv, RegistryInv', [JobsNext]_jobVars, NEW j \in Jobs,
                        thread[j].at # "none", Answer(j) \notin ActiveStatus
                 PROVE  Answer(j)' \notin ActiveStatus
      OBVIOUS
    <2>1. thread[j].at \notin Owing
      BY DEF RegistryInv, HeldIsOwed, Answer, ActiveStatus
    <2>2. thread'[j].at \notin Owing
      BY <2>1, StepOfAJob
         DEF RegistryInv, Untouched, OnItsWay, OutcomeDue, IsRecorded, Leaves, IsCutOff, Owing
    <2>3. memory'[j] \notin ActiveStatus
      BY <2>2 DEF RegistryInv, HeldIsOwed
    <2>4. Load(file'[j].lines) \notin ActiveStatus
      BY LoadIsFinal DEF ActiveStatus
    <2> QED BY <2>3, <2>4 DEF Answer
  <1> QED BY <1>1, RegistryHolds, PTL DEF JobsSpec, NeverAliveAgain

-----------------------------------------------------------------------------
(* How many finished jobs memory holds. *)

\* Those between their outcome and their eviction.
Leaving == {j \in Jobs : thread[j].at \in {"done", "failed", "recorded"}}

\* A step adds a finished job only with the thread that will evict, and a
\* thread stops being one only by evicting, or with the whole process.
LEMMA BoundNext == JobsOK /\ JobsOK' /\ MemoryIsBounded /\ [JobsNext]_jobVars => MemoryIsBounded'
  <1> SUFFICES ASSUME JobsOK, JobsOK', MemoryIsBounded, [JobsNext]_jobVars
               PROVE  MemoryIsBounded'
    OBVIOUS
  <1>0. /\ IsFiniteSet(Leaving) /\ IsFiniteSet(Leaving')
        /\ Cardinality(Leaving) \in Nat /\ Cardinality(Leaving') \in Nat
    <2>1. Leaving \subseteq Jobs /\ Leaving' \subseteq Jobs BY DEF Leaving
    <2> QED BY <2>1, JobsAssumption, FS_Subset, FS_CardinalityType
  <1>1. Len(finished) <= KeepFinished + Cardinality(Leaving)
    BY DEF MemoryIsBounded, Leaving
  <1>2. SUFFICES Len(finished') <= KeepFinished + Cardinality(Leaving')
    BY DEF MemoryIsBounded, Leaving
  <1>3. /\ Len(finished) \in Nat /\ Len(finished') \in Nat /\ KeepFinished \in Nat
        /\ finished \in Seq(Jobs)
    BY JobsAssumption DEF JobsOK
  <1>4. ASSUME UNCHANGED finished, Leaving \subseteq Leaving'
        PROVE  Len(finished') <= KeepFinished + Cardinality(Leaving')
    <2>1. Cardinality(Leaving) <= Cardinality(Leaving')
      BY <1>0, <1>4, FS_Subset
    <2> QED BY <1>0, <1>1, <1>3, <1>4, <2>1
  <1>5. ASSUME NEW j \in Jobs, NEW outcome \in {"done", "failed"}, Settle(j, outcome)
        PROVE  Len(finished') <= KeepFinished + Cardinality(Leaving')
    <2>1. /\ thread[j].at = "working" /\ thread'[j].at = outcome
          /\ \A i \in Jobs : i # j => thread'[i] = thread[i]
      BY <1>5, MovesType DEF Settle, Places
    <2>2. Leaving' = Leaving \cup {j} /\ j \notin Leaving
      BY <2>1 DEF Leaving
    <2>3. Cardinality(Leaving') = Cardinality(Leaving) + 1
      BY <1>0, <2>2, FS_AddElement
    <2>4. Len(finished') = Len(finished) + 1
      BY <1>3, <1>5 DEF Settle
    <2> QED BY <1>0, <1>1, <1>3, <2>3, <2>4
  <1>6. ASSUME NEW j \in Jobs, Evict(j)
        PROVE  Len(finished') <= KeepFinished + Cardinality(Leaving')
    <2> DEFINE excess == Len(finished) - KeepFinished
    <2>1. finished' = IF excess > 0 THEN SubSeq(finished, excess + 1, Len(finished)) ELSE finished
      BY <1>6 DEF Evict
    <2>2. CASE excess > 0
      <3>1. finished' = SubSeq(finished, excess + 1, Len(finished)) BY <2>1, <2>2
      <3>2. Len(finished') = Len(finished) - excess
        BY <1>3, <2>2, <3>1
      <3> QED BY <1>0, <1>3, <3>2
    <2>3. CASE ~(excess > 0)
      BY <1>0, <1>3, <2>1, <2>3
    <2> QED BY <2>2, <2>3
  <1>7. ASSUME ServerDies PROVE Len(finished') <= KeepFinished + Cardinality(Leaving')
    <2>1. finished' = << >> BY <1>7 DEF ServerDies
    <2>2. Len(finished') = 0 BY <2>1
    <2> QED BY <1>0, <1>3, <2>2
  <1>8. ASSUME NEW j \in Jobs, (\E u \in Urls : Post(j, u)) \/ PostClaim(j)
        PROVE  UNCHANGED finished /\ Leaving \subseteq Leaving'
    <2>1. Moves(j, "none", "posted") /\ finished' = finished
      BY <1>8 DEF Post, PostClaim
    <2>2. /\ thread[j].at = "none" /\ \A i \in Jobs : i # j => thread'[i] = thread[i]
      BY <2>1, MovesType DEF Places
    <2> QED BY <2>1, <2>2 DEF Leaving
  <1>9. ASSUME NEW j \in Jobs, Submit(j) \/ Start(j) \/ RecordEvent(j)
        PROVE  UNCHANGED finished /\ Leaving \subseteq Leaving'
    <2>1. /\ finished' = finished
          /\ \E from \in {"posted", "submitted", "reporting"}, to \in Owing : Moves(j, from, to)
      BY <1>9 DEF Submit, Start, RecordEvent, Owing
    <2>2. /\ thread[j].at \in {"posted", "submitted", "reporting"}
          /\ \A i \in Jobs : i # j => thread'[i] = thread[i]
      BY <2>1, MovesType DEF Owing, Places
    <2> QED BY <2>1, <2>2 DEF Leaving
  <1>10. ASSUME NEW j \in Jobs, Event(j)
         PROVE  UNCHANGED finished /\ Leaving \subseteq Leaving'
    <2>1. /\ thread[j].at = "working" /\ finished' = finished
          /\ \A i \in Jobs : i # j => thread'[i] = thread[i]
      BY <1>10 DEF Event, JobsOK
    <2> QED BY <2>1 DEF Leaving
  <1>11. ASSUME NEW j \in Jobs, RecordOutcome(j)
         PROVE  UNCHANGED finished /\ Leaving \subseteq Leaving'
    <2>1. /\ finished' = finished
          /\ \E from \in {"done", "failed"} : Moves(j, from, "recorded")
      BY <1>11 DEF RecordOutcome
    <2>2. /\ thread'[j].at = "recorded"
          /\ \A i \in Jobs : i # j => thread'[i] = thread[i]
      BY <2>1, MovesType DEF Places
    <2> QED BY <2>1, <2>2 DEF Leaving
  <1>12. ASSUME ServerStarts \/ UNCHANGED jobVars
         PROVE  UNCHANGED finished /\ Leaving \subseteq Leaving'
    BY <1>12 DEF ServerStarts, jobVars, Leaving
  <1> QED BY <1>4, <1>5, <1>6, <1>7, <1>8, <1>9, <1>10, <1>11, <1>12 DEF JobsNext, Work

\* Finished jobs in memory stay within the cap, and one for each thread that
\* has yet to evict, however many jobs are posted.
THEOREM BoundHolds == JobsSpec => []MemoryIsBounded
  <1>1. JobsInit => MemoryIsBounded
    <2> SUFFICES ASSUME JobsInit PROVE MemoryIsBounded
      OBVIOUS
    <2>1. Leaving \subseteq Jobs BY DEF Leaving
    <2>2. Cardinality(Leaving) \in Nat
      BY <2>1, JobsAssumption, FS_Subset, FS_CardinalityType
    <2>3. Len(finished) = 0 BY DEF JobsInit
    <2> QED BY <2>2, <2>3, JobsAssumption DEF MemoryIsBounded, Leaving
  <1> QED BY <1>1, BoundNext, JobsTypes, PTL DEF JobsSpec
=============================================================================
