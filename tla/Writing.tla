------------------------------- MODULE Writing -------------------------------
(***************************************************************************)
(* What a draft says and what it rests on (services/writer/,                *)
(* services/corrector/, services/trends/angles.py, publishing/story.py):    *)
(* the material is gathered and numbered, the model writes from it, the     *)
(* reviewer scores the text and proposes a correction, rewrites follow, a   *)
(* person edits and restores, and the public page says who wrote it.        *)
(* Who may do what while a step runs is Drafts' subject: here one step runs *)
(* at a time.                                                               *)
(*                                                                          *)
(* A sentence is the terms it shares with a source or another sentence and  *)
(* the numbers it cites; wording is left out.                               *)
(***************************************************************************)
EXTENDS Integers, Sequences, FiniteSets, SequencesExt

CONSTANTS
  Terms,          \* content stems
  Figures,        \* those that are runs of digits: what states a fact
  Grave,          \* the stem that says a story concerns suicide
  Urls,           \* web addresses
  PageOf,         \* the page an address names: two spellings may name one
  Outlet,         \* the domain of each address
  TextOf,         \* the terms of each page's text
  Own,            \* the analysed article
  Lead,           \* the terms of its stored lead
  Checked,        \* its claims: what they say and the sources they rest on
  CorpusHits, WebHits,   \* what the two searches may find
  RelatedMax, EvidenceMax, Room,  \* sources at most, and how many a prompt may hold
  Proposed,       \* angles the model may propose, and how their checks end
  AngleMax, AngleDomains,
  Editions,       \* the publications a draft may be for
  StoryIsGrave, LineIsGrave,  \* what the headline and topic say; what the line says
  Drafted, Redrafted, Proposals, Typed,  \* bodies the models and a person may write
  Edits,          \* lists of changes the copy editor may answer with
  CorrectionModes,  \* how it is asked: the article again, or the changes to it
  Tenth,          \* the units of a tenth of a point, in which scores and targets are counted
  Scores, Target, \* what the reviewer may answer, and what is expected of each metric
  MaxRounds,
  MaxRevisions, MaxFailures  \* bounds

Sentence == [terms : SUBSET Terms, cites : SUBSET Nat]

\* `rendered` and `bare` count the safe-messaging line, in italics and without.
Body == [said : SUBSET Sentence, rendered : Nat, bare : Nat]

Models == {"writer", "reviewer"}
Metrics == {"factConsistency", "hallucinationIndex"}

\* A score of 100.
Full == 1000 * Tenth

Source == [url : Urls, origin : {"analysed", "related", "angle", "evidence"}, text : SUBSET Terms]

ASSUME WritingAssumption ==
  /\ IsFiniteSet(Terms) /\ Figures \subseteq Terms /\ Grave \in Terms
  /\ IsFiniteSet(Urls) /\ Own \in Urls
  /\ DOMAIN PageOf = Urls /\ DOMAIN Outlet = Urls /\ TextOf \in [Urls -> SUBSET Terms]
  /\ Lead \subseteq Terms
  /\ CorpusHits \subseteq Urls /\ WebHits \subseteq Urls
  /\ RelatedMax \in Nat /\ EvidenceMax \in Nat /\ Room \subseteq Nat \ {0}
  /\ AngleMax \in Nat /\ AngleDomains \in Nat
  /\ Checked \in Seq([says : SUBSET Terms, cited : Seq(Urls)])
  /\ \A angle \in Proposed : angle.supported \subseteq Urls
  /\ Editions \subseteq {"positive", "devastating"}
  /\ {StoryIsGrave, LineIsGrave} \subseteq BOOLEAN
  /\ CorrectionModes \subseteq {"rewrite", "edits"}
  /\ Edits \subseteq SUBSET [find : Sentence, replace : Sentence]
  /\ \A changes \in Edits : /\ IsFiniteSet(changes)
                            /\ \A e \in changes : IsFiniteSet(e.replace.cites)
  /\ Drafted \cup Redrafted \cup Proposals \cup Typed \subseteq Body
  /\ \A body \in Drafted \cup Redrafted \cup Proposals \cup Typed :
       IsFiniteSet(body.said) /\ \A s \in body.said : IsFiniteSet(s.cites)
  /\ Tenth \in Nat \ {0} /\ Target \in [Metrics -> 0..Full] /\ Scores \subseteq 0..Full
  /\ MaxRounds \in Nat \ {0} /\ MaxRevisions \in Nat /\ MaxFailures \in Nat

VARIABLES
  draft,     \* the saved draft
  step,      \* the step that runs on it
  failures,  \* what has gone wrong so far
  credit     \* beside the code: who had a hand in each revision's text

vars == <<draft, step, failures, credit>>

-----------------------------------------------------------------------------
(* The material. *)

NoBody == [said |-> {}, rendered |-> 0, bare |-> 0]

NoReview == [metrics |-> [m \in Metrics |-> -1], asked |-> FALSE, corrected |-> NoBody]

NewDraft(edition) == [edition |-> edition, sources |-> << >>, angles |-> {},
                      content |-> NoBody, review |-> NoReview,
                    revisions |-> << >>, error |-> FALSE]

Shortlistable(hits) == {url \in hits : PageOf[url] # PageOf[Own] /\ Outlet[url] # Outlet[Own]}

FromPage(url, origin) == [url |-> url, origin |-> origin, text |-> TextOf[url]]

\* A route that fails finds nothing, and a note says so.
Corpus == SUBSET CorpusHits
Web == SUBSET WebHits

\* Relevance, a rating and the date decide; any order stands for them.
Ordered(found) == SetToSeqs(found)

\* One page of a domain, of those that can be read, are recent enough and fit.
RelatedNews(corpus, web) ==
  {found \in UNION {Ordered(read) : read \in SUBSET Shortlistable(corpus \cup web)} :
     /\ Len(found) <= RelatedMax
     /\ \A i, j \in DOMAIN found : Outlet[found[i]] = Outlet[found[j]] => i = j}

Supporting(angle) == {url \in angle.supported : Outlet[url] # Outlet[Own]}

\* Fault: the domains are counted before the article's own outlet is left out.
KeptCountingOwn(angle) ==
  angle.check = "TRUE" /\ Cardinality({Outlet[url] : url \in angle.supported}) >= AngleDomains

\* An angle stands when its claim was found TRUE by outlets other than the article's.
Kept(angle) ==
  angle.check = "TRUE" /\ Cardinality({Outlet[url] : url \in Supporting(angle)}) >= AngleDomains

\* The screen cannot be asked, or reads a disaster, a conflict, a crime or an obituary.
ScreenRefuses(screen) == screen \in {"down", "refused"}

\* Looked for only for a trend's article, in the positive edition.
Angles(edition, trending, screen) ==
  IF ~trending \/ edition # "positive" \/ ScreenRefuses(screen)
  THEN {{}} ELSE {some \in SUBSET Proposed : Cardinality(some) <= AngleMax}

AngleSources(angles) ==
  SetToSeq({FromPage(url, "angle") : url \in UNION {Supporting(a) : a \in {b \in angles : Kept(b)}}})

\* One claim's source at a time, in turn: the first of each, then the second.
InTurn ==
  LET claims == Len(Checked)
      longest == {0} \cup {Len(Checked[i].cited) : i \in DOMAIN Checked}
      rounds == CHOOSE n \in longest : \A l \in longest : l <= n
      due[n \in 0..claims * rounds] ==
        IF n = 0 THEN << >>
        ELSE LET cited == Checked[((n - 1) % claims) + 1].cited
                 k == ((n - 1) \div claims) + 1
             IN IF k <= Len(cited) THEN Append(due[n - 1], FromPage(cited[k], "evidence"))
                ELSE due[n - 1]
  IN due[claims * rounds]

IsAmong(kept, source) == \E i \in DOMAIN kept : PageOf[kept[i].url] = PageOf[source.url]

OncePerPage(sources) ==
  LET kept[n \in 0..Len(sources)] ==
        IF n = 0 THEN << >>
        ELSE LET before == kept[n - 1]
             IN IF IsAmong(before, sources[n]) THEN before ELSE Append(before, sources[n])
  IN kept[Len(sources)]

\* The body, when its processed record can be read; else the stored lead.
ArticleText(read) == IF read THEN TextOf[Own] ELSE Lead

\* The analysed article first, then the related news, the angles' sources and the evidence.
BuildSources(text, related, angles) ==
  LET others == OncePerPage(<<[url |-> Own, origin |-> "analysed", text |-> text]>>
                            \o [i \in DOMAIN related |-> FromPage(related[i], "related")]
                            \o AngleSources(angles))
      all == OncePerPage(others \o InTurn)
  IN SubSeq(all, 1, IF Len(all) > Len(others) + EvidenceMax THEN Len(others) + EvidenceMax ELSE Len(all))

\* A prompt too long drops the last sources, never the first.
FitExcerpts(sources, room) == SubSeq(sources, 1, IF room < Len(sources) THEN room ELSE Len(sources))

-----------------------------------------------------------------------------
(* The checks that need no model. *)

CitedIn(body) == UNION {s.cites : s \in body.said}

\* Fault: a citation past the sources is left as the model wrote it.
CitationsAsWritten(body, count) == body

\* Every citation made to point at a source.
RepairCitations(body, count) ==
  [body EXCEPT !.said = {[s EXCEPT !.cites = @ \cap (1..count)] : s \in body.said}]

\* Italics have no rendering: their stars are taken off.
NormaliseMarkdown(body) == [body EXCEPT !.rendered = 0, !.bare = @ + body.rendered]

Check(body, count) == RepairCitations(NormaliseMarkdown(body), count)

ConcernsSuicide(body) == (\E s \in body.said : Grave \in s.terms) \/ (LineIsGrave /\ body.rendered + body.bare > 0)

\* The newsroom's line, unless it is there word for word.
WithSafeMessaging(body, edition, told) ==
  IF edition = "devastating" /\ (ConcernsSuicide(body) \/ told) /\ body.rendered = 0
  THEN [body EXCEPT !.rendered = 1] ELSE body

FiguresIn(body) == (UNION {s.terms : s \in body.said}) \cap Figures

Factual(s) == s.terms \cap Figures # {}

Uncited(body) == {s \in body.said : Factual(s) /\ s.cites = {}}

Dangling(body, count) == {p \in body.said \X CitedIn(body) : p[2] \in p[1].cites \ (1..count)}

Shares(s, terms, num, den) == den * Cardinality(s.terms \cap terms) >= num * Cardinality(s.terms)

\* A citation on a statement its source was not cited for, nor makes.
Repointed(original, proposed, sources) ==
  \E s \in proposed.said : \E n \in s.cites :
    /\ Cardinality(s.terms) >= 2
    /\ ~\E o \in original.said : n \in o.cites /\ Shares(s, o.terms, 1, 4)
    /\ ~(n \in DOMAIN sources /\ Shares(s, sources[n].text, 1, 2))

\* Cut short, or padded; a body too short to compare passes.
LengthProblem(original, proposed) ==
  LET before == Cardinality(original.said)
      after == Cardinality(proposed.said)
  IN before > 1 /\ (2 * after < before \/ 5 * after > 9 * before)

FigureProblem(original, proposed, known) == ~(FiguresIn(proposed) \subseteq FiguresIn(original) \cup known)

SourceFigures(sources) ==
  ((UNION {sources[i].text : i \in DOMAIN sources}) \cup UNION {Checked[i].says : i \in DOMAIN Checked}) \cap Figures

-----------------------------------------------------------------------------
(* The review. *)

\* A ceiling to the nearest tenth of a point, in tenths. A tie goes up or down, as the
\* binary fraction nearest to it is above or below.
Rounded(ceiling, up) ==
  (2 * ceiling.num + (IF up THEN ceiling.den ELSE ceiling.den - 1)) \div (2 * ceiling.den)

\* Fault: the model's score stands whatever the checks found.
UnboundScore(score, ceiling, up) == score

\* A score above the ceiling becomes the ceiling, rounded; what was not scored stays so.
Bind(score, ceiling, up) ==
  IF score = -1 \/ score * ceiling.den <= Tenth * ceiling.num THEN score
  ELSE IF ceiling.num < 0 THEN 0 ELSE Tenth * Rounded(ceiling, up)

\* What each score may be at most, in tenths: a citation of no source costs 20 points, and
\* a text is as well supported as the share of its factual sentences that cite one.
Ceilings(body, count) ==
  LET factual == {s \in body.said : Factual(s)}
  IN [factConsistency    |-> [num |-> 1000 - 200 * Cardinality(Dangling(body, count)), den |-> 1],
      hallucinationIndex |-> IF Uncited(body) = {} THEN [num |-> 1000, den |-> 1]
                             ELSE [num |-> 1000 * Cardinality(factual \ Uncited(body)),
                                   den |-> Cardinality(factual)]]

Scored(answer, body, count, up) ==
  [m \in Metrics |-> Bind(answer[m], Ceilings(body, count)[m], up)]

BelowTarget(review) == {m \in Metrics : review.metrics[m] # -1 /\ review.metrics[m] < Target[m]}

\* It drops a source the draft cites or, unless it may, cites one the draft does not.
CitationSetProblem(original, proposed, allowNew) ==
  \/ ~(CitedIn(original) \subseteq CitedIn(proposed))
  \/ ~allowNew /\ ~(CitedIn(proposed) \subseteq CitedIn(original))

\* The correction as it will be offered, or NoBody: one that cites other sources
\* than the draft, was cut short or padded, brings a figure or moves a citation is not.
ReadProposal(original, proposed) ==
  IF \/ CitationSetProblem(original, proposed, FALSE) \/ LengthProblem(original, proposed)
     \/ FigureProblem(original, proposed, {}) \/ Repointed(original, proposed, << >>)
  THEN NoBody ELSE proposed

\* An edit is applied where its passage occurs, and left out where it does not.
ApplyEdits(original, edits) ==
  [original EXCEPT !.said = {s \in @ : \A e \in edits : e.find # s}
                            \cup {e.replace : e \in {e \in edits : e.find \in original.said}}]

\* What the copy editor may answer; NoBody when the call fails or nothing changes.
Answers(original) ==
  {NoBody} \cup (IF "rewrite" \in CorrectionModes THEN Proposals ELSE {})
  \cup (IF "edits" \in CorrectionModes THEN {ApplyEdits(original, e) : e \in Edits} \ {original} ELSE {})

Offered(original, answer) == IF answer = NoBody THEN NoBody ELSE ReadProposal(original, answer)

-----------------------------------------------------------------------------
(* The rewrite, held to the writer's repairs and the proposal's rules. *)

\* Fault: a figure may come from anywhere.
RewriteReadAnyFigure(answer, d) == Check(answer, Len(d.sources))

\* The answer after the repairs, or NoBody when it breaks a rule.
RewriteRead(answer, d) ==
  LET original  == RepairCitations(d.content, Len(d.sources))
      rewritten == WithSafeMessaging(Check(answer, Len(d.sources)), d.edition, ConcernsSuicide(d.content))
  IN IF \/ CitationSetProblem(original, rewritten, TRUE)
        \/ FigureProblem(d.content, rewritten, SourceFigures(d.sources))
        \/ Repointed(original, rewritten, d.sources)
        \/ rewritten = d.content \/ rewritten.said = {}
     THEN NoBody ELSE rewritten

Revision == [content : Body, reason : {"generated", "rewritten", "corrected", "edited", "restored"},
             model : Models \cup {"person"}, review : [metrics : [Metrics -> -1..Full], asked : BOOLEAN, corrected : Body]]

\* The outgoing revision keeps the review of its text.
KeepReview(d) ==
  IF d.revisions # << >> /\ d.review # NoReview /\ d.revisions[Len(d.revisions)].review = NoReview
  THEN [d.revisions EXCEPT ![Len(d.revisions)].review = d.review] ELSE d.revisions

Revise(d, content, reason, model) ==
  [d EXCEPT !.content = content, !.review = NoReview,
            !.revisions = Append(KeepReview(d), [content |-> content, reason |-> reason, model |-> model, review |-> NoReview])]

-----------------------------------------------------------------------------
(* The public page's disclosure. *)

\* Fault: the whole history is what the text came from.
LineageOfAll(revisions) == 1..Len(revisions)

\* The revisions that wrote what a restored one put back.
Origins(revisions, i) ==
  {k \in 1..i-1 : revisions[k].reason # "restored" /\ revisions[k].content = revisions[i].content}

\* The revisions that made each text: back to the one that was generated, a restore
\* jumping to the first revision that wrote what it put back.
Made(revisions) ==
  LET back[i \in 0..Len(revisions)] ==
        IF i = 0 THEN {}
        ELSE IF revisions[i].reason = "restored" /\ Origins(revisions, i) # {}
        THEN back[CHOOSE k \in Origins(revisions, i) : \A l \in Origins(revisions, i) : k <= l]
        ELSE IF revisions[i].reason = "generated" THEN {i}
        ELSE {i} \cup back[i - 1]
  IN back

\* Those that made the current one.
Lineage(revisions) == Made(revisions)[Len(revisions)]

\* Who wrote the text, as the page tells its readers: the models and whether a person did.
Disclosure(d) == {"writer"} \cup {d.revisions[i].model : i \in Lineage(d.revisions)}

-----------------------------------------------------------------------------
(* The steps. *)

Idle == [kind |-> "none", at |-> "idle", round |-> 0, rounds |-> 0]

Init ==
  /\ \E edition \in Editions : draft = NewDraft(edition)
  /\ step = [Idle EXCEPT !.kind = "generating", !.at = "finding"]
  /\ failures = 0 /\ credit = << >>

Failing == failures < MaxFailures
CanRevise == Len(draft.revisions) < MaxRevisions

Ended(d) == draft' = d /\ step' = Idle

Credited(who) == credit' = Append(credit, IF credit = << >> THEN {who} ELSE credit[Len(credit)] \cup {who})

\* The material is found, numbered and saved before the model is asked.
Gather ==
  /\ step.at = "finding"
  /\ \E trending, bodyRead \in BOOLEAN, corpus \in Corpus, web \in Web,
        screen \in {"down", "refused", "fine"}, room \in Room :
     \E related \in RelatedNews(corpus, web), angles \in Angles(draft.edition, trending, screen) :
       draft' = [draft EXCEPT
         !.sources = FitExcerpts(BuildSources(ArticleText(bodyRead), related, angles), room),
         !.angles = angles]
  /\ step' = [step EXCEPT !.at = "writing"]
  /\ UNCHANGED <<failures, credit>>

Write ==
  /\ step.at = "writing"
  /\ \E answer \in Drafted :
       Ended(Revise(draft, WithSafeMessaging(Check(answer, Len(draft.sources)), draft.edition, StoryIsGrave), "generated", "writer"))
  /\ Credited("writer") /\ UNCHANGED failures

\* The model cannot be reached, or answers with nothing usable: no retry.
WriteFails ==
  /\ step.at = "writing" /\ Failing /\ failures' = failures + 1
  /\ Ended([draft EXCEPT !.error = TRUE]) /\ UNCHANGED credit

HasText == draft.content # NoBody

StartReview ==
  /\ step = Idle /\ HasText
  /\ step' = [Idle EXCEPT !.kind = "reviewing", !.at = "reviewing"]
  /\ draft' = [draft EXCEPT !.error = FALSE] /\ UNCHANGED <<failures, credit>>

StartRewrite ==
  /\ step = Idle /\ HasText /\ draft.review # NoReview
  /\ \E rounds \in 1..MaxRounds : step' = [kind |-> "rewriting", at |-> "rewriting", round |-> 1, rounds |-> rounds]
  /\ draft' = [draft EXCEPT !.error = FALSE] /\ UNCHANGED <<failures, credit>>

\* Fault: the correction is left to a round that will not come.
ProposesBeforeTheLast(review) == step.kind = "reviewing" \/ step.round > step.rounds \/ BelowTarget(review) = {}

\* A correction is proposed unless another round will rewrite the text.
ProposesIf(review) == step.kind = "reviewing" \/ step.round >= step.rounds \/ BelowTarget(review) = {}

AnotherRound(review) == step.kind = "rewriting" /\ step.round < step.rounds /\ BelowTarget(review) # {}

\* The model scores the text, the checks bind the scores, and the copy editor may propose.
Reviewed(answer, offer, up) ==
  LET review == [metrics |-> Scored(answer, draft.content, Len(draft.sources), up), asked |-> FALSE,
                 corrected |-> NoBody]
  IN IF ProposesIf(review)
     THEN [review EXCEPT !.asked = TRUE, !.corrected = Offered(draft.content, offer)] ELSE review

Review ==
  /\ step.at = "reviewing"
  /\ \E answer \in [Metrics -> Scores \cup {-1}], offer \in Answers(draft.content), up \in BOOLEAN :
       draft' = [draft EXCEPT !.review = Reviewed(answer, offer, up)]
  /\ step' = IF AnotherRound(draft'.review) THEN [step EXCEPT !.at = "rewriting", !.round = @ + 1] ELSE Idle
  /\ UNCHANGED <<failures, credit>>

ReviewFails ==
  /\ step.at = "reviewing" /\ Failing /\ failures' = failures + 1
  /\ Ended([draft EXCEPT !.error = TRUE]) /\ UNCHANGED credit

\* A rewrite that keeps the rules becomes the text and is reviewed; one that breaks
\* them, or cannot be had, ends the step and leaves the draft as it was.
Rewrite ==
  /\ step.at = "rewriting" /\ CanRevise
  /\ \E answer \in Redrafted, keepsLine \in BOOLEAN :
       LET line == [answer EXCEPT !.rendered = IF keepsLine THEN draft.content.rendered ELSE 0,
                                  !.bare = IF keepsLine THEN draft.content.bare ELSE 0]
           rewritten == RewriteRead(line, draft)
       IN IF rewritten = NoBody
          THEN Ended([draft EXCEPT !.error = TRUE]) /\ UNCHANGED credit
          ELSE /\ draft' = Revise(draft, rewritten, "rewritten", "writer")
               /\ step' = [step EXCEPT !.at = "reviewing"]
               /\ Credited("writer")
  /\ UNCHANGED failures

RewriteFails ==
  /\ step.at = "rewriting" /\ Failing /\ failures' = failures + 1
  /\ Ended([draft EXCEPT !.error = TRUE]) /\ UNCHANGED credit

AcceptCorrection ==
  /\ step = Idle /\ CanRevise /\ draft.review # NoReview /\ draft.review.corrected # NoBody
  /\ draft' = Revise(draft, draft.review.corrected, "corrected", "reviewer")
  /\ Credited("reviewer") /\ UNCHANGED <<step, failures>>

Edit ==
  /\ step = Idle /\ HasText /\ CanRevise
  /\ \E body \in Typed : draft' = Revise(draft, body, "edited", "person")
  /\ Credited("person") /\ UNCHANGED <<step, failures>>

\* An earlier text comes back with its review, under the model that wrote it.
Restore ==
  /\ step = Idle /\ CanRevise
  /\ \E i \in DOMAIN draft.revisions :
       LET earlier == draft.revisions[i]
           first == CHOOSE k \in DOMAIN credit : draft.revisions[k].content = earlier.content
                      /\ \A l \in 1..k-1 : draft.revisions[l].content # earlier.content
       IN /\ earlier.content # draft.content
          /\ draft' = [Revise(draft, earlier.content, "restored", earlier.model) EXCEPT !.review = earlier.review]
          /\ credit' = Append(credit, credit[first])
  /\ UNCHANGED <<step, failures>>

Next ==
  \/ Gather \/ Write \/ WriteFails
  \/ StartReview \/ Review \/ ReviewFails
  \/ StartRewrite \/ Rewrite \/ RewriteFails
  \/ AcceptCorrection \/ Edit \/ Restore

Spec == Init /\ [][Next]_vars

-----------------------------------------------------------------------------
(* What a draft may be relied on for. *)

TypeOK ==
  /\ \A i \in DOMAIN draft.sources : draft.sources[i] \in Source
  /\ draft.angles \subseteq Proposed
  /\ draft.content.said \in SUBSET Sentence
  /\ \A m \in Metrics : draft.review.metrics[m] \in -1..Full
  /\ Len(draft.revisions) <= MaxRevisions + 1 /\ Len(credit) = Len(draft.revisions)
  /\ step.kind \in {"none", "generating", "reviewing", "rewriting"}
  /\ step.rounds \in 0..MaxRounds /\ step.round \in 0..step.rounds /\ failures \in 0..MaxFailures

\* The numbers a text cites stand for what they stood for: [1] is the analysed article,
\* no page has two numbers, and a number with no source was typed by a person.
CitationsResolve ==
  LET count == Len(draft.sources)
  IN /\ \A i \in 1..count : draft.sources[i].url = Own <=> i = 1
     /\ \A i, j \in 1..count : PageOf[draft.sources[i].url] = PageOf[draft.sources[j].url] => i = j
     /\ \A n \in CitedIn(draft.content) \ (1..count) : \E i \in DOMAIN draft.revisions :
          draft.revisions[i].reason = "edited" /\ n \in CitedIn(draft.revisions[i].content)

\* No rewrite and no accepted correction brings a figure: each one in the text is in a
\* source or a fact-check, or was there when the article was first written or typed.
FiguresHaveAnOrigin ==
  FiguresIn(draft.content) \subseteq
    SourceFigures(draft.sources) \cup
    UNION {FiguresIn(draft.revisions[i].content) : i \in {k \in DOMAIN draft.revisions :
             draft.revisions[k].reason \in {"generated", "edited"}}}

\* A draft that meets the targets cites sources that exist, and cites one for what it states
\* to the share the target asks, less half a tenth of a point at most, whatever the model
\* said of it: the share is compared after it was rounded (_bind). A target of 0 is met by
\* any text, for no ceiling is lower.
MetMeansGrounded ==
  LET met(m) == draft.review.metrics[m] >= Target[m]
      factual == {s \in draft.content.said : Factual(s)}
      cited == factual \ Uncited(draft.content)
  IN /\ met("hallucinationIndex") =>
          2 * Target["hallucinationIndex"] * Cardinality(factual)
            <= Tenth * (2000 * Cardinality(cited) + Cardinality(factual))
     /\ met("factConsistency") /\ Target["factConsistency"] > 0 =>
          200 * Tenth * Cardinality(Dangling(draft.content, Len(draft.sources)))
            <= Full - Target["factConsistency"]

\* What the text says has somewhere it comes from: each number it cites, each figure
\* it states, and each score that says so.
TextIsGrounded == CitationsResolve /\ FiguresHaveAnOrigin /\ MetMeansGrounded

\* An angle is found, never invented: a source that stands behind one is from another
\* outlet than the article's, and its angle was found true by enough of them.
NoInventedBrightSide ==
  \A i \in DOMAIN draft.sources : draft.sources[i].origin = "angle" =>
    \E angle \in draft.angles :
      /\ angle.check = "TRUE" /\ draft.sources[i].url \in angle.supported
      /\ Cardinality({Outlet[url] : url \in angle.supported} \ {Outlet[Own]}) >= AngleDomains

\* The page names everyone who had a hand in the text it shows, and nobody else.
DisclosureIsTrue == draft.revisions # << >> => Disclosure(draft) = credit[Len(credit)]

\* A rewrite that ends well leaves a review that was asked for a correction.
RewriteEndsWithAProposal ==
  step = Idle /\ draft.revisions # << >> /\ draft.revisions[Len(draft.revisions)].reason = "rewritten"
  /\ draft.review # NoReview /\ ~draft.error => draft.review.asked

\* "never added twice (a rewrite keeps the line it was given)" (article_writer.py) and
\* "The rewrite stage keeps it" (docs/decisions/editions.md).
OneSafeLine ==
  draft.edition = "devastating" /\ StoryIsGrave =>
    \A i \in DOMAIN draft.revisions : draft.revisions[i].reason \in {"generated", "rewritten"} =>
      draft.revisions[i].content.rendered + draft.revisions[i].content.bare = 1
=============================================================================
