---------------------------- MODULE WritingProofs ----------------------------
(***************************************************************************)
(* What a draft may be relied on for, whatever the models write, a person   *)
(* types, the searches find and fails, for any number of sources, rounds    *)
(* and revisions.                                                           *)
(***************************************************************************)
EXTENDS Writing, FiniteSetTheorems, SequenceTheorems, WellFoundedInduction, TLAPS

-----------------------------------------------------------------------------
(* Induction over the numbers, as a fact about sets of them. *)

\* A set of numbers has a least one.
LEMMA Least ==
  ASSUME NEW S \in SUBSET Nat, S # {}
  PROVE  \E m \in S : \A k \in S : m <= k
  <1>1. PICK m \in S : \A k \in S : <<k, m>> \notin OpToRel(<, Nat)
    BY NatLessThanWellFounded, WFMin
  <1>2. \A k \in S : ~(k < m)
    BY <1>1 DEF OpToRel
  <1> QED BY <1>2

\* A set that has 0 and with each number the next has them all.
LEMMA Induction ==
  ASSUME NEW S \in SUBSET Nat, 0 \in S, \A n \in S : n + 1 \in S
  PROVE  S = Nat
  <1> SUFFICES ASSUME Nat \ S # {} PROVE FALSE
    OBVIOUS
  <1>1. PICK m \in Nat \ S : \A k \in Nat \ S : m <= k
    BY Least
  <1>2. m # 0 /\ m - 1 \in S
    BY <1>1
  <1> QED BY <1>1, <1>2

-----------------------------------------------------------------------------
(* Who made a text. *)

\* Each text is made by its revision and what it came from.
LEMMA MadeIs ==
  ASSUME NEW revs, Len(revs) \in Nat
  PROVE  Made(revs) = [i \in 0..Len(revs) |->
           IF i = 0 THEN {}
           ELSE IF revs[i].reason = "restored" /\ Origins(revs, i) # {}
           THEN Made(revs)[CHOOSE k \in Origins(revs, i) : \A l \in Origins(revs, i) : k <= l]
           ELSE IF revs[i].reason = "generated" THEN {i}
           ELSE {i} \cup Made(revs)[i - 1]]
  <1> DEFINE first(i) == CHOOSE k \in Origins(revs, i) : \A l \in Origins(revs, i) : k <= l
             next(g, i) == IF i = 0 THEN {}
                           ELSE IF revs[i].reason = "restored" /\ Origins(revs, i) # {}
                           THEN g[first(i)]
                           ELSE IF revs[i].reason = "generated" THEN {i}
                           ELSE {i} \cup g[i - 1]
             T == {n \in Nat : \E g : g = [i \in 0..n |-> next(g, i)]}
  <1>1. ASSUME NEW i \in Nat, Origins(revs, i) # {} PROVE first(i) \in 0..i-1
    <2>1. Origins(revs, i) \subseteq 1..i-1
      BY DEF Origins
    <2>2. \E k \in Origins(revs, i) : \A l \in Origins(revs, i) : k <= l
      BY <1>1, <2>1, Least
    <2> QED BY <2>1, <2>2
  <1>2. ASSUME NEW g, NEW h, NEW i \in Nat, \A k \in 0..i-1 : g[k] = h[k]
        PROVE  next(g, i) = next(h, i)
    <2> HIDE DEF first
    <2>1. CASE i = 0
      BY <2>1
    <2>2. ASSUME i # 0, ~(revs[i].reason = "restored" /\ Origins(revs, i) # {})
          PROVE  next(g, i) = next(h, i)
      <3>1. i - 1 \in 0..i-1
        BY <2>2
      <3>2. g[i - 1] = h[i - 1]
        BY <1>2, <3>1
      <3> QED BY <2>2, <3>2
    <2>3. ASSUME i # 0, revs[i].reason = "restored" /\ Origins(revs, i) # {}
          PROVE  next(g, i) = next(h, i)
      <3>1. g[first(i)] = h[first(i)]
        BY <1>1, <1>2, <2>3
      <3> QED BY <2>3, <3>1
    <2> QED BY <2>1, <2>2, <2>3
  <1> HIDE DEF next
  <1>3. 0 \in T
    <2> DEFINE g == [i \in 0..0 |-> next(<< >>, i)]
    <2>1. \A i \in 0..0 : next(<< >>, i) = next(g, i)
      BY <1>2
    <2> QED BY <2>1
  <1>4. ASSUME NEW n \in T PROVE n + 1 \in T
    <2>1. PICK g : g = [i \in 0..n |-> next(g, i)]
      BY <1>4
    <2> DEFINE h == [i \in 0..n+1 |-> IF i <= n THEN g[i] ELSE next(g, n + 1)]
    <2>2. \A i \in 0..n : h[i] = g[i]
      OBVIOUS
    <2>3. ASSUME NEW i \in 0..n+1 PROVE h[i] = next(h, i)
      <3>1. next(g, i) = next(h, i)
        BY <1>2, <2>2
      <3>2. h[i] = next(g, i)
        <4>1. CASE i <= n
          BY <2>1, <4>1
        <4>2. CASE i = n + 1
          BY <4>2
        <4> QED BY <4>1, <4>2
      <3> QED BY <3>1, <3>2
    <2>4. h = [i \in 0..n+1 |-> h[i]]
      OBVIOUS
    <2> HIDE DEF h
    <2>5. h = [i \in 0..n+1 |-> next(h, i)]
      BY <2>3, <2>4
    <2> QED BY <2>5
  <1>5. Len(revs) \in T
    BY <1>3, <1>4, Induction
  <1>6. PICK g : g = [i \in 0..Len(revs) |-> next(g, i)]
    BY <1>5
  <1>7. Made(revs) = CHOOSE back : back = [i \in 0..Len(revs) |-> next(back, i)]
    BY DEF Made, next
  <1>8. Made(revs) = [i \in 0..Len(revs) |-> next(Made(revs), i)]
    BY <1>6, <1>7
  <1> QED BY <1>8 DEF next

-----------------------------------------------------------------------------
(* The invariant: the draft's text and each text it was before can be traced to *)
(* what it came from, under the review that goes with it.                       *)

AReview == [metrics : [Metrics -> -1..Full], asked : BOOLEAN, corrected : Body]

ADraft == [edition : {"positive", "devastating"}, sources : Seq(Source), angles : SUBSET Proposed,
           content : Body, review : AReview, revisions : Seq(Revision), error : BOOLEAN]

AStep == [kind : {"none", "generating", "reviewing", "rewriting"},
          at : {"idle", "finding", "writing", "reviewing", "rewriting"}, round : Nat, rounds : Nat]

\* A text is finite.
Written(body) == IsFiniteSet(body.said) /\ \A s \in body.said : IsFiniteSet(s.cites)

\* The analysed article is [1], and no page has two numbers.
Numbered(sources) ==
  /\ \A i \in 1..Len(sources) : sources[i].url = Own <=> i = 1
  /\ \A i, j \in 1..Len(sources) : PageOf[sources[i].url] = PageOf[sources[j].url] => i = j

\* A source that stands behind an angle makes it stand.
Backed(sources, angles) ==
  \A i \in DOMAIN sources : sources[i].origin = "angle" =>
    \E angle \in angles : /\ angle.check = "TRUE" /\ sources[i].url \in angle.supported
                          /\ Cardinality({Outlet[url] : url \in angle.supported} \ {Outlet[Own]}) >= AngleDomains

\* What the scores of a text say of it.
Meant(content, metrics, count) ==
  /\ metrics["hallucinationIndex"] >= Target["hallucinationIndex"] =>
       2 * Target["hallucinationIndex"] * Cardinality({s \in content.said : Factual(s)})
         <= Tenth * (2000 * Cardinality({s \in content.said : Factual(s)} \ Uncited(content))
                     + Cardinality({s \in content.said : Factual(s)}))
  /\ metrics["factConsistency"] >= Target["factConsistency"] /\ Target["factConsistency"] > 0 =>
       200 * Tenth * Cardinality(Dangling(content, count)) <= Full - Target["factConsistency"]

\* A review is of the text it is kept with: its correction cites and states no more.
Fits(content, review, count) ==
  /\ CitedIn(review.corrected) \subseteq CitedIn(content)
  /\ FiguresIn(review.corrected) \subseteq FiguresIn(content)
  /\ Written(review.corrected)
  /\ Meant(content, review.metrics, count)

TypedIn(revs, n) == \E i \in DOMAIN revs : revs[i].reason = "edited" /\ n \in CitedIn(revs[i].content)

StatedIn(revs) ==
  UNION {FiguresIn(revs[i].content) :
           i \in {k \in DOMAIN revs : revs[k].reason \in {"generated", "edited"}}}

\* A text's citations and figures come from its sources, or from who wrote or typed it.
Traced(content, sources, revs) ==
  /\ Written(content)
  /\ \A n \in CitedIn(content) \ (1..Len(sources)) : TypedIn(revs, n)
  /\ FiguresIn(content) \subseteq SourceFigures(sources) \cup StatedIn(revs)

\* The revisions: the first is generated and no other, a restored one repeats an earlier,
\* and who had a hand in each is who the page would name.
Handed(sources, revs, hands) ==
  \A i \in 1..Len(revs) :
    /\ Traced(revs[i].content, sources, revs) /\ Fits(revs[i].content, revs[i].review, Len(sources))
    /\ revs[i].reason = "restored" => \E k \in 1..i-1 : revs[k].content = revs[i].content
    /\ revs[i].reason = "generated" <=> i = 1
    /\ i = 1 => revs[i].model = "writer"
    /\ hands[i] = {"writer"} \cup {revs[j].model : j \in Made(revs)[i]}

\* What a rewrite that went well has led to.
Asked(d, st) ==
  /\ st.at \in {"reviewing", "rewriting"} => st.kind \in {"reviewing", "rewriting"} /\ d.revisions # << >>
  /\ st = Idle /\ d.revisions # << >> /\ d.revisions[Len(d.revisions)].reason = "rewritten"
     /\ d.review # NoReview /\ ~d.error => d.review.asked

Good(d, st, hands) ==
  /\ d \in ADraft /\ st \in AStep
  /\ hands \in Seq(SUBSET (Models \cup {"person"})) /\ Len(hands) = Len(d.revisions)
  /\ Numbered(d.sources) /\ Backed(d.sources, d.angles)
  /\ Traced(d.content, d.sources, d.revisions) /\ Fits(d.content, d.review, Len(d.sources))
  /\ Handed(d.sources, d.revisions, hands)
  /\ d.revisions = << >> => d.content = NoBody /\ d.review = NoReview
  /\ d.revisions # << >> => d.revisions[Len(d.revisions)].content = d.content
  /\ st.at \in {"finding", "writing"} => d.revisions = << >>
  /\ Asked(d, st)

WritingInv == Good(draft, step, credit)

-----------------------------------------------------------------------------
(* What the invariant says of the draft. *)

\* A text can be traced, and its scores say what they mean.
LEMMA GoodMeansGrounded ==
  ASSUME WritingInv PROVE TextIsGrounded
  <1>0. Numbered(draft.sources) /\ Traced(draft.content, draft.sources, draft.revisions)
        /\ Fits(draft.content, draft.review, Len(draft.sources)) /\ draft \in ADraft
    BY DEF WritingInv, Good
  <1>1. CitationsResolve
    BY <1>0 DEF CitationsResolve, Numbered, Traced, TypedIn
  <1>2. FiguresHaveAnOrigin
    BY <1>0 DEF FiguresHaveAnOrigin, Traced, StatedIn
  <1>3. MetMeansGrounded
    BY <1>0 DEF MetMeansGrounded, Fits, Meant
  <1> QED BY <1>1, <1>2, <1>3 DEF TextIsGrounded

\* The sources, the names on the page and the review that ends a rewrite are what they should be.
LEMMA GoodMeansTheRest ==
  ASSUME WritingInv PROVE NoInventedBrightSide /\ DisclosureIsTrue /\ RewriteEndsWithAProposal
  <1>0. /\ draft \in ADraft /\ Len(credit) = Len(draft.revisions)
        /\ Backed(draft.sources, draft.angles) /\ Asked(draft, step)
        /\ Handed(draft.sources, draft.revisions, credit)
    BY DEF WritingInv, Good
  <1>1. NoInventedBrightSide
    BY <1>0 DEF NoInventedBrightSide, Backed
  <1>2. DisclosureIsTrue
    <2> SUFFICES ASSUME draft.revisions # << >>
                 PROVE  Disclosure(draft) = credit[Len(credit)]
      BY DEF DisclosureIsTrue
    <2>1. draft.revisions \in Seq(Revision)
      BY <1>0 DEF ADraft
    <2>2. Len(draft.revisions) \in 1..Len(draft.revisions)
      BY <2>1
    <2>3. credit[Len(credit)] = {"writer"} \cup {draft.revisions[j].model : j \in Made(draft.revisions)[Len(draft.revisions)]}
      BY <1>0, <2>2 DEF Handed
    <2> QED BY <2>3 DEF Disclosure, Lineage
  <1>3. RewriteEndsWithAProposal
    BY <1>0 DEF RewriteEndsWithAProposal, Asked
  <1> QED BY <1>1, <1>2, <1>3

-----------------------------------------------------------------------------
(* A revision is added. *)

\* An empty text has its type, cites nothing and states nothing.
LEMMA EmptyText ==
  /\ NoBody \in Body /\ Written(NoBody) /\ CitedIn(NoBody) = {} /\ FiguresIn(NoBody) = {}
  /\ NoReview \in AReview /\ NoReview.corrected = NoBody /\ \A m \in Metrics : NoReview.metrics[m] = -1
  <1>1. NoBody \in Body
    BY DEF NoBody, Body
  <1>2. Written(NoBody)
    BY FS_EmptySet DEF NoBody, Written
  <1>3. CitedIn(NoBody) = {} /\ FiguresIn(NoBody) = {}
    BY DEF NoBody, CitedIn, FiguresIn
  <1>4. NoReview \in AReview /\ NoReview.corrected = NoBody /\ \A m \in Metrics : NoReview.metrics[m] = -1
    <2>1. -1 \in -1..Full
      BY WritingAssumption DEF Full
    <2> QED BY <1>1, <2>1 DEF NoReview, AReview
  <1> QED BY <1>1, <1>2, <1>3, <1>4

\* A text that has no review has one that says nothing.
LEMMA UnreviewedFits ==
  ASSUME NEW content, NEW count PROVE Fits(content, NoReview, count)
  <1>1. Target["hallucinationIndex"] \in Nat /\ Target["factConsistency"] \in Nat
    BY WritingAssumption DEF Metrics, Full
  <1>2. NoReview.metrics["hallucinationIndex"] = -1 /\ NoReview.metrics["factConsistency"] = -1
    BY EmptyText DEF Metrics
  <1>3. Meant(content, NoReview.metrics, count)
    BY <1>1, <1>2 DEF Meant
  <1> QED BY <1>3, EmptyText DEF Fits

\* The texts of one are the first texts of the other, with their reasons.
Longer(revs, news) ==
  /\ Len(revs) <= Len(news)
  /\ \A i \in 1..Len(revs) : news[i].content = revs[i].content /\ news[i].reason = revs[i].reason

\* What a text came from is told by the reasons and the texts before it.
LEMMA MadeLasts ==
  ASSUME NEW revs, NEW news, Len(revs) \in Nat, Len(news) \in Nat, Longer(revs, news)
  PROVE  \A i \in 0..Len(revs) : Made(news)[i] = Made(revs)[i] /\ Made(revs)[i] \subseteq 1..i
  <1> DEFINE S == {n \in Nat : \A i \in 0..n : i <= Len(revs) =>
                                 Made(news)[i] = Made(revs)[i] /\ Made(revs)[i] \subseteq 1..i}
             first(o) == CHOOSE k \in o : \A l \in o : k <= l
  <1>0. /\ Len(revs) <= Len(news)
        /\ \A i \in 1..Len(revs) : news[i].reason = revs[i].reason /\ news[i].content = revs[i].content
    BY DEF Longer
  <1>1. 0 \in S
    <2>1. 0 \in 0..Len(revs) /\ 0 \in 0..Len(news)
      OBVIOUS
    <2>2. Made(revs)[0] = {} /\ Made(news)[0] = {}
      BY <2>1, MadeIs
    <2>3. \A i \in 0..0 : i = 0
      OBVIOUS
    <2> QED BY <2>2, <2>3
  <1>2. ASSUME NEW n \in S PROVE n + 1 \in S
    <2> SUFFICES ASSUME n + 1 <= Len(revs)
                 PROVE  Made(news)[n+1] = Made(revs)[n+1] /\ Made(revs)[n+1] \subseteq 1..n+1
      <3>1. \A i \in 0..n+1 : i \in 0..n \/ i = n + 1
        OBVIOUS
      <3> QED BY <3>1
    <2> DEFINE o == Origins(revs, n + 1)
    <2>1. n + 1 \in 1..Len(revs) /\ n + 1 \in 0..Len(revs) /\ n + 1 \in 0..Len(news) /\ n + 1 # 0 /\ (n + 1) - 1 = n
      BY <1>0
    <2>2. Origins(news, n + 1) = o
      <3>1. \A k \in 1..(n+1)-1 : k \in 1..Len(revs)
        OBVIOUS
      <3> QED BY <1>0, <2>1, <3>1 DEF Origins
    <2>3. o \subseteq 1..n
      BY <2>1 DEF Origins
    <2>4. \A k \in 0..n : Made(news)[k] = Made(revs)[k] /\ Made(revs)[k] \subseteq 1..k
      BY <2>1
    <2>5. Made(revs)[n+1] = IF revs[n+1].reason = "restored" /\ o # {}
                            THEN Made(revs)[first(o)]
                            ELSE IF revs[n+1].reason = "generated" THEN {n + 1}
                            ELSE {n + 1} \cup Made(revs)[n]
      BY <2>1, MadeIs
    <2>6. Made(news)[n+1] = IF revs[n+1].reason = "restored" /\ o # {}
                            THEN Made(news)[first(o)]
                            ELSE IF revs[n+1].reason = "generated" THEN {n + 1}
                            ELSE {n + 1} \cup Made(news)[n]
      <3>1. Made(news)[n+1] = IF news[n+1].reason = "restored" /\ Origins(news, n + 1) # {}
                              THEN Made(news)[CHOOSE k \in Origins(news, n + 1) : \A l \in Origins(news, n + 1) : k <= l]
                              ELSE IF news[n+1].reason = "generated" THEN {n + 1}
                              ELSE {n + 1} \cup Made(news)[n]
        BY <2>1, MadeIs
      <3>2. news[n+1].reason = revs[n+1].reason
        BY <1>0, <2>1
      <3> QED BY <2>2, <3>1, <3>2
    <2>7. o # {} => first(o) \in 1..n
      <3> SUFFICES ASSUME o # {} PROVE first(o) \in 1..n
        OBVIOUS
      <3>1. \E k \in o : \A l \in o : k <= l
        BY <2>3, Least
      <3> QED BY <2>3, <3>1
    <2>a. \A k \in 0..n : 1..k \subseteq 1..n+1
      OBVIOUS
    <2>b. n \in 0..n /\ n + 1 \in 1..n+1 /\ \A k \in 1..n : k \in 0..n
      OBVIOUS
    <2> HIDE DEF o, first, S
    <2>8. CASE revs[n+1].reason = "restored" /\ o # {}
      <3>1. first(o) \in 0..n
        BY <2>7, <2>8, <2>b
      <3>2. Made(revs)[n+1] = Made(revs)[first(o)] /\ Made(news)[n+1] = Made(news)[first(o)]
        BY <2>5, <2>6, <2>8
      <3>3. Made(news)[first(o)] = Made(revs)[first(o)] /\ Made(revs)[first(o)] \subseteq 1..first(o)
        BY <2>4, <3>1
      <3>4. 1..first(o) \subseteq 1..n+1
        BY <2>a, <3>1
      <3> QED BY <3>2, <3>3, <3>4
    <2>9. CASE ~(revs[n+1].reason = "restored" /\ o # {})
      <3>1. Made(news)[n] = Made(revs)[n] /\ Made(revs)[n] \subseteq 1..n+1
        BY <2>4, <2>a, <2>b
      <3>2. CASE revs[n+1].reason = "generated"
        BY <2>5, <2>6, <2>9, <2>b, <3>2
      <3>3. CASE revs[n+1].reason # "generated"
        <4>1. Made(revs)[n+1] = {n + 1} \cup Made(revs)[n] /\ Made(news)[n+1] = {n + 1} \cup Made(news)[n]
          BY <2>5, <2>6, <2>9, <3>3
        <4> QED BY <2>b, <3>1, <4>1
      <3> QED BY <3>2, <3>3
    <2> QED BY <2>8, <2>9
  <1>3. Len(revs) \in S
    BY <1>1, <1>2, Induction
  <1> QED BY <1>3

\* Keeping a review changes no text and nobody's name.
LEMMA ReviewKept ==
  ASSUME NEW d \in ADraft
  PROVE  /\ KeepReview(d) \in Seq(Revision) /\ Len(KeepReview(d)) = Len(d.revisions)
         /\ \A i \in 1..Len(d.revisions) :
              /\ KeepReview(d)[i].content = d.revisions[i].content
              /\ KeepReview(d)[i].reason = d.revisions[i].reason
              /\ KeepReview(d)[i].model = d.revisions[i].model
              /\ \/ KeepReview(d)[i].review = d.revisions[i].review
                 \/ i = Len(d.revisions) /\ KeepReview(d)[i].review = d.review
  <1> DEFINE revs == d.revisions
             n == Len(revs)
  <1>1. revs \in Seq(Revision) /\ d.review \in AReview
    BY DEF ADraft
  <1>2. CASE ~(revs # << >> /\ d.review # NoReview /\ revs[n].review = NoReview)
    BY <1>1, <1>2 DEF KeepReview
  <1>3. CASE revs # << >> /\ d.review # NoReview /\ revs[n].review = NoReview
    <2>1. n \in 1..n
      BY <1>1, <1>3
    <2> DEFINE one == [revs[n] EXCEPT !.review = d.review]
    <2>2. KeepReview(d) = [revs EXCEPT ![n] = one]
      BY <1>3 DEF KeepReview
    <2>3. revs[n] \in Revision
      BY <1>1, <2>1
    <2>4. one \in Revision /\ one.content = revs[n].content /\ one.reason = revs[n].reason
          /\ one.model = revs[n].model /\ one.review = d.review
      BY <1>1, <2>3 DEF Revision, AReview
    <2> HIDE DEF one
    <2> QED BY <1>1, <2>1, <2>2, <2>4
  <1> QED BY <1>2, <1>3

\* One more revision, and those before it what they were but for the last one's review.
Grown(d, content, reason, model, news) ==
  /\ news \in Seq(Revision) /\ Len(news) = Len(d.revisions) + 1
  /\ news[Len(d.revisions) + 1].content = content /\ news[Len(d.revisions) + 1].reason = reason
  /\ news[Len(d.revisions) + 1].model = model /\ news[Len(d.revisions) + 1].review = NoReview
  /\ \A i \in 1..Len(d.revisions) :
       /\ news[i].content = d.revisions[i].content /\ news[i].reason = d.revisions[i].reason
       /\ news[i].model = d.revisions[i].model
       /\ \/ news[i].review = d.revisions[i].review
          \/ i = Len(d.revisions) /\ news[i].review = d.review

\* A draft is revised by one more revision.
LEMMA RevisedRevisions ==
  ASSUME NEW d \in ADraft, NEW content \in Body,
         NEW reason \in {"generated", "rewritten", "corrected", "edited", "restored"},
         NEW model \in Models \cup {"person"},
         NEW news, news = Revise(d, content, reason, model).revisions
  PROVE  Revise(d, content, reason, model) \in ADraft /\ Grown(d, content, reason, model, news)
  <1> DEFINE new == [content |-> content, reason |-> reason, model |-> model, review |-> NoReview]
             revs == KeepReview(d)
  <1>1. new \in Revision
    BY EmptyText DEF Revision, AReview
  <1>2. revs \in Seq(Revision) /\ Len(revs) = Len(d.revisions) /\ d.revisions \in Seq(Revision)
    BY ReviewKept DEF ADraft
  <1>3. news = Append(revs, new)
    BY DEF Revise, ADraft
  <1>4. \A i \in 1..Len(d.revisions) :
          /\ revs[i].content = d.revisions[i].content /\ revs[i].reason = d.revisions[i].reason
          /\ revs[i].model = d.revisions[i].model
          /\ \/ revs[i].review = d.revisions[i].review
             \/ i = Len(d.revisions) /\ revs[i].review = d.review
    BY ReviewKept
  <1>5. new.content = content /\ new.reason = reason /\ new.model = model /\ new.review = NoReview
    OBVIOUS
  <1>6. Revise(d, content, reason, model) = [d EXCEPT !.content = content, !.review = NoReview, !.revisions = Append(revs, new)]
    BY DEF Revise
  <1> HIDE DEF new, revs
  <1>7. /\ news \in Seq(Revision) /\ Len(news) = Len(d.revisions) + 1 /\ news[Len(news)] = new
        /\ \A i \in 1..Len(d.revisions) : news[i] = revs[i]
    BY <1>1, <1>2, <1>3
  <1>8. Revise(d, content, reason, model) \in ADraft
    BY <1>3, <1>6, <1>7, EmptyText DEF ADraft
  <1>9. news[Len(d.revisions) + 1] = new
    BY <1>7
  <1> QED BY <1>4, <1>5, <1>7, <1>8, <1>9 DEF Grown

\* A text that could be traced still can be when there are more revisions.
LEMMA StillTraced ==
  ASSUME NEW revs \in Seq(Revision), NEW news \in Seq(Revision), Longer(revs, news),
         NEW content, NEW sources, Traced(content, sources, revs)
  PROVE  Traced(content, sources, news)
  <1>1. DOMAIN revs = 1..Len(revs) /\ DOMAIN news = 1..Len(news) /\ DOMAIN revs \subseteq DOMAIN news
    BY DEF Longer
  <1>2. \A n : TypedIn(revs, n) => TypedIn(news, n)
    BY <1>1 DEF TypedIn, Longer
  <1>3. StatedIn(revs) \subseteq StatedIn(news)
    BY <1>1 DEF StatedIn, Longer
  <1> QED BY <1>2, <1>3 DEF Traced

\* Who had a hand in the last text.
HandsOf(revs) == {"writer"} \cup {revs[j].model : j \in Made(revs)[Len(revs)]}

\* A revision that can be traced, and whose hands are those it came from, keeps them so.
LEMMA RevisedHands ==
  ASSUME NEW d \in ADraft, NEW content \in Body,
         NEW reason \in {"generated", "rewritten", "corrected", "edited", "restored"},
         NEW model \in Models \cup {"person"},
         NEW news, Grown(d, content, reason, model, news),
         NEW hands \in Seq(SUBSET (Models \cup {"person"})), Len(hands) = Len(d.revisions),
         NEW hand \in SUBSET (Models \cup {"person"}),
         Handed(d.sources, d.revisions, hands),
         Fits(d.content, d.review, Len(d.sources)),
         d.revisions # << >> => d.revisions[Len(d.revisions)].content = d.content,
         reason = "generated" <=> d.revisions = << >>,
         d.revisions = << >> => model = "writer",
         reason = "restored" => \E k \in 1..Len(d.revisions) : d.revisions[k].content = content,
         Traced(content, d.sources, news),
         hand = HandsOf(news)
  PROVE  Handed(d.sources, news, Append(hands, hand))
  <1> DEFINE revs == d.revisions
             n == Len(revs)
  <1>0. revs \in Seq(Revision) /\ n \in Nat /\ (revs = << >> <=> n = 0)
    BY DEF ADraft
  <1>1. /\ news \in Seq(Revision) /\ Len(news) = n + 1
        /\ news[n+1].content = content /\ news[n+1].reason = reason
        /\ news[n+1].model = model /\ news[n+1].review = NoReview
        /\ \A i \in 1..n :
             /\ news[i].content = revs[i].content /\ news[i].reason = revs[i].reason
             /\ news[i].model = revs[i].model
             /\ \/ news[i].review = revs[i].review
                \/ i = n /\ news[i].review = d.review
    BY DEF Grown
  <1>2. \A i \in 1..n : Append(hands, hand)[i] = hands[i]
    OBVIOUS
  <1>3. Append(hands, hand)[n+1] = hand
    OBVIOUS
  <1>l. Longer(revs, news)
    BY <1>0, <1>1 DEF Longer
  <1>4. \A i \in 0..n : Made(news)[i] = Made(revs)[i] /\ Made(revs)[i] \subseteq 1..i
    BY <1>0, <1>1, <1>l, MadeLasts
  <1> SUFFICES ASSUME NEW i \in 1..n+1
               PROVE
    /\ Traced(news[i].content, d.sources, news) /\ Fits(news[i].content, news[i].review, Len(d.sources))
    /\ news[i].reason = "restored" => \E k \in 1..i-1 : news[k].content = news[i].content
    /\ news[i].reason = "generated" <=> i = 1
    /\ i = 1 => news[i].model = "writer"
    /\ Append(hands, hand)[i] = {"writer"} \cup {news[j].model : j \in Made(news)[i]}
    BY <1>1 DEF Handed
  <1>5. CASE i \in 1..n
    <2>1. /\ Traced(revs[i].content, d.sources, revs) /\ Fits(revs[i].content, revs[i].review, Len(d.sources))
          /\ revs[i].reason = "restored" => \E k \in 1..i-1 : revs[k].content = revs[i].content
          /\ revs[i].reason = "generated" <=> i = 1
          /\ i = 1 => revs[i].model = "writer"
          /\ hands[i] = {"writer"} \cup {revs[j].model : j \in Made(revs)[i]}
      BY <1>5 DEF Handed
    <2>2. Traced(news[i].content, d.sources, news)
      <3>1. Traced(revs[i].content, d.sources, news)
        BY <1>0, <1>1, <1>l, <2>1, StillTraced
      <3> QED BY <1>1, <1>5, <3>1
    <2>3. Fits(news[i].content, news[i].review, Len(d.sources))
      <3>1. CASE news[i].review = revs[i].review
        BY <1>1, <1>5, <2>1, <3>1
      <3>2. CASE i = n /\ news[i].review = d.review
        BY <1>0, <1>1, <1>5, <3>2
      <3> QED BY <1>1, <1>5, <3>1, <3>2
    <2>4. \A k \in 1..i-1 : k \in 1..n
      BY <1>0, <1>5
    <2>5. {news[j].model : j \in Made(news)[i]} = {revs[j].model : j \in Made(revs)[i]}
      <3>1. Made(news)[i] = Made(revs)[i] /\ Made(revs)[i] \subseteq 1..i
        BY <1>0, <1>4, <1>5
      <3>2. 1..i \subseteq 1..n
        BY <1>0, <1>5
      <3>3. \A j \in Made(revs)[i] : news[j].model = revs[j].model
        BY <1>1, <3>1, <3>2
      <3> QED BY <3>1, <3>3
    <2> QED BY <1>1, <1>2, <1>5, <2>1, <2>2, <2>3, <2>4, <2>5
  <1>6. CASE i = n + 1
    <2>1. Fits(news[i].content, news[i].review, Len(d.sources))
      BY <1>1, <1>6, UnreviewedFits
    <2>2. news[i].reason = "restored" => \E k \in 1..i-1 : news[k].content = news[i].content
      BY <1>0, <1>1, <1>6
    <2>3. (news[i].reason = "generated" <=> i = 1) /\ (i = 1 => news[i].model = "writer")
      BY <1>0, <1>1, <1>6
    <2> QED BY <1>1, <1>3, <1>6, <2>1, <2>2, <2>3 DEF HandsOf
  <1>7. i \in 1..n \/ i = n + 1
    BY <1>0
  <1> QED BY <1>5, <1>6, <1>7

\* The text that was generated is the writer's.
LEMMA WriterHand ==
  ASSUME NEW d \in ADraft, NEW content, NEW news, d.revisions = << >>,
         Grown(d, content, "generated", "writer", news)
  PROVE  {"writer"} = HandsOf(news)
  <1>1. Len(news) = 1 /\ news[1].reason = "generated" /\ news[1].model = "writer" /\ Len(d.revisions) = 0
    BY DEF Grown
  <1>2. Made(news)[1] = {1}
    <2>1. 1 \in 0..Len(news) /\ Len(news) \in Nat
      BY <1>1
    <2>2. Made(news)[1] = IF news[1].reason = "restored" /\ Origins(news, 1) # {}
                          THEN Made(news)[CHOOSE k \in Origins(news, 1) : \A l \in Origins(news, 1) : k <= l]
                          ELSE IF news[1].reason = "generated" THEN {1}
                          ELSE {1} \cup Made(news)[0]
      BY <2>1, MadeIs
    <2> QED BY <1>1, <2>2
  <1> QED BY <1>1, <1>2 DEF HandsOf

\* Who had a hand in a text, and in what another makes of it.
Joined(hands, model) == hands[Len(hands)] \cup {model}

\* The text that a rewrite, a correction or an edit leaves is theirs and whose it was.
LEMMA NextHand ==
  ASSUME NEW d \in ADraft, NEW content, NEW reason, reason # "generated", reason # "restored",
         NEW model, NEW news, Grown(d, content, reason, model, news), d.revisions # << >>,
         NEW hands, Len(hands) = Len(d.revisions), Handed(d.sources, d.revisions, hands)
  PROVE  Joined(hands, model) = HandsOf(news)
  <1> DEFINE revs == d.revisions
             n == Len(revs)
  <1>0. revs \in Seq(Revision) /\ n \in Nat /\ n \in 1..n
    BY DEF ADraft
  <1>1. /\ news \in Seq(Revision) /\ Len(news) = n + 1
        /\ news[n+1].reason = reason /\ news[n+1].model = model
        /\ \A i \in 1..n : news[i].content = revs[i].content /\ news[i].reason = revs[i].reason
                           /\ news[i].model = revs[i].model
    BY DEF Grown
  <1>2. Longer(revs, news)
    BY <1>0, <1>1 DEF Longer
  <1>3. Made(news)[n] = Made(revs)[n] /\ Made(revs)[n] \subseteq 1..n
    BY <1>0, <1>1, <1>2, MadeLasts
  <1>4. Made(news)[n+1] = {n + 1} \cup Made(revs)[n]
    <2>1. n + 1 \in 0..Len(news) /\ Len(news) \in Nat /\ n + 1 # 0 /\ (n + 1) - 1 = n
      BY <1>0, <1>1
    <2>2. Made(news)[n+1] = IF news[n+1].reason = "restored" /\ Origins(news, n+1) # {}
                            THEN Made(news)[CHOOSE k \in Origins(news, n+1) : \A l \in Origins(news, n+1) : k <= l]
                            ELSE IF news[n+1].reason = "generated" THEN {n+1}
                            ELSE {n+1} \cup Made(news)[n]
      BY <2>1, MadeIs
    <2> QED BY <1>1, <1>3, <2>2
  <1>5. hands[n] = {"writer"} \cup {revs[j].model : j \in Made(revs)[n]}
    BY <1>0 DEF Handed
  <1>6. {news[j].model : j \in Made(news)[n+1]} = {model} \cup {revs[j].model : j \in Made(revs)[n]}
    <2>1. \A j \in Made(revs)[n] : news[j].model = revs[j].model
      BY <1>1, <1>3
    <2> QED BY <1>1, <1>4, <2>1
  <1> QED BY <1>1, <1>5, <1>6 DEF HandsOf, Joined

\* The text that is put back is its writers', whoever put it back.
LEMMA RestoredHand ==
  ASSUME NEW d \in ADraft, NEW content, NEW model, NEW news, Grown(d, content, "restored", model, news),
         NEW hands, Len(hands) = Len(d.revisions), Handed(d.sources, d.revisions, hands),
         NEW first \in 1..Len(d.revisions), d.revisions[first].content = content,
         \A l \in 1..first-1 : d.revisions[l].content # content
  PROVE  hands[first] = HandsOf(news)
  <1> DEFINE revs == d.revisions
             n == Len(revs)
             o == Origins(news, n + 1)
  <1>0. revs \in Seq(Revision) /\ n \in Nat
    BY DEF ADraft
  <1>1. /\ news \in Seq(Revision) /\ Len(news) = n + 1
        /\ news[n+1].reason = "restored" /\ news[n+1].content = content
        /\ \A i \in 1..n : news[i].content = revs[i].content /\ news[i].reason = revs[i].reason
                           /\ news[i].model = revs[i].model
    BY DEF Grown
  <1>2. Longer(revs, news)
    BY <1>0, <1>1 DEF Longer
  <1>3. Made(news)[first] = Made(revs)[first] /\ Made(revs)[first] \subseteq 1..first
    BY <1>0, <1>1, <1>2, MadeLasts
  <1>4. revs[first].reason # "restored"
    BY DEF Handed
  <1>5. first \in o
    BY <1>0, <1>1, <1>4 DEF Origins
  <1>6. \A l \in o : first <= l
    <2> SUFFICES ASSUME NEW l \in o, l < first PROVE FALSE
      BY <1>0 DEF Origins
    <2>1. l \in 1..n /\ news[l].content = content
      BY <1>0, <1>1 DEF Origins
    <2>2. revs[l].content = content /\ l \in 1..first-1
      BY <1>0, <1>1, <2>1
    <2> QED BY <2>2
  <1>7. (CHOOSE k \in o : \A l \in o : k <= l) = first
    <2>1. \A k \in o : (\A l \in o : k <= l) => k = first
      BY <1>0, <1>5, <1>6 DEF Origins
    <2> HIDE DEF o
    <2> QED BY <1>5, <1>6, <2>1
  <1>8. Made(news)[n+1] = Made(revs)[first]
    <2>1. n + 1 \in 0..Len(news) /\ Len(news) \in Nat /\ n + 1 # 0
      BY <1>0, <1>1
    <2>2. Made(news)[n+1] = IF news[n+1].reason = "restored" /\ o # {}
                            THEN Made(news)[CHOOSE k \in o : \A l \in o : k <= l]
                            ELSE IF news[n+1].reason = "generated" THEN {n+1}
                            ELSE {n+1} \cup Made(news)[(n+1)-1]
      BY <2>1, MadeIs
    <2> QED BY <1>1, <1>3, <1>5, <1>7, <2>2
  <1>9. hands[first] = {"writer"} \cup {revs[j].model : j \in Made(revs)[first]}
    BY DEF Handed
  <1>10. \A j \in Made(revs)[first] : news[j].model = revs[j].model
    BY <1>0, <1>1, <1>3
  <1> QED BY <1>1, <1>8, <1>9, <1>10 DEF HandsOf

-----------------------------------------------------------------------------
(* What the repairs and the rules make of a text. *)

\* A finite set's image is finite.
LEMMA ImageFinite ==
  ASSUME NEW S, IsFiniteSet(S), NEW f, DOMAIN f = S
  PROVE  IsFiniteSet({f[s] : s \in S})
  <1> DEFINE T == {f[s] : s \in S}
             g == [s \in S |-> f[s]]
  <1>1. g \in Surjection(S, T)
    BY DEF Surjection
  <1> QED BY <1>1, FS_Surjection

\* A text whose citations were repaired cites its sources, and says what it said.
LEMMA Repaired ==
  ASSUME NEW body \in Body, Written(body), NEW count \in Nat
  PROVE  /\ RepairCitations(body, count) \in Body /\ Written(RepairCitations(body, count))
         /\ CitedIn(RepairCitations(body, count)) \subseteq 1..count
         /\ FiguresIn(RepairCitations(body, count)) = FiguresIn(body)
         /\ RepairCitations(body, count).rendered = body.rendered
         /\ RepairCitations(body, count).bare = body.bare
  <1> DEFINE f == [s \in body.said |-> [s EXCEPT !.cites = @ \cap (1..count)]]
             said == {f[s] : s \in body.said}
             fixed == RepairCitations(body, count)
  <1>1. body.said \subseteq Sentence /\ IsFiniteSet(body.said) /\ \A s \in body.said : IsFiniteSet(s.cites)
    BY DEF Body, Written
  <1>2. fixed.said = said /\ fixed = [body EXCEPT !.said = said]
    BY DEF RepairCitations, Body
  <1>3. \A s \in body.said : /\ f[s] \in Sentence /\ f[s].terms = s.terms
                             /\ f[s].cites = s.cites \cap (1..count) /\ IsFiniteSet(f[s].cites)
    <2> TAKE s \in body.said
    <2>1. s \in Sentence /\ IsFiniteSet(s.cites)
      BY <1>1
    <2>2. f[s] = [s EXCEPT !.cites = s.cites \cap (1..count)]
      BY <2>1 DEF Sentence
    <2>3. IsFiniteSet(s.cites \cap (1..count))
      BY <2>1, FS_Subset
    <2> QED BY <2>1, <2>2, <2>3 DEF Sentence
  <1>4. IsFiniteSet(said)
    <2>1. DOMAIN f = body.said
      OBVIOUS
    <2> HIDE DEF f
    <2> QED BY <1>1, <2>1, ImageFinite
  <1> HIDE DEF f
  <1>5. \A t \in said : t \in Sentence /\ IsFiniteSet(t.cites) /\ t.cites \subseteq 1..count
    BY <1>3
  <1>6. UNION {t.terms : t \in said} = UNION {s.terms : s \in body.said}
    <2>1. {t.terms : t \in said} = {s.terms : s \in body.said}
      BY <1>3
    <2> QED BY <2>1
  <1> HIDE DEF said
  <1>7. fixed \in Body /\ fixed.rendered = body.rendered /\ fixed.bare = body.bare
    BY <1>2, <1>5 DEF Body
  <1>8. Written(fixed)
    BY <1>2, <1>4, <1>5 DEF Written
  <1>9. CitedIn(fixed) \subseteq 1..count
    BY <1>2, <1>5 DEF CitedIn
  <1>10. FiguresIn(fixed) = FiguresIn(body)
    <2>1. FiguresIn(fixed) = (UNION {t.terms : t \in said}) \cap Figures
      BY <1>2 DEF FiguresIn
    <2>2. FiguresIn(body) = (UNION {s.terms : s \in body.said}) \cap Figures
      BY DEF FiguresIn
    <2> QED BY <1>6, <2>1, <2>2
  <1> HIDE DEF fixed
  <1> QED BY <1>7, <1>8, <1>9, <1>10 DEF fixed

\* A text the writer was given back: italics off, citations repaired, the line added.
LEMMA Checks ==
  ASSUME NEW body \in Body, Written(body), NEW count \in Nat, NEW edition, NEW told,
         NEW text, text = WithSafeMessaging(Check(body, count), edition, told)
  PROVE  text \in Body /\ Written(text) /\ CitedIn(text) \subseteq 1..count /\ FiguresIn(text) = FiguresIn(body)
  <1> DEFINE plain == NormaliseMarkdown(body)
             fixed == RepairCitations(plain, count)
  <1>1. plain \in Body /\ plain.said = body.said
    <2>1. PICK bare \in Nat : bare = body.bare + body.rendered
      BY DEF Body
    <2>2. plain = [body EXCEPT !.rendered = 0, !.bare = bare]
      BY <2>1 DEF NormaliseMarkdown, Body
    <2> HIDE DEF plain
    <2> QED BY <2>2 DEF Body
  <1>2. Written(plain) /\ FiguresIn(plain) = FiguresIn(body)
    BY <1>1 DEF Written, FiguresIn
  <1>3. text.said = fixed.said /\ text \in Body
    <2>1. fixed \in Body
      BY <1>1, <1>2, Repaired
    <2>2. text = fixed \/ text = [fixed EXCEPT !.rendered = 1]
      BY DEF WithSafeMessaging, Check
    <2> HIDE DEF fixed
    <2> QED BY <2>1, <2>2 DEF Body
  <1>4. Written(fixed) /\ CitedIn(fixed) \subseteq 1..count /\ FiguresIn(fixed) = FiguresIn(plain)
    BY <1>1, <1>2, Repaired
  <1> HIDE DEF fixed
  <1> QED BY <1>2, <1>3, <1>4 DEF Written, CitedIn, FiguresIn

\* What the copy editor answers is a finite text.
LEMMA AnswersWritten ==
  ASSUME NEW content \in Body, Written(content), NEW answer \in Answers(content)
  PROVE  answer \in Body /\ Written(answer)
  <1>1. CASE answer = NoBody
    BY <1>1, EmptyText
  <1>2. CASE answer \in Proposals
    BY <1>2, WritingAssumption DEF Written
  <1>3. ASSUME NEW changes \in Edits, answer = ApplyEdits(content, changes)
        PROVE  answer \in Body /\ Written(answer)
    <2> DEFINE found == {e \in changes : e.find \in content.said}
               f == [e \in found |-> e.replace]
               left == {s \in content.said : \A e \in changes : e.find # s}
               said == left \cup {f[e] : e \in found}
    <2>1. changes \subseteq [find : Sentence, replace : Sentence] /\ IsFiniteSet(changes)
          /\ \A e \in changes : IsFiniteSet(e.replace.cites)
      BY WritingAssumption
    <2>2. content.said \subseteq Sentence /\ IsFiniteSet(content.said) /\ \A s \in content.said : IsFiniteSet(s.cites)
      BY DEF Body, Written
    <2>3. {e.replace : e \in {e \in changes : e.find \in content.said}} = {f[e] : e \in found}
      OBVIOUS
    <2>4. answer = [content EXCEPT !.said = said]
      BY <1>3, <2>3 DEF ApplyEdits, Body
    <2>5. IsFiniteSet(found) /\ IsFiniteSet(left)
      BY <2>1, <2>2, FS_Subset
    <2>6. IsFiniteSet({f[e] : e \in found})
      <3>1. DOMAIN f = found
        OBVIOUS
      <3> HIDE DEF f, found
      <3> QED BY <2>5, <3>1, ImageFinite
    <2>7. IsFiniteSet(said)
      BY <2>5, <2>6, FS_Union
    <2>8. \A s \in said : s \in Sentence /\ IsFiniteSet(s.cites)
      BY <2>1, <2>2
    <2> HIDE DEF said
    <2> QED BY <2>4, <2>7, <2>8 DEF Body, Written
  <1> QED BY <1>1, <1>2, <1>3 DEF Answers

\* What is offered cites and states no more than the draft.
LEMMA OfferFits ==
  ASSUME NEW content \in Body, Written(content), NEW answer \in Answers(content),
         NEW offer, offer = Offered(content, answer)
  PROVE  /\ offer \in Body /\ Written(offer)
         /\ CitedIn(offer) \subseteq CitedIn(content) /\ FiguresIn(offer) \subseteq FiguresIn(content)
  <1>1. CASE offer = NoBody
    BY <1>1, EmptyText
  <1>2. CASE offer # NoBody
    <2>1. offer = answer /\ ~CitationSetProblem(content, answer, FALSE) /\ ~FigureProblem(content, answer, {})
      BY <1>2 DEF Offered, ReadProposal
    <2> QED BY <2>1, AnswersWritten DEF CitationSetProblem, FigureProblem
  <1> QED BY <1>1, <1>2

-----------------------------------------------------------------------------
(* What a score says. *)

\* What is no more, times as much, is no more.
LEMMA TimesKeeps == \A a, b \in Int, c \in Nat : a <= b => a * c <= b * c
  OBVIOUS

\* A quotient that is at least a number is that of at least so many times the divisor.
LEMMA AtLeast ==
  ASSUME NEW a \in Nat, NEW b \in Nat \ {0}, NEW t \in Nat
  PROVE  a \div b \in Nat /\ (a \div b >= t => t * b <= a)
  <1>1. PICK q \in Nat : q = a \div b /\ q * b <= a
    OBVIOUS
  <1>2. ASSUME q >= t PROVE t * b <= q * b
    BY <1>2
  <1>3. t * b \in Nat /\ q * b \in Nat
    OBVIOUS
  <1> QED BY <1>1, <1>2, <1>3

\* A share to the nearest tenth of a point is more than it by half a tenth at most, and
\* no more than all.
LEMMA RoundedIs ==
  ASSUME NEW part \in Nat, NEW whole \in Nat \ {0}, part <= 1000 * whole, NEW up \in BOOLEAN,
         NEW n, n = Rounded([num |-> part, den |-> whole], up)
  PROVE  n \in 0..1000 /\ 2 * (n * whole) <= 2 * part + whole
  <1>1. PICK a \in Nat : /\ a = 2 * part + (IF up THEN whole ELSE whole - 1)
                         /\ a <= 2 * part + whole
    OBVIOUS
  <1>2. n = a \div (2 * whole)
    BY <1>1 DEF Rounded
  <1>3. n \in Nat /\ n * (2 * whole) <= a
    <2>1. PICK b \in Nat \ {0} : b = 2 * whole
      OBVIOUS
    <2>2. PICK q \in Nat : q = a \div b
      BY AtLeast
    <2>3. q * b <= a
      BY <2>2, AtLeast
    <2> QED BY <1>2, <2>1, <2>2, <2>3
  <1>4. n * (2 * whole) = 2 * (n * whole) /\ n * whole \in Nat
    BY <1>3
  <1>5. ~(n >= 1001)
    <2> SUFFICES ASSUME n >= 1001 PROVE FALSE
      OBVIOUS
    <2>1. 1001 * whole <= n * whole
      BY <1>3, TimesKeeps
    <2> QED BY <1>1, <1>3, <1>4, <2>1
  <1>6. 2 * (n * whole) <= 2 * part + whole
    <2>1. PICK m \in Nat : m = n * whole
      BY <1>4
    <2>2. 2 * m <= a
      BY <1>3, <1>4, <2>1
    <2> QED BY <1>1, <2>1, <2>2
  <1>7. n \in 0..1000
    BY <1>3, <1>5
  <1> QED BY <1>6, <1>7

\* A score held to a share: if it reaches the target, the share does, less half a tenth.
LEMMA ShareBinds ==
  ASSUME NEW score \in -1..Full, NEW target \in 0..Full, NEW up \in BOOLEAN,
         NEW part \in Nat, NEW whole \in Nat \ {0}, part <= whole,
         NEW bound, bound = Bind(score, [num |-> 1000 * part, den |-> whole], up)
  PROVE  /\ bound \in -1..Full
         /\ bound >= target => 2 * target * whole <= Tenth * (2000 * part + whole)
  <1>1. Tenth \in Nat \ {0} /\ Full = 1000 * Tenth
    BY WritingAssumption DEF Full
  <1>2. /\ Tenth * (2000 * part + whole) = 2 * (Tenth * (1000 * part)) + Tenth * whole
        /\ 2 * target * whole = 2 * (target * whole) /\ target * whole \in Nat
        /\ Tenth * whole \in Nat /\ Tenth * (1000 * part) \in Nat
    BY <1>1
  <1>3. CASE score = -1 \/ score * whole <= Tenth * (1000 * part)
    <2>1. bound = score
      BY <1>3 DEF Bind
    <2>2. ASSUME score >= target PROVE target * whole <= Tenth * (1000 * part)
      <3>1. target * whole <= score * whole /\ score * whole \in Int
        BY <1>1, <2>2, TimesKeeps
      <3> QED BY <1>1, <1>2, <1>3, <2>2, <3>1
    <2> QED BY <1>2, <2>1, <2>2
  <1>4. CASE ~(score = -1 \/ score * whole <= Tenth * (1000 * part))
    <2>1. PICK n : n = Rounded([num |-> 1000 * part, den |-> whole], up)
      OBVIOUS
    <2>2. bound = Tenth * n
      BY <1>4, <2>1 DEF Bind
    <2>3. n \in 0..1000 /\ 2 * (n * whole) <= 2 * (1000 * part) + whole
      BY <2>1, RoundedIs
    <2>4. bound \in 0..Full
      BY <1>1, <2>2, <2>3
    <2>5. ASSUME bound >= target PROVE 2 * (target * whole) <= 2 * (Tenth * (1000 * part)) + Tenth * whole
      <3>1. target * whole <= (Tenth * n) * whole
        BY <1>1, <2>2, <2>3, <2>5, TimesKeeps
      <3>2. (Tenth * n) * whole = (n * whole) * Tenth
        BY <1>1, <2>3
      <3>3. (2 * (n * whole)) * Tenth <= (2 * (1000 * part) + whole) * Tenth
        BY <1>1, <2>3, TimesKeeps
      <3>4. /\ (2 * (n * whole)) * Tenth = 2 * ((n * whole) * Tenth)
            /\ (2 * (1000 * part) + whole) * Tenth = 2 * (Tenth * (1000 * part)) + Tenth * whole
        BY <1>1, <2>3
      <3>5. PICK a, b, c \in Int : /\ a = target * whole /\ b = (n * whole) * Tenth
                                   /\ c = 2 * (Tenth * (1000 * part)) + Tenth * whole
        BY <1>1, <1>2, <2>3
      <3>6. a <= b /\ 2 * b <= c
        BY <3>1, <3>2, <3>3, <3>4, <3>5
      <3>7. 2 * a <= c
        BY ONLY <3>6, a \in Int, b \in Int, c \in Int
      <3> QED BY <3>5, <3>7
    <2> QED BY <1>1, <1>2, <2>4, <2>5
  <1> QED BY <1>3, <1>4

\* A score held to what its citations of no source cost.
LEMMA CostBinds ==
  ASSUME NEW score \in -1..Full, NEW target \in 0..Full, NEW up \in BOOLEAN, NEW loose \in Nat,
         NEW bound, bound = Bind(score, [num |-> 1000 - 200 * loose, den |-> 1], up)
  PROVE  /\ bound \in -1..Full
         /\ bound >= target /\ target > 0 => 200 * Tenth * loose <= Full - target
  <1>1. Tenth \in Nat \ {0} /\ Full = 1000 * Tenth
    BY WritingAssumption DEF Full
  <1>2. PICK left \in Int : left = 1000 - 200 * loose
    OBVIOUS
  <1>3. Tenth * left = Full - 200 * Tenth * loose /\ Tenth * left \in Int
    BY <1>1, <1>2
  <1>4. CASE score = -1 \/ score * 1 <= Tenth * left
    <2>1. bound = score
      BY <1>2, <1>4 DEF Bind
    <2> QED BY <1>1, <1>3, <1>4, <2>1
  <1>5. CASE ~(score = -1 \/ score * 1 <= Tenth * left)
    <2>1. CASE left < 0
      <3>1. bound = 0
        BY <1>2, <1>5, <2>1 DEF Bind
      <3> QED BY <1>1, <3>1
    <2>2. CASE left >= 0
      <3>1. PICK n : n = Rounded([num |-> left, den |-> 1], up)
        OBVIOUS
      <3>2. bound = Tenth * n
        BY <1>2, <1>5, <2>2, <3>1 DEF Bind
      <3>3. n \in 0..1000 /\ 2 * (n * 1) <= 2 * left + 1
        BY <1>2, <2>2, <3>1, RoundedIs
      <3>4. n <= left
        BY <1>2, <3>3
      <3>5. n * Tenth <= left * Tenth /\ 0 <= n * Tenth /\ n * Tenth <= 1000 * Tenth
        BY <1>1, <1>2, <3>3, <3>4, TimesKeeps
      <3>6. bound = n * Tenth /\ left * Tenth = Tenth * left /\ n * Tenth \in Int
        BY <1>1, <1>2, <3>2, <3>3
      <3> QED BY <1>1, <1>3, <3>5, <3>6
    <2> QED BY <1>2, <2>1, <2>2
  <1> QED BY <1>4, <1>5

\* How many sentences state a fact, how many of them cite, and how many citations have no source.
LEMMA CountsAre ==
  ASSUME NEW content \in Body, Written(content), NEW count \in Nat,
         NEW factual, factual = {s \in content.said : Factual(s)}
  PROVE  /\ Cardinality(factual) \in Nat /\ Cardinality(factual \ Uncited(content)) \in Nat
         /\ Cardinality(factual \ Uncited(content)) <= Cardinality(factual)
         /\ Uncited(content) # {} => Cardinality(factual) # 0
         /\ Uncited(content) = {} => factual \ Uncited(content) = factual
         /\ Cardinality(Dangling(content, count)) \in Nat
  <1> DEFINE bare == Uncited(content)
             loose == Dangling(content, count)
  <1>1. IsFiniteSet(factual) /\ bare \in SUBSET factual
    <2>1. factual \in SUBSET content.said /\ bare \in SUBSET factual
      BY DEF Uncited
    <2> QED BY <2>1, FS_Subset DEF Written
  <1> HIDE DEF bare
  <1>2. /\ Cardinality(factual) \in Nat /\ Cardinality(factual \ bare) \in Nat
        /\ Cardinality(factual \ bare) <= Cardinality(factual)
        /\ (bare # {} => Cardinality(factual) # 0)
    <2>1. IsFiniteSet(factual \ bare) /\ Cardinality(factual \ bare) <= Cardinality(factual)
      BY <1>1, FS_Subset
    <2>2. Cardinality(factual) \in Nat /\ Cardinality(factual \ bare) \in Nat
      BY <1>1, <2>1, FS_CardinalityType
    <2>3. bare # {} => Cardinality(factual) # 0
      BY <1>1, FS_EmptySet
    <2> QED BY <2>1, <2>2, <2>3
  <1>3. Cardinality(loose) \in Nat
    <2>1. content.said \in SUBSET Sentence /\ IsFiniteSet(content.said)
      BY DEF Body, Written
    <2>2. IsFiniteSet(CitedIn(content))
      <3> DEFINE f == [s \in content.said |-> s.cites]
      <3>1. IsFiniteSet({f[s] : s \in content.said})
        <4>1. DOMAIN f = content.said
          OBVIOUS
        <4> HIDE DEF f
        <4> QED BY <2>1, <4>1, ImageFinite
      <3>2. \A T \in {f[s] : s \in content.said} : IsFiniteSet(T)
        BY DEF Written
      <3>3. IsFiniteSet(UNION {f[s] : s \in content.said})
        BY <3>1, <3>2, FS_UNION
      <3>4. {f[s] : s \in content.said} = {s.cites : s \in content.said}
        OBVIOUS
      <3> QED BY <3>3, <3>4 DEF CitedIn
    <2>3. IsFiniteSet(content.said \X CitedIn(content))
      BY <2>1, <2>2, FS_Product
    <2>4. loose \in SUBSET (content.said \X CitedIn(content))
      BY DEF Dangling
    <2> QED BY <2>3, <2>4, FS_Subset, FS_CardinalityType
  <1> QED BY <1>2, <1>3 DEF bare

\* The scores a review leaves are scores, and mean what they say.
LEMMA ScoredMean ==
  ASSUME NEW content \in Body, Written(content), NEW count \in Nat, NEW up \in BOOLEAN,
         NEW answer \in [Metrics -> Scores \cup {-1}]
  PROVE  /\ Scored(answer, content, count, up) \in [Metrics -> -1..Full]
         /\ Meant(content, Scored(answer, content, count, up), count)
  <1>1. PICK score : score = Scored(answer, content, count, up)
    OBVIOUS
  <1>2. PICK factual : factual = {s \in content.said : Factual(s)}
    OBVIOUS
  <1>3. /\ Cardinality(factual) \in Nat /\ Cardinality(factual \ Uncited(content)) \in Nat
        /\ Cardinality(factual \ Uncited(content)) <= Cardinality(factual)
        /\ Uncited(content) # {} => Cardinality(factual) # 0
        /\ Uncited(content) = {} => factual \ Uncited(content) = factual
        /\ Cardinality(Dangling(content, count)) \in Nat
    BY <1>2, CountsAre
  <1>4. PICK F \in Nat, K \in Nat, d \in Nat :
          /\ F = Cardinality(factual) /\ K = Cardinality(factual \ Uncited(content))
          /\ d = Cardinality(Dangling(content, count))
    BY <1>3
  <1>5. PICK x, y : x = answer["hallucinationIndex"] /\ y = answer["factConsistency"]
    OBVIOUS
  <1>6. x \in -1..Full /\ y \in -1..Full
    <2>1. {x, y} \subseteq Scores \cup {-1} /\ Scores \subseteq 0..Full
      BY <1>5, WritingAssumption DEF Metrics
    <2>2. Full \in Nat
      BY WritingAssumption DEF Full
    <2>3. \A z \in Scores \cup {-1} : z \in -1..Full
      BY <2>1, <2>2
    <2> QED BY <2>1, <2>3
  <1>7. Target["hallucinationIndex"] \in 0..Full /\ Target["factConsistency"] \in 0..Full
    BY WritingAssumption DEF Metrics
  <1>8. /\ score["factConsistency"] \in -1..Full
        /\ score["factConsistency"] >= Target["factConsistency"] /\ Target["factConsistency"] > 0 =>
             200 * Tenth * d <= Full - Target["factConsistency"]
    <2>1. score["factConsistency"] = Bind(y, [num |-> 1000 - 200 * d, den |-> 1], up)
      BY <1>1, <1>4, <1>5 DEF Scored, Ceilings, Metrics
    <2>2. PICK T \in 0..Full : T = Target["factConsistency"]
      BY <1>7
    <2>3. PICK b : b = score["factConsistency"]
      OBVIOUS
    <2>4. b \in -1..Full /\ (b >= T /\ T > 0 => 200 * Tenth * d <= Full - T)
      BY <1>6, <2>1, <2>3, CostBinds
    <2> QED BY <2>2, <2>3, <2>4
  <1>9. /\ score["hallucinationIndex"] \in -1..Full
        /\ score["hallucinationIndex"] >= Target["hallucinationIndex"] =>
             2 * Target["hallucinationIndex"] * F <= Tenth * (2000 * K + F)
    <2>1. CASE Uncited(content) = {}
      <3>1. score["hallucinationIndex"] = Bind(x, [num |-> 1000, den |-> 1], up)
        BY <1>1, <1>5, <2>1 DEF Scored, Ceilings, Metrics
      <3>2. score["hallucinationIndex"] = Bind(x, [num |-> 1000 * 1, den |-> 1], up)
        BY <3>1
      <3>3. score["hallucinationIndex"] \in -1..Full
        <4>1. 1 \in Nat \ {0} /\ 1 \in Nat /\ 1 <= 1 /\ 0 \in 0..Full
          BY WritingAssumption DEF Full
        <4>2. PICK b : b = score["hallucinationIndex"]
          OBVIOUS
        <4>3. b = Bind(x, [num |-> 1000 * 1, den |-> 1], up)
          BY <3>2, <4>2
        <4>4. b \in -1..Full
          BY <1>6, <4>1, <4>3, ShareBinds
        <4> QED BY <4>2, <4>4
      <3>4. K = F
        BY <1>3, <1>4, <2>1
      <3>5. PICK T \in Nat : T = Target["hallucinationIndex"] /\ T <= 1000 * Tenth
        BY <1>7, WritingAssumption DEF Full
      <3>6. T * F <= (1000 * Tenth) * F
        BY <3>5, TimesKeeps, WritingAssumption
      <3>7. /\ 2 * T * F = 2 * (T * F) /\ Tenth * F \in Nat /\ T * F \in Nat
            /\ Tenth * (2000 * F + F) = 2 * ((1000 * Tenth) * F) + Tenth * F
        BY <3>5, WritingAssumption
      <3>8. 2 * T * F <= Tenth * (2000 * F + F)
        <4>1. PICK a, b, c \in Nat : a = T * F /\ b = (1000 * Tenth) * F /\ c = Tenth * F
          BY <3>5, WritingAssumption
        <4>2. 2 * a <= 2 * b + c
          BY <3>6, <4>1
        <4> QED BY <3>7, <4>1, <4>2
      <3> QED BY <3>3, <3>4, <3>5, <3>8
    <2>2. CASE Uncited(content) # {}
      <3>1. score["hallucinationIndex"] = Bind(x, [num |-> 1000 * K, den |-> F], up)
        BY <1>1, <1>2, <1>4, <1>5, <2>2 DEF Scored, Ceilings, Metrics
      <3>2. F \in Nat \ {0} /\ K <= F
        BY <1>3, <1>4, <2>2
      <3> QED BY <1>6, <1>7, <3>1, <3>2, ShareBinds
    <2> QED BY <2>1, <2>2
  <1>10. Meant(content, score, count)
    BY <1>2, <1>4, <1>8, <1>9 DEF Meant
  <1>11. score \in [Metrics -> -1..Full]
    BY <1>1, <1>8, <1>9 DEF Scored, Metrics
  <1> QED BY <1>1, <1>10, <1>11

-----------------------------------------------------------------------------
(* The material. *)

\* What is made one step at a time, each from the step before.
Stepped(g, start, N, go) == g = [n \in 0..N |-> IF n = 0 THEN start ELSE go[n][g[n - 1]]]

\* What is made one step at a time from the step before it can be made.
LEMMA StepByStep ==
  ASSUME NEW V, NEW start \in V, NEW N \in Nat, NEW go \in [1..N -> [V -> V]]
  PROVE  \E g \in [0..N -> V] : Stepped(g, start, N, go)
  <1> DEFINE T == {k \in Nat : k <= N =>
                     \E g \in [0..k -> V] : g = [n \in 0..k |-> IF n = 0 THEN start ELSE go[n][g[n - 1]]]}
  <1>1. 0 \in T
    <2> DEFINE g == [n \in 0..0 |-> start]
    <2>1. g \in [0..0 -> V] /\ g[0] = start
      OBVIOUS
    <2>3. \A n \in 0..0 : n = 0
      OBVIOUS
    <2>2. g = [n \in 0..0 |-> IF n = 0 THEN start ELSE go[n][g[n - 1]]]
      BY <2>1, <2>3
    <2>4. 0 <= N => \E h \in [0..0 -> V] : h = [n \in 0..0 |-> IF n = 0 THEN start ELSE go[n][h[n - 1]]]
      BY <2>1, <2>2
    <2> QED BY <2>4
  <1>2. ASSUME NEW k \in T PROVE k + 1 \in T
    <2> SUFFICES ASSUME k + 1 <= N
                 PROVE  \E g \in [0..k+1 -> V] : g = [n \in 0..k+1 |-> IF n = 0 THEN start ELSE go[n][g[n - 1]]]
      <3>1. k + 1 \in Nat
        OBVIOUS
      <3> QED BY <3>1, Zenon
    <2>1. PICK g \in [0..k -> V] : g = [n \in 0..k |-> IF n = 0 THEN start ELSE go[n][g[n - 1]]]
      OBVIOUS
    <2> DEFINE h == [n \in 0..k+1 |-> IF n <= k THEN g[n] ELSE go[k + 1][g[k]]]
    <2>2. k \in 0..k /\ k + 1 \in 1..N /\ (k + 1) - 1 = k
      OBVIOUS
    <2>3. go[k + 1][g[k]] \in V
      BY <2>2
    <2>4. h \in [0..k+1 -> V]
      BY <2>3
    <2>5. \A n \in 0..k : h[n] = g[n]
      OBVIOUS
    <2>6. h[k + 1] = go[k + 1][g[k]]
      OBVIOUS
    <2>7. \A n \in 0..k+1 : h[n] = IF n = 0 THEN start ELSE go[n][h[n - 1]]
      <3> HIDE DEF h
      <3> TAKE n \in 0..k+1
      <3>1. CASE n = 0
        <4>1. n \in 0..k
          BY <3>1
        <4> QED BY <2>1, <2>5, <3>1, <4>1
      <3>2. CASE n # 0 /\ n <= k
        <4>1. n \in 0..k /\ n - 1 \in 0..k
          BY <3>2
        <4>2. g[n] = go[n][g[n - 1]]
          BY <2>1, <3>2, <4>1
        <4> QED BY <2>5, <3>2, <4>1, <4>2
      <3>3. CASE n = k + 1
        BY <2>2, <2>5, <2>6, <3>3
      <3> QED BY <3>1, <3>2, <3>3
    <2>8. h = [n \in 0..k+1 |-> h[n]]
      OBVIOUS
    <2> HIDE DEF h
    <2>9. h = [n \in 0..k+1 |-> IF n = 0 THEN start ELSE go[n][h[n - 1]]]
      BY <2>7, <2>8
    <2> QED BY <2>4, <2>9
  <1>3. N \in T
    BY <1>1, <1>2, Induction
  <1> QED BY <1>3 DEF Stepped

\* No page twice.
Distinct(sources) ==
  \A i, j \in 1..Len(sources) : PageOf[sources[i].url] = PageOf[sources[j].url] => i = j

\* Once per page: the first source of each is kept, in order.
LEMMA OncePerPageKeeps ==
  ASSUME NEW sources \in Seq(Source), sources # << >>
  PROVE  /\ OncePerPage(sources) \in Seq(Source) /\ Distinct(OncePerPage(sources))
         /\ Len(OncePerPage(sources)) # 0 /\ OncePerPage(sources)[1] = sources[1]
         /\ \A i \in 1..Len(OncePerPage(sources)) : \E j \in 1..Len(sources) : OncePerPage(sources)[i] = sources[j]
  <1> DEFINE N == Len(sources)
             add(before, n) == IF IsAmong(before, sources[n]) THEN before ELSE Append(before, sources[n])
             V == Seq(Source)
             go == [n \in 1..N |-> [before \in V |-> add(before, n)]]
             some == CHOOSE kept : kept = [n \in 0..N |-> IF n = 0 THEN << >> ELSE add(kept[n - 1], n)]
             Fine(s, n) == /\ s \in V /\ Distinct(s)
                           /\ n # 0 => Len(s) # 0 /\ s[1] = sources[1]
                           /\ n = 0 => s = << >>
                           /\ \A i \in 1..Len(s) : \E j \in 1..n : s[i] = sources[j]
  <1>0. N \in Nat /\ N # 0 /\ \A n \in 1..N : sources[n] \in Source
    OBVIOUS
  <1>1. OncePerPage(sources) = some[N]
    BY DEF OncePerPage
  <1>2. \A n \in 1..N, s \in V : add(s, n) \in V
    BY <1>0
  <1>3. go \in [1..N -> [V -> V]] /\ << >> \in V
    BY <1>2
  <1>4. PICK g : g = [n \in 0..N |-> IF n = 0 THEN << >> ELSE add(g[n - 1], n)]
    <2> HIDE DEF add, go, V, N
    <2>0. \E g \in [0..N -> V] : Stepped(g, << >>, N, go)
      BY <1>0, <1>3, StepByStep
    <2>1. PICK g \in [0..N -> V] : g = [n \in 0..N |-> IF n = 0 THEN << >> ELSE go[n][g[n - 1]]]
      BY <2>0 DEF Stepped
    <2>2. \A n \in 1..N : g[n - 1] \in V
      BY <1>0
    <2>3. \A n \in 1..N : go[n][g[n - 1]] = add(g[n - 1], n)
      BY <2>2 DEF go
    <2>4. \A n \in 0..N : n # 0 => n \in 1..N
      BY <1>0
    <2>5. g = [n \in 0..N |-> IF n = 0 THEN << >> ELSE add(g[n - 1], n)]
      BY <2>1, <2>3, <2>4
    <2> QED BY <2>5
  <1>5. some = [n \in 0..N |-> IF n = 0 THEN << >> ELSE add(some[n - 1], n)]
    BY <1>4
  <1> DEFINE S == {n \in Nat : n <= N => Fine(some[n], n)}
  <1> HIDE DEF some
  <1>6. 0 \in S
    <2>1. some[0] = << >>
      BY <1>0, <1>5
    <2>2. Fine(<< >>, 0)
      BY DEF Distinct
    <2> HIDE DEF Fine
    <2> QED BY <2>1, <2>2
  <1>7. ASSUME NEW n \in S PROVE n + 1 \in S
    <2> SUFFICES ASSUME n + 1 <= N PROVE Fine(some[n + 1], n + 1)
      OBVIOUS
    <2>0. n + 1 \in 0..N /\ n + 1 # 0 /\ (n + 1) - 1 = n /\ n + 1 \in 1..N
      BY <1>0
    <2>1. some[n + 1] = add(some[n], n + 1)
      BY <1>5, <2>0
    <2>2. PICK s : s = some[n] /\ Fine(s, n)
      BY <2>0
    <2> DEFINE new == sources[n + 1]
    <2>3. new \in Source
      BY <1>0, <2>0
    <2>4. CASE IsAmong(s, new)
      <3>1. n # 0
        BY <2>2, <2>4 DEF IsAmong
      <3>2. some[n + 1] = s
        BY <2>1, <2>2, <2>4
      <3>3. Fine(s, n + 1)
        BY <2>2, <3>1
      <3> HIDE DEF Fine
      <3> QED BY <3>2, <3>3
    <2>5. CASE ~IsAmong(s, new)
      <3> DEFINE t == Append(s, new)
      <3>1. some[n + 1] = t
        BY <2>1, <2>2, <2>5
      <3>2. t \in V /\ Len(t) = Len(s) + 1 /\ t[Len(s) + 1] = new /\ \A i \in 1..Len(s) : t[i] = s[i]
        BY <2>2, <2>3
      <3> HIDE DEF t
      <3>3. \A i \in 1..Len(s) : PageOf[s[i].url] # PageOf[new.url]
        BY <2>2, <2>5 DEF IsAmong
      <3>4. Distinct(t)
        <4> SUFFICES ASSUME NEW i \in 1..Len(t), NEW j \in 1..Len(t), PageOf[t[i].url] = PageOf[t[j].url]
                     PROVE  i = j
          BY DEF Distinct
        <4>1. (i \in 1..Len(s) \/ i = Len(s) + 1) /\ (j \in 1..Len(s) \/ j = Len(s) + 1)
          BY <2>2, <3>2
        <4>2. CASE i \in 1..Len(s) /\ j \in 1..Len(s)
          BY <2>2, <3>2, <4>2 DEF Distinct
        <4>3. CASE i = Len(s) + 1 /\ j \in 1..Len(s)
          BY <3>2, <3>3, <4>3
        <4>4. CASE j = Len(s) + 1 /\ i \in 1..Len(s)
          BY <3>2, <3>3, <4>4
        <4> QED BY <4>1, <4>2, <4>3, <4>4
      <3>5. Len(t) # 0 /\ t[1] = sources[1]
        <4>1. CASE n = 0
          BY <2>2, <3>2, <4>1
        <4>2. CASE n # 0
          BY <2>2, <3>2, <4>2
        <4> QED BY <4>1, <4>2
      <3>6. \A i \in 1..Len(t) : \E j \in 1..n+1 : t[i] = sources[j]
        <4> TAKE i \in 1..Len(t)
        <4>1. CASE i \in 1..Len(s)
          <5>1. PICK j \in 1..n : s[i] = sources[j]
            BY <2>2, <4>1
          <5> QED BY <3>2, <4>1, <5>1
        <4>2. CASE i = Len(s) + 1
          BY <3>2, <4>2
        <4>3. i \in 1..Len(s) \/ i = Len(s) + 1
          BY <2>2, <3>2
        <4> QED BY <4>1, <4>2, <4>3
      <3>7. Fine(t, n + 1)
        BY <3>2, <3>4, <3>5, <3>6
      <3> HIDE DEF Fine
      <3> QED BY <3>1, <3>7
    <2> QED BY <2>4, <2>5
  <1>8. Fine(some[N], N)
    <2>1. S \in SUBSET Nat
      OBVIOUS
    <2>2. S = Nat
      <3> HIDE DEF S
      <3> QED BY <1>6, <1>7, <2>1, Induction
    <2> HIDE DEF Fine
    <2> QED BY <1>0, <2>2
  <1> QED BY <1>0, <1>1, <1>8

\* A page the text is numbered by is a source.
LEMMA PageIsSource ==
  ASSUME NEW url \in Urls, NEW origin \in {"analysed", "related", "angle", "evidence"}
  PROVE  /\ FromPage(url, origin) \in Source
         /\ FromPage(url, origin).url = url /\ FromPage(url, origin).origin = origin
  BY WritingAssumption DEF FromPage, Source

\* The longest of the claims' lists of sources can be found.
LEMMA LongestIs ==
  LET longest == {0} \cup {Len(Checked[i].cited) : i \in DOMAIN Checked}
  IN  (CHOOSE n \in longest : \A l \in longest : l <= n) \in Nat
  <1> DEFINE claims == Len(Checked)
             longest == {0} \cup {Len(Checked[i].cited) : i \in DOMAIN Checked}
             S == {k \in Nat : \E m \in Nat : \A i \in 1..k : i <= claims => Len(Checked[i].cited) <= m}
  <1>1. claims \in Nat /\ DOMAIN Checked = 1..claims /\ \A i \in 1..claims : Len(Checked[i].cited) \in Nat
    BY WritingAssumption
  <1>2. 0 \in S
    OBVIOUS
  <1>3. ASSUME NEW k \in S PROVE k + 1 \in S
    <2> SUFFICES \E m \in Nat : \A i \in 1..k+1 : i <= claims => Len(Checked[i].cited) <= m
      <3>1. k + 1 \in Nat
        OBVIOUS
      <3> QED BY <3>1
    <2>1. PICK m \in Nat : \A i \in 1..k : i <= claims => Len(Checked[i].cited) <= m
      OBVIOUS
    <2>2. CASE k + 1 > claims
      <3>1. \A i \in 1..k+1 : i <= claims => Len(Checked[i].cited) <= m
        BY <1>1, <2>1, <2>2
      <3> QED BY <3>1
    <2>3. CASE k + 1 <= claims
      <3> DEFINE l == Len(Checked[k+1].cited)
      <3>1. l \in Nat
        BY <1>1, <2>3
      <3> HIDE DEF l
      <3>2. PICK n \in Nat : n >= m /\ n >= l
        BY <3>1
      <3>3. \A i \in 1..k+1 : i <= claims => Len(Checked[i].cited) <= n
        <4> SUFFICES ASSUME NEW i \in 1..k+1, i <= claims PROVE Len(Checked[i].cited) <= n
          OBVIOUS
        <4>1. CASE i = k + 1
          BY <3>1, <3>2, <4>1 DEF l
        <4>2. CASE i \in 1..k
          <5>1. Len(Checked[i].cited) <= m /\ Len(Checked[i].cited) \in Nat
            BY <1>1, <2>1, <4>2
          <5> QED BY <3>2, <5>1
        <4> QED BY <4>1, <4>2
      <3> QED BY <3>3
    <2> QED BY <1>1, <2>2, <2>3
  <1>4. claims \in S
    <2> HIDE DEF S
    <2>1. S \in SUBSET Nat
      BY DEF S
    <2> QED BY <1>1, <1>2, <1>3, <2>1, Induction
  <1>5. PICK b \in Nat : \A i \in 1..claims : Len(Checked[i].cited) <= b
    <2>1. PICK b \in Nat : \A i \in 1..claims : i <= claims => Len(Checked[i].cited) <= b
      BY <1>4
    <2>2. \A i \in 1..claims : i <= claims
      BY <1>1
    <2>3. \A i \in 1..claims : Len(Checked[i].cited) <= b
      BY <2>1, <2>2
    <2> QED BY <2>3
  <1> DEFINE U == {n \in Nat : \A l \in longest : l <= n}
  <1>6. longest \in SUBSET Nat /\ 0 \in longest
    BY <1>1
  <1>7. b \in U
    BY <1>1, <1>5
  <1> HIDE DEF longest
  <1>8. PICK m \in U : \A n \in U : m <= n
    BY <1>7, Least
  <1>9. m \in longest
    <2> SUFFICES ASSUME m \notin longest PROVE FALSE
      OBVIOUS
    <2>1. m # 0 /\ \A l \in longest : l <= m - 1
      BY <1>6, <1>8
    <2>2. m - 1 \in U
      BY <1>8, <2>1
    <2> QED BY <1>8, <2>2
  <1>10. (CHOOSE n \in longest : \A l \in longest : l <= n) \in longest
    BY <1>8, <1>9
  <1> QED BY <1>6, <1>10 DEF longest

Evidence == {s \in Source : s.origin = "evidence"}

\* The fact-checks' sources are sources.
LEMMA InTurnIs == InTurn \in Seq(Evidence)
  <1> DEFINE claims == Len(Checked)
             longest == {0} \cup {Len(Checked[i].cited) : i \in DOMAIN Checked}
             rounds == CHOOSE n \in longest : \A l \in longest : l <= n
             N == claims * rounds
             cited(n) == Checked[((n - 1) % claims) + 1].cited
             k(n) == ((n - 1) \div claims) + 1
             add(before, n) == IF k(n) <= Len(cited(n)) THEN Append(before, FromPage(cited(n)[k(n)], "evidence"))
                               ELSE before
             V == Seq(Evidence)
             go == [n \in 1..N |-> [before \in V |-> add(before, n)]]
             some == CHOOSE due : due = [n \in 0..N |-> IF n = 0 THEN << >> ELSE add(due[n - 1], n)]
  <1>1. rounds \in Nat /\ claims \in Nat
    BY LongestIs, WritingAssumption
  <1>2. N \in Nat
    <2> HIDE DEF rounds, claims
    <2> QED BY <1>1
  <1>3. InTurn = some[N]
    BY DEF InTurn
  <1>4. \A n \in 1..N, s \in V : add(s, n) \in V
    <2> TAKE n \in 1..N, s \in V
    <2>1. claims # 0
      <3> HIDE DEF rounds, claims
      <3>1. claims = 0 => N = 0
        BY <1>1
      <3> QED BY <1>2, <3>1
    <2>2. ((n - 1) % claims) + 1 \in 1..claims /\ k(n) \in Nat \ {0}
      <3> HIDE DEF N, claims
      <3>1. PICK a \in Nat : a = n - 1
        BY <1>2
      <3>2. PICK c \in Nat \ {0} : c = claims
        BY <1>1, <2>1
      <3>3. a % c \in 0..c-1 /\ a \div c \in Nat
        BY AtLeast
      <3> QED BY <3>1, <3>2, <3>3
    <2>3. cited(n) \in Seq(Urls)
      <3>1. PICK i \in 1..claims : i = ((n - 1) % claims) + 1
        BY <2>2
      <3>2. Checked \in Seq([says : SUBSET Terms, cited : Seq(Urls)])
        BY WritingAssumption
      <3>3. Checked[i] \in [says : SUBSET Terms, cited : Seq(Urls)]
        BY <3>2, ElementOfSeq
      <3>4. Checked[i].cited \in Seq(Urls)
        BY <3>3
      <3> QED BY <3>1, <3>4
    <2>4. CASE k(n) <= Len(cited(n))
      <3> HIDE DEF cited, k
      <3>1. cited(n)[k(n)] \in Urls
        BY <2>2, <2>3, <2>4 DEF k
      <3>2. FromPage(cited(n)[k(n)], "evidence") \in Evidence
        BY <3>1, PageIsSource DEF Evidence
      <3> QED BY <2>4, <3>2
    <2>5. CASE ~(k(n) <= Len(cited(n)))
      BY <2>5
    <2> HIDE DEF add
    <2> QED BY <2>4, <2>5
  <1> HIDE DEF add, N, V
  <1>5. go \in [1..N -> [V -> V]] /\ << >> \in V
    <2>1. << >> \in V
      BY DEF V
    <2> QED BY <1>4, <2>1
  <1>6. \E g : g = [n \in 0..N |-> IF n = 0 THEN << >> ELSE add(g[n - 1], n)]
    <2> HIDE DEF go
    <2>0. \E g \in [0..N -> V] : Stepped(g, << >>, N, go)
      BY <1>2, <1>5, StepByStep
    <2>1. PICK g \in [0..N -> V] : g = [n \in 0..N |-> IF n = 0 THEN << >> ELSE go[n][g[n - 1]]]
      BY <2>0 DEF Stepped
    <2>2. \A n \in 1..N : g[n - 1] \in V
      BY <1>2
    <2>3. \A n \in 1..N : go[n][g[n - 1]] = add(g[n - 1], n)
      BY <2>2 DEF go
    <2>4. \A n \in 0..N : n # 0 => n \in 1..N
      BY <1>2
    <2>5. g = [n \in 0..N |-> IF n = 0 THEN << >> ELSE add(g[n - 1], n)]
      BY <2>1, <2>3, <2>4
    <2> QED BY <2>5
  <1>7. some = [n \in 0..N |-> IF n = 0 THEN << >> ELSE add(some[n - 1], n)]
    BY <1>6
  <1> DEFINE S == {n \in Nat : n <= N => some[n] \in V}
  <1> HIDE DEF some
  <1>8. 0 \in S
    <2>1. some[0] = << >>
      BY <1>2, <1>7
    <2> QED BY <1>5, <2>1
  <1>9. ASSUME NEW n \in S PROVE n + 1 \in S
    <2> SUFFICES ASSUME n + 1 <= N PROVE some[n + 1] \in V
      OBVIOUS
    <2>1. n + 1 \in 0..N /\ n + 1 # 0 /\ (n + 1) - 1 = n /\ n + 1 \in 1..N
      BY <1>2
    <2>2. some[n + 1] = add(some[n], n + 1) /\ some[n] \in V
      BY <1>2, <1>7, <2>1
    <2> QED BY <1>4, <2>1, <2>2
  <1>10. N \in S
    <2>1. S \in SUBSET Nat
      OBVIOUS
    <2> HIDE DEF S
    <2> QED BY <1>2, <1>8, <1>9, <2>1, Induction
  <1> QED BY <1>2, <1>3, <1>10 DEF V

\* The angles' sources are sources, each behind an angle that stands.
LEMMA AngleSourcesStand ==
  ASSUME NEW angles \in SUBSET Proposed
  PROVE  /\ AngleSources(angles) \in Seq(Source)
         /\ \A i \in 1..Len(AngleSources(angles)) : \E angle \in angles :
              Kept(angle) /\ AngleSources(angles)[i].url \in Supporting(angle)
  <1> DEFINE kept == {b \in angles : Kept(b)}
             pages == UNION {Supporting(a) : a \in kept}
             S == {FromPage(url, "angle") : url \in pages}
  <1>1. pages \subseteq Urls /\ IsFiniteSet(pages)
    <2>1. pages \in SUBSET Urls
      BY WritingAssumption DEF Supporting
    <2> HIDE DEF pages
    <2> QED BY <2>1, WritingAssumption, FS_Subset
  <1>2. S \subseteq Source /\ \A s \in S : \E angle \in angles : Kept(angle) /\ s.url \in Supporting(angle)
    <2> SUFFICES ASSUME NEW url \in pages
                 PROVE  /\ FromPage(url, "angle") \in Source
                        /\ \E angle \in angles : Kept(angle) /\ FromPage(url, "angle").url \in Supporting(angle)
      OBVIOUS
    <2>1. FromPage(url, "angle") \in Source /\ FromPage(url, "angle").url = url
      BY <1>1, PageIsSource
    <2> QED BY <2>1
  <1>3. IsFiniteSet(S)
    <2> DEFINE f == [url \in pages |-> FromPage(url, "angle")]
    <2>1. S = {f[url] : url \in pages}
      OBVIOUS
    <2>2. DOMAIN f = pages
      OBVIOUS
    <2> HIDE DEF f, pages, S
    <2> QED BY <1>1, <2>1, <2>2, ImageFinite
  <1>4. AngleSources(angles) = SetToSeq(S)
    BY DEF AngleSources
  <1> HIDE DEF S
  <1>5. PICK f \in [1..Cardinality(S) -> S] : AngleSources(angles) = f
    <2>1. Cardinality(S) \in Nat /\ ExistsBijection(1..Cardinality(S), S)
      BY <1>3, FS_CardinalityType
    <2>2. PICK f \in [1..Cardinality(S) -> S] : IsInjective(f)
      BY <2>1 DEF ExistsBijection, Bijection, Injection, IsInjective
    <2> QED BY <1>4, <2>2 DEF SetToSeq
  <1>6. Cardinality(S) \in Nat
    BY <1>3, FS_CardinalityType
  <1>7. f \in Seq(Source) /\ Len(f) = Cardinality(S)
    BY <1>2, <1>5, <1>6
  <1> QED BY <1>2, <1>5, <1>7

\* The related news are pages to be found.
LEMMA RelatedAreUrls ==
  ASSUME NEW corpus \in Corpus, NEW web \in Web, NEW related \in RelatedNews(corpus, web)
  PROVE  related \in Seq(Urls)
  <1>1. PICK read \in SUBSET Shortlistable(corpus \cup web) : related \in Ordered(read)
    BY DEF RelatedNews
  <1>2. read \in SUBSET Urls
    BY WritingAssumption DEF Shortlistable, Corpus, Web
  <1>3. IsFiniteSet(read) /\ Cardinality(read) \in Nat
    BY <1>2, WritingAssumption, FS_Subset, FS_CardinalityType
  <1>4. related \in [1..Cardinality(read) -> read]
    BY <1>1 DEF Ordered, SetToSeqs
  <1> QED BY <1>2, <1>3, <1>4

\* The sources: the analysed article is the first, no page is twice, and those
\* that stand behind an angle are its.
LEMMA BuiltSources ==
  ASSUME NEW text \in SUBSET Terms, NEW related \in Seq(Urls), NEW angles \in SUBSET Proposed,
         NEW built, built = BuildSources(text, related, angles)
  PROVE  /\ built \in Seq(Source) /\ Distinct(built) /\ Len(built) # 0 /\ built[1].url = Own
         /\ \A i \in 1..Len(built) : built[i].origin = "angle" =>
              \E angle \in angles : Kept(angle) /\ built[i].url \in Supporting(angle)
  <1> DEFINE own == [url |-> Own, origin |-> "analysed", text |-> text]
             news == [i \in DOMAIN related |-> FromPage(related[i], "related")]
             behind == AngleSources(angles)
             list == <<own>> \o news \o behind
             others == OncePerPage(list)
             longer == others \o InTurn
             all == OncePerPage(longer)
             Stands(s) == s.origin = "angle" => \E angle \in angles : Kept(angle) /\ s.url \in Supporting(angle)
  <1>1. own \in Source /\ own.url = Own /\ own.origin = "analysed"
    BY WritingAssumption DEF Source
  <1>2. news \in Seq(Source) /\ \A i \in 1..Len(news) : news[i].origin = "related"
    <2>1. \A i \in DOMAIN related : related[i] \in Urls
      OBVIOUS
    <2>2. \A i \in DOMAIN related : FromPage(related[i], "related") \in Source /\ FromPage(related[i], "related").origin = "related"
      BY <2>1, PageIsSource
    <2>3. DOMAIN related = 1..Len(related) /\ Len(related) \in Nat
      OBVIOUS
    <2> QED BY <2>2, <2>3
  <1>3. behind \in Seq(Source) /\ \A i \in 1..Len(behind) : Stands(behind[i])
    BY AngleSourcesStand
  <1> HIDE DEF own, news, behind
  <1>4. list \in Seq(Source) /\ list # << >> /\ list[1] = own /\ \A i \in 1..Len(list) : Stands(list[i])
    <2>1. list \in Seq(Source) /\ Len(list) = 1 + Len(news) + Len(behind)
          /\ \A i \in 1..Len(list) : list[i] = IF i = 1 THEN own
                                               ELSE IF i <= 1 + Len(news) THEN news[i - 1]
                                               ELSE behind[i - 1 - Len(news)]
      BY <1>1, <1>2, <1>3
    <2>2. Len(news) \in Nat /\ Len(behind) \in Nat
      BY <1>2, <1>3
    <2>3. list[1] = own /\ list # << >>
      BY <2>1, <2>2
    <2>4. ASSUME NEW i \in 1..Len(list) PROVE Stands(list[i])
      <3> HIDE DEF list
      <3>1. CASE i = 1
        BY <1>1, <2>1, <3>1
      <3>2. CASE i # 1 /\ i <= 1 + Len(news)
        <4>1. i - 1 \in 1..Len(news) /\ list[i] = news[i - 1]
          BY <2>1, <2>2, <3>2
        <4> QED BY <1>2, <4>1
      <3>3. CASE i # 1 /\ ~(i <= 1 + Len(news))
        <4>1. i - 1 - Len(news) \in 1..Len(behind) /\ list[i] = behind[i - 1 - Len(news)]
          BY <2>1, <2>2, <3>3
        <4> HIDE DEF Stands
        <4> QED BY <1>3, <4>1
      <3> QED BY <3>1, <3>2, <3>3
    <2> QED BY <2>1, <2>3, <2>4
  <1> HIDE DEF list, Stands
  <1>5. /\ others \in Seq(Source) /\ Len(others) # 0 /\ others[1] = own
        /\ \A i \in 1..Len(others) : Stands(others[i])
    <2>1. /\ others \in Seq(Source) /\ Len(others) # 0 /\ others[1] = list[1]
          /\ \A i \in 1..Len(others) : \E j \in 1..Len(list) : others[i] = list[j]
      BY <1>4, OncePerPageKeeps
    <2> HIDE DEF others
    <2> QED BY <1>4, <2>1
  <1> HIDE DEF others
  <1>6. longer \in Seq(Source) /\ longer # << >> /\ longer[1] = own /\ \A i \in 1..Len(longer) : Stands(longer[i])
    <2>1. InTurn \in Seq(Source) /\ \A i \in 1..Len(InTurn) : InTurn[i].origin = "evidence"
      BY InTurnIs DEF Evidence
    <2>2. longer \in Seq(Source) /\ Len(longer) = Len(others) + Len(InTurn)
          /\ \A i \in 1..Len(longer) : longer[i] = IF i <= Len(others) THEN others[i] ELSE InTurn[i - Len(others)]
      BY <1>5, <2>1
    <2>3. Len(others) \in Nat \ {0} /\ Len(InTurn) \in Nat
      BY <1>5, <2>1
    <2>4. longer[1] = own /\ longer # << >>
      BY <1>5, <2>2, <2>3
    <2>5. ASSUME NEW i \in 1..Len(longer) PROVE Stands(longer[i])
      <3> HIDE DEF longer
      <3>1. CASE i <= Len(others)
        BY <1>5, <2>2, <2>3, <3>1
      <3>2. CASE ~(i <= Len(others))
        <4>1. i - Len(others) \in 1..Len(InTurn) /\ longer[i] = InTurn[i - Len(others)]
          BY <2>2, <2>3, <3>2
        <4> QED BY <2>1, <4>1 DEF Stands
      <3> QED BY <3>1, <3>2
    <2> QED BY <2>2, <2>4, <2>5
  <1> HIDE DEF longer
  <1>7. /\ all \in Seq(Source) /\ Distinct(all) /\ Len(all) # 0 /\ all[1] = own
        /\ \A i \in 1..Len(all) : Stands(all[i])
    <2>1. /\ all \in Seq(Source) /\ Distinct(all) /\ Len(all) # 0 /\ all[1] = longer[1]
          /\ \A i \in 1..Len(all) : \E j \in 1..Len(longer) : all[i] = longer[j]
      BY <1>6, OncePerPageKeeps
    <2> HIDE DEF all
    <2> QED BY <1>6, <2>1
  <1> HIDE DEF all
  <1>8. PICK k \in 1..Len(all) : built = SubSeq(all, 1, k)
    <2>1. built = SubSeq(all, 1, IF Len(all) > Len(others) + EvidenceMax THEN Len(others) + EvidenceMax ELSE Len(all))
      BY DEF BuildSources, all, longer, others, list, own, news, behind
    <2>2. EvidenceMax \in Nat /\ Len(all) \in Nat \ {0} /\ Len(others) \in Nat \ {0}
      BY <1>5, <1>7, WritingAssumption
    <2> QED BY <2>1, <2>2
  <1>9. built \in Seq(Source) /\ Len(built) = k /\ \A i \in 1..Len(built) : i \in 1..Len(all) /\ built[i] = all[i]
    BY <1>7, <1>8
  <1>10. Distinct(built)
    BY <1>7, <1>9 DEF Distinct
  <1>11. Len(built) # 0 /\ built[1].url = Own
    BY <1>1, <1>7, <1>8, <1>9
  <1>12. \A i \in 1..Len(built) : Stands(built[i])
    BY <1>7, <1>9
  <1> QED BY <1>9, <1>10, <1>11, <1>12 DEF Stands

\* What a prompt holds of them.
LEMMA FittedSources ==
  ASSUME NEW sources \in Seq(Source), Distinct(sources), Len(sources) # 0, sources[1].url = Own,
         NEW angles,
         \A i \in 1..Len(sources) : sources[i].origin = "angle" =>
           \E angle \in angles : Kept(angle) /\ sources[i].url \in Supporting(angle),
         NEW room \in Room, NEW fit, fit = FitExcerpts(sources, room)
  PROVE  fit \in Seq(Source) /\ Numbered(fit) /\ Backed(fit, angles)
  <1>1. room \in Nat \ {0}
    BY WritingAssumption
  <1>2. PICK k \in 1..Len(sources) : fit = SubSeq(sources, 1, k)
    BY <1>1 DEF FitExcerpts
  <1>3. fit \in Seq(Source) /\ Len(fit) = k /\ \A i \in 1..Len(fit) : i \in 1..Len(sources) /\ fit[i] = sources[i]
    BY <1>2
  <1>4. \A i, j \in 1..Len(fit) : PageOf[fit[i].url] = PageOf[fit[j].url] => i = j
    BY <1>3 DEF Distinct
  <1>5. 1 \in 1..Len(fit) /\ fit[1].url = Own
    BY <1>2, <1>3
  <1>6. \A i \in 1..Len(fit) : fit[i].url = Own <=> i = 1
    BY <1>4, <1>5
  <1>7. Backed(fit, angles)
    <2>0. DOMAIN fit = 1..Len(fit)
      BY <1>3
    <2> SUFFICES ASSUME NEW i \in 1..Len(fit), fit[i].origin = "angle"
                 PROVE  \E angle \in angles :
                          /\ angle.check = "TRUE" /\ fit[i].url \in angle.supported
                          /\ Cardinality({Outlet[url] : url \in angle.supported} \ {Outlet[Own]}) >= AngleDomains
      BY <2>0 DEF Backed
    <2>1. PICK angle \in angles : Kept(angle) /\ fit[i].url \in Supporting(angle)
      BY <1>3
    <2>2. {Outlet[url] : url \in Supporting(angle)} = {Outlet[url] : url \in angle.supported} \ {Outlet[Own]}
      BY DEF Supporting
    <2> QED BY <2>1, <2>2 DEF Kept, Supporting
  <1> QED BY <1>3, <1>4, <1>6, <1>7 DEF Numbered

-----------------------------------------------------------------------------
(* The steps keep the invariant. *)

\* A new draft has no text and no source.
LEMMA WritingStarts ==
  ASSUME Init PROVE WritingInv
  <1>1. PICK edition \in Editions : draft = NewDraft(edition)
    BY DEF Init
  <1>2. draft = [edition |-> edition, sources |-> << >>, angles |-> {}, content |-> NoBody,
                 review |-> NoReview, revisions |-> << >>, error |-> FALSE]
    BY <1>1 DEF NewDraft
  <1>3. step = [kind |-> "generating", at |-> "finding", round |-> 0, rounds |-> 0] /\ credit = << >>
    BY DEF Init, Idle
  <1>4. draft \in ADraft
    BY <1>2, EmptyText, WritingAssumption DEF ADraft
  <1>5. step \in AStep
    BY <1>3 DEF AStep
  <1>6. Numbered(draft.sources) /\ Backed(draft.sources, draft.angles)
    BY <1>2 DEF Numbered, Backed
  <1>7. Traced(draft.content, draft.sources, draft.revisions)
    BY <1>2, EmptyText DEF Traced
  <1>8. Fits(draft.content, draft.review, Len(draft.sources))
    BY <1>2, UnreviewedFits
  <1>9. Handed(draft.sources, draft.revisions, credit)
    BY <1>2 DEF Handed
  <1>10. Asked(draft, step)
    BY <1>2, <1>3 DEF Asked
  <1>11. credit \in Seq(SUBSET (Models \cup {"person"})) /\ Len(credit) = Len(draft.revisions)
    BY <1>2, <1>3
  <1>12. draft.revisions = << >> /\ draft.content = NoBody /\ draft.review = NoReview
    BY <1>2
  <1> QED BY <1>3, <1>4, <1>5, <1>6, <1>7, <1>8, <1>9, <1>10, <1>11, <1>12 DEF WritingInv, Good

\* The material gathered is numbered, and an angle's sources are behind it.
LEMMA GatherKeeps ==
  ASSUME WritingInv, Gather PROVE WritingInv'
  <1> USE DEF WritingInv
  <1>1. PICK trending \in BOOLEAN, bodyRead \in BOOLEAN, corpus \in Corpus, web \in Web,
             screen \in {"down", "refused", "fine"}, room \in Room :
          \E related \in RelatedNews(corpus, web), angles \in Angles(draft.edition, trending, screen) :
            draft' = [draft EXCEPT
              !.sources = FitExcerpts(BuildSources(ArticleText(bodyRead), related, angles), room),
              !.angles = angles]
    BY DEF Gather
  <1>2. PICK related \in RelatedNews(corpus, web), angles \in Angles(draft.edition, trending, screen) :
          draft' = [draft EXCEPT
            !.sources = FitExcerpts(BuildSources(ArticleText(bodyRead), related, angles), room),
            !.angles = angles]
    BY <1>1
  <1>3. angles \in SUBSET Proposed
    BY DEF Angles
  <1>4. ArticleText(bodyRead) \in SUBSET Terms
    BY WritingAssumption DEF ArticleText
  <1>5. related \in Seq(Urls)
    BY RelatedAreUrls
  <1>6. PICK built : built = BuildSources(ArticleText(bodyRead), related, angles)
    OBVIOUS
  <1>7. PICK fit : fit = FitExcerpts(built, room)
    OBVIOUS
  <1>8. /\ built \in Seq(Source) /\ Distinct(built) /\ Len(built) # 0 /\ built[1].url = Own
        /\ \A i \in 1..Len(built) : built[i].origin = "angle" =>
             \E angle \in angles : Kept(angle) /\ built[i].url \in Supporting(angle)
    BY <1>3, <1>4, <1>5, <1>6, BuiltSources
  <1>9. fit \in Seq(Source) /\ Numbered(fit) /\ Backed(fit, angles)
    BY <1>7, <1>8, FittedSources
  <1>10. draft' = [draft EXCEPT !.sources = fit, !.angles = angles]
    BY <1>2, <1>6, <1>7
  <1>11. draft \in ADraft /\ step \in AStep /\ step.at = "finding" /\ draft.revisions = << >>
         /\ draft.content = NoBody /\ draft.review = NoReview /\ Len(credit) = 0
         /\ credit \in Seq(SUBSET (Models \cup {"person"}))
    BY DEF Gather, Good
  <1>12. draft' \in ADraft /\ draft'.sources = fit /\ draft'.angles = angles
         /\ draft'.revisions = << >> /\ draft'.content = NoBody /\ draft'.review = NoReview
    BY <1>3, <1>9, <1>10, <1>11 DEF ADraft
  <1>13. step' = [step EXCEPT !.at = "writing"] /\ credit' = credit
    BY DEF Gather
  <1>14. step' \in AStep /\ step'.at = "writing"
    BY <1>11, <1>13 DEF AStep
  <1>15. Traced(NoBody, fit, << >>) /\ Fits(NoBody, NoReview, Len(fit))
    BY EmptyText, UnreviewedFits DEF Traced
  <1>16. Handed(fit, << >>, credit')
    BY DEF Handed
  <1>17. Asked(draft', step')
    BY <1>12, <1>14 DEF Asked
  <1> HIDE DEF WritingInv
  <1>18. Good(draft', step', credit')
    BY <1>9, <1>11, <1>12, <1>13, <1>14, <1>15, <1>16, <1>17 DEF Good
  <1> QED BY <1>18 DEF WritingInv

\* A step that ends badly or begins leaves the text, its review and its history.
LEMMA TextStays ==
  ASSUME NEW d, NEW st, NEW hands, Good(d, st, hands), NEW e \in BOOLEAN, NEW new \in AStep,
         new.at \notin {"finding", "writing"},
         new.at \in {"reviewing", "rewriting"} => new.kind \in {"reviewing", "rewriting"} /\ d.revisions # << >>,
         e = TRUE \/ new # Idle
  PROVE  Good([d EXCEPT !.error = e], new, hands)
  <1>1. PICK f : f = [d EXCEPT !.error = e]
    OBVIOUS
  <1>2. d \in ADraft
    BY DEF Good
  <1>3. /\ f \in ADraft /\ f.sources = d.sources /\ f.angles = d.angles /\ f.content = d.content
        /\ f.review = d.review /\ f.revisions = d.revisions /\ f.error = e
    BY <1>1, <1>2 DEF ADraft
  <1>4. Asked(f, new)
    BY <1>3 DEF Asked
  <1>5. Good(f, new, hands)
    BY <1>3, <1>4 DEF Good
  <1> QED BY <1>1, <1>5

\* A failure leaves the text and says so.
LEMMA FailuresKeep ==
  ASSUME WritingInv, WriteFails \/ ReviewFails \/ RewriteFails PROVE WritingInv'
  <1>1. draft' = [draft EXCEPT !.error = TRUE] /\ step' = Idle /\ credit' = credit
    BY DEF WriteFails, ReviewFails, RewriteFails, Ended
  <1>2. Idle \in AStep /\ Idle.at = "idle"
    BY DEF Idle, AStep
  <1>3. Good([draft EXCEPT !.error = TRUE], Idle, credit)
    BY <1>2, TextStays DEF WritingInv
  <1> QED BY <1>1, <1>3 DEF WritingInv

\* A review or a rewrite that starts has a text to work on.
LEMMA StartsKeep ==
  ASSUME WritingInv, StartReview \/ StartRewrite PROVE WritingInv'
  <1>1. draft' = [draft EXCEPT !.error = FALSE] /\ credit' = credit
    BY DEF StartReview, StartRewrite
  <1>2. step' \in AStep /\ step' # Idle /\ step'.at \notin {"finding", "writing"}
        /\ (step'.at \in {"reviewing", "rewriting"} => step'.kind \in {"reviewing", "rewriting"})
    <2>1. CASE StartReview
      BY <2>1 DEF StartReview, Idle, AStep
    <2>2. CASE StartRewrite
      <3>1. PICK rounds \in 1..MaxRounds : step' = [kind |-> "rewriting", at |-> "rewriting", round |-> 1, rounds |-> rounds]
        BY <2>2 DEF StartRewrite
      <3>2. rounds \in Nat
        BY WritingAssumption
      <3> QED BY <3>1, <3>2 DEF Idle, AStep
    <2> QED BY <2>1, <2>2
  <1>3. PICK new : new = step'
    OBVIOUS
  <1>a. draft.revisions # << >>
    BY DEF StartReview, StartRewrite, HasText, WritingInv, Good
  <1>4. Good([draft EXCEPT !.error = FALSE], new, credit)
    BY <1>2, <1>3, <1>a, TextStays DEF WritingInv
  <1> QED BY <1>1, <1>3, <1>4 DEF WritingInv

Becomes(f, d, content, review, news) ==
  f = [d EXCEPT !.content = content, !.review = review, !.revisions = news]

\* A revision that can be traced, under a review of its text, keeps the invariant.
LEMMA RevisedKeeps ==
  ASSUME NEW d, NEW st, NEW hands, Good(d, st, hands),
         NEW content \in Body,
         NEW reason \in {"generated", "rewritten", "corrected", "edited", "restored"},
         NEW model \in Models \cup {"person"},
         NEW news, Grown(d, content, reason, model, news),
         NEW hand \in SUBSET (Models \cup {"person"}),
         reason = "generated" <=> d.revisions = << >>,
         d.revisions = << >> => model = "writer",
         reason = "restored" => \E k \in 1..Len(d.revisions) : d.revisions[k].content = content,
         Traced(content, d.sources, news),
         hand = HandsOf(news),
         NEW review \in AReview, Fits(content, review, Len(d.sources)),
         NEW f, Becomes(f, d, content, review, news),
         NEW new \in AStep, new.at \notin {"finding", "writing"},
         new.at \in {"reviewing", "rewriting"} => new.kind \in {"reviewing", "rewriting"},
         reason = "rewritten" => new # Idle
  PROVE  Good(f, new, Append(hands, hand))
  <1>1. /\ d \in ADraft /\ hands \in Seq(SUBSET (Models \cup {"person"})) /\ Len(hands) = Len(d.revisions)
        /\ Numbered(d.sources) /\ Backed(d.sources, d.angles)
        /\ Fits(d.content, d.review, Len(d.sources)) /\ Handed(d.sources, d.revisions, hands)
        /\ d.revisions # << >> => d.revisions[Len(d.revisions)].content = d.content
    BY DEF Good
  <1>2. /\ news \in Seq(Revision) /\ Len(news) = Len(d.revisions) + 1
        /\ news[Len(d.revisions) + 1].content = content /\ news[Len(d.revisions) + 1].reason = reason
    BY DEF Grown
  <1>3. /\ f \in ADraft /\ f.sources = d.sources /\ f.angles = d.angles
        /\ f.content = content /\ f.review = review /\ f.revisions = news
    BY <1>1, <1>2 DEF ADraft, Becomes
  <1>4. Handed(d.sources, news, Append(hands, hand))
    BY <1>1, RevisedHands
  <1>5. Len(d.revisions) \in Nat
    BY <1>1 DEF ADraft
  <1>6. /\ Append(hands, hand) \in Seq(SUBSET (Models \cup {"person"}))
        /\ Len(Append(hands, hand)) = Len(news) /\ news # << >> /\ news[Len(news)].content = content
    BY <1>1, <1>2, <1>5
  <1>7. Asked(f, new)
    <2>1. news[Len(news)].reason = reason
      BY <1>2
    <2> QED BY <1>3, <1>6, <2>1 DEF Asked
  <1> QED BY <1>1, <1>3, <1>4, <1>6, <1>7 DEF Good

\* What a draft becomes when it is revised.
LEMMA RevisedDraft ==
  ASSUME NEW d \in ADraft, NEW content, NEW reason, NEW model,
         NEW news, news = Revise(d, content, reason, model).revisions
  PROVE  Becomes(Revise(d, content, reason, model), d, content, NoReview, news)
  <1> DEFINE revs == Append(KeepReview(d), [content |-> content, reason |-> reason, model |-> model, review |-> NoReview])
  <1>1. Revise(d, content, reason, model) = [d EXCEPT !.content = content, !.review = NoReview, !.revisions = revs]
    BY DEF Revise
  <1> HIDE DEF revs
  <1>2. Revise(d, content, reason, model).revisions = revs
    BY <1>1 DEF ADraft
  <1> QED BY <1>1, <1>2 DEF Becomes

\* The first text cites its sources, and what it states is what was generated.
LEMMA WriteKeeps ==
  ASSUME WritingInv, Write PROVE WritingInv'
  <1>0. /\ draft \in ADraft /\ draft.revisions = << >> /\ Len(credit) = Len(draft.revisions)
        /\ credit \in Seq(SUBSET (Models \cup {"person"})) /\ Good(draft, step, credit)
    BY DEF WritingInv, Good, Write
  <1>1. PICK answer \in Drafted :
          draft' = Revise(draft, WithSafeMessaging(Check(answer, Len(draft.sources)), draft.edition, StoryIsGrave), "generated", "writer")
    BY DEF Write, Ended
  <1>2. step' = Idle /\ credit' = Append(credit, {"writer"})
    <2>1. credit = << >>
      BY <1>0
    <2> QED BY <2>1 DEF Write, Ended, Credited
  <1>3. PICK text : text = WithSafeMessaging(Check(answer, Len(draft.sources)), draft.edition, StoryIsGrave)
    OBVIOUS
  <1>4. PICK count \in Nat : count = Len(draft.sources)
    BY <1>0 DEF ADraft
  <1>5. answer \in Body /\ Written(answer)
    BY WritingAssumption DEF Written
  <1>6. text \in Body /\ Written(text) /\ CitedIn(text) \subseteq 1..count
    BY <1>3, <1>4, <1>5, Checks
  <1>7. PICK news : news = Revise(draft, text, "generated", "writer").revisions
    OBVIOUS
  <1>8. "writer" \in Models \cup {"person"} /\ {"writer"} \in SUBSET (Models \cup {"person"})
    BY DEF Models
  <1>9. Grown(draft, text, "generated", "writer", news)
    BY <1>0, <1>6, <1>7, <1>8, RevisedRevisions
  <1>10. {"writer"} = HandsOf(news)
    BY <1>0, <1>9, WriterHand
  <1>11. Traced(text, draft.sources, news)
    <2>1. Len(draft.revisions) = 0
      BY <1>0
    <2>2. 1 \in DOMAIN news /\ news[1].content = text /\ news[1].reason = "generated"
      BY <1>9, <2>1 DEF Grown
    <2>3. FiguresIn(text) \subseteq StatedIn(news)
      BY <2>2 DEF StatedIn
    <2> QED BY <1>4, <1>6, <2>3 DEF Traced
  <1>12. PICK f : f = draft' /\ Becomes(f, draft, text, NoReview, news)
    <2>1. draft' = Revise(draft, text, "generated", "writer")
      BY <1>1, <1>3
    <2> QED BY <1>0, <1>7, <2>1, RevisedDraft
  <1>13. Idle \in AStep /\ Idle.at = "idle"
    BY DEF Idle, AStep
  <1>14. Fits(text, NoReview, Len(draft.sources)) /\ NoReview \in AReview
    BY UnreviewedFits, EmptyText
  <1>15. Good(f, Idle, Append(credit, {"writer"}))
    BY <1>0, <1>6, <1>8, <1>9, <1>10, <1>11, <1>12, <1>13, <1>14, RevisedKeeps
  <1> QED BY <1>2, <1>12, <1>15 DEF WritingInv

\* A rewrite that breaks no rule is a text that cites its sources and brings no figure.
LEMMA RewriteReads ==
  ASSUME NEW d \in ADraft, NEW answer \in Body, Written(answer),
         NEW text, text = RewriteRead(answer, d), text # NoBody
  PROVE  /\ text \in Body /\ Written(text) /\ CitedIn(text) \subseteq 1..Len(d.sources)
         /\ FiguresIn(text) \subseteq FiguresIn(d.content) \cup SourceFigures(d.sources)
  <1>1. PICK checked : checked = WithSafeMessaging(Check(answer, Len(d.sources)), d.edition, ConcernsSuicide(d.content))
    OBVIOUS
  <1>2. text = checked /\ ~FigureProblem(d.content, checked, SourceFigures(d.sources))
    BY <1>1 DEF RewriteRead
  <1>3. Len(d.sources) \in Nat
    BY DEF ADraft
  <1>4. checked \in Body /\ Written(checked) /\ CitedIn(checked) \subseteq 1..Len(d.sources)
    BY <1>1, <1>3, Checks
  <1> QED BY <1>2, <1>4 DEF FigureProblem

\* The figures of the current text come from where those of each do, and stay so.
LEMMA NoNewFigures ==
  ASSUME NEW d, NEW st, NEW hands, Good(d, st, hands),
         NEW content, NEW reason, NEW model, NEW news, Grown(d, content, reason, model, news),
         NEW text, Written(text),
         FiguresIn(text) \subseteq FiguresIn(d.content) \cup SourceFigures(d.sources),
         CitedIn(text) \subseteq CitedIn(d.content) \cup 1..Len(d.sources)
  PROVE  Traced(text, d.sources, news)
  <1>1. Traced(d.content, d.sources, d.revisions) /\ d.revisions \in Seq(Revision)
    BY DEF Good, ADraft
  <1>2. Longer(d.revisions, news) /\ news \in Seq(Revision)
    BY <1>1 DEF Grown, Longer
  <1>3. Traced(d.content, d.sources, news)
    BY <1>1, <1>2, StillTraced
  <1> QED BY <1>3 DEF Traced

\* A rewrite that breaks a rule leaves the text; one that does not brings no figure.
LEMMA RewriteKeeps ==
  ASSUME WritingInv, Rewrite PROVE WritingInv'
  <1>0. /\ draft \in ADraft /\ draft.revisions # << >> /\ Len(credit) = Len(draft.revisions)
        /\ credit \in Seq(SUBSET (Models \cup {"person"})) /\ Good(draft, step, credit)
        /\ Handed(draft.sources, draft.revisions, credit) /\ step \in AStep
        /\ draft.content \in Body /\ draft.revisions \in Seq(Revision)
    BY DEF WritingInv, Good, Rewrite, Asked, ADraft
  <1>1. PICK answer \in Redrafted, keepsLine \in BOOLEAN :
          LET line == [answer EXCEPT !.rendered = IF keepsLine THEN draft.content.rendered ELSE 0,
                                     !.bare = IF keepsLine THEN draft.content.bare ELSE 0]
              rewritten == RewriteRead(line, draft)
          IN IF rewritten = NoBody
             THEN Ended([draft EXCEPT !.error = TRUE]) /\ UNCHANGED credit
             ELSE /\ draft' = Revise(draft, rewritten, "rewritten", "writer")
                  /\ step' = [step EXCEPT !.at = "reviewing"]
                  /\ Credited("writer")
    BY DEF Rewrite
  <1>2. PICK r \in Nat, b \in Nat : /\ r = IF keepsLine THEN draft.content.rendered ELSE 0
                                    /\ b = IF keepsLine THEN draft.content.bare ELSE 0
    BY <1>0 DEF Body
  <1>3. PICK line : line = [answer EXCEPT !.rendered = r, !.bare = b]
    OBVIOUS
  <1>4. answer \in Body /\ Written(answer)
    BY WritingAssumption DEF Written
  <1>5. line \in Body /\ line.said = answer.said
    BY <1>3, <1>4 DEF Body
  <1>6. Written(line)
    BY <1>4, <1>5 DEF Written
  <1>7. PICK text : text = RewriteRead(line, draft)
    OBVIOUS
  <1>8. IF text = NoBody
        THEN Ended([draft EXCEPT !.error = TRUE]) /\ UNCHANGED credit
        ELSE /\ draft' = Revise(draft, text, "rewritten", "writer")
             /\ step' = [step EXCEPT !.at = "reviewing"]
             /\ Credited("writer")
    BY <1>1, <1>2, <1>3, <1>7
  <1>9. CASE text = NoBody
    <2>1. draft' = [draft EXCEPT !.error = TRUE] /\ step' = Idle /\ credit' = credit
      BY <1>8, <1>9 DEF Ended
    <2>2. Idle \in AStep /\ Idle.at = "idle"
      BY DEF Idle, AStep
    <2>3. Good([draft EXCEPT !.error = TRUE], Idle, credit)
      BY <1>0, <2>2, TextStays
    <2> QED BY <2>1, <2>3 DEF WritingInv
  <1>10. CASE text # NoBody
    <2>1. /\ text \in Body /\ Written(text) /\ CitedIn(text) \subseteq 1..Len(draft.sources)
          /\ FiguresIn(text) \subseteq FiguresIn(draft.content) \cup SourceFigures(draft.sources)
      BY <1>0, <1>5, <1>6, <1>7, <1>10, RewriteReads
    <2>2. PICK news : news = Revise(draft, text, "rewritten", "writer").revisions
      OBVIOUS
    <2>3. "writer" \in Models \cup {"person"}
      BY DEF Models
    <2>4. Grown(draft, text, "rewritten", "writer", news)
      BY <1>0, <2>1, <2>2, <2>3, RevisedRevisions
    <2>5. PICK hand : hand = Joined(credit, "writer")
      OBVIOUS
    <2>6. hand = HandsOf(news)
      BY <1>0, <2>4, <2>5, NextHand
    <2>7. credit # << >> /\ Len(credit) \in 1..Len(credit) /\ credit[Len(credit)] \in SUBSET (Models \cup {"person"})
      BY <1>0
    <2>8. hand \in SUBSET (Models \cup {"person"})
      BY <2>3, <2>5, <2>7 DEF Joined
    <2>9. credit' = Append(credit, hand)
      BY <1>8, <1>10, <2>5, <2>7 DEF Credited, Joined
    <2>10. Traced(text, draft.sources, news)
      BY <1>0, <2>1, <2>4, NoNewFigures
    <2>11. PICK f : f = draft' /\ Becomes(f, draft, text, NoReview, news)
      <3>1. draft' = Revise(draft, text, "rewritten", "writer")
        BY <1>8, <1>10
      <3> QED BY <1>0, <2>2, <3>1, RevisedDraft
    <2>12. PICK new : new = step'
      OBVIOUS
    <2>13. step.kind \in {"reviewing", "rewriting"}
      BY DEF Rewrite, WritingInv, Good, Asked
    <2>14. new \in AStep /\ new.at = "reviewing" /\ new.kind \in {"reviewing", "rewriting"} /\ new # Idle
      BY <1>0, <1>8, <1>10, <2>12, <2>13 DEF AStep, Idle
    <2>15. Fits(text, NoReview, Len(draft.sources)) /\ NoReview \in AReview
      BY UnreviewedFits, EmptyText
    <2>16. Good(f, new, Append(credit, hand))
      BY <1>0, <2>1, <2>3, <2>4, <2>6, <2>8, <2>10, <2>11, <2>14, <2>15, RevisedKeeps
    <2> QED BY <2>9, <2>11, <2>12, <2>16 DEF WritingInv
  <1> QED BY <1>9, <1>10

\* A correction or an edit, by whom, from a text that can be traced.
LEMMA ChangeKeeps ==
  ASSUME WritingInv, step = Idle, draft.revisions # << >>,
         NEW text \in Body, NEW reason \in {"corrected", "edited"}, NEW model \in Models \cup {"person"},
         draft' = Revise(draft, text, reason, model), Credited(model), UNCHANGED step,
         \A news : Grown(draft, text, reason, model, news) => Traced(text, draft.sources, news)
  PROVE  WritingInv'
  <1>0. /\ draft \in ADraft /\ Len(credit) = Len(draft.revisions)
        /\ credit \in Seq(SUBSET (Models \cup {"person"})) /\ Good(draft, step, credit)
        /\ Handed(draft.sources, draft.revisions, credit)
        /\ draft.revisions \in Seq(Revision)
    BY DEF WritingInv, Good, ADraft
  <1>1. PICK news : news = Revise(draft, text, reason, model).revisions
    OBVIOUS
  <1>2. Grown(draft, text, reason, model, news)
    BY <1>0, <1>1, RevisedRevisions
  <1>3. PICK hand : hand = Joined(credit, model)
    OBVIOUS
  <1>4. hand = HandsOf(news)
    BY <1>0, <1>2, <1>3, NextHand
  <1>5. credit # << >> /\ Len(credit) \in 1..Len(credit) /\ credit[Len(credit)] \in SUBSET (Models \cup {"person"})
    BY <1>0
  <1>6. hand \in SUBSET (Models \cup {"person"})
    BY <1>3, <1>5 DEF Joined
  <1>7. credit' = Append(credit, hand)
    BY <1>3, <1>5 DEF Credited, Joined
  <1>8. Traced(text, draft.sources, news)
    BY <1>2
  <1>9. PICK f : f = draft' /\ Becomes(f, draft, text, NoReview, news)
    BY <1>0, <1>1, RevisedDraft
  <1>10. Idle \in AStep /\ Idle.at = "idle"
    BY DEF Idle, AStep
  <1>11. Fits(text, NoReview, Len(draft.sources)) /\ NoReview \in AReview
    BY UnreviewedFits, EmptyText
  <1>12. Good(f, Idle, Append(credit, hand))
    BY <1>0, <1>2, <1>4, <1>6, <1>8, <1>9, <1>10, <1>11, RevisedKeeps
  <1> QED BY <1>7, <1>9, <1>12 DEF WritingInv

\* An accepted correction cites and states no more than the text it corrects.
LEMMA AcceptKeeps ==
  ASSUME WritingInv, AcceptCorrection PROVE WritingInv'
  <1>1. PICK text : text = draft.review.corrected
    OBVIOUS
  <1>2. /\ draft \in ADraft /\ Good(draft, step, credit) /\ draft.revisions # << >>
        /\ Fits(draft.content, draft.review, Len(draft.sources))
    BY DEF AcceptCorrection, WritingInv, Good
  <1>3. /\ text \in Body /\ Written(text) /\ CitedIn(text) \subseteq CitedIn(draft.content)
        /\ FiguresIn(text) \subseteq FiguresIn(draft.content)
    BY <1>1, <1>2 DEF Fits, ADraft, AReview
  <1>4. ASSUME NEW news, Grown(draft, text, "corrected", "reviewer", news)
        PROVE  Traced(text, draft.sources, news)
    <2>1. /\ FiguresIn(text) \subseteq FiguresIn(draft.content) \cup SourceFigures(draft.sources)
          /\ CitedIn(text) \subseteq CitedIn(draft.content) \cup 1..Len(draft.sources)
      BY <1>3
    <2> QED BY <1>2, <1>3, <1>4, <2>1, NoNewFigures
  <1>5. draft' = Revise(draft, text, "corrected", "reviewer") /\ Credited("reviewer") /\ UNCHANGED step /\ step = Idle
    BY <1>1 DEF AcceptCorrection
  <1>6. "reviewer" \in Models \cup {"person"}
    BY DEF Models
  <1> QED BY <1>2, <1>3, <1>4, <1>5, <1>6, ChangeKeeps

\* What a person types is the person's.
LEMMA EditKeeps ==
  ASSUME WritingInv, Edit PROVE WritingInv'
  <1>1. PICK text \in Typed : draft' = Revise(draft, text, "edited", "person")
    BY DEF Edit
  <1>2. draft \in ADraft /\ draft.revisions # << >>
    BY DEF Edit, HasText, WritingInv, Good
  <1>3. text \in Body /\ Written(text)
    BY WritingAssumption DEF Written
  <1>4. ASSUME NEW news, Grown(draft, text, "edited", "person", news)
        PROVE  Traced(text, draft.sources, news)
    <2>1. Len(draft.revisions) \in Nat
      BY <1>2 DEF ADraft
    <2>2. PICK n : n \in DOMAIN news /\ news[n].content = text /\ news[n].reason = "edited"
      BY <1>4, <2>1 DEF Grown
    <2>3. FiguresIn(text) \subseteq StatedIn(news)
      BY <2>2 DEF StatedIn
    <2>4. \A c \in CitedIn(text) : TypedIn(news, c)
      BY <2>2 DEF TypedIn
    <2> QED BY <1>3, <2>3, <2>4 DEF Traced
  <1>5. Credited("person") /\ UNCHANGED step /\ step = Idle
    BY DEF Edit
  <1> QED BY <1>1, <1>2, <1>3, <1>4, <1>5, ChangeKeeps

\* What is put back had its hands and its review.
LEMMA RestoreKeeps ==
  ASSUME WritingInv, Restore PROVE WritingInv'
  <1>0. /\ draft \in ADraft /\ Len(credit) = Len(draft.revisions)
        /\ credit \in Seq(SUBSET (Models \cup {"person"})) /\ Good(draft, step, credit)
        /\ Handed(draft.sources, draft.revisions, credit)
        /\ draft.revisions \in Seq(Revision) /\ step = Idle /\ step' = step
    BY DEF WritingInv, Good, ADraft, Restore
  <1>1. PICK i \in DOMAIN draft.revisions :
          LET earlier == draft.revisions[i]
              first == CHOOSE k \in DOMAIN credit : draft.revisions[k].content = earlier.content
                         /\ \A l \in 1..k-1 : draft.revisions[l].content # earlier.content
          IN /\ earlier.content # draft.content
             /\ draft' = [Revise(draft, earlier.content, "restored", earlier.model) EXCEPT !.review = earlier.review]
             /\ credit' = Append(credit, credit[first])
    BY DEF Restore
  <1> DEFINE n == Len(draft.revisions)
  <1>2. n \in Nat /\ DOMAIN draft.revisions = 1..n /\ DOMAIN credit = 1..n /\ i \in 1..n
    BY <1>0
  <1>3. PICK text, model, review : /\ text = draft.revisions[i].content /\ model = draft.revisions[i].model
                                   /\ review = draft.revisions[i].review
    OBVIOUS
  <1>4. text \in Body /\ model \in Models \cup {"person"} /\ review \in AReview
    <2>1. draft.revisions[i] \in Revision
      BY <1>0, <1>2
    <2> QED BY <1>3, <2>1 DEF Revision, AReview
  <1>5. Traced(text, draft.sources, draft.revisions) /\ Fits(text, review, Len(draft.sources))
    BY <1>0, <1>2, <1>3 DEF Handed
  <1> DEFINE Same == {k \in 1..n : draft.revisions[k].content = text}
             Is(k) == draft.revisions[k].content = text /\ \A l \in 1..k-1 : draft.revisions[l].content # text
  <1>6. PICK m \in 1..n : Is(m)
    <2>1. Same \in SUBSET Nat /\ Same # {}
      BY <1>2, <1>3
    <2>2. PICK m \in Same : \A k \in Same : m <= k
      <3> HIDE DEF Same
      <3> QED BY <2>1, Least
    <2>3. \A l \in 1..m-1 : l \notin Same /\ l \in 1..n
      BY <1>2, <2>2
    <2> QED BY <2>2, <2>3
  <1>7. PICK first \in 1..n : Is(first) /\ credit' = Append(credit, credit[first])
    <2>1. PICK first : first = CHOOSE k \in 1..n : Is(k)
      OBVIOUS
    <2>2. first \in 1..n /\ Is(first)
      BY <1>6, <2>1
    <2>3. credit' = Append(credit, credit[first])
      BY <1>1, <1>2, <1>3, <2>1
    <2> QED BY <2>2, <2>3
  <1>8. PICK news : news = Revise(draft, text, "restored", model).revisions
    OBVIOUS
  <1>9. Grown(draft, text, "restored", model, news)
    BY <1>0, <1>4, <1>8, RevisedRevisions
  <1>10. PICK hand : hand = credit[first]
    OBVIOUS
  <1>11. hand = HandsOf(news) /\ hand \in SUBSET (Models \cup {"person"})
    <2>1. credit[first] = HandsOf(news)
      BY <1>0, <1>7, <1>9, RestoredHand
    <2>2. credit[first] \in SUBSET (Models \cup {"person"})
      BY <1>0, <1>2
    <2> QED BY <1>10, <2>1, <2>2
  <1>12. Traced(text, draft.sources, news)
    <2>1. Longer(draft.revisions, news) /\ news \in Seq(Revision)
      BY <1>2, <1>9 DEF Grown, Longer
    <2> QED BY <1>0, <1>5, <2>1, StillTraced
  <1>13. PICK f : f = draft' /\ Becomes(f, draft, text, review, news)
    <2>1. PICK r : r = Revise(draft, text, "restored", model)
      OBVIOUS
    <2>2. Becomes(r, draft, text, NoReview, news)
      BY <1>0, <1>8, <2>1, RevisedDraft
    <2>3. draft' = [r EXCEPT !.review = review]
      BY <1>1, <1>3, <2>1
    <2> QED BY <1>0, <2>2, <2>3 DEF Becomes, ADraft
  <1>14. Idle \in AStep /\ Idle.at = "idle"
    BY DEF Idle, AStep
  <1>15. \E k \in 1..n : draft.revisions[k].content = text
    BY <1>2, <1>3
  <1>16. draft.revisions # << >>
    BY <1>2
  <1>17. Good(f, Idle, Append(credit, hand))
    BY <1>0, <1>4, <1>5, <1>9, <1>11, <1>12, <1>13, <1>14, <1>15, <1>16, RevisedKeeps
  <1> QED BY <1>0, <1>7, <1>10, <1>13, <1>17 DEF WritingInv

\* A review scores the text it is kept with, and proposes when no round will follow.
LEMMA ReviewKeeps ==
  ASSUME WritingInv, Review PROVE WritingInv'
  <1>0. /\ draft \in ADraft /\ draft.revisions # << >> /\ Good(draft, step, credit) /\ step \in AStep
        /\ step.kind \in {"reviewing", "rewriting"} /\ step.round \in Nat /\ step.rounds \in Nat
        /\ Traced(draft.content, draft.sources, draft.revisions) /\ draft.content \in Body
    BY DEF WritingInv, Good, Review, Asked, ADraft, AStep, Traced
  <1>1. PICK answer \in [Metrics -> Scores \cup {-1}], offer \in Answers(draft.content), up \in BOOLEAN :
          draft' = [draft EXCEPT !.review = Reviewed(answer, offer, up)]
    BY DEF Review
  <1>2. PICK count \in Nat : count = Len(draft.sources)
    BY <1>0 DEF ADraft
  <1>3. Written(draft.content)
    BY <1>0 DEF Traced
  <1>4. PICK scored : scored = Scored(answer, draft.content, count, up)
    OBVIOUS
  <1>5. scored \in [Metrics -> -1..Full] /\ Meant(draft.content, scored, count)
    BY <1>0, <1>3, <1>4, ScoredMean
  <1>6. PICK plain : plain = [metrics |-> scored, asked |-> FALSE, corrected |-> NoBody]
    OBVIOUS
  <1>7. PICK offered : offered = Offered(draft.content, offer)
    OBVIOUS
  <1>8. /\ offered \in Body /\ Written(offered)
        /\ CitedIn(offered) \subseteq CitedIn(draft.content) /\ FiguresIn(offered) \subseteq FiguresIn(draft.content)
    BY <1>0, <1>3, <1>7, OfferFits
  <1>9. PICK review : review = Reviewed(answer, offer, up)
    OBVIOUS
  <1>10. review = IF ProposesIf(plain) THEN [plain EXCEPT !.asked = TRUE, !.corrected = offered] ELSE plain
    BY <1>2, <1>4, <1>6, <1>7, <1>9 DEF Reviewed
  <1>11. /\ review \in AReview /\ review.metrics = scored
         /\ review.asked = ProposesIf(plain) /\ review.corrected = IF ProposesIf(plain) THEN offered ELSE NoBody
    <2>1. CASE ProposesIf(plain)
      <3>1. review = [metrics |-> scored, asked |-> TRUE, corrected |-> offered]
        BY <1>6, <1>10, <2>1
      <3> QED BY <1>5, <1>8, <2>1, <3>1 DEF AReview
    <2>2. CASE ~ProposesIf(plain)
      <3>1. review = plain
        BY <1>10, <2>2
      <3>2. ProposesIf(plain) = FALSE
        BY <2>2 DEF ProposesIf
      <3> QED BY <1>5, <1>6, <2>2, <3>1, <3>2, EmptyText DEF AReview
    <2> QED BY <2>1, <2>2
  <1>12. Fits(draft.content, review, count)
    <2>1. CASE review.corrected = offered
      BY <1>5, <1>8, <1>11, <2>1 DEF Fits
    <2>2. CASE review.corrected = NoBody
      BY <1>5, <1>11, <2>2, EmptyText DEF Fits
    <2> QED BY <1>11, <2>1, <2>2
  <1>13. BelowTarget(review) = BelowTarget(plain)
    BY <1>6, <1>11 DEF BelowTarget
  <1>14. ~AnotherRound(review) => review.asked
    <2>1. AnotherRound(review) \/ ProposesIf(plain)
      BY <1>0, <1>13 DEF AnotherRound, ProposesIf
    <2> QED BY <1>11, <2>1
  <1>15. PICK f : f = draft'
    OBVIOUS
  <1>16. /\ f \in ADraft /\ f.sources = draft.sources /\ f.angles = draft.angles /\ f.content = draft.content
         /\ f.review = review /\ f.revisions = draft.revisions
    BY <1>0, <1>1, <1>9, <1>11, <1>15 DEF ADraft
  <1>17. PICK new : new = step'
    OBVIOUS
  <1>18. new = IF AnotherRound(review) THEN [step EXCEPT !.at = "rewriting", !.round = @ + 1] ELSE Idle
    BY <1>15, <1>16, <1>17 DEF Review
  <1>19. /\ new \in AStep /\ new.at \notin {"finding", "writing"}
         /\ new.at \in {"reviewing", "rewriting"} => new.kind \in {"reviewing", "rewriting"}
         /\ new = Idle => review.asked
    <2>1. CASE AnotherRound(review)
      <3>1. PICK r \in Nat : r = step.round + 1
        BY <1>0
      <3>2. new = [step EXCEPT !.at = "rewriting", !.round = r]
        BY <1>0, <1>18, <2>1, <3>1 DEF AStep
      <3> QED BY <1>0, <3>2 DEF AStep, Idle
    <2>2. CASE ~AnotherRound(review)
      BY <1>14, <1>18, <2>2 DEF AStep, Idle
    <2> QED BY <2>1, <2>2
  <1>20. Asked(f, new)
    BY <1>0, <1>16, <1>19 DEF Asked
  <1>21. Good(f, new, credit)
    BY <1>0, <1>2, <1>12, <1>16, <1>19, <1>20 DEF Good
  <1>22. credit' = credit
    BY DEF Review
  <1> QED BY <1>15, <1>17, <1>21, <1>22 DEF WritingInv

-----------------------------------------------------------------------------
(* The theorems. *)

\* Nothing that stays changes.
LEMMA StutterWriting == ASSUME WritingInv, UNCHANGED vars PROVE WritingInv'
  BY DEF WritingInv, vars

\* Every step keeps the invariant.
LEMMA WritingKeeps == ASSUME WritingInv, [Next]_vars PROVE WritingInv'
  BY StutterWriting, GatherKeeps, WriteKeeps, FailuresKeep, StartsKeep, ReviewKeeps, RewriteKeeps,
     AcceptKeeps, EditKeeps, RestoreKeeps DEF Next

\* The invariant holds of every draft.
LEMMA WritingInvHolds == Spec => []WritingInv
  BY WritingStarts, WritingKeeps, PTL DEF Spec

\* Whatever the models write and a person types, each number a text cites and each figure
\* it states comes from somewhere, and a score that meets the target says so, to half a
\* tenth of a point, to which it is rounded
\* (article_writer.py, draft_reviewer.py, draft_rewriter.py).
THEOREM TextHolds == Spec => []TextIsGrounded
  BY WritingInvHolds, GoodMeansGrounded, PTL

\* Whatever the searches find and the checks answer, no source stands behind an angle
\* that was not found true by enough outlets other than the article's (angles.py).
THEOREM BrightSideHolds == Spec => []NoInventedBrightSide
  BY WritingInvHolds, GoodMeansTheRest, PTL

\* However often a text is restored, rewritten, corrected and edited, the page names
\* everyone who had a hand in it and nobody else (publishing/story.py).
THEOREM DisclosureHolds == Spec => []DisclosureIsTrue
  BY WritingInvHolds, GoodMeansTheRest, PTL

\* Whatever the scores and the number of rounds, a rewrite that ends well leaves a review
\* that was asked for a correction (draft_review.py).
THEOREM ProposalHolds == Spec => []RewriteEndsWithAProposal
  BY WritingInvHolds, GoodMeansTheRest, PTL
=============================================================================
