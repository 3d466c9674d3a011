------------------------------- MODULE Measures -------------------------------
(***************************************************************************)
(* What the evaluation makes of its runs: the metrics of a run and of two   *)
(* (metrics.py, report.py, retrieval.py, consistency.py), the stage that is *)
(* blamed for an error (attribution.py), what a second look changed         *)
(* (loop.py), the pooled judgements (pooling.py), the scores of the         *)
(* decisions (decisions.py, experiments.py) and of the writing benchmark    *)
(* (writing.py).                                                            *)
(*                                                                         *)
(* Runs record claim after claim, and again when they are resumed; pages    *)
(* are pooled and judged in between; the numbers are functions of what is   *)
(* there.  A ratio is kept as its two integers, and an interval, which is   *)
(* the same statistic over resampled claims, is not modelled.               *)
(***************************************************************************)
EXTENDS Integers, Sequences, FiniteSetsExt, SequencesExt

CONSTANTS
  Systems,     \* runs that are compared
  Oracles,     \* those whose evidence is the annotator's own pages
  Claims,      \* claims of the dataset
  XFact,       \* those of x-fact, whose site is the fact-checker's
  Answers,     \* what a run may record of each claim
  References,  \* the annotator's pages for each claim
  DomainOf,    \* the domain of a page
  SiteOf,      \* the site of a claim's row
  Depth,       \* top sources of a claim that are pooled
  Pools,       \* bound: sets of runs that are pooled together
  MaxItems,    \* bound: predictions of a decision
  TextUnits,       \* the writing benchmark's units: <<base, target or "clean", repeat>>
  Metrics,     \* the metrics of the corrector
  Scores,      \* scores of a metric
  Missing      \* no such thing

\* What is assumed of the constants; what is cited is among the evidence.
ASSUME MeasuresAssumption ==
  /\ IsFiniteSet(Claims)
  /\ IsFiniteSet(TextUnits) /\ \A u \in TextUnits : u[2] \in Metrics \cup {"clean"}
  /\ Scores \subseteq Nat
  /\ Missing \notin {"TRUE", "PARTIALLY_TRUE", "MISLEADING", "FALSE", "UNVERIFIED"}
  /\ Missing \notin {"unverified", "low_confidence", "retrieval", "ranking", "reasoning", "aggregation"}
  /\ \A c \in Claims : \A a \in Answers[c] :
       a.look \in {"none", "pipeline", "loop"} /\ a.cited \subseteq ToSet(a.evidence)

VARIABLES
  records,      \* the latest record of each run for each claim
  judgements,   \* the judgement file: an entry for each pooled page of a claim
  sitting,      \* the entries a judging session holds, when one is open
  predictions,  \* predictions of a decision: a score, and the label it was given
  texts         \* the latest record of each unit of a writing run

measureVars == <<records, judgements, sitting, predictions, texts>>

Classes == {"TRUE", "PARTIALLY_TRUE", "MISLEADING", "FALSE", "UNVERIFIED"}

\* The sum of a function's values.
Total(f) ==
  LET total[T \in SUBSET DOMAIN f] ==
        IF T = {} THEN 0 ELSE LET x == CHOOSE y \in T : TRUE IN f[x] + total[T \ {x}]
  IN total[DOMAIN f]

-----------------------------------------------------------------------------
(* A record *)

\* The first that applies: a crash, then search, then the model.
Standing(r) ==
  IF ~r.ok THEN "error"
  ELSE IF r.searchUnavailable THEN "searchUnavailable"
  ELSE IF r.llmUnreachable THEN "llmUnreachable" ELSE "scored"

IsScored(r) == r # Missing /\ Standing(r) = "scored"
IsSearched(r) == r # Missing /\ Standing(r) \in {"scored", "llmUnreachable"}

\* The rule of a second look, with no gold label.
Doubt(verdict, unsure) ==
  IF verdict = "UNVERIFIED" THEN "unverified" ELSE IF unsure THEN "low_confidence" ELSE Missing

\* The second look of a check: the pipeline's own, when it is in doubt; or a
\* tuning loop's, which is taken of a wrong verdict too and leaves the first.
LookOf(a) ==
  LET trigger == Doubt(a.first, a.unsure)
      look(kind, second) == [kind |-> kind, trigger |-> trigger, first |-> a.first, second |-> second]
  IN IF a.look = "none" \/ a.searchUnavailable \/ a.llmUnreachable THEN Missing
     ELSE IF a.look = "loop"
       THEN look("loop", IF trigger = Missing /\ a.first = a.label THEN Missing ELSE a.second)
     ELSE IF trigger = Missing THEN Missing ELSE look("pipeline", Missing)

\* The record of a check that answered so; of one that raised, no verdict.
RecordOfAnswer(a) ==
  LET look == LookOf(a)
  IN [ok |-> a.ok, searchUnavailable |-> a.searchUnavailable, llmUnreachable |-> a.llmUnreachable,
      label |-> a.label, rawVerdict |-> a.raw,
      verdict |-> IF ~a.ok THEN Missing
                  ELSE IF look # Missing /\ look.kind = "pipeline" THEN a.second ELSE a.first,
      look |-> IF a.ok THEN look ELSE Missing,
      candidates |-> a.candidates, evidence |-> a.evidence, cited |-> a.cited]

\* Of x-fact, a page of the row's own site is the published verdict.
OwnPage(c, p) == c \in XFact /\ DomainOf[p] = SiteOf[c]

Links(c) == {p \in References[c] : ~OwnPage(c, p)}
Domains(c) == {DomainOf[p] : p \in Links(c)}
HasReferences(c) == Links(c) # {}

Depths == <<"candidates", "ranked", "cited">>

\* An older record may leave its ranked pages out of its candidates.
Sources(r, depth) ==
  CASE depth = "candidates" -> r.candidates \cup ToSet(r.evidence)
    [] depth = "ranked" -> ToSet(r.evidence)
    [] depth = "cited" -> r.cited

LinkHit(c, p) == p \in Links(c)
DomainHit(c, p) == DomainOf[p] \in Domains(c)

LinkFound(c, r, depth) == \E p \in Sources(r, depth) : LinkHit(c, p)
DomainFound(c, r, depth) == \E p \in Sources(r, depth) : DomainHit(c, p)

\* The rank of the first hit; 0 where there is none, whose reciprocal counts as 0.
FirstRank(c, r, Hit(_, _)) == SelectInSeq(r.evidence, LAMBDA p : Hit(c, p))

\* Everything that is measured of one claim's retrieval; what needs references
\* is not defined without them.
ClaimRetrieval(c, r) ==
  [linkRecall |-> IF HasReferences(c)
                  THEN [i \in 1..3 |-> LinkFound(c, r, Depths[i])] ELSE << >>,
   domainRecall |-> IF HasReferences(c)
                    THEN [i \in 1..3 |-> DomainFound(c, r, Depths[i])] ELSE << >>,
   linkRank |-> IF HasReferences(c) THEN <<FirstRank(c, r, LinkHit)>> ELSE << >>,
   domainRank |-> IF HasReferences(c) THEN <<FirstRank(c, r, DomainHit)>> ELSE << >>,
   ranked |-> Len(r.evidence),
   candidates |-> Cardinality(Sources(r, "candidates")),
   uniqueDomains |-> Cardinality({DomainOf[p] : p \in ToSet(r.evidence)}),
   verdictLeak |-> \E p \in ToSet(r.evidence) : OwnPage(c, p)]

-----------------------------------------------------------------------------
(* A run's verdicts *)

\* A claim's gold label beside a verdict.
Pairs(R, D) == [c \in D |-> [gold |-> R[c].label, got |-> R[c].verdict]]

\* Everything the statistics are functions of.
Count(pairs, Holds(_)) == Cardinality({c \in DOMAIN pairs : Holds(pairs[c])})
N(pairs) == Cardinality(DOMAIN pairs)
Correct(pairs) == Count(pairs, LAMBDA x : x.gold = x.got)
Gold(pairs, k) == Count(pairs, LAMBDA x : x.gold = k)
Predicted(pairs, k) == Count(pairs, LAMBDA x : x.got = k)
TruePositive(pairs, k) == Count(pairs, LAMBDA x : x.gold = k /\ x.got = k)

\* Fault: a class that the set does not have counts with an F1 of 0.
EveryClass(pairs) == Classes

GoldClasses(pairs) == {pairs[c].gold : c \in DOMAIN pairs}

\* A class's F1, as a ratio: 2 tp / (gold + predicted).
F1(pairs, k) == <<2 * TruePositive(pairs, k), Gold(pairs, k) + Predicted(pairs, k)>>

\* The least common denominator is not needed: a product of them is.
Product(f) ==
  LET product[T \in SUBSET DOMAIN f] ==
        IF T = {} THEN 1 ELSE LET x == CHOOSE y \in T : TRUE IN f[x] * product[T \ {x}]
  IN product[DOMAIN f]

\* The mean of the classes' F1.
MacroF1(pairs) ==
  LET K == GoldClasses(pairs)
      all == Product([k \in K |-> F1(pairs, k)[2]])
  IN <<Total([k \in K |-> IF F1(pairs, k)[1] = 0 THEN 0
                          ELSE F1(pairs, k)[1] * (all \div F1(pairs, k)[2])]),
       all * Cardinality(K)>>

\* Definitive verdicts, and those of them that are right.
Coverage(pairs) == <<N(pairs) - Predicted(pairs, "UNVERIFIED"), N(pairs)>>
SelectiveAccuracy(pairs) ==
  <<Correct(pairs) - TruePositive(pairs, "UNVERIFIED"), Coverage(pairs)[1]>>

\* Cohen's kappa, over n squared; not defined where chance agrees on everything.
Chance(pairs) == Total([k \in Classes |-> Gold(pairs, k) * Predicted(pairs, k)])
Kappa(pairs) ==
  <<Correct(pairs) * N(pairs) - Chance(pairs), N(pairs) * N(pairs) - Chance(pairs)>>

ScoredBy(s) == {c \in Claims : IsScored(records[s][c])}

-----------------------------------------------------------------------------
(* Two runs *)

\* Claims both have a record of, both scored, and, where the dataset was
\* relabelled in between, with the same gold label.
Shared(A, B) == {c \in Claims : A[c] # Missing /\ B[c] # Missing}

\* Fault: a claim either scored.
ScoredByOne(A, B) == {c \in Shared(A, B) : IsScored(A[c]) \/ IsScored(B[c])}

BothScored(A, B) == {c \in Shared(A, B) : IsScored(A[c]) /\ IsScored(B[c])}
Paired(A, B) == {c \in BothScored(A, B) : A[c].label = B[c].label}

OnlyA(A, B) == {c \in Paired(A, B) : A[c].label = A[c].verdict /\ B[c].label # B[c].verdict}
OnlyB(A, B) == {c \in Paired(A, B) : A[c].label # A[c].verdict /\ B[c].label = B[c].verdict}

\* Twice the same system: the claims on which it changed its verdict.
Changed(A, B) == {c \in BothScored(A, B) : A[c].verdict # B[c].verdict}
ChangedOnSameEvidence(A, B) ==
  {c \in Changed(A, B) : ToSet(A[c].evidence) = ToSet(B[c].evidence)}

\* Claims whose retrieval differs, among those both searched.
BothSearched(A, B) == {c \in Shared(A, B) : IsSearched(A[c]) /\ IsSearched(B[c])}
FoundOtherwise(A, B) ==
  {c \in BothSearched(A, B) : ClaimRetrieval(c, A[c]) # ClaimRetrieval(c, B[c])}

-----------------------------------------------------------------------------
(* The stage of an error *)

ErrorStages == <<"retrieval", "ranking", "reasoning", "aggregation">>

\* Fault: a claim that was set apart is blamed on a stage too.
WrongOrApart(r) == r # Missing /\ r.verdict # r.label

Wrong(r) == IsScored(r) /\ r.verdict # r.label

\* What the claim's own record shows.
ByTrace(r) ==
  IF r.rawVerdict = r.label THEN "aggregation"
  ELSE IF Sources(r, "candidates") = {} THEN "retrieval"
  ELSE IF r.evidence = << >> THEN "ranking" ELSE "reasoning"

\* What the annotator's links show, where there are any.
ByReference(c, r) ==
  IF ~HasReferences(c) THEN Missing
  ELSE IF r.rawVerdict = r.label THEN "aggregation"
  ELSE IF ~LinkFound(c, r, "candidates") /\ ~DomainFound(c, r, "candidates") THEN "retrieval"
  ELSE IF ~LinkFound(c, r, "ranked") /\ ~DomainFound(c, r, "ranked") THEN "ranking"
  ELSE "reasoning"

WrongOf(s) == {c \in Claims : Wrong(records[s][c])}
Trace(s, stage) == {c \in WrongOf(s) : ByTrace(records[s][c]) = stage}
Reference(s, stage) ==
  {c \in WrongOf(s) : s \notin Oracles /\ ByReference(c, records[s][c]) = stage}

-----------------------------------------------------------------------------
(* The second look *)

First(r) == IF r.look # Missing /\ r.look.kind = "pipeline" THEN r.look.first ELSE r.verdict

\* The two rules: whenever the trigger fired, and when it was UNVERIFIED.
Rules == {"unverifiedOrUnsure", "unverifiedOnly"}

\* Fault: UNVERIFIED after the second look.
FiresAfter(rule, r) ==
  r.look # Missing /\ (IF rule = "unverifiedOnly" THEN r.verdict = "UNVERIFIED" ELSE r.look.trigger # Missing)

Fires(rule, r) ==
  r.look # Missing /\ (IF rule = "unverifiedOnly" THEN r.look.trigger = "unverified" ELSE r.look.trigger # Missing)

\* The verdict the rule leaves a claim: of a pipeline's run the final one, of a
\* loop's the second in place of the first.
After(rule, r) ==
  IF ~Fires(rule, r) THEN First(r)
  ELSE IF r.look.kind = "loop" /\ r.look.second # Missing THEN r.look.second ELSE r.verdict

\* The pairs with the first verdicts, and with the rule's.
FirstPairs(s) == [c \in ScoredBy(s) |-> [gold |-> records[s][c].label, got |-> First(records[s][c])]]
Policy(s, rule) ==
  [c \in ScoredBy(s) |-> [gold |-> records[s][c].label, got |-> After(rule, records[s][c])]]

WrongToRight(s, rule) ==
  {c \in ScoredBy(s) : LET r == records[s][c]
                       IN First(r) # r.label /\ After(rule, r) = r.label}
RightToWrong(s, rule) ==
  {c \in ScoredBy(s) : LET r == records[s][c]
                       IN First(r) = r.label /\ After(rule, r) # r.label}

-----------------------------------------------------------------------------
(* Pooled judgements *)

Top(r) == SubSeq(r.evidence, 1, IF Len(r.evidence) < Depth THEN Len(r.evidence) ELSE Depth)

TopPages(R) ==
  UNION {{<<c, p>> : p \in ToSet(Top(R[c]))} : c \in {d \in Claims : IsSearched(R[d])}}

Unjudged == [relevant |-> "null", pooledFrom |-> {}]

\* Fault: a page that another run brings is entered anew.
PoolAnew(runs, file) ==
  LET pages == UNION {TopPages(records[s]) : s \in runs}
  IN [e \in DOMAIN file \cup pages |->
        LET by == {s \in runs : e \in TopPages(records[s])}
        IN [relevant |-> IF e \in DOMAIN file /\ by \subseteq file[e].pooledFrom
                         THEN file[e].relevant ELSE "null",
            pooledFrom |-> IF e \in DOMAIN file THEN file[e].pooledFrom \cup by ELSE by]]

\* The file with every run's top pages: new ones unjudged, the others as they are.
Pooled(runs, file) ==
  LET pages == UNION {TopPages(records[s]) : s \in runs}
      was(e) == IF e \in DOMAIN file THEN file[e] ELSE Unjudged
  IN [e \in DOMAIN file \cup pages |->
        [was(e) EXCEPT !.pooledFrom = @ \cup {s \in runs : e \in TopPages(records[s])}]]

Judged(file) == {e \in DOMAIN file : file[e].relevant # "null"}
Relevant(file, c) == {e \in Judged(file) : e[1] = c /\ file[e].relevant = "y"}

\* The scores of a run's claim: relevant and judged ones of its top pages, the
\* relevant in the pool, and the rank of the first relevant one.
ClaimScores(c, r, file) ==
  LET top == Top(r)
      at(mark) == {i \in 1..Len(top) : <<c, top[i]>> \in Judged(file)
                                       /\ file[<<c, top[i]>>].relevant \in mark}
  IN [hits |-> Cardinality(at({"y"})), judged |-> Cardinality(at({"y", "n"})),
      pool |-> Cardinality(Relevant(file, c)),
      first |-> SelectInSeq(top, LAMBDA p : <<c, p>> \in Relevant(file, c))]

PooledTable(file) ==
  [s \in Systems |-> [c \in {d \in Claims : IsSearched(records[s][d])} |->
                        ClaimScores(c, records[s][c], file)]]

-----------------------------------------------------------------------------
(* Scores of decisions and texts *)

\* Fault: tied items are ranked one after the other.
RankByOrder(items, i) ==
  2 * (1 + Cardinality({j \in 1..Len(items) :
             items[j].score < items[i].score \/ (items[j].score = items[i].score /\ j < i)}))

\* The area under the curve, by ranks, over the positives times the negatives;
\* doubled, since tied items share the mean of their ranks.
TwiceRank(items, i) ==
  LET below == Cardinality({j \in 1..Len(items) : items[j].score < items[i].score})
      tied == Cardinality({j \in 1..Len(items) : items[j].score = items[i].score})
  IN 2 * below + tied + 1

Positives(items, least) == {i \in 1..Len(items) : items[i].label >= least}
RankAuc(items, least) ==
  LET P == Positives(items, least)
      p == Cardinality(P)
  IN Total([i \in P |-> TwiceRank(items, i)]) - p * (p + 1)

\* The definition: of every positive and negative, which scores higher.
Beats(items, i, j) ==
  IF items[i].score > items[j].score THEN 2 ELSE IF items[i].score = items[j].score THEN 1 ELSE 0
Auc(items, least) ==
  LET P == Positives(items, least)
      M == (1..Len(items)) \ P
  IN Total([i \in P |-> Total([j \in M |-> Beats(items, i, j)])])

TextIds == {<<u[1], u[2]>> : u \in TextUnits}

\* A metric's usable scores of a text, over its repeats; the mean is of them.
Usable(t, k) ==
  {u \in TextUnits : <<u[1], u[2]>> = t /\ texts[u] # Missing /\ texts[u].ok /\ texts[u].scores[k] # Missing}
TextScore(t, k) ==
  <<Total([u \in Usable(t, k) |-> texts[u].scores[k]]), Cardinality(Usable(t, k))>>

\* A defect version against its clean text, on the metric it is aimed at.
Defects == {t \in TextIds : t[2] # "clean"}
Scorable == {t \in Defects : Usable(t, t[2]) # {} /\ Usable(<<t[1], "clean">>, t[2]) # {}}
\* Twice "detected": the defect scored lower, a tie, higher.
TwiceDetected(t) ==
  LET clean == TextScore(<<t[1], "clean">>, t[2])
      defect == TextScore(t, t[2])
      less == defect[1] * clean[2]
      more == clean[1] * defect[2]
  IN IF less < more THEN 2 ELSE IF less = more THEN 1 ELSE 0

Detection == Total([t \in Scorable |-> TwiceDetected(t)])

-----------------------------------------------------------------------------
(* Actions *)

MeasuresInit ==
  /\ records = [s \in Systems |-> [c \in Claims |-> Missing]]
  /\ judgements = << >>
  /\ sitting = Missing
  /\ predictions = << >>
  /\ texts = [u \in TextUnits |-> Missing]

\* A run records a claim, for the first time or after it was resumed.
Answer(s, c) ==
  /\ \E a \in Answers[c] : records' = [records EXCEPT ![s][c] = RecordOfAnswer(a)]
  /\ UNCHANGED <<judgements, sitting, predictions, texts>>

Pool ==
  /\ \E runs \in Pools : judgements' = Pooled(runs, judgements)
  /\ UNCHANGED <<records, sitting, predictions, texts>>

\* A judging session holds the entries it read, and writes all of them after
\* each answer.
OpenSession ==
  /\ sitting = Missing /\ judgements # << >>
  /\ sitting' = judgements
  /\ UNCHANGED <<records, judgements, predictions, texts>>

JudgePage ==
  /\ sitting # Missing
  /\ \E e \in DOMAIN sitting \ Judged(sitting), answer \in {"y", "n"} :
       sitting' = [sitting EXCEPT ![e].relevant = answer]
  /\ judgements' = sitting'
  /\ UNCHANGED <<records, predictions, texts>>

CloseSession ==
  /\ sitting # Missing /\ sitting' = Missing
  /\ UNCHANGED <<records, judgements, predictions, texts>>

Predict ==
  /\ Len(predictions) < MaxItems
  /\ \E score, label \in 0..2 :
       predictions' = Append(predictions, [score |-> score, label |-> label])
  /\ UNCHANGED <<records, judgements, sitting, texts>>

\* The corrector's metrics for a text; one it cannot use is set apart, and so is
\* a unit that failed.
Rate(u) ==
  /\ \E ok \in BOOLEAN, f \in [Metrics -> Scores \cup {Missing}] :
       texts' = [texts EXCEPT ![u] = [ok |-> ok, scores |-> IF ok THEN f ELSE [k \in Metrics |-> Missing]]]
  /\ UNCHANGED <<records, judgements, sitting, predictions>>

Verdict == \E s \in Systems, c \in Claims : Answer(s, c)
Judging == Pool \/ OpenSession \/ JudgePage \/ CloseSession
Writing == \E u \in TextUnits : Rate(u)

MeasuresNext == Verdict \/ Judging \/ Predict \/ Writing

MeasuresSpec == MeasuresInit /\ [][MeasuresNext]_measureVars

-----------------------------------------------------------------------------
(* Properties *)

\* Put out of reach of the search, a claim says nothing of the verdict.
SearchFailed(r) ==
  [r EXCEPT !.searchUnavailable = TRUE, !.verdict = "UNVERIFIED", !.rawVerdict = "UNVERIFIED",
            !.candidates = {}, !.evidence = << >>, !.cited = {}]

\* An outage is not a difference between two runs: when one of them loses its
\* search on a claim, no claim is one that only one side got right, or found
\* otherwise, that was not before; and the difference in right verdicts is what
\* the claims one side alone got right make of it.
AnOutageIsNotADifference ==
  \A s, t \in Systems :
    LET A == records[s]
        B == records[t]
        both == Paired(A, B)
    IN /\ Correct(Pairs(B, both)) - Correct(Pairs(A, both))
            = Cardinality(OnlyB(A, B)) - Cardinality(OnlyA(A, B))
       /\ Paired(A, B) = BothScored(A, B)
            => OnlyA(A, B) \cup OnlyB(A, B) \subseteq Changed(A, B)
       /\ \A c \in Claims : A[c] # Missing =>
            LET out == [A EXCEPT ![c] = SearchFailed(@)]
            IN /\ OnlyA(out, B) \subseteq OnlyA(A, B) /\ OnlyB(out, B) \subseteq OnlyB(A, B)
               /\ FoundOtherwise(out, B) \subseteq FoundOtherwise(A, B)
               /\ ChangedOnSameEvidence(out, B) \subseteq ChangedOnSameEvidence(A, B)

\* The headline's statistics agree on what a perfect run is: the verdicts are all
\* right exactly when macro-F1 is 1, and exactly when kappa is 1 or chance agrees
\* on everything; and none leaves its range.
PerfectMeansPerfect ==
  \A s \in Systems :
    LET pairs == Pairs(records[s], ScoredBy(s))
        perfect == Correct(pairs) = N(pairs)
    IN N(pairs) > 0 =>
       /\ perfect <=> MacroF1(pairs)[1] = MacroF1(pairs)[2]
       /\ perfect <=> Kappa(pairs)[1] = Kappa(pairs)[2]
       /\ MacroF1(pairs)[1] \in 0..MacroF1(pairs)[2]
       /\ SelectiveAccuracy(pairs)[1] \in 0..SelectiveAccuracy(pairs)[2]
       /\ Kappa(pairs)[2] >= 0

\* Every error of the headline is blamed on one stage, and no outage on any; the
\* annotator's column never blames a later stage than the trace does; and what is
\* found at one depth is found at those before it.
EveryErrorHasItsStage ==
  \A s \in Systems :
    LET pairs == Pairs(records[s], ScoredBy(s))
        blamed(i) == Cardinality(Trace(s, ErrorStages[i]))
    IN /\ blamed(1) + blamed(2) + blamed(3) + blamed(4) = N(pairs) - Correct(pairs)
       /\ \A i, j \in 1..4 : Trace(s, ErrorStages[i]) \cap Reference(s, ErrorStages[j]) # {} => j <= i
       /\ \A c \in Claims, i, j \in 1..3 : records[s][c] # Missing /\ i < j =>
            /\ LinkFound(c, records[s][c], Depths[j]) => LinkFound(c, records[s][c], Depths[i])
            /\ DomainFound(c, records[s][c], Depths[j]) => DomainFound(c, records[s][c], Depths[i])

\* What a second look is worth: the change in right verdicts is what it put right
\* less what it broke; UNVERIFIED alone changes nothing that the whole trigger
\* leaves; and all it can break is a claim whose gold label is UNVERIFIED.
LooksExplainTheDifference ==
  \A s \in Systems :
    /\ \A rule \in Rules :
         Correct(Policy(s, rule)) - Correct(FirstPairs(s))
           = Cardinality(WrongToRight(s, rule)) - Cardinality(RightToWrong(s, rule))
    /\ WrongToRight(s, "unverifiedOnly") \subseteq WrongToRight(s, "unverifiedOrUnsure")
    /\ RightToWrong(s, "unverifiedOnly") \subseteq RightToWrong(s, "unverifiedOrUnsure")
    /\ \A c \in RightToWrong(s, "unverifiedOnly") : records[s][c].label = "UNVERIFIED"

\* Only a person moves a score.  A judgement that was given stands, whoever pools
\* what in the middle of a judging session; and pooling a later run's pages moves
\* no run's scores, since an unjudged page counts in none of them.
PoolingMovesNoScore ==
  [][/\ \A e \in Judged(judgements) :
          e \in DOMAIN judgements' /\ judgements'[e].relevant = judgements[e].relevant
     /\ records' = records /\ Judged(judgements') = Judged(judgements)
          => PooledTable(judgements)' = PooledTable(judgements)]_measureVars

\* A tie counts half: the area by ranks is the one by pairs, and a corrector that
\* gives every text the same score sits at chance, whichever of its units failed.
TiesCountHalf ==
  /\ \A least \in 1..2 : RankAuc(predictions, least) = Auc(predictions, least)
  /\ (\A u, v \in TextUnits, k \in Metrics :
        texts[u] # Missing /\ texts[v] # Missing /\ texts[u].scores[k] # Missing /\ texts[v].scores[k] # Missing
        => texts[u].scores[k] = texts[v].scores[k])
     => Detection = Cardinality(Scorable)

\* The numbers of a report mean what a reader takes them for, at both ends: full
\* marks are a perfect run, and a judge that tells nothing apart is at chance.
ScoresMeanWhatTheySay == PerfectMeansPerfect /\ TiesCountHalf
=============================================================================
