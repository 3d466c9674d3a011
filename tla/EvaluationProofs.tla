-------------------------- MODULE EvaluationProofs --------------------------
(***************************************************************************)
(* What the evaluation says of its runs is so: for any number of systems,   *)
(* claims and answers, an outage is no difference, every error has a stage,  *)
(* a second look is worth what it says and pooling moves no score; for any   *)
(* number of runs, threads, sessions and crashes, what a run was judged on   *)
(* can be replayed; and for any verdicts, predictions and texts the numbers  *)
(* of a report are right at both ends.                                       *)
(***************************************************************************)
EXTENDS EvalRuns, Measures, FiniteSetTheorems, SequenceTheorems,
        WellFoundedInduction, TLAPS

-----------------------------------------------------------------------------
(* Records of claims. *)

\* A run has of each claim the record of an answer, if it has one.
Recorded(R) ==
  /\ DOMAIN R = Claims
  /\ \A c \in Claims : R[c] # Missing => \E a \in Answers[c] : R[c] = RecordOfAnswer(a)

RecordsInv == DOMAIN records = Systems /\ \A s \in Systems : Recorded(records[s])

\* Of two sets, what one has more than the other is what it has alone less what the
\* other has alone.
LEMMA AloneCounts ==
  ASSUME NEW S, IsFiniteSet(S), NEW P \in SUBSET S, NEW Q \in SUBSET S
  PROVE  /\ Cardinality(Q) - Cardinality(P) = Cardinality(Q \ P) - Cardinality(P \ Q)
         /\ Cardinality(P) \in Nat /\ Cardinality(Q) \in Nat
  <1>1. IsFiniteSet(P) /\ IsFiniteSet(Q)
    BY FS_Subset
  <1>2. /\ Cardinality(Q \ P) = Cardinality(Q) - Cardinality(Q \cap P)
        /\ Cardinality(P \ Q) = Cardinality(P) - Cardinality(P \cap Q)
    BY <1>1, FS_Difference
  <1>3. P \cap Q = Q \cap P
    OBVIOUS
  <1>4. IsFiniteSet(Q \cap P)
    BY <1>1, FS_Subset
  <1>5. Cardinality(P) \in Nat /\ Cardinality(Q) \in Nat /\ Cardinality(Q \cap P) \in Nat
    BY <1>1, <1>4, FS_CardinalityType
  <1>6. Cardinality(P \ Q) = Cardinality(P) - Cardinality(Q \cap P)
    BY <1>2, <1>3
  <1> QED BY <1>2, <1>5, <1>6

\* The verdicts a set of claims has right are those whose verdict is the gold label.
LEMMA CorrectCounts ==
  ASSUME NEW R, NEW D
  PROVE  Correct(Pairs(R, D)) = Cardinality({c \in D : R[c].label = R[c].verdict})
  <1> DEFINE pairs == Pairs(R, D)
  <1>1. DOMAIN pairs = D /\ \A c \in D : pairs[c].gold = R[c].label /\ pairs[c].got = R[c].verdict
    BY DEF Pairs
  <1>2. {c \in DOMAIN pairs : pairs[c].gold = pairs[c].got} = {c \in D : R[c].label = R[c].verdict}
    BY <1>1
  <1> HIDE DEF pairs
  <1>3. Correct(pairs) = Cardinality({c \in DOMAIN pairs : pairs[c].gold = pairs[c].got})
    BY DEF Correct, Count
  <1> QED BY <1>2, <1>3 DEF pairs

\* No run has recorded anything.
LEMMA RecordsStart == MeasuresInit => RecordsInv
  BY DEF MeasuresInit, RecordsInv, Recorded

\* A record is written for an answer.
LEMMA RecordsStep == RecordsInv /\ [MeasuresNext]_measureVars => RecordsInv'
  <1> SUFFICES ASSUME RecordsInv, [MeasuresNext]_measureVars PROVE RecordsInv'
    OBVIOUS
  <1>1. CASE UNCHANGED records
    BY <1>1 DEF RecordsInv
  <1>2. ASSUME NEW s \in Systems, NEW c \in Claims, Answer(s, c) PROVE RecordsInv'
    <2>1. PICK a \in Answers[c] : records' = [records EXCEPT ![s][c] = RecordOfAnswer(a)]
      BY <1>2 DEF Answer
    <2>2. ASSUME NEW k \in Systems PROVE Recorded(records'[k])
      <3>1. DOMAIN records[k] = Claims
        BY DEF RecordsInv, Recorded
      <3>2. DOMAIN records'[k] = Claims
        BY <2>1, <3>1 DEF RecordsInv
      <3>3. ASSUME NEW x \in Claims, records'[k][x] # Missing
            PROVE  \E b \in Answers[x] : records'[k][x] = RecordOfAnswer(b)
        <4>1. CASE k = s /\ x = c
          BY <4>1, <2>1, <3>1 DEF RecordsInv
        <4>2. CASE ~(k = s /\ x = c)
          <5>1. records'[k][x] = records[k][x]
            BY <4>2, <2>1, <3>1 DEF RecordsInv
          <5> QED BY <5>1, <3>3 DEF RecordsInv, Recorded
        <4> QED BY <4>1, <4>2
      <3> QED BY <3>2, <3>3 DEF Recorded
    <2> QED BY <2>1, <2>2 DEF RecordsInv
  <1> QED BY <1>1, <1>2 DEF MeasuresNext, Verdict, Judging, Pool, OpenSession, JudgePage,
                          CloseSession, Predict, Writing, Rate, measureVars


-----------------------------------------------------------------------------
(* An outage. *)

\* A claim whose search is out of reach is neither scored nor searched.
LEMMA NothingWithoutSearch ==
  ASSUME NEW c \in Claims, NEW a \in Answers[c]
  PROVE  LET out == SearchFailed(RecordOfAnswer(a))
         IN Standing(out) \notin {"scored", "llmUnreachable"}
  BY DEF SearchFailed, RecordOfAnswer, Standing

\* What one run alone has right, and the other, make the difference.
LEMMA AlonesMakeTheDifference ==
  ASSUME NEW A, NEW B
  PROVE  LET both == Paired(A, B)
         IN Correct(Pairs(B, both)) - Correct(Pairs(A, both))
              = Cardinality(OnlyB(A, B)) - Cardinality(OnlyA(A, B))
  <1> DEFINE both == Paired(A, B)
             P == {c \in both : A[c].label = A[c].verdict}
             Q == {c \in both : B[c].label = B[c].verdict}
  <1>1. IsFiniteSet(both)
    BY MeasuresAssumption, FS_Subset DEF Paired, BothScored, Shared
  <1>2. OnlyA(A, B) = P \ Q /\ OnlyB(A, B) = Q \ P
    BY DEF OnlyA, OnlyB
  <1>3. Correct(Pairs(A, both)) = Cardinality(P) /\ Correct(Pairs(B, both)) = Cardinality(Q)
    BY CorrectCounts
  <1>4. P \in SUBSET both /\ Q \in SUBSET both
    OBVIOUS
  <1> HIDE DEF both, P, Q
  <1>5. Cardinality(Q) - Cardinality(P) = Cardinality(Q \ P) - Cardinality(P \ Q)
    BY <1>1, <1>4, AloneCounts
  <1> QED BY <1>2, <1>3, <1>5 DEF both

\* A claim that loses its search counts nowhere, and the others as before.
LEMMA OutageTakesAway ==
  ASSUME NEW A, NEW B, Recorded(A), NEW c \in Claims, A[c] # Missing
  PROVE  LET out == [A EXCEPT ![c] = SearchFailed(@)]
         IN /\ OnlyA(out, B) \subseteq OnlyA(A, B) /\ OnlyB(out, B) \subseteq OnlyB(A, B)
            /\ FoundOtherwise(out, B) \subseteq FoundOtherwise(A, B)
            /\ ChangedOnSameEvidence(out, B) \subseteq ChangedOnSameEvidence(A, B)
  <1> DEFINE out == [A EXCEPT ![c] = SearchFailed(@)]
  <1>1. \A x \in Claims : x # c => out[x] = A[x]
    BY DEF Recorded
  <1>2. out[c] = SearchFailed(A[c])
    BY DEF Recorded
  <1>3. ~IsScored(out[c]) /\ ~IsSearched(out[c])
    BY <1>2, NothingWithoutSearch DEF Recorded, IsScored, IsSearched
  <1> HIDE DEF out
  <1>4. \A x \in BothScored(out, B) : x \in BothScored(A, B) /\ out[x] = A[x]
    BY <1>1, <1>3 DEF BothScored, Shared
  <1>5. \A x \in BothSearched(out, B) : x \in BothSearched(A, B) /\ out[x] = A[x]
    BY <1>1, <1>3 DEF BothSearched, Shared
  <1>6. \A x \in Paired(out, B) : x \in Paired(A, B) /\ out[x] = A[x]
    BY <1>4 DEF Paired
  <1>7. OnlyA(out, B) \subseteq OnlyA(A, B) /\ OnlyB(out, B) \subseteq OnlyB(A, B)
    BY <1>6 DEF OnlyA, OnlyB
  <1>8. FoundOtherwise(out, B) \subseteq FoundOtherwise(A, B)
    BY <1>5 DEF FoundOtherwise
  <1>9. ChangedOnSameEvidence(out, B) \subseteq ChangedOnSameEvidence(A, B)
    BY <1>4 DEF ChangedOnSameEvidence, Changed
  <1> QED BY <1>7, <1>8, <1>9 DEF out

\* An outage is not a difference, whatever was recorded.
LEMMA RecordsMakeNoDifference == RecordsInv => AnOutageIsNotADifference
  <1> SUFFICES ASSUME RecordsInv, NEW s \in Systems, NEW t \in Systems
               PROVE  LET A == records[s]
                          B == records[t]
                          both == Paired(A, B)
                      IN /\ Correct(Pairs(B, both)) - Correct(Pairs(A, both))
                              = Cardinality(OnlyB(A, B)) - Cardinality(OnlyA(A, B))
                         /\ Paired(A, B) = BothScored(A, B)
                              => OnlyA(A, B) \cup OnlyB(A, B) \subseteq Changed(A, B)
                         /\ \A c \in Claims : A[c] # Missing =>
                              LET out == [A EXCEPT ![c] = SearchFailed(@)]
                              IN /\ OnlyA(out, B) \subseteq OnlyA(A, B)
                                 /\ OnlyB(out, B) \subseteq OnlyB(A, B)
                                 /\ FoundOtherwise(out, B) \subseteq FoundOtherwise(A, B)
                                 /\ ChangedOnSameEvidence(out, B) \subseteq ChangedOnSameEvidence(A, B)
    BY DEF AnOutageIsNotADifference
  <1> DEFINE A == records[s]
             B == records[t]
  <1>1. Recorded(A)
    BY DEF RecordsInv
  <1> HIDE DEF A, B
  <1>2. Paired(A, B) = BothScored(A, B) => OnlyA(A, B) \cup OnlyB(A, B) \subseteq Changed(A, B)
    BY DEF Paired, OnlyA, OnlyB, Changed
  <1>3. LET both == Paired(A, B)
        IN Correct(Pairs(B, both)) - Correct(Pairs(A, both))
             = Cardinality(OnlyB(A, B)) - Cardinality(OnlyA(A, B))
    BY AlonesMakeTheDifference
  <1>4. ASSUME NEW c \in Claims, A[c] # Missing
        PROVE  LET out == [A EXCEPT ![c] = SearchFailed(@)]
               IN /\ OnlyA(out, B) \subseteq OnlyA(A, B)
                  /\ OnlyB(out, B) \subseteq OnlyB(A, B)
                  /\ FoundOtherwise(out, B) \subseteq FoundOtherwise(A, B)
                  /\ ChangedOnSameEvidence(out, B) \subseteq ChangedOnSameEvidence(A, B)
    BY <1>1, <1>4, OutageTakesAway
  <1> QED BY <1>2, <1>3, <1>4 DEF A, B

\* When one of two runs loses its search on a claim, no claim becomes one that only one
\* side got right or found otherwise, for any records of any two systems.
THEOREM OutageHolds == MeasuresSpec => []AnOutageIsNotADifference
  BY RecordsStart, RecordsStep, RecordsMakeNoDifference, PTL DEF MeasuresSpec


-----------------------------------------------------------------------------
(* The stage of an error. *)

\* What is cited was ranked, and what was ranked was found.
LEMMA DepthsNest ==
  ASSUME NEW c \in Claims, NEW a \in Answers[c]
  PROVE  LET r == RecordOfAnswer(a)
         IN /\ Sources(r, "cited") \subseteq Sources(r, "ranked")
            /\ Sources(r, "ranked") \subseteq Sources(r, "candidates")
  BY MeasuresAssumption DEF Sources, RecordOfAnswer

\* A claim is found at each depth before one at which it is found.
LEMMA FoundBefore ==
  ASSUME NEW c \in Claims, NEW a \in Answers[c], NEW i \in 1..3, NEW j \in 1..3, i < j
  PROVE  LET r == RecordOfAnswer(a)
         IN /\ LinkFound(c, r, Depths[j]) => LinkFound(c, r, Depths[i])
            /\ DomainFound(c, r, Depths[j]) => DomainFound(c, r, Depths[i])
  <1> DEFINE r == RecordOfAnswer(a)
  <1>1. /\ Sources(r, "cited") \subseteq Sources(r, "ranked")
        /\ Sources(r, "ranked") \subseteq Sources(r, "candidates")
    BY DepthsNest
  <1> HIDE DEF r
  <1>2. Depths[1] = "candidates" /\ Depths[2] = "ranked" /\ Depths[3] = "cited"
    BY DEF Depths
  <1>3. (i = 1 /\ j = 2) \/ (i = 1 /\ j = 3) \/ (i = 2 /\ j = 3)
    OBVIOUS
  <1>4. Sources(r, Depths[j]) \subseteq Sources(r, Depths[i])
    BY <1>1, <1>2, <1>3
  <1> HIDE <1>1, <1>2, <1>3
  <1>5. /\ LinkFound(c, r, Depths[j]) => LinkFound(c, r, Depths[i])
        /\ DomainFound(c, r, Depths[j]) => DomainFound(c, r, Depths[i])
    BY <1>4 DEF LinkFound, DomainFound
  <1> QED BY <1>5 DEF r

\* The trace blames one of the four.
LEMMA TraceBlamesOne ==
  ASSUME NEW r
  PROVE  ByTrace(r) \in {"retrieval", "ranking", "reasoning", "aggregation"}
  BY DEF ByTrace

\* The annotator's links never blame a later stage than the trace.
LEMMA LinksBlameEarlier ==
  ASSUME NEW c, NEW r, NEW i \in 1..4, NEW j \in 1..4,
         ByTrace(r) = ErrorStages[i], ByReference(c, r) = ErrorStages[j]
  PROVE  j <= i
  <1>1. /\ ErrorStages[1] = "retrieval" /\ ErrorStages[2] = "ranking"
        /\ ErrorStages[3] = "reasoning" /\ ErrorStages[4] = "aggregation"
    BY DEF ErrorStages
  <1> DEFINE stage == ByTrace(r)
             link == ByReference(c, r)
  <1>6. /\ stage = "retrieval" <=> i = 1
        /\ stage = "ranking" <=> i = 2
        /\ stage = "reasoning" <=> i = 3
        /\ stage = "aggregation" <=> i = 4
    <2>1. stage = ErrorStages[i]
      OBVIOUS
    <2> HIDE DEF stage
    <2>2. i = 1 \/ i = 2 \/ i = 3 \/ i = 4
      OBVIOUS
    <2> QED BY <1>1, <2>1, <2>2
  <1>7. /\ link = "retrieval" <=> j = 1
        /\ link = "ranking" <=> j = 2
        /\ link = "reasoning" <=> j = 3
        /\ link = "aggregation" <=> j = 4
        /\ link # Missing
    <2>1. link = ErrorStages[j]
      OBVIOUS
    <2> HIDE DEF link
    <2>2. j = 1 \/ j = 2 \/ j = 3 \/ j = 4
      OBVIOUS
    <2> QED BY <1>1, <2>1, <2>2, MeasuresAssumption
  <1>2. CASE r.rawVerdict = r.label
    <2>1. i = 4
      BY <1>6, <1>2 DEF ByTrace
    <2> QED BY <2>1
  <1>3. CASE r.rawVerdict # r.label /\ Sources(r, "candidates") = {}
    <2>1. ~LinkFound(c, r, "candidates") /\ ~DomainFound(c, r, "candidates")
      BY <1>3 DEF LinkFound, DomainFound
    <2>2. ByReference(c, r) \in {Missing, "retrieval"}
      BY <1>3, <2>1 DEF ByReference
    <2>3. ByReference(c, r) = "retrieval"
      BY <1>7, <2>2
    <2>4. j = 1
      BY <1>7, <2>3
    <2> QED BY <2>4
  <1>4. CASE /\ r.rawVerdict # r.label /\ Sources(r, "candidates") # {}
             /\ r.evidence = << >>
    <2>1. Sources(r, "ranked") = {}
      BY <1>4 DEF Sources, ToSet
    <2>2. ~LinkFound(c, r, "ranked") /\ ~DomainFound(c, r, "ranked")
      BY <2>1 DEF LinkFound, DomainFound
    <2>3. ByReference(c, r) \in {Missing, "retrieval", "ranking"}
      BY <1>4, <2>2 DEF ByReference
    <2>4. ByTrace(r) = "ranking"
      BY <1>4 DEF ByTrace
    <2>5. i = 2
      BY <1>6, <2>4
    <2>6. j \in {1, 2}
      BY <1>7, <2>3
    <2> QED BY <2>5, <2>6
  <1>5. CASE /\ r.rawVerdict # r.label /\ Sources(r, "candidates") # {}
             /\ r.evidence # << >>
    <2>1. ByTrace(r) = "reasoning"
      BY <1>5 DEF ByTrace
    <2>2. ByReference(c, r) # "aggregation"
      BY <1>5, MeasuresAssumption DEF ByReference
    <2>3. i = 3
      BY <1>6, <2>1
    <2>4. j # 4
      BY <1>7, <2>2
    <2> QED BY <2>3, <2>4
  <1> QED BY <1>2, <1>3, <1>4, <1>5

\* Four parts of a finite set, that have nothing in common, make up its number.
LEMMA FourParts ==
  ASSUME NEW W, IsFiniteSet(W), NEW f,
         \A c \in W : f[c] \in {"retrieval", "ranking", "reasoning", "aggregation"}
  PROVE  Cardinality({c \in W : f[c] = "retrieval"}) + Cardinality({c \in W : f[c] = "ranking"})
         + Cardinality({c \in W : f[c] = "reasoning"}) + Cardinality({c \in W : f[c] = "aggregation"})
         = Cardinality(W)
  <1> DEFINE P == {c \in W : f[c] = "retrieval"}
             Q == {c \in W : f[c] = "ranking"}
             R == {c \in W : f[c] = "reasoning"}
             T == {c \in W : f[c] = "aggregation"}
  <1>1. IsFiniteSet(P) /\ IsFiniteSet(Q) /\ IsFiniteSet(R) /\ IsFiniteSet(T)
    BY FS_Subset
  <1>2. /\ P \cap Q = {} /\ R \cap T = {} /\ (P \cup Q) \cap (R \cup T) = {}
        /\ (P \cup Q) \cup (R \cup T) = W
    OBVIOUS
  <1> HIDE DEF P, Q, R, T
  <1>3. /\ IsFiniteSet(P \cup Q) /\ IsFiniteSet(R \cup T)
        /\ Cardinality(P \cup Q) = Cardinality(P) + Cardinality(Q) - Cardinality(P \cap Q)
        /\ Cardinality(R \cup T) = Cardinality(R) + Cardinality(T) - Cardinality(R \cap T)
    BY <1>1, FS_Union
  <1>4. Cardinality((P \cup Q) \cup (R \cup T))
          = Cardinality(P \cup Q) + Cardinality(R \cup T) - Cardinality((P \cup Q) \cap (R \cup T))
    BY <1>3, FS_Union
  <1>5. Cardinality({}) = 0
    BY FS_EmptySet
  <1>6. /\ Cardinality(P) \in Nat /\ Cardinality(Q) \in Nat
        /\ Cardinality(R) \in Nat /\ Cardinality(T) \in Nat
    BY <1>1, FS_CardinalityType
  <1>7. Cardinality(W) = Cardinality(P \cup Q) + Cardinality(R \cup T) - 0
    BY <1>2, <1>4, <1>5
  <1>8. /\ Cardinality(P \cup Q) = Cardinality(P) + Cardinality(Q) - 0
        /\ Cardinality(R \cup T) = Cardinality(R) + Cardinality(T) - 0
    BY <1>2, <1>3, <1>5
  <1>9. Cardinality(P) + Cardinality(Q) + Cardinality(R) + Cardinality(T) = Cardinality(W)
    BY <1>6, <1>7, <1>8
  <1> QED BY <1>9 DEF P, Q, R, T


\* The errors of a run are what it scored less what it has right.
LEMMA ErrorsAreTheRest ==
  ASSUME NEW s \in Systems
  PROVE  LET pairs == Pairs(records[s], ScoredBy(s))
         IN Cardinality(WrongOf(s)) = N(pairs) - Correct(pairs)
  <1> DEFINE D == ScoredBy(s)
             right == {c \in D : records[s][c].label = records[s][c].verdict}
             pairs == Pairs(records[s], D)
  <1>1. IsFiniteSet(D)
    BY MeasuresAssumption, FS_Subset DEF ScoredBy
  <1>2. WrongOf(s) = D \ right
    BY DEF WrongOf, ScoredBy, Wrong
  <1>3. N(pairs) = Cardinality(D)
    BY DEF N, Pairs
  <1>4. Correct(pairs) = Cardinality(right)
    BY CorrectCounts
  <1>5. right \in SUBSET D
    OBVIOUS
  <1> HIDE DEF D, right, pairs
  <1>6. Cardinality(D \ right) = Cardinality(D) - Cardinality(D \cap right)
    <2>1. IsFiniteSet(right)
      BY <1>1, <1>5, FS_Subset
    <2> QED BY <1>1, <2>1, FS_Difference
  <1>7. D \cap right = right
    BY <1>5
  <1> QED BY <1>2, <1>3, <1>4, <1>6, <1>7 DEF D, pairs

\* Every error has its stage, whatever was recorded.
LEMMA RecordsBlameOneStage == RecordsInv => EveryErrorHasItsStage
  <1> SUFFICES ASSUME RecordsInv, NEW s \in Systems
               PROVE  LET pairs == Pairs(records[s], ScoredBy(s))
                          blamed(i) == Cardinality(Trace(s, ErrorStages[i]))
                      IN /\ blamed(1) + blamed(2) + blamed(3) + blamed(4) = N(pairs) - Correct(pairs)
                         /\ \A i, j \in 1..4 :
                              Trace(s, ErrorStages[i]) \cap Reference(s, ErrorStages[j]) # {} => j <= i
                         /\ \A c \in Claims, i, j \in 1..3 : records[s][c] # Missing /\ i < j =>
                              /\ LinkFound(c, records[s][c], Depths[j]) => LinkFound(c, records[s][c], Depths[i])
                              /\ DomainFound(c, records[s][c], Depths[j]) => DomainFound(c, records[s][c], Depths[i])
    BY DEF EveryErrorHasItsStage
  <1> DEFINE pairs == Pairs(records[s], ScoredBy(s))
             blamed(i) == Cardinality(Trace(s, ErrorStages[i]))
  <1>1. blamed(1) + blamed(2) + blamed(3) + blamed(4) = N(pairs) - Correct(pairs)
    <2> DEFINE W == WrongOf(s)
               f == [c \in W |-> ByTrace(records[s][c])]
    <2>1. \A c \in W : f[c] \in {"retrieval", "ranking", "reasoning", "aggregation"}
      BY TraceBlamesOne
    <2>2. IsFiniteSet(W)
      BY MeasuresAssumption, FS_Subset DEF WrongOf
    <2>3. \A stage : Trace(s, stage) = {c \in W : f[c] = stage}
      BY DEF Trace
    <2> HIDE DEF f, W
    <2>4. Cardinality({c \in W : f[c] = "retrieval"}) + Cardinality({c \in W : f[c] = "ranking"})
          + Cardinality({c \in W : f[c] = "reasoning"}) + Cardinality({c \in W : f[c] = "aggregation"})
          = Cardinality(W)
      BY <2>1, <2>2, FourParts
    <2>5. /\ blamed(1) = Cardinality({c \in W : f[c] = "retrieval"})
          /\ blamed(2) = Cardinality({c \in W : f[c] = "ranking"})
          /\ blamed(3) = Cardinality({c \in W : f[c] = "reasoning"})
          /\ blamed(4) = Cardinality({c \in W : f[c] = "aggregation"})
      BY <2>3 DEF ErrorStages
    <2>6. Cardinality(W) = N(pairs) - Correct(pairs)
      BY ErrorsAreTheRest DEF W
    <2> QED BY <2>4, <2>5, <2>6
  <1>2. ASSUME NEW i \in 1..4, NEW j \in 1..4,
               Trace(s, ErrorStages[i]) \cap Reference(s, ErrorStages[j]) # {}
        PROVE  j <= i
    <2>1. PICK c : c \in Trace(s, ErrorStages[i]) /\ c \in Reference(s, ErrorStages[j])
      BY <1>2
    <2>2. ByTrace(records[s][c]) = ErrorStages[i] /\ ByReference(c, records[s][c]) = ErrorStages[j]
      BY <2>1 DEF Trace, Reference
    <2> QED BY <2>2, LinksBlameEarlier
  <1>3. ASSUME NEW c \in Claims, NEW i \in 1..3, NEW j \in 1..3, records[s][c] # Missing, i < j
        PROVE  /\ LinkFound(c, records[s][c], Depths[j]) => LinkFound(c, records[s][c], Depths[i])
               /\ DomainFound(c, records[s][c], Depths[j]) => DomainFound(c, records[s][c], Depths[i])
    <2>1. PICK a \in Answers[c] : records[s][c] = RecordOfAnswer(a)
      BY <1>3 DEF RecordsInv, Recorded
    <2> QED BY <1>3, <2>1, FoundBefore
  <1> QED BY <1>1, <1>2, <1>3

\* Every error of a run is blamed on one stage, the annotator's column never blames a
\* later one than the trace, and a claim is found at each depth before the last at which
\* it is: for any answers, references and sites.
THEOREM StagesHold == MeasuresSpec => []EveryErrorHasItsStage
  BY RecordsStart, RecordsStep, RecordsBlameOneStage, PTL DEF MeasuresSpec

-----------------------------------------------------------------------------
(* A second look. *)

\* Verdicts beside the gold labels.
Told(D, label, verdict) == [c \in D |-> [gold |-> label[c], got |-> verdict[c]]]

\* What a policy or the first look has right, among what a run scored.
LEMMA VerdictsCount ==
  ASSUME NEW D, NEW label, NEW verdict
  PROVE  Correct(Told(D, label, verdict))
           = Cardinality({c \in D : label[c] = verdict[c]})
  <1> DEFINE pairs == Told(D, label, verdict)
  <1>1. {c \in DOMAIN pairs : pairs[c].gold = pairs[c].got} = {c \in D : label[c] = verdict[c]}
    BY DEF Told
  <1> HIDE DEF pairs
  <1>2. Correct(pairs) = Cardinality({c \in DOMAIN pairs : pairs[c].gold = pairs[c].got})
    BY DEF Correct, Count
  <1> QED BY <1>1, <1>2 DEF pairs

\* Whenever UNVERIFIED alone triggers a look, the whole trigger does.
LEMMA FiresBoth ==
  ASSUME NEW r, Fires("unverifiedOnly", r)
  PROVE  Fires("unverifiedOrUnsure", r)
  BY MeasuresAssumption DEF Fires

\* What triggers a look as UNVERIFIED was UNVERIFIED at first.
LEMMA TriggeredByTheFirst ==
  ASSUME NEW c \in Claims, NEW a \in Answers[c], Fires("unverifiedOnly", RecordOfAnswer(a))
  PROVE  First(RecordOfAnswer(a)) = "UNVERIFIED"
  <1> DEFINE r == RecordOfAnswer(a)
             trigger == Doubt(a.first, a.unsure)
  <1>1. r.look # Missing /\ r.look.trigger = "unverified"
    BY DEF Fires
  <1>2. r.look = LookOf(a) /\ a.ok
    BY <1>1 DEF RecordOfAnswer
  <1>3. LookOf(a) # Missing
    BY <1>1, <1>2
  <1>4. LookOf(a).trigger = trigger /\ LookOf(a).first = a.first
    BY <1>3 DEF LookOf
  <1>5. trigger = "unverified"
    BY <1>1, <1>2, <1>4
  <1>6. a.first = "UNVERIFIED"
    BY <1>5, MeasuresAssumption DEF Doubt
  <1>7. CASE LookOf(a).kind = "pipeline"
    BY <1>2, <1>3, <1>4, <1>6, <1>7 DEF First, RecordOfAnswer
  <1>8. CASE LookOf(a).kind # "pipeline"
    BY <1>2, <1>3, <1>6, <1>8 DEF First, RecordOfAnswer
  <1> QED BY <1>7, <1>8

\* The difference of a rule is what it put right less what it broke.
LEMMA RuleCounts ==
  ASSUME NEW s \in Systems, NEW rule \in Rules
  PROVE  Correct(Policy(s, rule)) - Correct(FirstPairs(s))
           = Cardinality(WrongToRight(s, rule)) - Cardinality(RightToWrong(s, rule))
  <1> DEFINE D == ScoredBy(s)
             label == [c \in D |-> records[s][c].label]
             first == [c \in D |-> First(records[s][c])]
             after == [c \in D |-> After(rule, records[s][c])]
             P == {c \in D : label[c] = first[c]}
             Q == {c \in D : label[c] = after[c]}
  <1>1. IsFiniteSet(D)
    BY MeasuresAssumption, FS_Subset DEF ScoredBy
  <1>2. Policy(s, rule) = Told(D, label, after)
    BY DEF Policy, Told
  <1>3. FirstPairs(s) = Told(D, label, first)
    BY DEF FirstPairs, Told
  <1>4. WrongToRight(s, rule) = Q \ P /\ RightToWrong(s, rule) = P \ Q
    BY DEF WrongToRight, RightToWrong
  <1>5. P \in SUBSET D /\ Q \in SUBSET D
    OBVIOUS
  <1> HIDE DEF D, label, first, after
  <1>6. Correct(Policy(s, rule)) = Cardinality(Q)
    BY <1>2, VerdictsCount
  <1>7. Correct(FirstPairs(s)) = Cardinality(P)
    BY <1>3, VerdictsCount
  <1> HIDE DEF P, Q
  <1>8. Cardinality(Q) - Cardinality(P) = Cardinality(Q \ P) - Cardinality(P \ Q)
    BY <1>1, <1>5, AloneCounts
  <1> QED BY <1>4, <1>6, <1>7, <1>8

\* The looks explain the difference, whatever was recorded.
LEMMA RecordsExplain == RecordsInv => LooksExplainTheDifference
  <1> SUFFICES ASSUME RecordsInv, NEW s \in Systems
               PROVE  /\ \A rule \in Rules :
                           Correct(Policy(s, rule)) - Correct(FirstPairs(s))
                             = Cardinality(WrongToRight(s, rule)) - Cardinality(RightToWrong(s, rule))
                      /\ WrongToRight(s, "unverifiedOnly") \subseteq WrongToRight(s, "unverifiedOrUnsure")
                      /\ RightToWrong(s, "unverifiedOnly") \subseteq RightToWrong(s, "unverifiedOrUnsure")
                      /\ \A c \in RightToWrong(s, "unverifiedOnly") : records[s][c].label = "UNVERIFIED"
    BY DEF LooksExplainTheDifference
  <1>1. \A r : Fires("unverifiedOnly", r)
               => After("unverifiedOnly", r) = After("unverifiedOrUnsure", r)
    BY FiresBoth DEF After
  <1>2. \A r : ~Fires("unverifiedOnly", r) => After("unverifiedOnly", r) = First(r)
    BY DEF After
  <1>3. WrongToRight(s, "unverifiedOnly") \subseteq WrongToRight(s, "unverifiedOrUnsure")
    BY <1>1, <1>2 DEF WrongToRight
  <1>4. RightToWrong(s, "unverifiedOnly") \subseteq RightToWrong(s, "unverifiedOrUnsure")
    BY <1>1, <1>2 DEF RightToWrong
  <1>5. ASSUME NEW c \in RightToWrong(s, "unverifiedOnly") PROVE records[s][c].label = "UNVERIFIED"
    <2> DEFINE r == records[s][c]
    <2>1. c \in Claims /\ r # Missing /\ First(r) = r.label /\ After("unverifiedOnly", r) # r.label
      BY DEF RightToWrong, ScoredBy, IsScored
    <2>2. Fires("unverifiedOnly", r)
      BY <1>2, <2>1
    <2>3. PICK a \in Answers[c] : r = RecordOfAnswer(a)
      BY <2>1 DEF RecordsInv, Recorded
    <2>4. First(r) = "UNVERIFIED"
      BY <2>1, <2>2, <2>3, TriggeredByTheFirst
    <2> QED BY <2>1, <2>4
  <1> QED BY RuleCounts, <1>3, <1>4, <1>5

\* What a second look is worth is what it put right less what it broke, and what a look
\* that UNVERIFIED alone triggers can break is a claim whose gold label is UNVERIFIED.
THEOREM LooksHold == MeasuresSpec => []LooksExplainTheDifference
  BY RecordsStart, RecordsStep, RecordsExplain, PTL DEF MeasuresSpec


-----------------------------------------------------------------------------
(* Pooled judgements. *)

\* Each entry of a judgement file says whether its page is relevant.
FileLike(file) == \A e \in DOMAIN file : "relevant" \in DOMAIN file[e]

\* What one file says of a page that was judged, the other says.
Stands(old, new) ==
  \A e \in Judged(old) : e \in DOMAIN new /\ new[e].relevant = old[e].relevant

\* What a judging session holds has every judgement of the file: nobody else judges.
PoolInv ==
  /\ FileLike(judgements)
  /\ sitting # Missing => FileLike(sitting) /\ Stands(judgements, sitting)

\* Pooling keeps every judgement.
LEMMA PoolStands ==
  ASSUME NEW runs, NEW file, FileLike(file)
  PROVE  FileLike(Pooled(runs, file)) /\ Stands(file, Pooled(runs, file))
  <1> DEFINE pages == UNION {TopPages(records[s]) : s \in runs}
             was(e) == IF e \in DOMAIN file THEN file[e] ELSE Unjudged
             new == Pooled(runs, file)
  <1>1. DOMAIN new = DOMAIN file \cup pages
    BY DEF Pooled
  <1>2. \A e \in DOMAIN new :
          new[e] = [was(e) EXCEPT !.pooledFrom = @ \cup {s \in runs : e \in TopPages(records[s])}]
    BY DEF Pooled
  <1>3. \A e \in DOMAIN new : "relevant" \in DOMAIN was(e)
    BY DEF FileLike, Unjudged
  <1> HIDE DEF new, was
  <1>4. \A e \in DOMAIN new : "relevant" \in DOMAIN new[e] /\ new[e].relevant = was(e).relevant
    BY <1>2, <1>3
  <1>5. \A e \in DOMAIN file : was(e) = file[e]
    BY DEF was
  <1>6. FileLike(new)
    BY <1>4 DEF FileLike
  <1>7. Stands(file, new)
    BY <1>1, <1>4, <1>5 DEF Stands, Judged
  <1> QED BY <1>6, <1>7 DEF new

\* There is no file, and no session.
LEMMA PoolStart == MeasuresInit => PoolInv
  BY DEF MeasuresInit, PoolInv, FileLike

\* A step leaves every judgement that was given.
LEMMA PoolStep ==
  PoolInv /\ [MeasuresNext]_measureVars => PoolInv' /\ Stands(judgements, judgements')
  <1> SUFFICES ASSUME PoolInv, [MeasuresNext]_measureVars
               PROVE  PoolInv' /\ Stands(judgements, judgements')
    OBVIOUS
  <1>0. Stands(judgements, judgements)
    BY DEF Stands, Judged
  <1>1. CASE UNCHANGED <<judgements, sitting>>
    BY <1>0, <1>1 DEF PoolInv, Stands, Judged, FileLike
  <1>2. CASE Pool
    <2>1. PICK runs \in Pools : judgements' = Pooled(runs, judgements)
      BY <1>2 DEF Pool
    <2>2. FileLike(judgements') /\ Stands(judgements, judgements')
      BY <2>1, PoolStands DEF PoolInv
    <2>3. sitting' = sitting
      BY <1>2 DEF Pool
    <2>4. ASSUME sitting # Missing, NEW e \in Judged(judgements')
          PROVE  e \in DOMAIN sitting /\ sitting[e].relevant = judgements'[e].relevant
      <3>1. e \in Judged(judgements)
        <4> DEFINE was == IF e \in DOMAIN judgements THEN judgements[e] ELSE Unjudged
        <4>1. e \in DOMAIN judgements' /\ judgements'[e].relevant # "null"
          BY <2>4 DEF Judged
        <4>2. judgements'[e] = [was EXCEPT !.pooledFrom =
                                  @ \cup {s \in runs : e \in TopPages(records[s])}]
          BY <2>1, <4>1 DEF Pooled
        <4>3. "relevant" \in DOMAIN was
          BY DEF PoolInv, FileLike, Unjudged
        <4> HIDE DEF was
        <4>4. was.relevant # "null"
          BY <4>1, <4>2, <4>3
        <4> QED BY <4>4 DEF was, Unjudged, Judged
      <3>2. judgements'[e].relevant = judgements[e].relevant
        BY <2>2, <3>1 DEF Stands
      <3> QED BY <2>4, <3>1, <3>2 DEF PoolInv, Stands
    <2> QED BY <2>2, <2>3, <2>4 DEF PoolInv, Stands
  <1>3. CASE OpenSession
    BY <1>0, <1>3 DEF OpenSession, PoolInv, Stands, Judged, FileLike
  <1>4. CASE JudgePage
    <2>1. PICK e \in DOMAIN sitting \ Judged(sitting), answer \in {"y", "n"} :
            sitting' = [sitting EXCEPT ![e].relevant = answer]
      BY <1>4 DEF JudgePage
    <2>2. sitting # Missing /\ judgements' = sitting'
      BY <1>4 DEF JudgePage
    <2>3. FileLike(sitting) /\ Stands(judgements, sitting)
      BY <2>2 DEF PoolInv
    <2>4. DOMAIN sitting' = DOMAIN sitting /\ \A x \in DOMAIN sitting : x # e => sitting'[x] = sitting[x]
      BY <2>1
    <2>5. sitting'[e] = [sitting[e] EXCEPT !.relevant = answer]
      BY <2>1
    <2>6. FileLike(sitting')
      BY <2>3, <2>4, <2>5 DEF FileLike
    <2>7. ASSUME NEW x \in Judged(judgements)
          PROVE  x \in DOMAIN sitting' /\ sitting'[x].relevant = judgements[x].relevant
      <3>1. x \in DOMAIN sitting /\ sitting[x].relevant = judgements[x].relevant
        BY <2>3 DEF Stands
      <3>2. x \in Judged(sitting)
        BY <3>1 DEF Judged
      <3>3. x # e
        BY <3>2, <2>1
      <3> QED BY <3>1, <3>3, <2>4
    <2>8. Stands(judgements, sitting')
      BY <2>7 DEF Stands
    <2>9. Stands(sitting', sitting')
      BY DEF Stands, Judged
    <2>10. FileLike(judgements)' /\ Stands(judgements, judgements')
      BY <2>2, <2>6, <2>8 DEF FileLike
    <2>11. FileLike(sitting)' /\ Stands(judgements, sitting)'
      BY <2>2, <2>6, <2>9 DEF FileLike, Stands, Judged
    <2> QED BY <2>10, <2>11 DEF PoolInv
  <1>5. CASE CloseSession
    BY <1>0, <1>5 DEF CloseSession, PoolInv, FileLike
  <1> QED BY <1>1, <1>2, <1>3, <1>4, <1>5 DEF MeasuresNext, Verdict, Answer, Judging, Predict,
                                            Writing, Rate, measureVars

\* A claim's scores are made of what was judged.
LEMMA ScoresOfTheJudged ==
  ASSUME NEW old, NEW new, Judged(old) = Judged(new), Stands(old, new), NEW c, NEW r
  PROVE  ClaimScores(c, r, new) = ClaimScores(c, r, old)
  <1> DEFINE top == Top(r)
             at(file, mark) == {i \in 1..Len(top) : <<c, top[i]>> \in Judged(file)
                                                    /\ file[<<c, top[i]>>].relevant \in mark}
             firstIn(R) == SelectInSeq(top, LAMBDA p : <<c, p>> \in R)
  <1>1. \A e \in Judged(old) : new[e].relevant = old[e].relevant
    BY DEF Stands
  <1>2. \A mark : at(new, mark) = at(old, mark)
    BY <1>1
  <1>3. Relevant(new, c) = Relevant(old, c)
    BY <1>1 DEF Relevant
  <1> HIDE DEF top, at, firstIn
  <1>4. \A file : ClaimScores(c, r, file) =
          [hits |-> Cardinality(at(file, {"y"})), judged |-> Cardinality(at(file, {"y", "n"})),
           pool |-> Cardinality(Relevant(file, c)),
           first |-> firstIn(Relevant(file, c))]
    BY DEF ClaimScores, top, at, firstIn
  <1> QED BY <1>2, <1>3, <1>4

\* Pooling moves no score, whatever was recorded and judged.
THEOREM PoolingHolds == MeasuresSpec => PoolingMovesNoScore
  <1> DEFINE Unmoved ==
        /\ \A e \in Judged(judgements) :
             e \in DOMAIN judgements' /\ judgements'[e].relevant = judgements[e].relevant
        /\ records' = records /\ Judged(judgements') = Judged(judgements)
             => PooledTable(judgements)' = PooledTable(judgements)
  <1>1. PoolInv /\ [MeasuresNext]_measureVars => [Unmoved]_measureVars
    <2> SUFFICES ASSUME PoolInv, [MeasuresNext]_measureVars PROVE Unmoved
      OBVIOUS
    <2>1. Stands(judgements, judgements')
      BY PoolStep
    <2>2. ASSUME records' = records, Judged(judgements') = Judged(judgements)
          PROVE  PooledTable(judgements)' = PooledTable(judgements)
      <3>1. \A c, r : ClaimScores(c, r, judgements') = ClaimScores(c, r, judgements)
        BY <2>1, <2>2, ScoresOfTheJudged
      <3> QED BY <2>2, <3>1 DEF PooledTable
    <2> QED BY <2>1, <2>2 DEF Stands
  <1>2. MeasuresInit => PoolInv
    BY PoolStart
  <1>3. PoolInv /\ [MeasuresNext]_measureVars => PoolInv'
    BY PoolStep
  <1> QED BY <1>1, <1>2, <1>3, PTL DEF MeasuresSpec, PoolingMovesNoScore


-----------------------------------------------------------------------------
(* What is made one step at a time. *)

\* A set of numbers has a least one.
LEMMA Least ==
  ASSUME NEW S \in SUBSET Nat, S # {}
  PROVE  \E m \in S : \A k \in S : m <= k
  <1>1. PICK m \in S : \A k \in S : <<k, m>> \notin OpToRel(<, Nat)
    BY NatLessThanWellFounded, WFMin
  <1>2. \A k \in S : ~(k < m)
    BY <1>1 DEF OpToRel
  <1> QED BY <1>2

\* A set that has 0 and with each number the next has them all.
LEMMA Induction ==
  ASSUME NEW S \in SUBSET Nat, 0 \in S, \A n \in S : n + 1 \in S
  PROVE  S = Nat
  <1> SUFFICES ASSUME Nat \ S # {} PROVE FALSE
    OBVIOUS
  <1>1. PICK m \in Nat \ S : \A k \in Nat \ S : m <= k
    BY Least
  <1>2. m # 0 /\ m - 1 \in S
    BY <1>1
  <1> QED BY <1>1, <1>2

\* What is made one step at a time, each from the step before.
Stepped(g, start, last, go) == g = [n \in 0..last |-> IF n = 0 THEN start ELSE go[n][g[n - 1]]]

\* What is made one step at a time from the step before it can be made.
LEMMA StepByStep ==
  ASSUME NEW V, NEW start \in V, NEW last \in Nat, NEW go \in [1..last -> [V -> V]]
  PROVE  \E g \in [0..last -> V] : Stepped(g, start, last, go)
  <1> DEFINE T == {k \in Nat : k <= last =>
                     \E g \in [0..k -> V] : g = [n \in 0..k |-> IF n = 0 THEN start ELSE go[n][g[n - 1]]]}
  <1>1. 0 \in T
    <2> DEFINE g == [n \in 0..0 |-> start]
    <2>1. g \in [0..0 -> V] /\ g[0] = start
      OBVIOUS
    <2>3. \A n \in 0..0 : n = 0
      OBVIOUS
    <2>2. g = [n \in 0..0 |-> IF n = 0 THEN start ELSE go[n][g[n - 1]]]
      BY <2>1, <2>3
    <2>4. 0 <= last => \E h \in [0..0 -> V] : h = [n \in 0..0 |-> IF n = 0 THEN start ELSE go[n][h[n - 1]]]
      BY <2>1, <2>2
    <2> QED BY <2>4
  <1>2. ASSUME NEW k \in T PROVE k + 1 \in T
    <2> SUFFICES ASSUME k + 1 <= last
                 PROVE  \E g \in [0..k+1 -> V] : g = [n \in 0..k+1 |-> IF n = 0 THEN start ELSE go[n][g[n - 1]]]
      <3>1. k + 1 \in Nat
        OBVIOUS
      <3> QED BY <3>1, Zenon
    <2>1. PICK g \in [0..k -> V] : g = [n \in 0..k |-> IF n = 0 THEN start ELSE go[n][g[n - 1]]]
      OBVIOUS
    <2> DEFINE h == [n \in 0..k+1 |-> IF n <= k THEN g[n] ELSE go[k + 1][g[k]]]
    <2>2. k \in 0..k /\ k + 1 \in 1..last /\ (k + 1) - 1 = k
      OBVIOUS
    <2>3. go[k + 1][g[k]] \in V
      BY <2>2
    <2>4. h \in [0..k+1 -> V]
      BY <2>3
    <2>5. \A n \in 0..k : h[n] = g[n]
      OBVIOUS
    <2>6. h[k + 1] = go[k + 1][g[k]]
      OBVIOUS
    <2>7. \A n \in 0..k+1 : h[n] = IF n = 0 THEN start ELSE go[n][h[n - 1]]
      <3> HIDE DEF h
      <3> TAKE n \in 0..k+1
      <3>1. CASE n = 0
        <4>1. n \in 0..k
          BY <3>1
        <4> QED BY <2>1, <2>5, <3>1, <4>1
      <3>2. CASE n # 0 /\ n <= k
        <4>1. n \in 0..k /\ n - 1 \in 0..k
          BY <3>2
        <4>2. g[n] = go[n][g[n - 1]]
          BY <2>1, <3>2, <4>1
        <4> QED BY <2>5, <3>2, <4>1, <4>2
      <3>3. CASE n = k + 1
        BY <2>2, <2>5, <2>6, <3>3
      <3> QED BY <3>1, <3>2, <3>3
    <2>8. h = [n \in 0..k+1 |-> h[n]]
      OBVIOUS
    <2> HIDE DEF h
    <2>9. h = [n \in 0..k+1 |-> IF n = 0 THEN start ELSE go[n][h[n - 1]]]
      BY <2>7, <2>8
    <2> QED BY <2>4, <2>9
  <1>3. last \in T
    BY <1>1, <1>2, Induction
  <1> QED BY <1>3 DEF Stepped

-----------------------------------------------------------------------------
(* What is left to do. *)

\* Nothing twice.
Once(s) == \A i, j \in 1..Len(s) : s[i] = s[j] => i = j

\* Of some units, the first n, those that are not done.
IsLeft(s, units, n, d, retry) ==
  /\ s \in Seq(Units)
  /\ \A k \in 1..Len(s) : /\ \E i \in 1..n : s[k] = units[i]
                          /\ ~IsDone(Latest(results[d], s[k]), retry)
  /\ Once(units) => Once(s)

\* What is left of the units is not done, and is there once if the units are.
LEMMA LeftIs ==
  ASSUME NEW d, NEW o, NEW units \in Seq(Units)
  PROVE  /\ Left(d, o, units) \in Seq(Units)
         /\ \A k \in 1..Len(Left(d, o, units)) : ~IsDone(Latest(results[d], Left(d, o, units)[k]), o.retry)
         /\ Once(units) => Once(Left(d, o, units))
  <1> DEFINE last == Len(units)
             V == Seq(Units)
             done(n) == IsDone(Latest(results[d], units[n]), o.retry)
             go == [n \in 1..last |-> [q \in V |-> IF done(n) THEN q ELSE Append(q, units[n])]]
  <1>0. last \in Nat /\ \A n \in 1..last : units[n] \in Units
    OBVIOUS
  <1>1. go \in [1..last -> [V -> V]] /\ << >> \in V
    BY <1>0
  <1>2. PICK g \in [0..last -> V] : Stepped(g, << >>, last, go)
    <2> HIDE DEF go, V
    <2> QED BY <1>0, <1>1, StepByStep
  <1>3. g = [n \in 0..last |-> IF n = 0 THEN << >>
                            ELSE IF done(n) THEN g[n - 1] ELSE Append(g[n - 1], units[n])]
    <2>1. \A n \in 1..last : n - 1 \in 0..last /\ n \in 1..last
      BY <1>0
    <2>2. \A n \in 1..last : go[n][g[n - 1]] = IF done(n) THEN g[n - 1] ELSE Append(g[n - 1], units[n])
      BY <1>2, <2>1
    <2>3. \A n \in 0..last : n = 0 \/ n \in 1..last
      BY <1>0
    <2> HIDE DEF go, done, last
    <2> QED BY <1>2, <2>2, <2>3 DEF Stepped
  <1>4. Left(d, o, units)
          = LET left == CHOOSE h : h = [n \in 0..last |-> IF n = 0 THEN << >>
                            ELSE IF done(n) THEN h[n - 1] ELSE Append(h[n - 1], units[n])]
            IN left[last]
    BY DEF Left
  <1> HIDE DEF done, last
  <1>5. PICK h : /\ h = [n \in 0..last |-> IF n = 0 THEN << >>
                            ELSE IF done(n) THEN h[n - 1] ELSE Append(h[n - 1], units[n])]
                 /\ Left(d, o, units) = h[last]
    BY <1>3, <1>4
  <1> DEFINE T == {n \in Nat : n <= last => IsLeft(h[n], units, n, d, o.retry)}
  <1> HIDE DEF go, V
  <1>6. h[0] = << >> /\ \A n \in 1..last : h[n] = IF done(n) THEN h[n - 1] ELSE Append(h[n - 1], units[n])
    <2>1. 0 \in 0..last /\ \A n \in 1..last : n \in 0..last /\ n # 0
      BY <1>0
    <2> QED BY <1>5, <2>1
  <1>7. 0 \in T
    <2>1. Len(<< >>) = 0 /\ \A k \in 1..0 : FALSE
      OBVIOUS
    <2>2. IsLeft(<< >>, units, 0, d, o.retry)
      BY <2>1 DEF IsLeft, Once
    <2> QED BY <1>6, <2>2
  <1>8. ASSUME NEW n \in T PROVE n + 1 \in T
    <2> SUFFICES ASSUME n + 1 <= last PROVE IsLeft(h[n + 1], units, n + 1, d, o.retry)
      OBVIOUS
    <2>1. n \in Nat /\ n + 1 \in 1..last /\ (n + 1) - 1 = n /\ n <= last
      BY <1>0
    <2>2. IsLeft(h[n], units, n, d, o.retry)
      BY <2>1
    <2>3. h[n + 1] = IF done(n + 1) THEN h[n] ELSE Append(h[n], units[n + 1])
      BY <1>6, <2>1
    <2> DEFINE q == h[n]
               u == units[n + 1]
    <2> HIDE DEF T, q, u
    <2>4. CASE done(n + 1)
      BY <2>1, <2>2, <2>3, <2>4 DEF IsLeft
    <2>5. CASE ~done(n + 1)
      <3>1. q \in Seq(Units) /\ u \in Units /\ h[n + 1] = Append(q, u)
        BY <1>0, <2>1, <2>2, <2>3, <2>5 DEF q, u, IsLeft
      <3>2. /\ Append(q, u) \in Seq(Units) /\ Len(Append(q, u)) = Len(q) + 1
            /\ Append(q, u)[Len(q) + 1] = u /\ \A k \in 1..Len(q) : Append(q, u)[k] = q[k]
            /\ Len(q) \in Nat
        BY <3>1
      <3>3. ~IsDone(Latest(results[d], u), o.retry)
        BY <2>5 DEF done, u
      <3>4. \A k \in 1..Len(q)+1 : \E i \in 1..n+1 : Append(q, u)[k] = units[i]
        <4> TAKE k \in 1..Len(q)+1
        <4>1. CASE k = Len(q) + 1
          BY <2>1, <3>2, <4>1 DEF u
        <4>2. CASE k \in 1..Len(q)
          BY <2>1, <2>2, <3>2, <4>2 DEF IsLeft, q
        <4> QED BY <3>2, <4>1, <4>2
      <3>5. \A k \in 1..Len(q)+1 : ~IsDone(Latest(results[d], Append(q, u)[k]), o.retry)
        <4> TAKE k \in 1..Len(q)+1
        <4>1. CASE k = Len(q) + 1
          BY <3>2, <3>3, <4>1
        <4>2. CASE k \in 1..Len(q)
          BY <2>2, <3>2, <4>2 DEF IsLeft, q
        <4> QED BY <3>2, <4>1, <4>2
      <3>6. ASSUME Once(units) PROVE Once(Append(q, u))
        <4>1. \A k \in 1..Len(q) : q[k] # u
          <5> TAKE k \in 1..Len(q)
          <5>1. PICK i \in 1..n : q[k] = units[i]
            BY <2>2 DEF IsLeft, q
          <5>2. i \in 1..last /\ i # n + 1
            BY <1>0, <2>1
          <5> QED BY <2>1, <3>6, <5>1, <5>2 DEF Once, last, u
        <4>2. Once(q)
          BY <2>2, <3>6 DEF IsLeft, q
        <4>3. ASSUME NEW i \in 1..Len(q)+1, NEW j \in 1..Len(q)+1, Append(q, u)[i] = Append(q, u)[j]
              PROVE  i = j
          <5>1. (i = Len(q) + 1 \/ i \in 1..Len(q)) /\ (j = Len(q) + 1 \/ j \in 1..Len(q))
            BY <3>2
          <5> QED BY <3>2, <4>1, <4>2, <4>3, <5>1 DEF Once
        <4> QED BY <3>2, <4>3 DEF Once
      <3> QED BY <3>1, <3>2, <3>4, <3>5, <3>6 DEF IsLeft
    <2> QED BY <2>4, <2>5
  <1>9. last \in T
    <2>1. T \in SUBSET Nat
      OBVIOUS
    <2> HIDE DEF T
    <2> QED BY <1>0, <1>7, <1>8, <2>1, Induction
  <1>10. IsLeft(h[last], units, last, d, o.retry)
    BY <1>0, <1>9
  <1> QED BY <1>5, <1>10 DEF IsLeft


\* A number is its quotient times the divisor, and the rest.
LEMMA Division ==
  ASSUME NEW n \in Nat, n > 0, NEW a \in Nat
  PROVE  a % n \in 0..n-1 /\ a \div n \in Nat /\ a = n * (a \div n) + (a % n)
  OBVIOUS

\* The first rows are rows, and as many as the limit and the dataset allow.
LEMMA FirstRowsAre ==
  ASSUME NEW o \in Option
  PROVE  Len(FirstRows(o)) \in 0..Len(Order)
  <1> DEFINE m == IF o.limit < Len(Order) THEN o.limit ELSE Len(Order)
  <1>1. Order \in Seq(Rows) /\ o.limit \in Nat /\ Len(Order) \in Nat
    BY EvalRunsAssumption DEF Option
  <1>2. m \in 0..Len(Order)
    BY <1>1
  <1>3. FirstRows(o) = SubSeq(Order, 1, m)
    BY DEF FirstRows
  <1> HIDE DEF m
  <1>4. Len(SubSeq(Order, 1, m)) = m
    BY <1>1, <1>2, SubSeqProperties
  <1> QED BY <1>2, <1>3, <1>4

\* What has a value of a set at each place is a sequence of that set.
LEMMA SeqIs ==
  ASSUME NEW m \in Nat, NEW S, NEW f, f \in [1..m -> S]
  PROVE  f \in Seq(S) /\ Len(f) = m
  OBVIOUS

\* What is pending of the rows and the texts is not done, and there once.
LEMMA PendingIs ==
  ASSUME NEW d \in Runs, session[d].option \in Option
  PROVE  /\ Pending(d) \in Seq(Units)
         /\ \A k \in 1..Len(Pending(d)) :
              ~IsDone(Latest(results[d], Pending(d)[k]), session[d].option.retry)
         /\ Once(Pending(d))
  <1> DEFINE o == session[d].option
             n == Len(FirstRows(o))
             rows == [i \in 1..n |-> <<Order[i], 0>>]
             again == [i \in 1..(o.repeats * n) |-> <<Order[((i - 1) % n) + 1], (i - 1) \div n>>]
  <1>1. n \in 0..Len(Order) /\ n \in Nat /\ Len(Order) \in Nat
    BY FirstRowsAre, EvalRunsAssumption
  <1>2. \A i \in 1..Len(Order) : Order[i] \in Rows
    BY EvalRunsAssumption
  <1>3. \A i, j \in 1..Len(Order) : Order[i] = Order[j] => i = j
    BY EvalRunsAssumption
  <1>4. o.repeats \in Nat
    BY DEF Option
  <1>5. Pending(d) = Left(d, o, rows) \/ Pending(d) = Left(d, o, again)
    BY DEF Pending, PendingRows, PendingTexts
  <1> HIDE DEF o, n
  <1>6. rows \in Seq(Units) /\ Once(rows)
    <2>1. \A i \in 1..n : rows[i] = <<Order[i], 0>> /\ rows[i] \in Units /\ i \in 1..Len(Order)
      BY <1>1, <1>2 DEF Units
    <2>2. rows \in Seq(Units) /\ Len(rows) = n
      BY <1>1, <2>1
    <2> HIDE DEF rows
    <2> QED BY <1>3, <2>1, <2>2 DEF Once
  <1>7. again \in Seq(Units) /\ Once(again)
    <2>1. o.repeats * n \in Nat /\ (n = 0 => o.repeats * n = 0)
      BY <1>1, <1>4
    <2> DEFINE at(i) == ((i - 1) % n) + 1
               round(i) == (i - 1) \div n
    <2>2. ASSUME NEW i \in 1..(o.repeats * n)
          PROVE  /\ at(i) \in 1..n /\ at(i) \in 1..Len(Order)
                 /\ round(i) \in Nat /\ i = n * round(i) + at(i)
      <3>1. n > 0 /\ i - 1 \in Nat
        BY <1>1, <2>1
      <3>2. (i - 1) % n \in 0..n-1 /\ round(i) \in Nat /\ i - 1 = n * round(i) + ((i - 1) % n)
        BY <1>1, <3>1, Division
      <3>3. n * round(i) \in Nat
        BY <1>1, <3>2
      <3> HIDE DEF round
      <3> QED BY <1>1, <3>1, <3>2, <3>3
    <2>3. \A i \in 1..(o.repeats * n) : again[i] = <<Order[at(i)], round(i)>>
      OBVIOUS
    <2> HIDE DEF at, round
    <2>4. \A i \in 1..(o.repeats * n) : again[i] \in Units
      BY <1>2, <2>2, <2>3 DEF Units
    <2>5. again \in Seq(Units) /\ Len(again) = o.repeats * n
      <3>1. again \in [1..(o.repeats * n) -> Units]
        BY <2>4
      <3> HIDE DEF again
      <3> QED BY <2>1, <3>1, SeqIs
    <2>6. ASSUME NEW i \in 1..(o.repeats * n), NEW j \in 1..(o.repeats * n), again[i] = again[j]
          PROVE  i = j
      <3>1. Order[at(i)] = Order[at(j)] /\ round(i) = round(j)
        BY <2>3, <2>6
      <3>2. at(i) = at(j)
        BY <1>3, <2>2, <3>1
      <3> QED BY <2>2, <3>1, <3>2
    <2> HIDE DEF again
    <2> QED BY <2>5, <2>6 DEF Once
  <1> HIDE DEF rows, again
  <1> QED BY <1>5, <1>6, <1>7, LeftIs DEF o


-----------------------------------------------------------------------------
(* Files. *)

\* Some line is of this id.
Found(f, id) == \E i \in 1..Len(f.lines) : f.lines[i].id = id

\* No line is torn.
Untorn(f) == \A i \in 1..Len(f.lines) : f.lines[i] # Junk

\* Where the last line of an id is.
IsLatest(f, id, m) ==
  /\ m \in 1..Len(f.lines) /\ f.lines[m].id = id
  /\ \A j \in 1..Len(f.lines) : f.lines[j].id = id => j <= m

\* A set of places has a last one.
LEMMA Greatest ==
  ASSUME NEW n \in Nat, NEW S \in SUBSET (1..n), S # {}
  PROVE  \E m \in S : \A k \in S : k <= m
  <1> DEFINE T == {k \in Nat : n - k \in S}
  <1>1. PICK s \in S : TRUE
    OBVIOUS
  <1>2. n - s \in T
    OBVIOUS
  <1>3. T \in SUBSET Nat /\ T # {}
    BY <1>2
  <1>4. PICK m \in T : \A k \in T : m <= k
    BY <1>3, Least
  <1>5. n - m \in S /\ m \in Nat
    OBVIOUS
  <1>6. ASSUME NEW k \in S PROVE k <= n - m
    <2>1. n - k \in T
      OBVIOUS
    <2>2. m <= n - k
      BY <1>4, <2>1
    <2> QED BY <1>5, <2>2
  <1> QED BY <1>5, <1>6

\* The latest line of an id is the last there is.
LEMMA LatestIs ==
  ASSUME NEW f, NEW id, Len(f.lines) \in Nat
  PROVE  /\ Found(f, id) => \E m : IsLatest(f, id, m)
         /\ \A m : IsLatest(f, id, m) => Latest(f, id) = f.lines[m]
         /\ ~Found(f, id) => Latest(f, id) = None
  <1> DEFINE places == {i \in 1..Len(f.lines) : f.lines[i].id = id}
             last == CHOOSE i \in places : \A j \in places : j <= i
  <1>1. Latest(f, id) = IF places = {} THEN None ELSE f.lines[last]
    BY DEF Latest
  <1>2. ~Found(f, id) <=> places = {}
    BY DEF Found
  <1>3. ASSUME Found(f, id) PROVE \E m : IsLatest(f, id, m)
    <2>1. PICK m \in places : \A k \in places : k <= m
      BY <1>2, <1>3, Greatest
    <2> QED BY <2>1 DEF IsLatest
  <1>4. ASSUME NEW m, IsLatest(f, id, m) PROVE Latest(f, id) = f.lines[m]
    <2>1. m \in places /\ \A j \in places : j <= m
      BY <1>4 DEF IsLatest
    <2>2. last \in places /\ \A j \in places : j <= last
      BY <2>1
    <2>3. m \in Nat /\ last \in Nat
      BY <2>1, <2>2
    <2> HIDE DEF last
    <2>4. last <= m /\ m <= last
      BY <2>1, <2>2
    <2> QED BY <1>1, <2>1, <2>3, <2>4
  <1> QED BY <1>1, <1>2, <1>3, <1>4

\* The lines of a file that is like another but for some that are of no unit.
LEMMA SameLatest ==
  ASSUME NEW f, NEW g, NEW id, Len(f.lines) \in Nat, Len(g.lines) \in Nat,
         NEW n \in Nat, n <= Len(f.lines), n <= Len(g.lines),
         \A i \in 1..n : f.lines[i] = g.lines[i],
         \A i \in n+1..Len(f.lines) : f.lines[i].id # id,
         \A i \in n+1..Len(g.lines) : g.lines[i].id # id
  PROVE  Latest(f, id) = Latest(g, id)
  <1>1. \A i \in 1..Len(f.lines) : f.lines[i].id = id =>
          i \in 1..n /\ i \in 1..Len(g.lines) /\ g.lines[i] = f.lines[i]
    <2> TAKE i \in 1..Len(f.lines)
    <2>1. i \in 1..n \/ i \in n+1..Len(f.lines)
      OBVIOUS
    <2> QED BY <2>1
  <1>2. \A i \in 1..Len(g.lines) : g.lines[i].id = id =>
          i \in 1..n /\ i \in 1..Len(f.lines) /\ g.lines[i] = f.lines[i]
    <2> TAKE i \in 1..Len(g.lines)
    <2>1. i \in 1..n \/ i \in n+1..Len(g.lines)
      OBVIOUS
    <2> QED BY <2>1
  <1>3. CASE Found(f, id)
    <2>1. PICK m : IsLatest(f, id, m)
      BY <1>3, LatestIs
    <2>2. IsLatest(g, id, m) /\ g.lines[m] = f.lines[m]
      BY <1>1, <1>2, <2>1 DEF IsLatest
    <2> QED BY <2>1, <2>2, LatestIs
  <1>4. CASE ~Found(f, id)
    <2>1. ~Found(g, id)
      BY <1>2, <1>4 DEF Found
    <2> QED BY <1>4, <2>1, LatestIs
  <1> QED BY <1>3, <1>4

\* All but the last line, and what is appended, are lines.
LEMMA CutAndAdded ==
  ASSUME NEW S, NEW s \in Seq(S), NEW x \in S
  PROVE  /\ AllButLast(s) \in Seq(S)
         /\ Append(s, x) \in Seq(S) /\ Append(AllButLast(s), x) \in Seq(S)
         /\ Len(Append(s, x)) = Len(s) + 1 /\ Append(s, x)[Len(s) + 1] = x
         /\ \A i \in 1..Len(s) : Append(s, x)[i] = s[i]
         /\ s # << >> => Len(AllButLast(s)) = Len(s) - 1
         /\ s # << >> => \A i \in 1..Len(s)-1 : AllButLast(s)[i] = s[i]
         /\ s # << >> => LastOf(s) = s[Len(s)] /\ LastOf(s) \in S
  <1> USE DEF AllButLast
  <1>1. /\ \A t \in Seq(S) : Append(t, x) \in Seq(S)
        /\ Len(Append(s, x)) = Len(s) + 1 /\ Append(s, x)[Len(s) + 1] = x
        /\ \A i \in 1..Len(s) : Append(s, x)[i] = s[i]
    OBVIOUS
  <1>2. CASE s = << >>
    <2>1. AllButLast(s) = << >>
      BY <1>2
    <2>2. << >> \in Seq(S)
      OBVIOUS
    <2> QED BY <1>1, <1>2, <2>1, <2>2
  <1>3. CASE s # << >>
    <2>1. Len(s) \in Nat /\ Len(s) > 0
      BY <1>3
    <2> DEFINE n == Len(s) - 1
    <2>2. n \in Int /\ 1 \in Int /\ \A i \in 1..n : s[i] \in S
      BY <2>1, ElementOfSeq
    <2> HIDE DEF n
    <2>3. /\ SubSeq(s, 1, n) \in Seq(S)
          /\ Len(SubSeq(s, 1, n)) = IF 1 <= n THEN n - 1 + 1 ELSE 0
          /\ \A i \in 1..(n - 1 + 1) : SubSeq(s, 1, n)[i] = s[1 + i - 1]
      BY <2>2, SubSeqProperties
    <2>4. n >= 0 /\ AllButLast(s) = SubSeq(s, 1, n)
      BY <2>1 DEF n
    <2>6. Len(AllButLast(s)) = n /\ \A i \in 1..n : AllButLast(s)[i] = s[i]
      BY <2>2, <2>3, <2>4
    <2>5. LastOf(s) = s[Len(s)] /\ LastOf(s) \in S
      BY <2>1, ElementOfSeq DEF LastOf
    <2> QED BY <1>1, <2>3, <2>4, <2>5, <2>6 DEF n
  <1> QED BY <1>2, <1>3


\* A line that is torn is of no unit.
LEMMA JunkIsNothing == Junk.id = None /\ \A u \in Units : u # None
  BY NoneAssumption DEF Junk

\* What is left of a file is a file.
LEMMA StillAFile ==
  ASSUME NEW L, NEW f \in File(L), NEW line \in L
  PROVE  /\ Appended(f, line) \in File(L) /\ ~Appended(f, line).open
         /\ [Appended(f, line) EXCEPT !.open = TRUE] \in File(L)
         /\ Torn(f) \in File(L)
  <1> DEFINE K == L \cup {Junk}
  <1>1. f.lines \in Seq(K) /\ line \in K /\ Junk \in K /\ f.open \in BOOLEAN
    BY DEF File
  <1> HIDE DEF K
  <1>2. /\ Append(f.lines, line) \in Seq(K) /\ Append(f.lines, Junk) \in Seq(K)
        /\ Append(AllButLast(f.lines), Junk) \in Seq(K)
    BY <1>1, CutAndAdded
  <1> QED BY <1>1, <1>2 DEF Appended, Torn, File, K

\* A mended file is a file that ends in a newline, with the same last line of a unit.
LEMMA MendedIs ==
  ASSUME NEW L, NEW f \in File(L)
  PROVE  /\ Mended(f) \in File(L) /\ ~Mended(f).open
         /\ Lines(Mended(f)) \subseteq Lines(f)
         /\ \A u \in Units : Latest(Mended(f), u) = Latest(f, u)
  <1> DEFINE K == L \cup {Junk}
  <1>1. f.lines \in Seq(K) /\ f.open \in BOOLEAN /\ f = [lines |-> f.lines, open |-> f.open]
    BY DEF File
  <1>2. Len(f.lines) \in Nat
    BY <1>1
  <1> HIDE DEF K
  <1>3. CASE f.lines # << >> /\ LastOf(f.lines) = Junk
    <2>1. Mended(f) = [lines |-> AllButLast(f.lines), open |-> FALSE]
      BY <1>3 DEF Mended
    <2> DEFINE g == Mended(f)
               n == Len(f.lines) - 1
    <2>2. /\ g.lines \in Seq(K) /\ Len(g.lines) = n /\ n \in Nat
          /\ \A i \in 1..n : g.lines[i] = f.lines[i]
      <3>1. Len(f.lines) > 0
        BY <1>1, <1>3
      <3>2. \E x : x \in K
        BY DEF K
      <3>3. /\ AllButLast(f.lines) \in Seq(K) /\ Len(AllButLast(f.lines)) = Len(f.lines) - 1
            /\ \A i \in 1..Len(f.lines)-1 : AllButLast(f.lines)[i] = f.lines[i]
        BY <1>1, <1>3, <3>2, CutAndAdded
      <3> QED BY <1>2, <2>1, <3>1, <3>3
    <2>3. f.lines[n + 1] = Junk
      BY <1>2, <1>3 DEF LastOf
    <2>4. g.lines \in Seq(L \cup {Junk}) /\ ~g.open /\ g \in File(L)
      BY <2>1, <2>2 DEF File, K
    <2> HIDE DEF g, n
    <2>5. Lines(g) \subseteq Lines(f)
      <3>1. \A i \in 1..n : i \in 1..Len(f.lines)
        BY <1>2, <2>2 DEF n
      <3> QED BY <2>2, <3>1 DEF Lines
    <2>6. ASSUME NEW u \in Units PROVE Latest(g, u) = Latest(f, u)
      <3>1. f.lines[n + 1].id # u
        BY <2>3, JunkIsNothing
      <3>2. n <= Len(f.lines) /\ n + 1 = Len(f.lines)
        BY <1>2, <2>2 DEF n
      <3>3. \A i \in n+1..Len(f.lines) : f.lines[i].id # u
        BY <2>2, <3>1, <3>2
      <3>4. \A i \in n+1..Len(g.lines) : g.lines[i].id # u
        BY <2>2
      <3> QED BY <1>2, <2>2, <3>2, <3>3, <3>4, SameLatest
    <2> QED BY <2>4, <2>5, <2>6 DEF g
  <1>4. CASE ~(f.lines # << >> /\ LastOf(f.lines) = Junk)
    <2>1. Mended(f) = [f EXCEPT !.open = FALSE]
      BY <1>4 DEF Mended
    <2>2. Mended(f).lines = f.lines /\ ~Mended(f).open /\ Mended(f) \in File(L)
      BY <1>1, <2>1 DEF File
    <2> QED BY <2>2 DEF Lines, Latest
  <1> QED BY <1>3, <1>4

\* What one file may have become: nothing, a torn line or a line has been added, and
\* a line that had no newline was lost.
Became(f, g, pending) ==
  \/ g.lines = f.lines
  \/ f.open /\ g.lines = Append(AllButLast(f.lines), Junk)
  \/ ~f.open /\ \E line \in pending \cup {Junk} : g.lines = Append(f.lines, line)

\* An append and an interrupted one do no more to a file.
LEMMA WhatBecomes ==
  ASSUME NEW L, NEW f \in File(L), NEW pending
  PROVE  /\ \A line \in pending : Became(f, Appended(f, line), pending)
         /\ \A g \in Interrupted(f, pending) : Became(f, g, pending)
  <1>1. Became(f, f, pending) /\ Became(f, Torn(f), pending)
    BY DEF Became, Torn
  <1>2. ASSUME NEW line \in pending
        PROVE  /\ Became(f, Appended(f, line), pending)
               /\ Became(f, [Appended(f, line) EXCEPT !.open = TRUE], pending)
    BY DEF Became, Appended
  <1> QED BY <1>1, <1>2 DEF Interrupted

\* An interrupted append leaves a file.
LEMMA InterruptedIsAFile ==
  ASSUME NEW L, NEW f \in File(L), NEW pending \in SUBSET L, NEW g \in Interrupted(f, pending)
  PROVE  g \in File(L)
  BY StillAFile DEF Interrupted

\* Every line of what became of a file was there or was about to be added.
LEMMA LinesBecame ==
  ASSUME NEW L, NEW f \in File(L), NEW pending \in SUBSET L, NEW g, Became(f, g, pending)
  PROVE  Lines(g) \subseteq Lines(f) \cup pending
  <1> DEFINE K == L \cup {Junk}
  <1>1. f.lines \in Seq(K) /\ Junk \in K
    BY DEF File
  <1>2. CASE g.lines = f.lines
    BY <1>2 DEF Lines
  <1>3. CASE g.lines = Append(AllButLast(f.lines), Junk) /\ f.lines # << >>
    <2> HIDE DEF K
    <2>1. /\ AllButLast(f.lines) \in Seq(K) /\ Len(AllButLast(f.lines)) = Len(f.lines) - 1
          /\ \A i \in 1..Len(f.lines)-1 : AllButLast(f.lines)[i] = f.lines[i]
          /\ Len(f.lines) \in Nat
      BY <1>1, <1>3, CutAndAdded
    <2> DEFINE s == AllButLast(f.lines)
    <2> HIDE DEF s
    <2>2. \A i \in 1..Len(g.lines) : g.lines[i] = Junk \/ (i \in 1..Len(f.lines) /\ g.lines[i] = f.lines[i])
      <3>1. /\ s \in Seq(K) /\ Junk \in K /\ Len(s) = Len(f.lines) - 1 /\ Len(s) \in Nat
            /\ \A i \in 1..Len(s) : s[i] = f.lines[i]
        BY <1>1, <2>1 DEF s
      <3>2. /\ Len(Append(s, Junk)) = Len(s) + 1 /\ Append(s, Junk)[Len(s) + 1] = Junk
            /\ \A i \in 1..Len(s) : Append(s, Junk)[i] = s[i]
        BY <3>1, CutAndAdded
      <3>3. g.lines = Append(s, Junk)
        BY <1>3 DEF s
      <3>4. \A i \in 1..Len(s)+1 : i \in 1..Len(s) \/ i = Len(s) + 1
        BY <3>1
      <3>5. \A i \in 1..Len(s) : i \in 1..Len(f.lines)
        BY <2>1, <3>1
      <3> QED BY <3>1, <3>2, <3>3, <3>4, <3>5
    <2> QED BY <2>2 DEF Lines
  <1>4. CASE g.lines = Append(AllButLast(f.lines), Junk) /\ f.lines = << >>
    <2>1. AllButLast(f.lines) = << >>
      BY <1>4 DEF AllButLast
    <2> HIDE DEF K
    <2>2. << >> \in Seq(K) /\ Len(<< >>) = 0
      OBVIOUS
    <2>5. g.lines = Append(<< >>, Junk)
      BY <1>4, <2>1
    <2>4. Len(g.lines) = Len(<< >>) + 1 /\ g.lines[Len(<< >>) + 1] = Junk
      BY <1>1, <2>2, <2>5, CutAndAdded
    <2>3. \A i \in 1..Len(g.lines) : g.lines[i] = Junk
      BY <2>2, <2>4
    <2> QED BY <2>3 DEF Lines
  <1>5. ASSUME NEW line \in pending \cup {Junk}, g.lines = Append(f.lines, line)
        PROVE  Lines(g) \subseteq Lines(f) \cup pending
    <2>1. line \in K
      OBVIOUS
    <2> HIDE DEF K
    <2>2. /\ Len(g.lines) = Len(f.lines) + 1 /\ g.lines[Len(f.lines) + 1] = line
          /\ \A i \in 1..Len(f.lines) : g.lines[i] = f.lines[i]
      BY <1>1, <1>5, <2>1, CutAndAdded
    <2>3. \A i \in 1..Len(g.lines) : i \in 1..Len(f.lines) \/ i = Len(f.lines) + 1
      BY <1>1, <2>2
    <2> QED BY <2>2, <2>3 DEF Lines
  <1> QED BY <1>2, <1>3, <1>4, <1>5 DEF Became

\* What was found in a file is found in what became of it, unless a line is torn.
LEMMA FoundBecame ==
  ASSUME NEW L, NEW f \in File(L), NEW pending \in SUBSET L, NEW g, Became(f, g, pending), Untorn(g)
  PROVE  Untorn(f) /\ \A id : Found(f, id) => Found(g, id)
  <1> DEFINE K == L \cup {Junk}
  <1>1. f.lines \in Seq(K) /\ Len(f.lines) \in Nat /\ Junk \in K
    BY DEF File
  <1>2. CASE g.lines = f.lines
    BY <1>2 DEF Untorn, Found
  <1>3. CASE g.lines = Append(AllButLast(f.lines), Junk)
    <2> DEFINE s == AllButLast(f.lines)
    <2>1. s \in Seq(K)
      BY <1>1, CutAndAdded
    <2> HIDE DEF s, K
    <2>2. Len(g.lines) = Len(s) + 1 /\ g.lines[Len(s) + 1] = Junk /\ Len(s) \in Nat
      BY <1>1, <1>3, <2>1, CutAndAdded DEF s
    <2>3. Len(s) + 1 \in 1..Len(g.lines)
      BY <2>2
    <2> QED BY <2>2, <2>3 DEF Untorn
  <1>4. ASSUME NEW line \in pending \cup {Junk}, g.lines = Append(f.lines, line)
        PROVE  Untorn(f) /\ \A id : Found(f, id) => Found(g, id)
    <2>1. line \in K
      OBVIOUS
    <2> HIDE DEF K
    <2>2. Len(g.lines) = Len(f.lines) + 1 /\ \A i \in 1..Len(f.lines) : g.lines[i] = f.lines[i]
      BY <1>1, <1>4, <2>1, CutAndAdded
    <2>3. \A i \in 1..Len(f.lines) : i \in 1..Len(g.lines)
      BY <1>1, <2>2
    <2> QED BY <2>2, <2>3 DEF Untorn, Found
  <1> QED BY <1>2, <1>3, <1>4 DEF Became

\* A line that was appended is found, unless a line is torn.
LEMMA AppendedIsFound ==
  ASSUME NEW L, NEW f \in File(L), NEW line \in L, Untorn(Appended(f, line))
  PROVE  Found(Appended(f, line), line.id)
  <1> DEFINE K == L \cup {Junk}
             g == Appended(f, line)
  <1>1. f.lines \in Seq(K) /\ Len(f.lines) \in Nat /\ Junk \in K /\ line \in K
    BY DEF File
  <1>2. CASE f.open
    <2> DEFINE s == AllButLast(f.lines)
    <2>1. s \in Seq(K)
      BY <1>1, CutAndAdded
    <2>2. g.lines = Append(s, Junk)
      BY <1>2 DEF Appended
    <2> HIDE DEF s, K, g
    <2>3. Len(g.lines) = Len(s) + 1 /\ g.lines[Len(s) + 1] = Junk /\ Len(s) \in Nat
      BY <1>1, <2>1, <2>2, CutAndAdded
    <2>4. Len(s) + 1 \in 1..Len(g.lines)
      BY <2>3
    <2> QED BY <2>3, <2>4 DEF Untorn, g
  <1>3. CASE ~f.open
    <2>1. g.lines = Append(f.lines, line)
      BY <1>3 DEF Appended
    <2> HIDE DEF K, g
    <2>2. Len(g.lines) = Len(f.lines) + 1 /\ g.lines[Len(f.lines) + 1] = line
      BY <1>1, <2>1, CutAndAdded
    <2>3. Len(f.lines) + 1 \in 1..Len(g.lines)
      BY <1>1, <2>2
    <2> QED BY <2>2, <2>3 DEF Found, g
  <1> QED BY <1>2, <1>3

\* In a file that ends in a newline, the last line of a unit stays until one of it is added.
LEMMA LatestBecame ==
  ASSUME NEW L, NEW f \in File(L), NEW pending \in SUBSET L, NEW g, Became(f, g, pending),
         ~f.open, NEW u \in Units, \A line \in pending : line.id # u
  PROVE  Latest(g, u) = Latest(f, u)
  <1> DEFINE K == L \cup {Junk}
             n == Len(f.lines)
  <1>1. f.lines \in Seq(K) /\ n \in Nat
    BY DEF File
  <1>2. CASE g.lines = f.lines
    BY <1>2 DEF Latest
  <1>3. ASSUME NEW line \in pending \cup {Junk}, g.lines = Append(f.lines, line)
        PROVE  Latest(g, u) = Latest(f, u)
    <2>1. line \in K /\ line.id # u
      BY JunkIsNothing
    <2> HIDE DEF K
    <2>2. /\ Len(g.lines) = n + 1 /\ g.lines[n + 1] = line
          /\ \A i \in 1..n : g.lines[i] = f.lines[i]
      BY <1>1, <1>3, <2>1, CutAndAdded
    <2>3. \A i \in n+1..Len(g.lines) : g.lines[i].id # u
      <3>1. \A i \in n+1..n+1 : i = n + 1
        BY <1>1
      <3> QED BY <2>1, <2>2, <3>1
    <2>4. \A i \in n+1..Len(f.lines) : f.lines[i].id # u
      BY <1>1
    <2>5. n <= Len(f.lines) /\ n <= Len(g.lines) /\ Len(g.lines) \in Nat
      BY <1>1, <2>2
    <2> HIDE DEF n
    <2> QED BY <1>1, <2>2, <2>3, <2>4, <2>5, SameLatest DEF n
  <1> QED BY <1>2, <1>3 DEF Became


-----------------------------------------------------------------------------
(* Why a run's evidence and what it has done stay. *)

\* A unit is still to be done.
Undone(r, s, u) == ~IsDone(Latest(r, u), s.option.retry)

\* A thread at work has a unit, a record of it, and what the first pass found for it.
AtWork(k) ==
  /\ k.at # "idle" => k.unit \in Units
  /\ k.at = "keepingEvidence" => k.taken = [of |-> k.unit, pass |-> "first"]
  /\ k.at \in {"keepingEvidence", "looping", "keeping"} => k.record \in Record /\ k.record.id = k.unit

\* What is ahead of a session: each unit once, by one thread, and none that is done.
Ahead(r, s, threads) ==
  s.at \in {"opening", "mapping"} =>
    /\ ~r.open /\ Once(s.todo)
    /\ \A i \in 1..Len(s.todo) : Undone(r, s, s.todo[i])
    /\ \A w \in Workers : threads[w].at # "idle" =>
         /\ Undone(r, s, threads[w].unit)
         /\ \A i \in 1..Len(s.todo) : s.todo[i] # threads[w].unit
    /\ \A v, w \in Workers : threads[v].at # "idle" /\ threads[w].at # "idle"
                             /\ threads[v].unit = threads[w].unit => v = w

\* What was judged, in the file or in a thread that has noted it, has its evidence.
Evident(mode, r, e, threads) ==
  mode \in Searching /\ Untorn(e) =>
    /\ \A x \in Lines(r) : x.ok => Found(e, x.id)
    /\ \A w \in Workers : threads[w].at \in {"looping", "keeping"} /\ threads[w].record.ok
                          => Found(e, threads[w].unit)

OwnLines(e) == \A x \in Lines(e) : x.kept = [of |-> x.id, pass |-> "first"]

\* The invariant, of a run of some mode with its two files, its session and its threads.
Sound(mode, r, e, s, threads) ==
  /\ r \in File(Record) /\ e \in File(Entry) /\ s \in Session /\ threads \in [Workers -> Worker]
  /\ s.at # "never" => s.n # 0
  /\ s.at # "mapping" => \A w \in Workers : threads[w].at = "idle"
  /\ s.at = "set_aside_evidence" => r.lines = << >>
  /\ \A w \in Workers : AtWork(threads[w])
  /\ Ahead(r, s, threads)
  /\ Evident(mode, r, e, threads)
  /\ OwnLines(e)

EvalInv ==
  /\ TypeOK
  /\ \A d \in Runs : Sound(plan[d].mode, results[d], evidence[d], session[d], worker[d])

\* What was done is done, unless the results are set aside.
Lasting(r, s, new) ==
  s.at # "set_aside" =>
    \A u \in Units : IsDone(Latest(r, u), s.option.retry) => IsDone(Latest(new, u), s.option.retry)

\* A step of one run.
Moved(d, r, e, m, s, threads) ==
  /\ plan' = plan
  /\ results' = [results EXCEPT ![d] = r] /\ evidence' = [evidence EXCEPT ![d] = e]
  /\ manifest' = [manifest EXCEPT ![d] = m] /\ session' = [session EXCEPT ![d] = s]
  /\ worker' = [worker EXCEPT ![d] = threads]

Steps(d) ==
  \E r, e, m, s, threads :
    /\ Moved(d, r, e, m, s, threads)
    /\ m \in Seq(Entered) /\ Sound(plan[d].mode, r, e, s, threads)
    /\ Lasting(results[d], session[d], r)

\* A run's step keeps the invariant and loses nothing that was done.
LEMMA StepsKeep ==
  ASSUME EvalInv, NEW d \in Runs, Steps(d), crashes' \in 0..MaxCrashes
  PROVE  /\ EvalInv'
         /\ \A x \in Runs : Lasting(results[x], session[x], results'[x])
  <1>1. PICK r, e, m, s, threads :
          /\ Moved(d, r, e, m, s, threads)
          /\ m \in Seq(Entered) /\ Sound(plan[d].mode, r, e, s, threads)
          /\ Lasting(results[d], session[d], r)
    BY DEF Steps
  <1>2. /\ DOMAIN results = Runs /\ DOMAIN evidence = Runs /\ DOMAIN manifest = Runs
        /\ DOMAIN session = Runs /\ DOMAIN worker = Runs
    BY DEF EvalInv, TypeOK
  <1>3. /\ results'[d] = r /\ evidence'[d] = e /\ session'[d] = s /\ worker'[d] = threads
        /\ plan'[d] = plan[d]
    BY <1>1, <1>2 DEF Moved
  <1>4. \A x \in Runs : x # d =>
          /\ results'[x] = results[x] /\ evidence'[x] = evidence[x] /\ session'[x] = session[x]
          /\ worker'[x] = worker[x] /\ plan'[x] = plan[x]
    BY <1>1, <1>2 DEF Moved
  <1>5. /\ r \in File(Record) /\ e \in File(Entry) /\ s \in Session /\ threads \in [Workers -> Worker]
    BY <1>1 DEF Sound
  <1>6. TypeOK'
    <2>1. /\ results \in [Runs -> File(Record)] /\ evidence \in [Runs -> File(Entry)]
          /\ manifest \in [Runs -> Seq(Entered)] /\ session \in [Runs -> Session]
          /\ worker \in [Runs -> [Workers -> Worker]] /\ plan \in Plans
      BY DEF EvalInv, TypeOK
    <2>2. results' \in [Runs -> File(Record)] /\ evidence' \in [Runs -> File(Entry)]
      BY <1>1, <1>5, <2>1 DEF Moved
    <2>3. manifest' \in [Runs -> Seq(Entered)]
      BY <1>1, <2>1 DEF Moved
    <2>4. session' \in [Runs -> Session] /\ worker' \in [Runs -> [Workers -> Worker]]
      BY <1>1, <1>5, <2>1 DEF Moved
    <2>5. plan' \in Plans
      BY <1>1, <2>1 DEF Moved
    <2> QED BY <2>2, <2>3, <2>4, <2>5 DEF TypeOK
  <1>7. \A x \in Runs : Sound(plan'[x].mode, results'[x], evidence'[x], session'[x], worker'[x])
    BY <1>1, <1>3, <1>4 DEF EvalInv
  <1>8. \A x \in Runs : Lasting(results[x], session[x], results'[x])
    <2>1. \A x \in Runs : Lasting(results[x], session[x], results[x])
      BY DEF Lasting
    <2> QED BY <1>1, <1>3, <1>4, <2>1
  <1> QED BY <1>6, <1>7, <1>8 DEF EvalInv

\* What is unchanged of a run is what it was.
LEMMA Unmoved ==
  ASSUME EvalInv, NEW d \in Runs
  PROVE  /\ results = [results EXCEPT ![d] = results[d]]
         /\ evidence = [evidence EXCEPT ![d] = evidence[d]]
         /\ manifest = [manifest EXCEPT ![d] = manifest[d]]
         /\ session = [session EXCEPT ![d] = session[d]]
         /\ worker = [worker EXCEPT ![d] = worker[d]]
         /\ manifest[d] \in Seq(Entered)
         /\ Sound(plan[d].mode, results[d], evidence[d], session[d], worker[d])
  BY DEF EvalInv, TypeOK

\* Evidence that is added to is still there, and of its own claims.
LEMMA EvidenceGrows ==
  ASSUME NEW mode, NEW r, NEW e, NEW s, NEW threads, Sound(mode, r, e, s, threads),
         NEW pending \in SUBSET Entry,
         \A x \in pending : x.kept = [of |-> x.id, pass |-> "first"],
         NEW g \in File(Entry), Became(e, g, pending)
  PROVE  Sound(mode, r, g, s, threads)
  <1>1. e \in File(Entry)
    BY DEF Sound
  <1>2. Untorn(g) => Untorn(e) /\ \A id : Found(e, id) => Found(g, id)
    BY <1>1, FoundBecame
  <1>3. Evident(mode, r, g, threads)
    BY <1>2 DEF Sound, Evident
  <1>4. Lines(g) \subseteq Lines(e) \cup pending
    BY <1>1, LinesBecame
  <1>5. OwnLines(g)
    BY <1>4 DEF Sound, OwnLines
  <1> QED BY <1>3, <1>5 DEF Sound

-----------------------------------------------------------------------------
(* A session's steps. *)

\* What a replay answers from is retrievals, or nothing.
LEMMA SnapshotIs ==
  ASSUME NEW f \in File(Entry)
  PROVE  Snapshot(f) \in [Rows -> Retrieval \cup {None}] /\ NoSnapshot \in [Rows -> Retrieval \cup {None}]
  <1>1. f.lines \in Seq(Entry \cup {Junk}) /\ Len(f.lines) \in Nat
    BY DEF File
  <1>2. ASSUME NEW r \in Rows
        PROVE  (IF Latest(f, <<r, 0>>) = None THEN None ELSE Latest(f, <<r, 0>>).kept) \in Retrieval \cup {None}
    <2> DEFINE id == <<r, 0>>
    <2>1. id \in Units /\ id # Junk.id
      BY JunkIsNothing DEF Units
    <2> HIDE DEF id
    <2>2. CASE Found(f, id)
      <3>1. PICK m : IsLatest(f, id, m)
        BY <1>1, <2>2, LatestIs
      <3>2. Latest(f, id) = f.lines[m] /\ f.lines[m] # Junk /\ f.lines[m] \in Entry \cup {Junk}
        BY <1>1, <2>1, <3>1, LatestIs DEF IsLatest
      <3>3. Latest(f, id).kept \in Retrieval
        BY <3>2 DEF Entry
      <3> QED BY <3>3 DEF id
    <2>3. CASE ~Found(f, id)
      BY <1>1, <2>3, LatestIs DEF id
    <2> QED BY <2>2, <2>3
  <1> QED BY <1>2 DEF Snapshot, NoSnapshot

\* A session starts when the run's last one is over.
LEMMA StartSteps ==
  ASSUME EvalInv, NEW d \in Runs, Start(d)
  PROVE  Steps(d)
  <1> DEFINE new(o) == [at |-> IF o.fresh THEN "set_aside" ELSE "loading", n |-> session[d].n + 1,
                        option |-> o, stop |-> FALSE, todo |-> << >>, pending |-> {},
                        snapshot |-> IF plan[d].mode = "replay" THEN Snapshot(evidence[SourceOf[d]])
                                     ELSE NoSnapshot]
  <1>1. PICK o \in plan[d].options :
          /\ Over(d)
          /\ session' = [session EXCEPT ![d] = new(o)]
          /\ UNCHANGED <<plan, results, evidence, manifest, worker, crashes>>
    BY DEF Start
  <1>2. o \in Option
    BY EvalRunsAssumption DEF EvalInv, TypeOK, Plan
  <1>3. evidence[SourceOf[d]] \in File(Entry)
    BY EvalRunsAssumption DEF EvalInv, TypeOK
  <1>4. new(o).snapshot \in [Rows -> Retrieval \cup {None}]
    BY <1>3, SnapshotIs
  <1>5. session[d].n \in Nat
    BY DEF EvalInv, TypeOK, Session
  <1>6. /\ new(o) \in Session /\ new(o).n # 0 /\ new(o).at \in {"set_aside", "loading"}
    <2>1. << >> \in Seq(Units)
      OBVIOUS
    <2>2. {} \in SUBSET Units /\ FALSE \in BOOLEAN /\ session[d].n + 1 \in Nat /\ session[d].n + 1 # 0
      BY <1>5
    <2>3. (IF o.fresh THEN "set_aside" ELSE "loading") \in {"set_aside", "loading"}
      OBVIOUS
    <2>4. {"set_aside", "loading"} \subseteq Stages
      BY DEF Stages
    <2> QED BY <1>2, <1>4, <2>1, <2>2, <2>3, <2>4 DEF Session
  <1> HIDE DEF new
  <1>7. Sound(plan[d].mode, results[d], evidence[d], session[d], worker[d])
    BY DEF EvalInv
  <1>8. session[d].at # "mapping"
    BY <1>1 DEF Over, Ends
  <1>9. Sound(plan[d].mode, results[d], evidence[d], new(o), worker[d])
    BY <1>6, <1>7, <1>8 DEF Sound, Ahead
  <1>10. Moved(d, results[d], evidence[d], manifest[d], new(o), worker[d])
    BY <1>1, Unmoved DEF Moved
  <1> QED BY <1>9, <1>10, Unmoved DEF Steps, Lasting

\* A session that goes from stage to stage is one.
LEMMA StageIs ==
  ASSUME NEW s \in Session, NEW stage \in Stages
  PROVE  /\ [s EXCEPT !.at = stage] \in Session
         /\ [s EXCEPT !.at = stage].at = stage
         /\ [s EXCEPT !.at = stage].n = s.n /\ [s EXCEPT !.at = stage].option = s.option
         /\ [s EXCEPT !.at = stage].todo = s.todo
  BY DEF Session

\* Setting the results aside leaves nothing to have evidence for.
LEMMA SetAsideSteps ==
  ASSUME EvalInv, NEW d \in Runs, SetAside(d)
  PROVE  Steps(d)
  <1> DEFINE s == [session[d] EXCEPT !.at = AfterSetAside(d)]
  <1>1. /\ session[d].at = "set_aside"
        /\ results' = [results EXCEPT ![d] = Empty] /\ session' = [session EXCEPT ![d] = s]
        /\ UNCHANGED <<plan, evidence, manifest, worker, crashes>>
    BY DEF SetAside, Goto
  <1>2. AfterSetAside(d) \in Stages /\ AfterSetAside(d) \in {"loading", "set_aside_evidence"}
    BY DEF AfterSetAside, Stages
  <1>3. Sound(plan[d].mode, results[d], evidence[d], session[d], worker[d])
    BY DEF EvalInv
  <1>4. s \in Session /\ s.at = AfterSetAside(d) /\ s.n = session[d].n
    BY <1>2, <1>3, StageIs DEF Sound
  <1> HIDE DEF s
  <1>5. Empty \in File(Record) /\ Empty.lines = << >> /\ Lines(Empty) = {}
    BY DEF Empty, File, Lines
  <1>6. \A w \in Workers : worker[d][w].at = "idle"
    BY <1>1, <1>3 DEF Sound
  <1>7. Sound(plan[d].mode, Empty, evidence[d], s, worker[d])
    BY <1>1, <1>2, <1>3, <1>4, <1>5, <1>6 DEF Sound, Ahead, Evident
  <1>8. Moved(d, Empty, evidence[d], manifest[d], s, worker[d])
    BY <1>1, Unmoved DEF Moved
  <1> QED BY <1>1, <1>7, <1>8, Unmoved DEF Steps, Lasting

\* The evidence is set aside once the results are.
LEMMA SetAsideEvidenceSteps ==
  ASSUME EvalInv, NEW d \in Runs, SetAsideEvidence(d)
  PROVE  Steps(d)
  <1> DEFINE s == [session[d] EXCEPT !.at = "loading"]
  <1>1. /\ session[d].at = "set_aside_evidence"
        /\ evidence' = [evidence EXCEPT ![d] = Empty] /\ session' = [session EXCEPT ![d] = s]
        /\ UNCHANGED <<plan, results, manifest, worker, crashes>>
    BY DEF SetAsideEvidence, Goto
  <1>2. Sound(plan[d].mode, results[d], evidence[d], session[d], worker[d])
    BY DEF EvalInv
  <1>3. s \in Session /\ s.at = "loading" /\ s.n = session[d].n
    BY <1>2, StageIs DEF Sound, Stages
  <1> HIDE DEF s
  <1>4. Empty \in File(Entry) /\ Lines(Empty) = {}
    BY DEF Empty, File, Lines
  <1>5. results[d].lines = << >> /\ Lines(results[d]) = {}
    BY <1>1, <1>2 DEF Sound, Lines
  <1>6. \A w \in Workers : worker[d][w].at = "idle"
    BY <1>1, <1>2 DEF Sound
  <1>7. Sound(plan[d].mode, results[d], Empty, s, worker[d])
    BY <1>1, <1>2, <1>3, <1>4, <1>5, <1>6 DEF Sound, Ahead, Evident, OwnLines
  <1>8. Moved(d, results[d], Empty, manifest[d], s, worker[d])
    BY <1>1, Unmoved DEF Moved
  <1> QED BY <1>7, <1>8, Unmoved DEF Steps, Lasting

\* What a session loads is mended, and what it sets out to do is not done.
LEMMA LoadSteps ==
  ASSUME EvalInv, NEW d \in Runs, Load(d)
  PROVE  Steps(d)
  <1>1. session[d].at = "loading" /\ UNCHANGED <<plan, evidence, manifest, worker, crashes>>
    BY DEF Load
  <1>2. Sound(plan[d].mode, results[d], evidence[d], session[d], worker[d])
    BY DEF EvalInv
  <1>3. \A w \in Workers : worker[d][w].at = "idle"
    BY <1>1, <1>2 DEF Sound
  <1>4. CASE Damaged(results[d])
    <2> DEFINE s == [session[d] EXCEPT !.at = "refused"]
    <2>1. session' = [session EXCEPT ![d] = s] /\ results' = results
      BY <1>4 DEF Load, Goto
    <2>2. s \in Session /\ s.at = "refused" /\ s.n = session[d].n
      BY <1>2, StageIs DEF Sound, Stages, Ends
    <2> HIDE DEF s
    <2>3. Sound(plan[d].mode, results[d], evidence[d], s, worker[d])
      BY <1>1, <1>2, <1>3, <2>2 DEF Sound, Ahead
    <2>4. Moved(d, results[d], evidence[d], manifest[d], s, worker[d])
      BY <1>1, <2>1, Unmoved DEF Moved
    <2> QED BY <2>3, <2>4, Unmoved DEF Steps, Lasting
  <1>5. CASE ~Damaged(results[d])
    <2> DEFINE todo == Pending(d)
               s == [session[d] EXCEPT !.at = "opening", !.todo = todo,
                                       !.pending = {todo[i] : i \in 1..Len(todo)}]
               f == Mended(results[d])
    <2>1. results' = [results EXCEPT ![d] = f]
      BY <1>5 DEF Load
    <2>2. session' = [session EXCEPT ![d] = s]
      BY <1>5 DEF Load
    <2>3. session[d] \in Session /\ session[d].option \in Option
      BY <1>2 DEF Sound, Session
    <2>4. /\ todo \in Seq(Units) /\ Once(todo)
          /\ \A k \in 1..Len(todo) : ~IsDone(Latest(results[d], todo[k]), session[d].option.retry)
      BY <2>3, PendingIs
    <2> HIDE DEF todo
    <2>5. s \in Session /\ s.at = "opening" /\ s.n = session[d].n /\ s.todo = todo /\ s.option = session[d].option
      <3>1. {todo[i] : i \in 1..Len(todo)} \in SUBSET Units
        BY <2>4
      <3>2. "opening" \in Stages
        BY DEF Stages
      <3> QED BY <2>3, <2>4, <3>1, <3>2 DEF Session
    <2> HIDE DEF s
    <2>6. results[d] \in File(Record)
      BY <1>2 DEF Sound
    <2>7. /\ f \in File(Record) /\ ~f.open /\ Lines(f) \subseteq Lines(results[d])
          /\ \A u \in Units : Latest(f, u) = Latest(results[d], u)
      BY <2>6, MendedIs
    <2> HIDE DEF f
    <2>8. \A k \in 1..Len(todo) : todo[k] \in Units /\ Undone(f, s, todo[k])
      BY <2>4, <2>5, <2>7 DEF Undone
    <2>9. Ahead(f, s, worker[d])
      BY <1>3, <2>4, <2>5, <2>7, <2>8 DEF Ahead
    <2>10. Sound(plan[d].mode, f, evidence[d], s, worker[d])
      BY <1>1, <1>2, <1>3, <2>5, <2>7, <2>9 DEF Sound, Evident
    <2>11. Moved(d, f, evidence[d], manifest[d], s, worker[d])
      BY <1>1, <2>1, <2>2, Unmoved DEF Moved
    <2>12. Lasting(results[d], session[d], f)
      BY <2>7 DEF Lasting
    <2> QED BY <2>10, <2>11, <2>12, Unmoved DEF Steps
  <1> QED BY <1>4, <1>5

\* A session that opens enters the manifest.
LEMMA OpenSteps ==
  ASSUME EvalInv, NEW d \in Runs, Open(d)
  PROVE  Steps(d)
  <1> DEFINE s == [session[d] EXCEPT !.at = "mapping"]
             entry == [n |-> session[d].n, finished |-> FALSE, stopped |-> FALSE]
             m == Append(manifest[d], entry)
  <1>1. /\ session[d].at = "opening"
        /\ manifest' = [manifest EXCEPT ![d] = m] /\ session' = [session EXCEPT ![d] = s]
        /\ UNCHANGED <<plan, results, evidence, worker, crashes>>
    BY DEF Open, Goto
  <1>2. Sound(plan[d].mode, results[d], evidence[d], session[d], worker[d])
    BY DEF EvalInv
  <1>3. /\ s \in Session /\ s.at = "mapping" /\ s.n = session[d].n
        /\ s.option = session[d].option /\ s.todo = session[d].todo
    BY <1>2, StageIs DEF Sound, Stages
  <1> HIDE DEF s
  <1>4. entry \in Entered
    BY <1>1, <1>2 DEF Sound, Session, Sessions, Entered
  <1>5. m \in Seq(Entered)
    <2> HIDE DEF entry
    <2> QED BY <1>4, Unmoved
  <1> HIDE DEF m
  <1>6. Sound(plan[d].mode, results[d], evidence[d], s, worker[d])
    BY <1>1, <1>2, <1>3 DEF Sound, Ahead, Undone
  <1>7. Moved(d, results[d], evidence[d], m, s, worker[d])
    BY <1>1, Unmoved DEF Moved
  <1> QED BY <1>5, <1>6, <1>7 DEF Steps, Lasting

\* A session that is stopped goes on with what its threads have begun.
LEMMA StopSteps ==
  ASSUME EvalInv, NEW d \in Runs, Stop(d)
  PROVE  Steps(d)
  <1> DEFINE s == [session[d] EXCEPT !.stop = TRUE]
  <1>1. /\ session' = [session EXCEPT ![d] = s]
        /\ UNCHANGED <<plan, results, evidence, manifest, worker, crashes>>
    BY DEF Stop
  <1>2. Sound(plan[d].mode, results[d], evidence[d], session[d], worker[d])
    BY DEF EvalInv
  <1>3. /\ s \in Session /\ s.at = session[d].at /\ s.n = session[d].n
        /\ s.option = session[d].option /\ s.todo = session[d].todo
    BY <1>2 DEF Sound, Session
  <1> HIDE DEF s
  <1>4. Sound(plan[d].mode, results[d], evidence[d], s, worker[d])
    BY <1>2, <1>3 DEF Sound, Ahead, Undone
  <1>5. Moved(d, results[d], evidence[d], manifest[d], s, worker[d])
    BY <1>1, Unmoved DEF Moved
  <1> QED BY <1>4, <1>5, Unmoved DEF Steps, Lasting

\* An idle thread is a thread.
LEMMA IdleIs == Idle \in Worker /\ Idle.at = "idle" /\ Idle.taken = None /\ Idle.record = None
  BY DEF Idle, Worker

\* A session finishes with no thread at work.
LEMMA FinishSteps ==
  ASSUME EvalInv, NEW d \in Runs, Finish(d)
  PROVE  Steps(d)
  <1> DEFINE s == [session[d] EXCEPT !.at = "finished"]
             m == manifest[d]
             k == Append(IF LastOf(m).n = session[d].n THEN AllButLast(m) ELSE m, Outcome(d))
             threads == [w \in Workers |-> Idle]
  <1>1. /\ session[d].at = "mapping"
        /\ manifest' = [manifest EXCEPT ![d] = k] /\ session' = [session EXCEPT ![d] = s]
        /\ worker' = [worker EXCEPT ![d] = threads]
        /\ UNCHANGED <<plan, results, evidence, crashes>>
    BY DEF Finish, Goto
  <1>2. Sound(plan[d].mode, results[d], evidence[d], session[d], worker[d])
    BY DEF EvalInv
  <1>3. s \in Session /\ s.at = "finished" /\ s.n = session[d].n
    BY <1>2, StageIs DEF Sound, Stages, Ends
  <1> HIDE DEF s
  <1>4. Outcome(d) \in Entered
    BY <1>1, <1>2 DEF Sound, Session, Sessions, Entered, Outcome
  <1>5. k \in Seq(Entered)
    BY <1>4, Unmoved, CutAndAdded
  <1> HIDE DEF k
  <1>6. threads \in [Workers -> Worker] /\ \A w \in Workers : threads[w].at = "idle" /\ AtWork(threads[w])
    BY IdleIs DEF AtWork
  <1> HIDE DEF threads
  <1>7. Sound(plan[d].mode, results[d], evidence[d], s, threads)
    BY <1>1, <1>2, <1>3, <1>6 DEF Sound, Ahead, Evident
  <1>8. Moved(d, results[d], evidence[d], k, s, threads)
    BY <1>1, Unmoved DEF Moved
  <1> QED BY <1>5, <1>7, <1>8 DEF Steps, Lasting

-----------------------------------------------------------------------------
(* The threads' steps. *)

\* A thread may go on with its unit as long as what it has judged has its evidence.
LEMMA ThreadGoesOn ==
  ASSUME NEW mode, NEW r, NEW e, NEW s, NEW threads, Sound(mode, r, e, s, threads),
         NEW w \in Workers, threads[w].at # "idle",
         NEW v \in Worker, v.at # "idle", v.unit = threads[w].unit, AtWork(v),
         mode \in Searching /\ Untorn(e) /\ v.at \in {"looping", "keeping"} /\ v.record.ok => Found(e, v.unit)
  PROVE  Sound(mode, r, e, s, [threads EXCEPT ![w] = v])
  <1> DEFINE after == [threads EXCEPT ![w] = v]
  <1>1. /\ after \in [Workers -> Worker] /\ after[w] = v
        /\ \A x \in Workers : x # w => after[x] = threads[x]
    BY DEF Sound
  <1> HIDE DEF after
  <1>2. \A x \in Workers : after[x].unit = threads[x].unit /\ (after[x].at = "idle" <=> threads[x].at = "idle")
    BY <1>1
  <1>3. \A x \in Workers : AtWork(after[x])
    BY <1>1 DEF Sound
  <1>4. Ahead(r, s, after)
    BY <1>2 DEF Sound, Ahead
  <1>5. Evident(mode, r, e, after)
    BY <1>1 DEF Sound, Evident
  <1>6. s.at # "mapping" => \A x \in Workers : after[x].at = "idle"
    BY <1>2 DEF Sound
  <1> QED BY <1>1, <1>3, <1>4, <1>5, <1>6 DEF Sound, after

\* A step of a thread that changes nothing else is a step of its run.
LEMMA GoesOnSteps ==
  ASSUME EvalInv, NEW d \in Runs, NEW w \in Workers, worker[d][w].at # "idle",
         UNCHANGED <<plan, results, evidence, manifest, session>>,
         NEW v \in Worker, worker' = [worker EXCEPT ![d] = [worker[d] EXCEPT ![w] = v]],
         v.at # "idle", v.unit = worker[d][w].unit, AtWork(v),
         plan[d].mode \in Searching /\ Untorn(evidence[d]) /\ v.at \in {"looping", "keeping"} /\ v.record.ok
           => Found(evidence[d], v.unit)
  PROVE  Steps(d)
  <1>1. Sound(plan[d].mode, results[d], evidence[d], session[d], [worker[d] EXCEPT ![w] = v])
    BY Unmoved, ThreadGoesOn
  <1>2. Moved(d, results[d], evidence[d], manifest[d], session[d], [worker[d] EXCEPT ![w] = v])
    BY Unmoved DEF Moved
  <1> QED BY <1>1, <1>2, Unmoved DEF Steps, Lasting

\* A record that a thread writes is one of its unit.
LEMMA RecordIs ==
  ASSUME EvalInv, NEW d \in Runs, NEW w \in Workers, At(d, w, {"checking", "looping"}),
         NEW ok \in BOOLEAN, NEW unavailable \in BOOLEAN
  PROVE  /\ RecordOf(d, w, ok, unavailable) \in Record
         /\ RecordOf(d, w, ok, unavailable).id = worker[d][w].unit
         /\ RecordOf(d, w, ok, unavailable).ok = ok
  <1>1. Sound(plan[d].mode, results[d], evidence[d], session[d], worker[d])
    BY DEF EvalInv
  <1>2. worker[d][w].unit \in Units /\ session[d].n \in Sessions
    BY <1>1 DEF Sound, AtWork, At, Session, Sessions
  <1> QED BY <1>2 DEF RecordOf, Record

\* What the recorder holds after a check that returned is what the first pass found.
LEMMA HeldIs ==
  ASSUME EvalInv, NEW d \in Runs, NEW w \in Workers, At(d, w, {"checking"})
  PROVE  /\ Held(d, w, TRUE) = {[of |-> worker[d][w].unit, pass |-> "first"]}
         /\ Held(d, w, FALSE) \subseteq Retrieval \cup {None}
         /\ [of |-> worker[d][w].unit, pass |-> "first"] \in Retrieval
  <1>1. Sound(plan[d].mode, results[d], evidence[d], session[d], worker[d])
    BY DEF EvalInv
  <1>2. worker[d][w].unit \in Units /\ worker[d][w].taken \in Retrieval \cup {None}
    BY <1>1 DEF Sound, AtWork, At, Worker
  <1> DEFINE own == [of |-> worker[d][w].unit, pass |-> "first"]
             more == [of |-> worker[d][w].unit, pass |-> "second"]
  <1>3. own \in Retrieval /\ own # None
    BY <1>2, NoneAssumption DEF Retrieval
  <1> HIDE DEF own, more
  <1>4. Held(d, w, TRUE) = {own, own} /\ Held(d, w, FALSE) = {own, own} \cup {None, worker[d][w].taken}
    BY <1>3 DEF Held, Begun, Taken, own, more
  <1> QED BY <1>2, <1>3, <1>4 DEF own

\* A search keeps what it found for its own claim, or is an error.
LEMMA SearchSteps ==
  ASSUME EvalInv, NEW d \in Runs, NEW w \in Workers, Search(d, w)
  PROVE  Steps(d)
  <1> DEFINE k == worker[d][w]
             found(u, h) == [k EXCEPT !.at = "keepingEvidence", !.taken = h, !.record = RecordOf(d, w, TRUE, u)]
             failed(h) == [k EXCEPT !.at = "keeping", !.taken = h, !.record = Failed(d, w)]
  <1>1. At(d, w, {"checking"}) /\ UNCHANGED <<plan, results, evidence, manifest, session, crashes>>
    BY DEF Search
  <1>2. \/ \E u \in BOOLEAN, h \in Held(d, w, TRUE) :
               worker' = [worker EXCEPT ![d][w].at = "keepingEvidence", ![d][w].taken = h,
                                        ![d][w].record = RecordOf(d, w, TRUE, u)]
        \/ \E h \in Held(d, w, FALSE) :
               worker' = [worker EXCEPT ![d][w].at = "keeping", ![d][w].taken = h,
                                        ![d][w].record = Failed(d, w)]
    BY DEF Search
  <1>0. worker \in [Runs -> [Workers -> Worker]]
    BY DEF EvalInv, TypeOK
  <1>3. k \in Worker /\ k.unit \in Units /\ k.at = "checking"
    BY <1>1 DEF EvalInv, Sound, AtWork, At
  <1>4. At(d, w, {"checking", "looping"})
    BY <1>1 DEF At
  <1>5. CASE \E u \in BOOLEAN, h \in Held(d, w, TRUE) :
               worker' = [worker EXCEPT ![d][w].at = "keepingEvidence", ![d][w].taken = h,
                                        ![d][w].record = RecordOf(d, w, TRUE, u)]
    <2>1. PICK u \in BOOLEAN, h \in Held(d, w, TRUE) :
               worker' = [worker EXCEPT ![d][w].at = "keepingEvidence", ![d][w].taken = h,
                                        ![d][w].record = RecordOf(d, w, TRUE, u)]
      BY <1>5
    <2>2. h = [of |-> k.unit, pass |-> "first"] /\ h \in Retrieval
      <3>1. h \in Held(d, w, TRUE)
        BY <2>1
      <3>2. /\ Held(d, w, TRUE) = {[of |-> worker[d][w].unit, pass |-> "first"]}
            /\ [of |-> worker[d][w].unit, pass |-> "first"] \in Retrieval
        BY <1>1, HeldIs
      <3> QED BY <3>1, <3>2
    <2>3. RecordOf(d, w, TRUE, u) \in Record /\ RecordOf(d, w, TRUE, u).id = k.unit
      BY <1>4, <2>1, RecordIs
    <2> DEFINE v == found(u, h)
    <2>4. /\ v \in Worker /\ v.at = "keepingEvidence" /\ v.unit = k.unit
          /\ v.taken = h /\ v.record = RecordOf(d, w, TRUE, u)
      BY <1>3, <2>2, <2>3 DEF Worker
    <2>5. worker' = [worker EXCEPT ![d] = [worker[d] EXCEPT ![w] = v]]
      BY <1>0, <2>1
    <2> HIDE DEF v, found, failed, k
    <2>6. AtWork(v)
      BY <1>3, <2>2, <2>3, <2>4 DEF AtWork
    <2> QED BY <1>1, <1>3, <2>4, <2>5, <2>6, GoesOnSteps DEF k
  <1>6. CASE \E h \in Held(d, w, FALSE) :
               worker' = [worker EXCEPT ![d][w].at = "keeping", ![d][w].taken = h,
                                        ![d][w].record = Failed(d, w)]
    <2>1. PICK h \in Held(d, w, FALSE) :
               worker' = [worker EXCEPT ![d][w].at = "keeping", ![d][w].taken = h,
                                        ![d][w].record = Failed(d, w)]
      BY <1>6
    <2>2. h \in Retrieval \cup {None}
      BY <1>1, <2>1, HeldIs
    <2>3. Failed(d, w) \in Record /\ Failed(d, w).id = k.unit /\ ~Failed(d, w).ok
      BY <1>4, RecordIs DEF Failed
    <2> DEFINE v == failed(h)
    <2>4. /\ v \in Worker /\ v.at = "keeping" /\ v.unit = k.unit
          /\ v.taken = h /\ v.record = Failed(d, w)
      BY <1>3, <2>2, <2>3 DEF Worker
    <2>5. worker' = [worker EXCEPT ![d] = [worker[d] EXCEPT ![w] = v]]
      BY <1>0, <2>1
    <2> HIDE DEF v, found, failed, k
    <2>6. AtWork(v)
      BY <1>3, <2>2, <2>3, <2>4 DEF AtWork
    <2> QED BY <1>1, <1>3, <2>3, <2>4, <2>5, <2>6, GoesOnSteps DEF k
  <1> QED BY <1>2, <1>5, <1>6

\* A thread that has a record of its unit goes on with it.
LEMMA RecordedSteps ==
  ASSUME EvalInv, NEW d \in Runs, NEW w \in Workers, At(d, w, {"checking", "looping"}),
         UNCHANGED <<plan, results, evidence, manifest, session>>,
         NEW place \in {"looping", "keeping"}, NEW x \in Record, x.id = worker[d][w].unit,
         worker' = [worker EXCEPT ![d] = [worker[d] EXCEPT ![w] = [worker[d][w] EXCEPT !.at = place, !.record = x]]],
         plan[d].mode \in Searching /\ Untorn(evidence[d]) /\ x.ok => Found(evidence[d], x.id)
  PROVE  Steps(d)
  <1> DEFINE v == [worker[d][w] EXCEPT !.at = place, !.record = x]
  <1>1. worker[d][w] \in Worker /\ worker[d][w].unit \in Units /\ worker[d][w].at # "idle"
    BY DEF EvalInv, Sound, AtWork, At
  <1>2. v \in Worker /\ v.at = place /\ v.unit = worker[d][w].unit /\ v.record = x
    BY <1>1 DEF Worker
  <1>3. worker' = [worker EXCEPT ![d] = [worker[d] EXCEPT ![w] = v]]
    OBVIOUS
  <1> HIDE DEF v
  <1>4. AtWork(v)
    BY <1>1, <1>2 DEF AtWork
  <1> QED BY <1>1, <1>2, <1>3, <1>4, GoesOnSteps

\* A run that does not search has its record whatever is kept.
LEMMA JudgeSteps ==
  ASSUME EvalInv, NEW d \in Runs, NEW w \in Workers, Judge(d, w)
  PROVE  Steps(d)
  <1>1. /\ At(d, w, {"checking"}) /\ plan[d].mode \notin Searching
        /\ UNCHANGED <<plan, results, evidence, manifest, session>>
    BY DEF Judge, Searching
  <1>2. At(d, w, {"checking", "looping"}) /\ worker \in [Runs -> [Workers -> Worker]]
    BY <1>1 DEF At, EvalInv, TypeOK
  <1>3. \/ \E u \in BOOLEAN :
             worker' = [worker EXCEPT ![d][w].at = AfterCheck(d), ![d][w].record = RecordOf(d, w, TRUE, u)]
        \/ worker' = [worker EXCEPT ![d][w].at = "keeping", ![d][w].record = Failed(d, w)]
    BY DEF Judge
  <1>4. ASSUME NEW u \in BOOLEAN,
               worker' = [worker EXCEPT ![d][w].at = AfterCheck(d), ![d][w].record = RecordOf(d, w, TRUE, u)]
        PROVE  Steps(d)
    <2> DEFINE place == AfterCheck(d)
               x == RecordOf(d, w, TRUE, u)
    <2>1. x \in Record /\ x.id = worker[d][w].unit /\ place \in {"looping", "keeping"}
      BY <1>2, RecordIs DEF AfterCheck
    <2> HIDE DEF x, place
    <2>2. worker' = [worker EXCEPT ![d] = [worker[d] EXCEPT ![w] = [worker[d][w] EXCEPT !.at = place, !.record = x]]]
      BY <1>2, <1>4 DEF x, place
    <2> QED BY <1>1, <1>2, <2>1, <2>2, RecordedSteps
  <1>5. ASSUME worker' = [worker EXCEPT ![d][w].at = "keeping", ![d][w].record = Failed(d, w)]
        PROVE  Steps(d)
    <2> DEFINE x == Failed(d, w)
    <2>1. x \in Record /\ x.id = worker[d][w].unit
      BY <1>2, RecordIs DEF Failed
    <2> HIDE DEF x
    <2>2. worker' = [worker EXCEPT ![d] = [worker[d] EXCEPT ![w] = [worker[d][w] EXCEPT !.at = "keeping", !.record = x]]]
      BY <1>2, <1>5 DEF x
    <2> QED BY <1>1, <1>2, <2>1, <2>2, RecordedSteps
  <1> QED BY <1>3, <1>4, <1>5

\* So has a run over texts.
LEMMA JudgeTextSteps ==
  ASSUME EvalInv, NEW d \in Runs, NEW w \in Workers, JudgeText(d, w)
  PROVE  Steps(d)
  <1>1. /\ At(d, w, {"checking"}) /\ plan[d].mode \notin Searching
        /\ UNCHANGED <<plan, results, evidence, manifest, session>>
    BY DEF JudgeText, OfTexts, Searching
  <1>2. At(d, w, {"checking", "looping"}) /\ worker \in [Runs -> [Workers -> Worker]]
    BY <1>1 DEF At, EvalInv, TypeOK
  <1>3. PICK x \in {RecordOf(d, w, TRUE, FALSE), Failed(d, w)} :
             worker' = [worker EXCEPT ![d][w].at = "keeping", ![d][w].record = x]
    BY DEF JudgeText
  <1>4. x \in Record /\ x.id = worker[d][w].unit
    BY <1>2, RecordIs DEF Failed
  <1>5. worker' = [worker EXCEPT ![d] = [worker[d] EXCEPT ![w] = [worker[d][w] EXCEPT !.at = "keeping", !.record = x]]]
    BY <1>2, <1>3
  <1> QED BY <1>1, <1>2, <1>4, <1>5, RecordedSteps

\* And one that answers from another's evidence.
LEMMA ReplaySteps ==
  ASSUME EvalInv, NEW d \in Runs, NEW w \in Workers, Replay(d, w)
  PROVE  Steps(d)
  <1>1. /\ At(d, w, {"checking"}) /\ plan[d].mode \notin Searching
        /\ UNCHANGED <<plan, results, evidence, manifest, session>>
    BY DEF Replay, Searching
  <1>2. At(d, w, {"checking", "looping"}) /\ worker \in [Runs -> [Workers -> Worker]]
    BY <1>1 DEF At, EvalInv, TypeOK
  <1>3. PICK ok \in BOOLEAN, u \in BOOLEAN :
             worker' = [worker EXCEPT ![d][w].at = "keeping", ![d][w].record = RecordOf(d, w, ok, u)]
    BY DEF Replay
  <1> DEFINE x == RecordOf(d, w, ok, u)
  <1>4. x \in Record /\ x.id = worker[d][w].unit
    BY <1>2, RecordIs
  <1> HIDE DEF x
  <1>5. worker' = [worker EXCEPT ![d] = [worker[d] EXCEPT ![w] = [worker[d][w] EXCEPT !.at = "keeping", !.record = x]]]
    BY <1>2, <1>3 DEF x
  <1> QED BY <1>1, <1>2, <1>4, <1>5, RecordedSteps

\* The tuning loop makes no claim one that was judged without evidence.
LEMMA LoopSteps ==
  ASSUME EvalInv, NEW d \in Runs, NEW w \in Workers, Loop(d, w)
  PROVE  Steps(d)
  <1>1. /\ At(d, w, {"looping"}) /\ UNCHANGED <<plan, results, evidence, manifest, session>>
    BY DEF Loop
  <1>2. /\ At(d, w, {"checking", "looping"}) /\ worker \in [Runs -> [Workers -> Worker]]
        /\ worker[d][w].at = "looping"
    BY <1>1 DEF At, EvalInv, TypeOK
  <1>3. PICK x \in {worker[d][w].record, Failed(d, w)} :
             worker' = [worker EXCEPT ![d][w].at = "keeping", ![d][w].record = x]
    BY DEF Loop
  <1>4. Sound(plan[d].mode, results[d], evidence[d], session[d], worker[d])
    BY DEF EvalInv
  <1>5. /\ x \in Record /\ x.id = worker[d][w].unit
        /\ plan[d].mode \in Searching /\ Untorn(evidence[d]) /\ x.ok => Found(evidence[d], x.id)
    <2>1. CASE x = worker[d][w].record
      BY <1>2, <1>4, <2>1 DEF Sound, AtWork, Evident
    <2>2. CASE x = Failed(d, w)
      BY <1>2, <2>2, RecordIs DEF Failed
    <2> QED BY <2>1, <2>2
  <1>6. worker' = [worker EXCEPT ![d] = [worker[d] EXCEPT ![w] = [worker[d][w] EXCEPT !.at = "keeping", !.record = x]]]
    BY <1>2, <1>3
  <1> QED BY <1>1, <1>2, <1>5, <1>6, RecordedSteps

\* What a search kept is written down before its record.
LEMMA KeepEvidenceSteps ==
  ASSUME EvalInv, NEW d \in Runs, NEW w \in Workers, KeepEvidence(d, w)
  PROVE  Steps(d)
  <1> DEFINE k == worker[d][w]
             line == [id |-> k.unit, kept |-> k.taken, session |-> session[d].n]
             f == Appended(evidence[d], line)
             v == [k EXCEPT !.at = AfterCheck(d)]
  <1>1. /\ At(d, w, {"keepingEvidence"})
        /\ UNCHANGED <<plan, results, manifest, session, crashes>>
    BY DEF KeepEvidence
  <1>2. Sound(plan[d].mode, results[d], evidence[d], session[d], worker[d])
    BY DEF EvalInv
  <1>3. k \in Worker /\ k.at = "keepingEvidence" /\ k.unit \in Units /\ session[d].n \in Sessions
    BY <1>1, <1>2 DEF Sound, AtWork, At, Session, Sessions
  <1>4. k.taken = [of |-> k.unit, pass |-> "first"] /\ k.record \in Record /\ k.record.id = k.unit
    BY <1>2, <1>3 DEF Sound, AtWork
  <1>5. k.taken \in Retrieval /\ k.taken # None
    BY <1>3, <1>4, NoneAssumption DEF Retrieval
  <1>6. line \in Entry /\ line.id = k.unit /\ line.kept = [of |-> line.id, pass |-> "first"]
    BY <1>3, <1>4, <1>5 DEF Entry
  <1>7. evidence' = [evidence EXCEPT ![d] = f]
    BY <1>5 DEF KeepEvidence
  <1>8. worker' = [worker EXCEPT ![d] = [worker[d] EXCEPT ![w] = v]]
    <2>1. worker \in [Runs -> [Workers -> Worker]]
      BY DEF EvalInv, TypeOK
    <2> QED BY <2>1 DEF KeepEvidence
  <1>9. /\ v \in Worker /\ v.at \in {"looping", "keeping"} /\ v.unit = k.unit
        /\ v.record = k.record /\ v.taken = k.taken
    BY <1>3 DEF Worker, AfterCheck
  <1> HIDE DEF line, v, k
  <1>10. AtWork(v)
    BY <1>3, <1>4, <1>9 DEF AtWork
  <1>11. /\ evidence[d] \in File(Entry) /\ f \in File(Entry)
         /\ Became(evidence[d], f, {line})
    BY <1>2, <1>6, StillAFile, WhatBecomes DEF Sound
  <1>12. Sound(plan[d].mode, results[d], f, session[d], worker[d])
    BY <1>2, <1>6, <1>11, EvidenceGrows
  <1>13. Untorn(f) => Found(f, v.unit)
    BY <1>6, <1>9, <1>11, AppendedIsFound
  <1> HIDE DEF f
  <1>14. Sound(plan[d].mode, results[d], f, session[d], [worker[d] EXCEPT ![w] = v])
    BY <1>3, <1>9, <1>10, <1>12, <1>13, ThreadGoesOn DEF k
  <1>15. Moved(d, results[d], f, manifest[d], session[d], [worker[d] EXCEPT ![w] = v])
    BY <1>1, <1>7, <1>8, Unmoved DEF Moved
  <1> QED BY <1>14, <1>15, Unmoved DEF Steps, Lasting

\* The first of a sequence, and the rest.
LEMMA TailIs ==
  ASSUME NEW S, NEW s \in Seq(S), s # << >>
  PROVE  /\ Head(s) = s[1] /\ Head(s) \in S /\ Len(s) \in Nat /\ Len(s) > 0
         /\ Tail(s) \in Seq(S) /\ Len(Tail(s)) = Len(s) - 1
         /\ \A i \in 1..Len(Tail(s)) : Tail(s)[i] = s[i + 1] /\ i + 1 \in 1..Len(s)
  OBVIOUS

\* A thread takes a unit that is to be done, and nobody else has.
LEMMA TakeSteps ==
  ASSUME EvalInv, NEW d \in Runs, NEW w \in Workers, Take(d, w)
  PROVE  Steps(d)
  <1> DEFINE s == session[d]
             k == worker[d][w]
             new == [s EXCEPT !.todo = Tail(s.todo)]
             v == [k EXCEPT !.at = "checking", !.unit = Head(s.todo)]
  <1>1. /\ s.at = "mapping" /\ k.at = "idle" /\ s.todo # << >>
        /\ session' = [session EXCEPT ![d] = new]
        /\ UNCHANGED <<plan, results, evidence, manifest, crashes>>
    BY DEF Take, At
  <1>2. Sound(plan[d].mode, results[d], evidence[d], s, worker[d])
    BY DEF EvalInv
  <1>3. s \in Session /\ k \in Worker /\ s.todo \in Seq(Units)
    BY <1>2 DEF Sound, Session
  <1>4. /\ Head(s.todo) = s.todo[1] /\ Head(s.todo) \in Units /\ Len(s.todo) \in Nat /\ Len(s.todo) > 0
        /\ Tail(s.todo) \in Seq(Units)
        /\ \A i \in 1..Len(Tail(s.todo)) : Tail(s.todo)[i] = s.todo[i + 1] /\ i + 1 \in 1..Len(s.todo)
    BY <1>1, <1>3, TailIs
  <1>5. /\ new \in Session /\ new.at = "mapping" /\ new.n = s.n /\ new.option = s.option
        /\ new.todo = Tail(s.todo)
    BY <1>1, <1>3, <1>4 DEF Session
  <1>6. Ahead(results[d], new, worker[d])
    <2>1. Once(new.todo)
      BY <1>2, <1>1, <1>4, <1>5 DEF Sound, Ahead, Once
    <2>2. \A i \in 1..Len(new.todo) : Undone(results[d], new, new.todo[i])
      BY <1>1, <1>2, <1>4, <1>5 DEF Sound, Ahead, Undone
    <2>3. \A x \in Workers : worker[d][x].at # "idle" =>
            /\ Undone(results[d], new, worker[d][x].unit)
            /\ \A i \in 1..Len(new.todo) : new.todo[i] # worker[d][x].unit
      BY <1>1, <1>2, <1>4, <1>5 DEF Sound, Ahead, Undone
    <2> QED BY <1>1, <1>2, <2>1, <2>2, <2>3 DEF Sound, Ahead
  <1>7. Sound(plan[d].mode, results[d], evidence[d], new, worker[d])
    BY <1>1, <1>2, <1>5, <1>6 DEF Sound
  <1>8. CASE s.stop
    <2>1. worker' = worker
      BY <1>8 DEF Take
    <2>2. Moved(d, results[d], evidence[d], manifest[d], new, worker[d])
      BY <1>1, <2>1, Unmoved DEF Moved
    <2> QED BY <1>7, <2>2, Unmoved DEF Steps, Lasting
  <1>9. CASE ~s.stop
    <2> DEFINE after == [worker[d] EXCEPT ![w] = v]
    <2>1. worker' = [worker EXCEPT ![d] = after]
      <3>1. worker' = [worker EXCEPT ![d][w].at = "checking", ![d][w].unit = Head(session[d].todo)]
        BY <1>9 DEF Take
      <3>2. worker \in [Runs -> [Workers -> Worker]]
        BY DEF EvalInv, TypeOK
      <3> QED BY <3>1, <3>2
    <2>2. v \in Worker /\ v.at = "checking" /\ v.unit = Head(s.todo) /\ AtWork(v)
      BY <1>3, <1>4 DEF Worker, AtWork
    <2>3. /\ after \in [Workers -> Worker] /\ after[w] = v
          /\ \A x \in Workers : x # w => after[x] = worker[d][x]
      BY <1>2, <2>2 DEF Sound
    <2> HIDE DEF after, v
    <2>4. \A x \in Workers : AtWork(after[x])
      BY <1>2, <2>2, <2>3 DEF Sound
    <2>5. Evident(plan[d].mode, results[d], evidence[d], after)
      BY <1>2, <2>2, <2>3 DEF Sound, Evident
    <2>6. 1 \in 1..Len(s.todo)
      BY <1>4
    <2>7. \A i \in 1..Len(new.todo) : new.todo[i] # Head(s.todo)
      <3> TAKE i \in 1..Len(new.todo)
      <3>1. new.todo[i] = s.todo[i + 1] /\ i + 1 \in 1..Len(s.todo) /\ i + 1 # 1
        BY <1>4, <1>5
      <3>2. Once(s.todo)
        BY <1>1, <1>2 DEF Sound, Ahead
      <3> QED BY <1>4, <2>6, <3>1, <3>2 DEF Once
    <2>8. Undone(results[d], new, Head(s.todo))
      BY <1>1, <1>2, <1>4, <1>5, <2>6 DEF Sound, Ahead, Undone
    <2>9. \A x \in Workers : worker[d][x].at # "idle" => worker[d][x].unit # Head(s.todo)
      BY <1>1, <1>2, <1>4, <2>6 DEF Sound, Ahead
    <2> HIDE DEF new, s, k
    <2>10. Ahead(results[d], new, after)
      <3>1. \A x \in Workers : after[x].at # "idle" =>
              /\ Undone(results[d], new, after[x].unit)
              /\ \A i \in 1..Len(new.todo) : new.todo[i] # after[x].unit
        BY <1>5, <1>6, <2>2, <2>3, <2>7, <2>8 DEF Ahead
      <3>2. \A x, y \in Workers : after[x].at # "idle" /\ after[y].at # "idle" /\ after[x].unit = after[y].unit => x = y
        BY <1>5, <1>6, <2>2, <2>3, <2>9 DEF Ahead
      <3> QED BY <1>5, <1>6, <3>1, <3>2 DEF Ahead
    <2>11. Sound(plan[d].mode, results[d], evidence[d], new, after)
      BY <1>5, <1>7, <2>3, <2>4, <2>5, <2>10 DEF Sound
    <2>12. Moved(d, results[d], evidence[d], manifest[d], new, after)
      BY <1>1, <2>1, Unmoved DEF Moved
    <2> QED BY <2>11, <2>12, Unmoved DEF Steps, Lasting
  <1> QED BY <1>8, <1>9

\* Records that some thread is about to keep.
AreKept(pending, threads) ==
  \A x \in pending : \E w \in Workers : threads[w].at = "keeping" /\ x = threads[w].record

\* What is pending of the units that a thread has, a run that goes on has not done.
LEMMA PendingAreUndone ==
  ASSUME NEW mode, NEW r, NEW e, NEW s, NEW threads, Sound(mode, r, e, s, threads), s.at = "mapping",
         NEW pending, AreKept(pending, threads), NEW g, Became(r, g, pending)
  PROVE  /\ pending \subseteq Record
         /\ Lasting(r, s, g)
         /\ \A u \in Units : (\A x \in pending : x.id # u) => Latest(g, u) = Latest(r, u)
         /\ \A x \in Lines(g) : x \in Lines(r) \/ x \in pending
         /\ mode \in Searching /\ Untorn(e) => \A x \in Lines(g) : x.ok => Found(e, x.id)
  <1>1. \A x \in pending : /\ x \in Record /\ Undone(r, s, x.id)
                           /\ (mode \in Searching /\ Untorn(e) /\ x.ok => Found(e, x.id))
    <2> TAKE x \in pending
    <2>1. PICK w \in Workers : threads[w].at = "keeping" /\ x = threads[w].record
      BY DEF AreKept
    <2>2. x \in Record /\ x.id = threads[w].unit
      BY <2>1 DEF Sound, AtWork
    <2>3. Undone(r, s, x.id)
      BY <2>1, <2>2 DEF Sound, Ahead
    <2>4. mode \in Searching /\ Untorn(e) /\ x.ok => Found(e, x.id)
      BY <2>1, <2>2 DEF Sound, Evident
    <2> QED BY <2>2, <2>3, <2>4
  <1>2. r \in File(Record) /\ ~r.open
    BY DEF Sound, Ahead
  <1>3. \A u \in Units : (\A x \in pending : x.id # u) => Latest(g, u) = Latest(r, u)
    BY <1>1, <1>2, LatestBecame
  <1>4. ASSUME NEW u \in Units, IsDone(Latest(r, u), s.option.retry) PROVE \A x \in pending : x.id # u
    BY <1>1, <1>4 DEF Undone
  <1>5. Lasting(r, s, g)
    BY <1>3, <1>4 DEF Lasting
  <1>6. Lines(g) \subseteq Lines(r) \cup pending
    BY <1>1, <1>2, LinesBecame
  <1>7. mode \in Searching /\ Untorn(e) => \A x \in Lines(g) : x.ok => Found(e, x.id)
    BY <1>1, <1>6 DEF Sound, Evident
  <1> QED BY <1>1, <1>3, <1>5, <1>6, <1>7

\* A record is appended for a unit that was not done.
LEMMA KeepSteps ==
  ASSUME EvalInv, NEW d \in Runs, NEW w \in Workers, Keep(d, w)
  PROVE  Steps(d)
  <1> DEFINE k == worker[d][w]
             s == session[d]
             x == k.record
             f == Appended(results[d], x)
             v == [Idle EXCEPT !.taken = k.taken]
             after == [worker[d] EXCEPT ![w] = v]
  <1>1. /\ s.at = "mapping" /\ k.at = "keeping"
        /\ results' = [results EXCEPT ![d] = f]
        /\ worker' = [worker EXCEPT ![d] = after]
        /\ UNCHANGED <<plan, evidence, manifest, session, crashes>>
    BY DEF Keep, At
  <1>2. Sound(plan[d].mode, results[d], evidence[d], s, worker[d])
    BY DEF EvalInv
  <1>3. k \in Worker /\ k.unit \in Units /\ x \in Record /\ x.id = k.unit
    BY <1>1, <1>2 DEF Sound, AtWork
  <1>4. v \in Worker /\ v.at = "idle" /\ AtWork(v)
    BY <1>3, IdleIs DEF Worker, AtWork, Idle
  <1>5. results[d] \in File(Record) /\ ~results[d].open
    BY <1>1, <1>2 DEF Sound, Ahead
  <1>6. f \in File(Record) /\ ~f.open /\ Became(results[d], f, {x})
    BY <1>3, <1>5, StillAFile, WhatBecomes
  <1>7. /\ after \in [Workers -> Worker] /\ after[w] = v
        /\ \A y \in Workers : y # w => after[y] = worker[d][y]
    BY <1>2, <1>4 DEF Sound
  <1> HIDE DEF after, v, f, x, k, s
  <1>8. /\ Lasting(results[d], s, f)
        /\ \A u \in Units : u # x.id => Latest(f, u) = Latest(results[d], u)
        /\ plan[d].mode \in Searching /\ Untorn(evidence[d]) => \A y \in Lines(f) : y.ok => Found(evidence[d], y.id)
    <2> DEFINE added == {x}
    <2>1. AreKept(added, worker[d])
      BY <1>1 DEF x, k, AreKept
    <2>3. Became(results[d], f, added)
      BY <1>6
    <2> HIDE DEF added
    <2>2. /\ Lasting(results[d], s, f)
          /\ \A u \in Units : (\A y \in added : y.id # u) => Latest(f, u) = Latest(results[d], u)
          /\ plan[d].mode \in Searching /\ Untorn(evidence[d]) => \A y \in Lines(f) : y.ok => Found(evidence[d], y.id)
      BY <1>1, <1>2, <2>1, <2>3, PendingAreUndone
    <2> QED BY <2>2 DEF added
  <1>9. \A y \in Workers : AtWork(after[y])
    BY <1>2, <1>4, <1>7 DEF Sound
  <1>10. Evident(plan[d].mode, f, evidence[d], after)
    BY <1>2, <1>4, <1>7, <1>8 DEF Sound, Evident
  <1>11. Ahead(f, s, after)
    <2>1. Ahead(results[d], s, worker[d]) /\ k = worker[d][w] /\ k.at # "idle" /\ s.todo \in Seq(Units)
      BY <1>1, <1>2 DEF Sound, Session, k
    <2>2. ASSUME NEW u \in Units, u # k.unit, Undone(results[d], s, u)
          PROVE  Undone(f, s, u)
      BY <1>3, <1>8, <2>2 DEF Undone
    <2>3. \A i \in 1..Len(s.todo) : s.todo[i] # k.unit /\ s.todo[i] \in Units
      BY <1>1, <2>1 DEF Ahead
    <2>4. \A i \in 1..Len(s.todo) : Undone(f, s, s.todo[i])
      BY <1>1, <2>1, <2>2, <2>3 DEF Ahead
    <2>5. ASSUME NEW y \in Workers, after[y].at # "idle"
          PROVE  /\ y # w /\ Undone(f, s, after[y].unit)
                 /\ \A i \in 1..Len(s.todo) : s.todo[i] # after[y].unit
      <3>1. y # w /\ after[y] = worker[d][y]
        BY <1>4, <1>7, <2>5
      <3>2. worker[d][y].unit # k.unit /\ worker[d][y].unit \in Units
        BY <1>1, <1>2, <2>1, <2>5, <3>1 DEF Ahead, Sound, AtWork
      <3> QED BY <1>1, <2>1, <2>2, <2>5, <3>1, <3>2 DEF Ahead
    <2>6. \A y, z \in Workers : after[y].at # "idle" /\ after[z].at # "idle" /\ after[y].unit = after[z].unit => y = z
      BY <1>1, <1>7, <2>1, <2>5 DEF Ahead
    <2> QED BY <1>1, <1>6, <2>1, <2>4, <2>5, <2>6 DEF Ahead
  <1>12. Sound(plan[d].mode, f, evidence[d], s, after)
    BY <1>1, <1>2, <1>6, <1>7, <1>9, <1>10, <1>11 DEF Sound
  <1>13. Moved(d, f, evidence[d], manifest[d], s, after)
    BY <1>1, Unmoved DEF Moved, s
  <1> QED BY <1>8, <1>12, <1>13, Unmoved DEF Steps, s

\* What a crash interrupts when nothing is being written is what it was.
LEMMA NothingInterrupted ==
  ASSUME NEW f, NEW g \in Interrupted(f, {})
  PROVE  g = f
  BY DEF Interrupted

\* A crash may cut a record or a line of evidence, and loses nothing that was done.
LEMMA CrashSteps ==
  ASSUME EvalInv, NEW d \in Runs, Crash(d)
  PROVE  Steps(d) /\ crashes' \in 0..MaxCrashes
  <1> DEFINE s == session[d]
             new == [s EXCEPT !.at = "crashed"]
             keeping == {w \in Workers : At(d, w, {"keeping"})}
             noting == {w \in Workers : At(d, w, {"keepingEvidence"}) /\ worker[d][w].taken # None}
             kept == {worker[d][w].record : w \in keeping}
             noted == {[id |-> worker[d][w].unit, kept |-> worker[d][w].taken,
                        session |-> session[d].n] : w \in noting}
             threads == [w \in Workers |-> Idle]
  <1>1. /\ crashes < MaxCrashes /\ crashes' = crashes + 1
        /\ session' = [session EXCEPT ![d] = new]
        /\ worker' = [worker EXCEPT ![d] = threads]
        /\ UNCHANGED <<plan, manifest>>
    BY DEF Crash, Goto
  <1>2. PICK r \in Interrupted(results[d], kept) : results' = [results EXCEPT ![d] = r]
    BY DEF Crash
  <1>3. PICK e \in Interrupted(evidence[d], noted) : evidence' = [evidence EXCEPT ![d] = e]
    BY DEF Crash
  <1>4. Sound(plan[d].mode, results[d], evidence[d], s, worker[d])
    BY DEF EvalInv
  <1>5. new \in Session /\ new.at = "crashed" /\ new.n = s.n
    BY <1>4, StageIs DEF Sound, Stages, Ends
  <1>6. crashes' \in 0..MaxCrashes
    BY <1>1, EvalRunsAssumption DEF EvalInv, TypeOK
  <1>7. \A w \in Workers : threads[w].at = "idle" /\ AtWork(threads[w])
    BY IdleIs DEF AtWork
  <1>8. threads \in [Workers -> Worker]
    BY IdleIs
  <1>9. AreKept(kept, worker[d])
    BY DEF AreKept, At
  <1>10. kept # {} \/ noted # {} => s.at = "mapping"
    BY DEF At
  <1>11. \A x \in noted : x \in Entry /\ x.kept = [of |-> x.id, pass |-> "first"]
    <2> SUFFICES ASSUME NEW w \in noting
                 PROVE  LET x == [id |-> worker[d][w].unit, kept |-> worker[d][w].taken, session |-> session[d].n]
                        IN x \in Entry /\ x.kept = [of |-> x.id, pass |-> "first"]
      OBVIOUS
    <2>1. worker[d][w].at = "keepingEvidence" /\ session[d].at = "mapping" /\ session[d].n \in Sessions
      BY <1>4 DEF Sound, Session, Sessions, At
    <2>2. worker[d][w].unit \in Units /\ worker[d][w].taken = [of |-> worker[d][w].unit, pass |-> "first"]
      BY <1>4, <2>1 DEF Sound, AtWork
    <2> QED BY <2>1, <2>2 DEF Entry, Retrieval
  <1> HIDE DEF kept, noted, threads, new, keeping, noting
  <1>12. results[d] \in File(Record) /\ evidence[d] \in File(Entry)
    BY <1>4 DEF Sound
  <1>13. /\ r \in File(Record) /\ Lasting(results[d], s, r)
         /\ plan[d].mode \in Searching /\ Untorn(evidence[d]) => \A x \in Lines(r) : x.ok => Found(evidence[d], x.id)
    <2>1. CASE s.at = "mapping"
      <3>1. Became(results[d], r, kept)
        BY <1>2, <1>12, WhatBecomes
      <3>2. /\ kept \subseteq Record /\ Lasting(results[d], s, r)
            /\ plan[d].mode \in Searching /\ Untorn(evidence[d]) => \A x \in Lines(r) : x.ok => Found(evidence[d], x.id)
        BY <1>4, <1>9, <2>1, <3>1, PendingAreUndone
      <3>3. r \in File(Record)
        BY <1>2, <1>12, <3>2, InterruptedIsAFile
      <3> QED BY <3>2, <3>3
    <2>2. CASE s.at # "mapping"
      <3>1. r = results[d]
        BY <1>2, <1>10, <2>2, NothingInterrupted
      <3> QED BY <1>4, <1>12, <3>1 DEF Lasting, Sound, Evident
    <2> QED BY <2>1, <2>2
  <1>14. Sound(plan[d].mode, r, evidence[d], new, threads)
    <2>1. Ahead(r, new, threads)
      BY <1>5 DEF Ahead
    <2>2. Evident(plan[d].mode, r, evidence[d], threads)
      BY <1>7, <1>13 DEF Evident
    <2>3. s.at # "never"
      BY DEF Crash, Over, Ends
    <2> QED BY <1>4, <1>5, <1>7, <1>8, <1>13, <2>1, <2>2, <2>3 DEF Sound
  <1>15. e \in File(Entry) /\ Became(evidence[d], e, noted)
    BY <1>3, <1>11, <1>12, InterruptedIsAFile, WhatBecomes
  <1>16. Sound(plan[d].mode, r, e, new, threads)
    BY <1>11, <1>14, <1>15, EvidenceGrows
  <1>17. Moved(d, r, e, manifest[d], new, threads)
    BY <1>1, <1>2, <1>3, Unmoved DEF Moved
  <1> QED BY <1>6, <1>13, <1>16, <1>17, Unmoved DEF Steps, s

-----------------------------------------------------------------------------
(* What follows of every run. *)

\* As the runs start there is nothing to lose.
LEMMA EvalStart == Init => EvalInv
  <1> SUFFICES ASSUME Init PROVE EvalInv
    OBVIOUS
  <1> DEFINE s == [at |-> "never", n |-> 0, stop |-> FALSE, todo |-> << >>,
                   pending |-> {}, snapshot |-> NoSnapshot, option |-> Plain]
             threads == [w \in Workers |-> Idle]
  <1>1. s \in Session
    <2>1. << >> \in Seq(Units) /\ {} \in SUBSET Units /\ 0 \in Nat /\ FALSE \in BOOLEAN
      OBVIOUS
    <2>2. NoSnapshot \in [Rows -> Retrieval \cup {None}]
      BY DEF NoSnapshot
    <2>3. Plain \in Option /\ "never" \in Stages
      BY DEF Plain, Option, Stages, Ends
    <2> QED BY <2>1, <2>2, <2>3 DEF Session
  <1>2. threads \in [Workers -> Worker] /\ \A w \in Workers : threads[w].at = "idle" /\ AtWork(threads[w])
    BY IdleIs DEF AtWork
  <1>3. Empty \in File(Record) /\ Empty \in File(Entry) /\ Lines(Empty) = {}
    BY DEF Empty, File, Lines
  <1>4. /\ results = [x \in Runs |-> Empty] /\ evidence = [x \in Runs |-> Empty]
        /\ manifest = [x \in Runs |-> << >>] /\ session = [x \in Runs |-> s]
        /\ worker = [x \in Runs |-> threads] /\ plan \in Plans /\ crashes = 0
    BY DEF Init
  <1>5. s.at = "never"
    OBVIOUS
  <1> HIDE DEF s, threads
  <1>6. TypeOK
    <2>1. << >> \in Seq(Entered) /\ 0 \in 0..MaxCrashes
      BY EvalRunsAssumption
    <2> QED BY <1>1, <1>2, <1>3, <1>4, <2>1 DEF TypeOK
  <1>7. \A mode : Sound(mode, Empty, Empty, s, threads)
    BY <1>1, <1>2, <1>3, <1>5 DEF Sound, Ahead, Evident, OwnLines
  <1> QED BY <1>4, <1>6, <1>7 DEF EvalInv

\* Every step of the runs is a step of one, or changes nothing.
LEMMA EveryStep ==
  ASSUME EvalInv, [Next]_vars
  PROVE  /\ EvalInv'
         /\ \A d \in Runs : Lasting(results[d], session[d], results'[d])
  <1>1. CASE UNCHANGED vars
    BY <1>1 DEF vars, EvalInv, TypeOK, Lasting
  <1>2. CASE Next
    <2>1. PICK d \in Runs : \/ Start(d) \/ Running(d) \/ Stop(d) \/ Crash(d)
                            \/ \E w \in Workers : Working(d, w)
      BY <1>2 DEF Next
    <2>2. crashes \in 0..MaxCrashes
      BY DEF EvalInv, TypeOK
    <2>3. CASE Crash(d)
      BY <2>3, CrashSteps, StepsKeep
    <2>4. CASE Start(d) \/ Running(d) \/ Stop(d)
      <3>1. Steps(d)
        BY <2>4, StartSteps, SetAsideSteps, SetAsideEvidenceSteps, LoadSteps, OpenSteps,
           FinishSteps, StopSteps DEF Running
      <3>2. crashes' = crashes
        BY <2>4 DEF Start, Running, SetAside, SetAsideEvidence, Load, Open, Finish, Stop
      <3> QED BY <2>2, <3>1, <3>2, StepsKeep
    <2>5. ASSUME NEW w \in Workers, Working(d, w) PROVE Steps(d) /\ crashes' = crashes
      <3>1. Steps(d)
        BY <2>5, TakeSteps, SearchSteps, JudgeSteps, JudgeTextSteps, ReplaySteps,
           KeepEvidenceSteps, LoopSteps, KeepSteps DEF Working
      <3>2. crashes' = crashes
        BY <2>5 DEF Working, Take, Search, Judge, JudgeText, Replay, KeepEvidence, Loop, Keep
      <3> QED BY <3>1, <3>2
    <2> QED BY <2>1, <2>2, <2>3, <2>4, <2>5, StepsKeep
  <1> QED BY <1>1, <1>2

\* What the invariant says of what another run may replay.
LEMMA EvidenceFollows == EvalInv => EvidenceCanBeReplayed
  <1> SUFFICES ASSUME EvalInv PROVE EvidenceCanBeReplayed
    OBVIOUS
  <1>1. EvidenceIsItsOwn
    BY DEF EvalInv, Sound, OwnLines, EvidenceIsItsOwn
  <1>2. ASSUME NEW d \in Runs, plan[d].mode \in Searching,
               \A i \in 1..Len(evidence[d].lines) : evidence[d].lines[i] # Junk,
               NEW r \in Lines(results[d]), r.ok
        PROVE  Latest(evidence[d], r.id) # None
    <2>1. Found(evidence[d], r.id)
      BY <1>2 DEF EvalInv, Sound, Evident, Untorn
    <2>2. evidence[d].lines \in Seq(Entry \cup {Junk}) /\ Len(evidence[d].lines) \in Nat
      BY DEF EvalInv, Sound, File
    <2>3. PICK m : IsLatest(evidence[d], r.id, m)
      BY <2>1, <2>2, LatestIs
    <2>4. Latest(evidence[d], r.id) = evidence[d].lines[m]
      BY <2>2, <2>3, LatestIs
    <2>5. evidence[d].lines[m] \in Entry \cup {Junk}
      BY <2>2, <2>3 DEF IsLatest
    <2> QED BY <2>4, <2>5, NoneAssumption
  <1> QED BY <1>1, <1>2 DEF EvidenceCanBeReplayed, ReplayableUnlessTorn

\* The variables keep their types: what a session sets out to do are units, what
\* a thread has in hand is one, and every line of the files is a record or torn.
THEOREM EvalTypes == Spec => []TypeOK
  <1>1. EvalInv => TypeOK
    BY DEF EvalInv
  <1> QED BY <1>1, EvalStart, EveryStep, PTL DEF Spec

\* Whatever is crashed, torn and started afresh, the evidence of a searching run
\* has for each claim what the pass that was judged found for it, and has it
\* for each claim that was judged, unless a crash tore a line of it.
THEOREM EvidenceHolds == Spec => []EvidenceCanBeReplayed
  BY EvidenceFollows, EvalStart, EveryStep, PTL DEF Spec

\* No step but the one that sets the results aside undoes a unit that is done:
\* not a crash in the middle of a line, not the mending of it, not the record of
\* another thread.
THEOREM DoneHolds == Spec => DoneStaysDone
  <1>1. ASSUME EvalInv, [Next]_vars
        PROVE  [\A d \in Runs : \A line \in Lines(results[d]) :
                  LET done(f) == IsDone(Latest(f, line.id), session[d].option.retry)
                  IN session[d].at # "set_aside" /\ done(results[d]) => done(results'[d])]_vars
    <2> SUFFICES ASSUME NEW d \in Runs, NEW line \in Lines(results[d]),
                        session[d].at # "set_aside", IsDone(Latest(results[d], line.id), session[d].option.retry)
                 PROVE  IsDone(Latest(results'[d], line.id), session[d].option.retry)
      OBVIOUS
    <2>1. results[d].lines \in Seq(Record \cup {Junk})
      BY <1>1 DEF EvalInv, Sound, File
    <2>2. line \in Record
      BY <2>1 DEF Lines
    <2>3. line.id \in Units
      BY <2>2 DEF Record
    <2>4. Lasting(results[d], session[d], results'[d])
      BY <1>1, EveryStep
    <2> QED BY <2>3, <2>4 DEF Lasting
  <1> QED BY <1>1, EvalStart, EveryStep, PTL DEF Spec, DoneStaysDone

-----------------------------------------------------------------------------
(* Sums and products over a finite set. *)

\* A family of the parts of a finite set that has the empty one, and with each
\* part the part with one more element, has them all.
LEMMA OneByOne ==
  ASSUME NEW S, IsFiniteSet(S), NEW G, {} \in G,
         \A T \in SUBSET S, x \in S : T \in G /\ x \notin T => T \cup {x} \in G
  PROVE  S \in G
  <1> DEFINE N0 == {n \in Nat : \A T \in SUBSET S : Cardinality(T) = n => T \in G}
  <1>1. 0 \in N0
    BY FS_EmptySet, FS_Subset
  <1>2. ASSUME NEW n \in N0 PROVE n + 1 \in N0
    <2> SUFFICES ASSUME NEW T \in SUBSET S, Cardinality(T) = n + 1 PROVE T \in G
      OBVIOUS
    <2>1. IsFiniteSet(T)
      BY FS_Subset
    <2>2. T # {}
      BY <2>1, FS_EmptySet
    <2>3. PICK x \in T : TRUE
      BY <2>2
    <2>4. Cardinality(T \ {x}) = n
      <3>1. Cardinality(T \ {x}) = Cardinality(T) - 1 /\ n \in Nat
        BY <2>1, <2>3, FS_RemoveElement
      <3> QED BY <3>1
    <2>5. T \ {x} \in G
      BY <2>4
    <2>6. T = (T \ {x}) \cup {x}
      OBVIOUS
    <2> QED BY <2>5, <2>6
  <1>3. N0 = Nat
    <2> HIDE DEF N0
    <2> QED BY <1>1, <1>2, Induction DEF N0
  <1>4. Cardinality(S) \in N0
    BY <1>3, FS_CardinalityType
  <1> QED BY <1>4

\* The element that is taken out of a set first.
Out(T) == CHOOSE y \in T : TRUE

\* What is made of the parts of a set, each from what is left when an element is
\* taken out.
Folded(g, D, start, go) ==
  g = [T \in SUBSET D |-> IF T = {} THEN start ELSE go[Out(T)][g[T \ {Out(T)}]]]

\* The order does not matter.
Commutes(D, go) == \A x, y \in D : \A v \in Int : go[x][go[y][v]] = go[y][go[x][v]]

\* Any element may be taken out first.
TakesAny(g, D, start, go) ==
  /\ g[{}] = start
  /\ \A T \in SUBSET D : g[T] \in Int /\ \A x \in T : g[T] = go[x][g[T \ {x}]]

\* What is taken out of a set is in it.
LEMMA OutIsIn == \A T : T # {} => Out(T) \in T
  BY DEF Out

\* It can be made.
LEMMA FoldExists ==
  ASSUME NEW D, IsFiniteSet(D), NEW start \in Int, NEW go \in [D -> [Int -> Int]]
  PROVE  \E g \in [SUBSET D -> Int] : Folded(g, D, start, go)
  <1> DEFINE Small(n) == {T \in SUBSET D : Cardinality(T) <= n}
             Good(g, n) == \A T \in Small(n) :
                             g[T] = IF T = {} THEN start ELSE go[Out(T)][g[T \ {Out(T)}]]
             N0 == {n \in Nat : \E g \in [SUBSET D -> Int] : Good(g, n)}
  <1>0. \A T \in SUBSET D : IsFiniteSet(T) /\ Cardinality(T) \in Nat
    BY FS_Subset, FS_CardinalityType
  <1>1. 0 \in N0
    <2> DEFINE g == [T \in SUBSET D |-> start]
    <2>1. \A T \in Small(0) : T = {}
      BY <1>0, FS_EmptySet
    <2>2. g \in [SUBSET D -> Int] /\ Good(g, 0)
      BY <2>1
    <2> HIDE DEF g
    <2> QED BY <2>2, Zenon
  <1>2. ASSUME NEW n \in N0 PROVE n + 1 \in N0
    <2>1. PICK g \in [SUBSET D -> Int] : Good(g, n)
      OBVIOUS
    <2> DEFINE h == [T \in SUBSET D |-> IF T = {} THEN start ELSE go[Out(T)][g[T \ {Out(T)}]]]
    <2>2. ASSUME NEW T \in SUBSET D, T # {}
          PROVE  Out(T) \in D /\ T \ {Out(T)} \in SUBSET D
                 /\ Cardinality(T \ {Out(T)}) = Cardinality(T) - 1
      BY <2>2, <1>0, OutIsIn, FS_RemoveElement
    <2>3. h \in [SUBSET D -> Int]
      <3>1. ASSUME NEW T \in SUBSET D, T # {} PROVE go[Out(T)][g[T \ {Out(T)}]] \in Int
        <4>1. g[T \ {Out(T)}] \in Int /\ go[Out(T)] \in [Int -> Int]
          BY <2>2, <3>1
        <4> QED BY <4>1
      <3> QED BY <3>1
    <2>4. \A T \in Small(n) : h[T] = g[T]
      BY <2>1
    <2>5. Good(h, n + 1)
      <3> SUFFICES ASSUME NEW T \in Small(n + 1)
                   PROVE  h[T] = IF T = {} THEN start ELSE go[Out(T)][h[T \ {Out(T)}]]
        OBVIOUS
      <3>1. CASE T = {}
        BY <3>1
      <3>2. CASE T # {}
        <4>1. T \ {Out(T)} \in Small(n)
          <5>1. Cardinality(T) \in Nat /\ Cardinality(T) <= n + 1 /\ n \in Nat
            BY <1>0
          <5>2. T \ {Out(T)} \in SUBSET D /\ Cardinality(T \ {Out(T)}) = Cardinality(T) - 1
            BY <2>2, <3>2
          <5>3. Cardinality(T) - 1 <= n
            BY <5>1
          <5> QED BY <5>2, <5>3
        <4>2. h[T \ {Out(T)}] = g[T \ {Out(T)}]
          BY <2>4, <4>1
        <4> QED BY <3>2, <4>2
      <3> QED BY <3>1, <3>2
    <2> HIDE DEF h, Good
    <2>6. n + 1 \in Nat
      OBVIOUS
    <2> QED BY <2>3, <2>5, <2>6
  <1>3. N0 = Nat
    <2> HIDE DEF N0
    <2> QED BY <1>1, <1>2, Induction DEF N0
  <1>4. PICK g \in [SUBSET D -> Int] : Good(g, Cardinality(D))
    BY <1>0, <1>3
  <1>5. \A T \in SUBSET D : T \in Small(Cardinality(D))
    BY FS_Subset, <1>0
  <1>6. \A T \in SUBSET D : g[T] = IF T = {} THEN start ELSE go[Out(T)][g[T \ {Out(T)}]]
    BY <1>4, <1>5
  <1>7. g = [T \in SUBSET D |-> g[T]]
    OBVIOUS
  <1>8. g = [T \in SUBSET D |-> IF T = {} THEN start ELSE go[Out(T)][g[T \ {Out(T)}]]]
    BY <1>6, <1>7
  <1> QED BY <1>8 DEF Folded

\* Where the order does not matter, any element may be taken out first.
LEMMA FoldTakesAny ==
  ASSUME NEW D, IsFiniteSet(D), NEW start \in Int, NEW go \in [D -> [Int -> Int]],
         Commutes(D, go), NEW g, Folded(g, D, start, go)
  PROVE  TakesAny(g, D, start, go)
  <1> DEFINE Good(T) == g[T] \in Int /\ \A x \in T : g[T] = go[x][g[T \ {x}]]
             N0 == {n \in Nat : \A T \in SUBSET D : Cardinality(T) <= n => Good(T)}
  <1>0. \A T \in SUBSET D : IsFiniteSet(T) /\ Cardinality(T) \in Nat
    BY FS_Subset, FS_CardinalityType
  <1>1. \A T \in SUBSET D : g[T] = IF T = {} THEN start ELSE go[Out(T)][g[T \ {Out(T)}]]
    BY DEF Folded
  <1>2. g[{}] = start
    BY <1>1
  <1>3. 0 \in N0
    <2>1. \A T \in SUBSET D : Cardinality(T) <= 0 => T = {}
      BY <1>0, FS_EmptySet
    <2> QED BY <1>2, <2>1
  <1>4. ASSUME NEW n \in N0 PROVE n + 1 \in N0
    <2> SUFFICES ASSUME NEW T \in SUBSET D, Cardinality(T) <= n + 1 PROVE Good(T)
      OBVIOUS
    <2>1. CASE T = {}
      BY <1>2, <2>1
    <2>2. CASE T # {}
      <3> DEFINE y == Out(T)
      <3>1. y \in T /\ y \in D
        BY <2>2, OutIsIn
      <3> HIDE DEF y
      <3>2. \A x \in T : Cardinality(T \ {x}) <= n /\ T \ {x} \in SUBSET D
        <4>1. ASSUME NEW x \in T PROVE Cardinality(T \ {x}) = Cardinality(T) - 1
          BY <1>0, FS_RemoveElement
        <4>2. Cardinality(T) \in Nat /\ n \in Nat
          BY <1>0
        <4> QED BY <4>1, <4>2
      <3>3. \A x \in T : Good(T \ {x})
        BY <3>2
      <3>4. g[T] = go[y][g[T \ {y}]]
        BY <1>1, <2>2 DEF y
      <3>5. g[T] \in Int
        <4>1. g[T \ {y}] \in Int /\ go[y] \in [Int -> Int]
          BY <3>1, <3>3
        <4> QED BY <3>4, <4>1
      <3>6. ASSUME NEW x \in T, x # y PROVE g[T] = go[x][g[T \ {x}]]
        <4> DEFINE U == (T \ {x}) \ {y}
        <4>1. U = (T \ {y}) \ {x} /\ x \in T \ {y} /\ y \in T \ {x}
          BY <3>1, <3>6
        <4>2. Cardinality(U) <= n /\ U \in SUBSET D
          <5>1. Cardinality(U) = Cardinality(T \ {x}) - 1
            BY <4>1, <3>2, <1>0, FS_RemoveElement
          <5> QED BY <5>1, <3>2, <1>0
        <4>3. Good(U)
          BY <4>2
        <4>4. g[T \ {y}] = go[x][g[U]]
          <5>1. Good(T \ {y})
            BY <3>1, <3>3
          <5> QED BY <4>1, <5>1
        <4>5. g[T \ {x}] = go[y][g[U]]
          BY <3>3, <4>1
        <4> HIDE DEF U
        <4>6. go[y][go[x][g[U]]] = go[x][go[y][g[U]]]
          BY <3>1, <4>3 DEF Commutes
        <4> QED BY <3>4, <4>4, <4>5, <4>6
      <3> QED BY <3>4, <3>5, <3>6
    <2> QED BY <2>1, <2>2
  <1>5. N0 = Nat
    <2> HIDE DEF N0
    <2> QED BY <1>3, <1>4, Induction DEF N0
  <1>6. ASSUME NEW T \in SUBSET D PROVE Good(T)
    <2>1. Cardinality(T) \in N0 /\ Cardinality(T) \in Nat
      BY <1>0, <1>5
    <2>2. Cardinality(T) <= Cardinality(T)
      BY <2>1
    <2> QED BY <2>1, <2>2
  <1> QED BY <1>2, <1>6 DEF TakesAny

\* What is made alike at every step is alike.
LEMMA FoldIsOne ==
  ASSUME NEW D, IsFiniteSet(D), NEW g, NEW h, h[{}] = g[{}],
         \A T \in SUBSET D : T # {} /\ h[T \ {Out(T)}] = g[T \ {Out(T)}] => h[T] = g[T]
  PROVE  \A T \in SUBSET D : h[T] = g[T]
  <1> DEFINE N0 == {n \in Nat : \A T \in SUBSET D : Cardinality(T) = n => h[T] = g[T]}
  <1>0. \A T \in SUBSET D : IsFiniteSet(T) /\ Cardinality(T) \in Nat
    BY FS_Subset, FS_CardinalityType
  <1>1. 0 \in N0
    BY <1>0, FS_EmptySet
  <1>2. ASSUME NEW n \in N0 PROVE n + 1 \in N0
    <2> SUFFICES ASSUME NEW T \in SUBSET D, Cardinality(T) = n + 1 PROVE h[T] = g[T]
      OBVIOUS
    <2>1. n \in Nat
      OBVIOUS
    <2>2. T # {}
      <3>1. Cardinality({}) = 0
        BY FS_EmptySet
      <3>2. Cardinality(T) # 0
        BY <2>1
      <3> QED BY <3>1, <3>2
    <2>3. Cardinality(T \ {Out(T)}) = Cardinality(T) - 1
      BY <2>2, <1>0, OutIsIn, FS_RemoveElement
    <2>4. Cardinality(T \ {Out(T)}) = n /\ T \ {Out(T)} \in SUBSET D
      BY <2>1, <2>3
    <2> QED BY <2>2, <2>4
  <1>3. N0 = Nat
    <2> HIDE DEF N0
    <2> QED BY <1>1, <1>2, Induction DEF N0
  <1> QED BY <1>0, <1>3

\* The sum of a function's values over a part of its domain.
Part(f, S) ==
  LET total[T \in SUBSET DOMAIN f] ==
        IF T = {} THEN 0 ELSE LET x == CHOOSE y \in T : TRUE IN f[x] + total[T \ {x}]
  IN total[S]

\* The sum is over the whole of it.
LEMMA TotalIsPart == \A f : Total(f) = Part(f, DOMAIN f)
  BY DEF Total, Part

\* Over no element the sum is 0, and any element may be taken out of it.
Sums(f, D) ==
  /\ Part(f, {}) = 0
  /\ \A T \in SUBSET D : Part(f, T) \in Int /\ \A x \in T : Part(f, T) = f[x] + Part(f, T \ {x})

\* A sum is one.
LEMMA PartSums ==
  ASSUME NEW D, IsFiniteSet(D), NEW f \in [D -> Int]
  PROVE  Sums(f, D)
  <1> DEFINE go == [x \in D |-> [v \in Int |-> f[x] + v]]
             Upto(h) == h = [T \in SUBSET D |-> IF T = {} THEN 0 ELSE f[Out(T)] + h[T \ {Out(T)}]]
  <1>1. go \in [D -> [Int -> Int]]
    OBVIOUS
  <1>2. \A x \in D : \A v \in Int : go[x][v] = f[x] + v
    OBVIOUS
  <1>3. Commutes(D, go)
    <2>1. \A x, y \in D : f[x] \in Int /\ f[y] \in Int
      OBVIOUS
    <2> HIDE DEF go
    <2> QED BY <1>2, <2>1 DEF Commutes
  <1> HIDE DEF go
  <1>4. PICK g \in [SUBSET D -> Int] : Folded(g, D, 0, go)
    <2>1. 0 \in Int
      OBVIOUS
    <2> QED BY <1>1, <2>1, FoldExists
  <1>5. \A T \in SUBSET D : T # {} => Out(T) \in D /\ T \ {Out(T)} \in SUBSET D
    BY OutIsIn
  <1>6. Upto(g)
    <2>1. \A T \in SUBSET D : T # {} => go[Out(T)][g[T \ {Out(T)}]] = f[Out(T)] + g[T \ {Out(T)}]
      <3>1. \A T \in SUBSET D : T # {} => g[T \ {Out(T)}] \in Int
        BY <1>5
      <3> QED BY <1>2, <1>5, <3>1
    <2> QED BY <1>4, <2>1 DEF Folded
  <1>7. \A S : Part(f, S) = LET total == CHOOSE h : Upto(h) IN total[S]
    BY DEF Part, Out
  <1>8. PICK h : Upto(h) /\ \A S : Part(f, S) = h[S]
    BY <1>6, <1>7
  <1>9. \A T \in SUBSET D : h[T] = g[T]
    <2>1. h[{}] = g[{}]
      BY <1>6, <1>8
    <2>2. \A T \in SUBSET D : T # {} /\ h[T \ {Out(T)}] = g[T \ {Out(T)}] => h[T] = g[T]
      BY <1>6, <1>8
    <2> QED BY <2>1, <2>2, FoldIsOne
  <1>10. /\ g[{}] = 0
         /\ \A T \in SUBSET D : g[T] \in Int /\ \A x \in T : g[T] = go[x][g[T \ {x}]]
    <2>1. 0 \in Int
      OBVIOUS
    <2>2. TakesAny(g, D, 0, go)
      BY <1>1, <1>3, <1>4, <2>1, FoldTakesAny
    <2> QED BY <2>2 DEF TakesAny
  <1>11. {} \in SUBSET D
    OBVIOUS
  <1> HIDE DEF Upto
  <1>12. ASSUME NEW T \in SUBSET D PROVE Part(f, T) = g[T]
    BY <1>8, <1>9
  <1>13. ASSUME NEW T \in SUBSET D, NEW x \in T PROVE Part(f, T) = f[x] + Part(f, T \ {x})
    <2>1. x \in D /\ T \ {x} \in SUBSET D
      OBVIOUS
    <2>2. g[T] = go[x][g[T \ {x}]] /\ g[T \ {x}] \in Int
      BY <1>10, <2>1
    <2> QED BY <1>2, <1>12, <2>1, <2>2
  <1> QED BY <1>10, <1>11, <1>12, <1>13 DEF Sums

\* Each factor of a product of positive numbers goes into it.
LEMMA ProductIs ==
  ASSUME NEW D, IsFiniteSet(D), NEW f \in [D -> Nat \ {0}]
  PROVE  /\ Product(f) \in Nat \ {0}
         /\ \A x \in D : \E q \in Nat \ {0} : Product(f) = f[x] * q
  <1> DEFINE go == [x \in D |-> [v \in Int |-> f[x] * v]]
             Upto(h) == h = [T \in SUBSET D |-> IF T = {} THEN 1 ELSE f[Out(T)] * h[T \ {Out(T)}]]
  <1>1. go \in [D -> [Int -> Int]]
    OBVIOUS
  <1>2. \A x \in D : \A v \in Int : go[x][v] = f[x] * v
    OBVIOUS
  <1>3. Commutes(D, go)
    <2>1. \A x, y \in D : f[x] \in Int /\ f[y] \in Int
      OBVIOUS
    <2>2. \A a, b, v \in Int : a * (b * v) = b * (a * v) /\ a * v \in Int
      OBVIOUS
    <2> HIDE DEF go
    <2> QED BY <1>2, <2>1, <2>2 DEF Commutes
  <1> HIDE DEF go
  <1>4. PICK g \in [SUBSET D -> Int] : Folded(g, D, 1, go)
    <2>1. 1 \in Int
      OBVIOUS
    <2> QED BY <1>1, <2>1, FoldExists
  <1>5. \A T \in SUBSET D : T # {} => Out(T) \in D /\ T \ {Out(T)} \in SUBSET D
    BY OutIsIn
  <1>6. Upto(g)
    <2>1. \A T \in SUBSET D : T # {} => go[Out(T)][g[T \ {Out(T)}]] = f[Out(T)] * g[T \ {Out(T)}]
      <3>1. \A T \in SUBSET D : T # {} => g[T \ {Out(T)}] \in Int
        BY <1>5
      <3> QED BY <1>2, <1>5, <3>1
    <2> QED BY <1>4, <2>1 DEF Folded
  <1>7. Product(f) = LET total == CHOOSE h : Upto(h) IN total[D]
    BY DEF Product, Out
  <1>8. PICK h : Upto(h) /\ Product(f) = h[D]
    BY <1>6, <1>7
  <1>9. \A T \in SUBSET D : h[T] = g[T]
    <2>1. h[{}] = g[{}]
      BY <1>6, <1>8
    <2>2. \A T \in SUBSET D : T # {} /\ h[T \ {Out(T)}] = g[T \ {Out(T)}] => h[T] = g[T]
      BY <1>6, <1>8
    <2> QED BY <2>1, <2>2, FoldIsOne
  <1>10. /\ g[{}] = 1
         /\ \A T \in SUBSET D : g[T] \in Int /\ \A x \in T : g[T] = go[x][g[T \ {x}]]
    <2>1. 1 \in Int
      OBVIOUS
    <2>2. TakesAny(g, D, 1, go)
      BY <1>1, <1>3, <1>4, <2>1, FoldTakesAny
    <2> QED BY <2>2 DEF TakesAny
  <1>11. \A T \in SUBSET D : \A x \in T : g[T] = f[x] * g[T \ {x}]
    BY <1>2, <1>10
  <1> HIDE DEF Upto
  <1> DEFINE G == {T \in SUBSET D : g[T] > 0}
  <1>12. ASSUME NEW T \in G, NEW x \in D, x \notin T PROVE T \cup {x} \in G
    <2>1. T \cup {x} \in SUBSET D /\ (T \cup {x}) \ {x} = T
      BY <1>12
    <2>2. g[T \cup {x}] = f[x] * g[T]
      BY <1>11, <2>1
    <2>3. f[x] \in Nat \ {0} /\ g[T] \in Nat \ {0}
      OBVIOUS
    <2>4. \A m, n \in Nat \ {0} : m * n > 0
      OBVIOUS
    <2> QED BY <2>1, <2>2, <2>3, <2>4
  <1>13. \A T \in SUBSET D : T \in G
    <2> SUFFICES ASSUME NEW S \in SUBSET D PROVE S \in G
      OBVIOUS
    <2>1. IsFiniteSet(S) /\ {} \in G
      BY <1>10, FS_Subset
    <2>2. \A T \in SUBSET S, x \in S : T \in G /\ x \notin T => T \cup {x} \in G
      BY <1>12
    <2> HIDE DEF G
    <2> QED BY <2>1, <2>2, OneByOne
  <1>14. \A x \in D : Product(f) = f[x] * g[D \ {x}] /\ g[D \ {x}] \in Nat \ {0}
    BY <1>8, <1>9, <1>11, <1>13
  <1>15. Product(f) \in Nat \ {0}
    BY <1>8, <1>9, <1>13
  <1> QED BY <1>14, <1>15

\* A number for each element of a finite set.
Numbers(D, f) == IsFiniteSet(D) /\ f \in [D -> Int]

\* One element more adds its value.
LEMMA OneMore ==
  ASSUME NEW D, NEW f, Numbers(D, f), NEW T \in SUBSET D, NEW x \in D, x \notin T
  PROVE  Part(f, T \cup {x}) = f[x] + Part(f, T) /\ Part(f, T) \in Int /\ f[x] \in Int
  <1>1. Sums(f, D)
    BY PartSums DEF Numbers
  <1>2. (T \cup {x}) \ {x} = T /\ T \cup {x} \in SUBSET D
    OBVIOUS
  <1> QED BY <1>1, <1>2 DEF Sums, Numbers

\* A sum is a number, over no element 0.
LEMMA PartIsInt ==
  ASSUME NEW D, NEW f, Numbers(D, f)
  PROVE  Part(f, {}) = 0 /\ \A T \in SUBSET D : Part(f, T) \in Int
  BY PartSums DEF Sums, Numbers

\* Sums of the same values are the same.
LEMMA SameSum ==
  ASSUME NEW D, NEW f, Numbers(D, f), NEW E, NEW g, Numbers(E, g),
         NEW S \in SUBSET (D \cap E), \A x \in S : f[x] = g[x]
  PROVE  Part(f, S) = Part(g, S)
  <1> DEFINE G == {T \in SUBSET S : Part(f, T) = Part(g, T)}
  <1>1. {} \in G
    BY PartIsInt
  <1>2. ASSUME NEW T \in SUBSET S, NEW x \in S, T \in G, x \notin T PROVE T \cup {x} \in G
    <2>1. Part(f, T \cup {x}) = f[x] + Part(f, T)
      BY <1>2, OneMore
    <2>2. Part(g, T \cup {x}) = g[x] + Part(g, T)
      BY <1>2, OneMore
    <2> QED BY <1>2, <2>1, <2>2
  <1>3. IsFiniteSet(S)
    BY FS_Subset DEF Numbers
  <1>4. S \in G
    <2> HIDE DEF G
    <2> QED BY <1>1, <1>2, <1>3, OneByOne
  <1> QED BY <1>4

\* The sums of two functions add up to the sum of what they add up to.
LEMMA SumOfTwo ==
  ASSUME NEW D, NEW f, NEW g, NEW h, Numbers(D, f), Numbers(D, g), Numbers(D, h),
         NEW S \in SUBSET D, \A x \in S : h[x] = f[x] + g[x]
  PROVE  Part(h, S) = Part(f, S) + Part(g, S)
  <1> DEFINE G == {T \in SUBSET S : Part(h, T) = Part(f, T) + Part(g, T)}
  <1>1. {} \in G
    BY PartIsInt
  <1>2. ASSUME NEW T \in SUBSET S, NEW x \in S, T \in G, x \notin T PROVE T \cup {x} \in G
    <2>1. Part(f, T \cup {x}) = f[x] + Part(f, T) /\ Part(f, T) \in Int /\ f[x] \in Int
      BY <1>2, OneMore
    <2>2. Part(g, T \cup {x}) = g[x] + Part(g, T) /\ Part(g, T) \in Int /\ g[x] \in Int
      BY <1>2, OneMore
    <2>3. Part(h, T \cup {x}) = h[x] + Part(h, T)
      BY <1>2, OneMore
    <2> QED BY <1>2, <2>1, <2>2, <2>3
  <1>3. IsFiniteSet(S)
    BY FS_Subset DEF Numbers
  <1>4. S \in G
    <2> HIDE DEF G
    <2> QED BY <1>1, <1>2, <1>3, OneByOne
  <1> QED BY <1>4

\* The sum over two parts that have nothing in common.
LEMMA SumApart ==
  ASSUME NEW D, NEW f, Numbers(D, f),
         NEW S \in SUBSET D, NEW U \in SUBSET D, S \cap U = {}
  PROVE  Part(f, S \cup U) = Part(f, S) + Part(f, U)
  <1> DEFINE G == {T \in SUBSET S : Part(f, T \cup U) = Part(f, T) + Part(f, U)}
  <1>0. Part(f, U) \in Int
    BY PartIsInt
  <1>1. {} \in G
    <2>1. {} \cup U = U
      OBVIOUS
    <2> QED BY <1>0, <2>1, PartIsInt
  <1>2. ASSUME NEW T \in SUBSET S, NEW x \in S, T \in G, x \notin T PROVE T \cup {x} \in G
    <2>1. Part(f, T \cup {x}) = f[x] + Part(f, T) /\ Part(f, T) \in Int /\ f[x] \in Int
      BY <1>2, OneMore
    <2>2. x \notin T \cup U /\ T \cup U \in SUBSET D /\ (T \cup {x}) \cup U = (T \cup U) \cup {x}
      BY <1>2
    <2>3. x \in D
      OBVIOUS
    <2>4. \A V \in SUBSET D : x \notin V => Part(f, V \cup {x}) = f[x] + Part(f, V)
      BY <2>3, OneMore
    <2>5. Part(f, (T \cup {x}) \cup U) = f[x] + Part(f, T \cup U)
      BY <2>2, <2>4
    <2>6. Part(f, T \cup U) = Part(f, T) + Part(f, U)
      BY <1>2
    <2> QED BY <1>0, <2>1, <2>5, <2>6
  <1>3. IsFiniteSet(S)
    BY FS_Subset DEF Numbers
  <1>4. S \in G
    <2> HIDE DEF G
    <2> QED BY <1>1, <1>2, <1>3, OneByOne
  <1> QED BY <1>4

\* The sum of what is the same everywhere.
LEMMA SumOfSame ==
  ASSUME NEW D, NEW f, Numbers(D, f), NEW n \in Int, NEW S \in SUBSET D,
         \A x \in S : f[x] = n
  PROVE  Part(f, S) = n * Cardinality(S)
  <1> DEFINE G == {T \in SUBSET S : Part(f, T) = n * Cardinality(T)}
  <1>1. {} \in G
    <2>1. Cardinality({}) = 0 /\ n * 0 = 0
      BY FS_EmptySet
    <2> QED BY <2>1, PartIsInt
  <1>2. ASSUME NEW T \in SUBSET S, NEW x \in S, T \in G, x \notin T PROVE T \cup {x} \in G
    <2>1. Part(f, T \cup {x}) = f[x] + Part(f, T)
      BY <1>2, OneMore
    <2>2. IsFiniteSet(T)
      BY FS_Subset DEF Numbers
    <2>3. Cardinality(T \cup {x}) = Cardinality(T) + 1 /\ Cardinality(T) \in Nat
      BY <1>2, <2>2, FS_AddElement, FS_CardinalityType
    <2>4. \A k \in Nat : n * (k + 1) = n + n * k
      OBVIOUS
    <2> QED BY <1>2, <2>1, <2>3, <2>4
  <1>3. IsFiniteSet(S)
    BY FS_Subset DEF Numbers
  <1>4. S \in G
    <2> HIDE DEF G
    <2> QED BY <1>1, <1>2, <1>3, OneByOne
  <1> QED BY <1>4

\* A sum of multiples.
LEMMA SumOfTimes ==
  ASSUME NEW D, NEW f, NEW g, Numbers(D, f), Numbers(D, g), NEW n \in Int, \A x \in D : g[x] = n * f[x]
  PROVE  Part(g, D) = n * Part(f, D)
  <1> DEFINE G == {T \in SUBSET D : Part(g, T) = n * Part(f, T)}
  <1>1. {} \in G
    <2>1. n * 0 = 0
      OBVIOUS
    <2> QED BY <2>1, PartIsInt
  <1>2. ASSUME NEW T \in SUBSET D, NEW x \in D, T \in G, x \notin T PROVE T \cup {x} \in G
    <2>1. Part(f, T \cup {x}) = f[x] + Part(f, T) /\ Part(f, T) \in Int /\ f[x] \in Int
      BY <1>2, OneMore
    <2>2. Part(g, T \cup {x}) = g[x] + Part(g, T)
      BY <1>2, OneMore
    <2>3. \A a, b \in Int : n * (a + b) = n * a + n * b
      OBVIOUS
    <2> QED BY <1>2, <2>1, <2>2, <2>3
  <1>3. D \in G
    <2> HIDE DEF G
    <2> QED BY <1>1, <1>2, OneByOne DEF Numbers
  <1> QED BY <1>3

\* A sum of smaller values is smaller, and as large only if each of them is.
LEMMA SumBelow ==
  ASSUME NEW D, NEW f, NEW g, Numbers(D, f), Numbers(D, g),
         \A x \in D : f[x] <= g[x]
  PROVE  /\ Part(f, D) <= Part(g, D)
         /\ Part(f, D) = Part(g, D) <=> \A x \in D : f[x] = g[x]
  <1> DEFINE G == {T \in SUBSET D : /\ Part(f, T) <= Part(g, T)
                                    /\ Part(f, T) = Part(g, T) <=> \A x \in T : f[x] = g[x]}
  <1>1. {} \in G
    BY PartIsInt
  <1>2. ASSUME NEW T \in SUBSET D, NEW x \in D, T \in G, x \notin T PROVE T \cup {x} \in G
    <2>1. Part(f, T \cup {x}) = f[x] + Part(f, T) /\ Part(f, T) \in Int /\ f[x] \in Int
      BY <1>2, OneMore
    <2>2. Part(g, T \cup {x}) = g[x] + Part(g, T) /\ Part(g, T) \in Int /\ g[x] \in Int
      BY <1>2, OneMore
    <2>3. f[x] <= g[x] /\ Part(f, T) <= Part(g, T)
      BY <1>2
    <2>4. Part(f, T \cup {x}) <= Part(g, T \cup {x})
      BY <2>1, <2>2, <2>3
    <2>5. Part(f, T \cup {x}) = Part(g, T \cup {x}) <=> f[x] = g[x] /\ Part(f, T) = Part(g, T)
      BY <2>1, <2>2, <2>3
    <2>6. (\A y \in T \cup {x} : f[y] = g[y]) <=> f[x] = g[x] /\ \A y \in T : f[y] = g[y]
      OBVIOUS
    <2> QED BY <1>2, <2>4, <2>5, <2>6
  <1>3. D \in G
    <2> HIDE DEF G
    <2> QED BY <1>1, <1>2, OneByOne DEF Numbers
  <1> QED BY <1>3

\* A sum of counts, by what is counted, is the count of it all.
LEMMA SumOfCounts ==
  ASSUME NEW D, IsFiniteSet(D), NEW v, NEW K, IsFiniteSet(K), NEW f,
         f = [k \in K |-> Cardinality({c \in D : v[c] = k})]
  PROVE  Numbers(K, f) /\ Part(f, K) = Cardinality({c \in D : v[c] \in K})
  <1> DEFINE of(k) == {c \in D : v[c] = k}
             in(T) == {c \in D : v[c] \in T}
             G == {T \in SUBSET K : Part(f, T) = Cardinality(in(T))}
  <1>0. \A S \in SUBSET D : IsFiniteSet(S) /\ Cardinality(S) \in Nat
    BY FS_Subset, FS_CardinalityType
  <1>1. Numbers(K, f)
    BY <1>0 DEF Numbers
  <1>2. {} \in G
    <2>1. in({}) = {}
      OBVIOUS
    <2> QED BY <1>1, <2>1, PartIsInt, FS_EmptySet
  <1>3. ASSUME NEW T \in SUBSET K, NEW x \in K, T \in G, x \notin T PROVE T \cup {x} \in G
    <2>1. Part(f, T) = Cardinality(in(T)) /\ f[x] = Cardinality(of(x))
      BY <1>3
    <2>2. in(T \cup {x}) = in(T) \cup of(x) /\ in(T) \cap of(x) = {}
      BY <1>3
    <2>3. IsFiniteSet(in(T)) /\ IsFiniteSet(of(x)) /\ Cardinality(in(T)) \in Nat /\ Cardinality(of(x)) \in Nat
      BY <1>0
    <2> HIDE DEF in, of, G
    <2>4. Cardinality(in(T) \cup of(x)) = Cardinality(in(T)) + Cardinality(of(x))
      <3>1. Cardinality(in(T) \cap of(x)) = 0
        BY <2>2, FS_EmptySet
      <3>2. Cardinality(in(T) \cup of(x)) = Cardinality(in(T)) + Cardinality(of(x)) - Cardinality(in(T) \cap of(x))
        BY <2>3, FS_Union
      <3> QED BY <2>3, <3>1, <3>2
    <2>5. Part(f, T \cup {x}) = f[x] + Part(f, T)
      BY ONLY <1>1, <1>3, T \in SUBSET K, x \in K, OneMore
    <2>6. Part(f, T \cup {x}) = Cardinality(in(T \cup {x}))
      <3>1. Cardinality(in(T \cup {x})) = Cardinality(in(T) \cup of(x))
        BY <2>2
      <3>2. PICK m, n \in Nat : m = Cardinality(in(T)) /\ n = Cardinality(of(x))
        BY <2>3
      <3>3. Part(f, T \cup {x}) = n + m
        BY ONLY <2>1, <2>5, <3>2
      <3>4. Cardinality(in(T) \cup of(x)) = m + n
        BY ONLY <2>4, <3>2
      <3>5. n + m = m + n
        OBVIOUS
      <3> QED BY ONLY <3>1, <3>3, <3>4, <3>5
    <2>7. T \cup {x} \in SUBSET K
      OBVIOUS
    <2> QED BY <2>6, <2>7 DEF G
  <1>4. K \in G
    <2> HIDE DEF G
    <2> QED BY <1>2, <1>3, OneByOne
  <1> QED BY <1>1, <1>4

\* One element more, and how many of them are in another set.
LEMMA OneMoreCounts ==
  ASSUME NEW T, IsFiniteSet(T), NEW x, x \notin T, NEW A
  PROVE  /\ Cardinality(T \cap A) \in Nat
         /\ Cardinality((T \cup {x}) \cap A) = Cardinality(T \cap A) + (IF x \in A THEN 1 ELSE 0)
  <1>1. IsFiniteSet(T \cap A) /\ x \notin T \cap A
    BY FS_Subset
  <1>2. Cardinality(T \cap A) \in Nat
    BY <1>1, FS_CardinalityType
  <1>3. CASE x \in A
    <2>1. (T \cup {x}) \cap A = (T \cap A) \cup {x}
      BY <1>3
    <2>2. Cardinality((T \cap A) \cup {x}) = Cardinality(T \cap A) + 1
      BY <1>1, FS_AddElement
    <2> QED BY <1>2, <1>3, <2>1, <2>2
  <1>4. CASE x \notin A
    <2>1. (T \cup {x}) \cap A = T \cap A
      BY <1>4
    <2>2. Cardinality((T \cup {x}) \cap A) = Cardinality(T \cap A)
      BY <2>1
    <2> QED BY <1>2, <1>4, <2>2
  <1> QED BY <1>2, <1>3, <1>4

-----------------------------------------------------------------------------
(* A tie counts half. *)

\* Of a prediction and each other, what it beats.
Row(items, i) == [j \in 1..Len(items) |-> Beats(items, i, j)]

\* Predictions whose scores are numbers.
IsScoring(items) == Len(items) \in Nat /\ \A i \in 1..Len(items) : items[i].score \in Int

\* Of two predictions, what the one beats and the other make a whole.
LEMMA RowsAre ==
  ASSUME NEW items, IsScoring(items)
  PROVE  /\ IsFiniteSet(1..Len(items))
         /\ \A i, j \in 1..Len(items) : /\ Row(items, i)[j] \in 0..2
                                        /\ Row(items, i)[j] + Row(items, j)[i] = 2
         /\ \A i \in 1..Len(items) : Numbers(1..Len(items), Row(items, i)) /\ Row(items, i)[i] = 1
  <1>1. IsFiniteSet(1..Len(items))
    BY FS_Interval DEF IsScoring
  <1>2. ASSUME NEW i \in 1..Len(items), NEW j \in 1..Len(items)
        PROVE  /\ Row(items, i)[j] \in 0..2
               /\ Row(items, i)[j] + Row(items, j)[i] = 2
    BY DEF Row, Beats, IsScoring
  <1>3. ASSUME NEW i \in 1..Len(items)
        PROVE  Numbers(1..Len(items), Row(items, i)) /\ Row(items, i)[i] = 1
    BY <1>1 DEF Row, Beats, IsScoring, Numbers
  <1> QED BY <1>1, <1>2, <1>3

\* A rank is what is beaten of all.
LEMMA RankIsRow ==
  ASSUME NEW items, IsScoring(items), NEW i \in 1..Len(items)
  PROVE  TwiceRank(items, i) = Part(Row(items, i), 1..Len(items)) + 1
  <1> DEFINE L == 1..Len(items)
             B == {j \in L : items[j].score < items[i].score}
             E == {j \in L : items[j].score = items[i].score}
             G == {T \in SUBSET L : Part(Row(items, i), T) = 2 * Cardinality(T \cap B) + Cardinality(T \cap E)}
  <1>0. IsFiniteSet(L) /\ Numbers(L, Row(items, i))
    BY RowsAre
  <1>1. {} \in G
    <2>1. {} \cap B = {} /\ {} \cap E = {} /\ Cardinality({}) = 0
      BY FS_EmptySet
    <2>2. Part(Row(items, i), {}) = 0
      BY <1>0, PartIsInt
    <2> QED BY <2>1, <2>2
  <1>2. ASSUME NEW T \in SUBSET L, NEW x \in L, T \in G, x \notin T PROVE T \cup {x} \in G
    <2> DEFINE both(A) == Cardinality(A \cap B) + Cardinality(A \cap E)
    <2>1. Part(Row(items, i), T \cup {x}) = Row(items, i)[x] + Part(Row(items, i), T)
      <3>1. x \notin T
        BY <1>2
      <3> HIDE DEF G, L
      <3> QED BY <1>0, <3>1, OneMore
    <2>2. Row(items, i)[x] = 2 * (IF x \in B THEN 1 ELSE 0) + (IF x \in E THEN 1 ELSE 0)
      BY DEF Row, Beats, IsScoring
    <2>3. IsFiniteSet(T)
      BY <1>0, FS_Subset
    <2>4. Part(Row(items, i), T) = 2 * Cardinality(T \cap B) + Cardinality(T \cap E)
      BY <1>2
    <2> HIDE DEF B, E
    <2>5. PICK m, n \in Nat, k, l \in {0, 1} :
            /\ Cardinality(T \cap B) = m /\ Cardinality((T \cup {x}) \cap B) = m + k
            /\ Cardinality(T \cap E) = n /\ Cardinality((T \cup {x}) \cap E) = n + l
            /\ k = (IF x \in B THEN 1 ELSE 0) /\ l = (IF x \in E THEN 1 ELSE 0)
      BY <1>2, <2>3, OneMoreCounts
    <2>6. Part(Row(items, i), T \cup {x}) = 2 * (m + k) + (n + l)
      BY <2>1, <2>2, <2>4, <2>5
    <2> QED BY <2>5, <2>6
  <1>3. L \in G
    <2> HIDE DEF G, L
    <2> QED BY <1>0, <1>1, <1>2, OneByOne
  <1>4. L \cap B = B /\ L \cap E = E
    OBVIOUS
  <1>5. TwiceRank(items, i) = 2 * Cardinality(B) + Cardinality(E) + 1
    BY DEF TwiceRank
  <1> QED BY <1>3, <1>4, <1>5

\* Among themselves some predictions beat as many as there are pairs of them.
LEMMA SquareOfRows ==
  ASSUME NEW items, IsScoring(items), NEW L, L = 1..Len(items), NEW P \in SUBSET L, NEW f,
         f = [i \in P |-> Part(Row(items, i), P)]
  PROVE  Numbers(P, f) /\ Part(f, P) = Cardinality(P) * Cardinality(P)
  <1> DEFINE part(T) == [i \in P |-> Part(Row(items, i), T)]
             G == {T \in SUBSET P : Part(part(T), T) = Cardinality(T) * Cardinality(T)}
  <1>0. IsFiniteSet(L) /\ IsFiniteSet(P) /\ \A i \in L : Numbers(L, Row(items, i))
    BY RowsAre, FS_Subset
  <1>1. \A T \in SUBSET P : Numbers(P, part(T))
    <2>1. \A i \in P, T \in SUBSET P : Part(Row(items, i), T) \in Int
      BY <1>0, PartIsInt
    <2> QED BY <1>0, <2>1 DEF Numbers
  <1>2. {} \in G
    <2>1. Cardinality({}) = 0
      BY FS_EmptySet
    <2>2. Part(part({}), {}) = 0
      BY <1>0, <1>1, PartIsInt
    <2> QED BY <2>1, <2>2
  <1>3. ASSUME NEW T \in SUBSET P, NEW x \in P, T \in G, x \notin T PROVE T \cup {x} \in G
    <2> DEFINE U == T \cup {x}
               column == [i \in P |-> Row(items, i)[x]]
               row == Row(items, x)
               rowOfP == [i \in P |-> row[i]]
               two == [i \in P |-> 2]
    <2>1. U \in SUBSET P /\ IsFiniteSet(T) /\ Cardinality(U) = Cardinality(T) + 1 /\ Cardinality(T) \in Nat
      BY <1>0, <1>3, FS_Subset, FS_AddElement, FS_CardinalityType
    <2>2. Numbers(P, column) /\ Numbers(P, two) /\ Numbers(L, row) /\ row[x] = 1
      BY <1>0, RowsAre DEF Numbers
    <2>3. \A i \in P : part(U)[i] = column[i] + part(T)[i]
      <3>1. ASSUME NEW i \in P PROVE Part(Row(items, i), U) = Row(items, i)[x] + Part(Row(items, i), T)
        <4>1. i \in L /\ T \in SUBSET L /\ x \in L /\ x \notin T
          BY <1>3
        <4> HIDE DEF G
        <4> QED BY ONLY <4>1, <1>0, OneMore
      <3> QED BY <3>1
    <2>4. Numbers(P, rowOfP) /\ \A i \in T : two[i] = column[i] + rowOfP[i]
      <3>1. \A i \in P : row[i] \in Int /\ Row(items, i)[x] + row[i] = 2
        BY RowsAre
      <3> HIDE DEF row
      <3> QED BY <1>0, <3>1 DEF Numbers
    <2>5. Numbers(P, part(U)) /\ Numbers(P, part(T)) /\ part(T)[x] = Part(row, T)
      BY <1>1, <2>1
    <2>6. x \notin T /\ Part(part(T), T) = Cardinality(T) * Cardinality(T)
      BY <1>3
    <2>7. Part(row, T) = Part(rowOfP, T)
      <3>1. T \in SUBSET (L \cap P) /\ \A i \in T : row[i] = rowOfP[i]
        OBVIOUS
      <3> HIDE DEF row, rowOfP
      <3> QED BY ONLY <1>0, <2>2, <2>4, <3>1, SameSum
    <2>8. column[x] = 1
      BY <2>2
    <2> HIDE DEF G, part, column, row, rowOfP, two
    <2>9. Part(two, T) = Part(column, T) + Part(rowOfP, T)
      BY ONLY <1>0, <2>2, <2>4, T \in SUBSET P, SumOfTwo
    <2>10. Part(two, T) = 2 * Cardinality(T)
      <3>1. \A i \in T : two[i] = 2
        BY DEF two
      <3> QED BY ONLY <1>0, <2>2, <3>1, T \in SUBSET P, SumOfSame
    <2>11. Part(part(U), T) = Part(column, T) + Part(part(T), T)
      <3>1. \A i \in T : part(U)[i] = column[i] + part(T)[i]
        BY <2>3
      <3>2. PICK u, t : u = part(U) /\ t = part(T)
        OBVIOUS
      <3>3. Numbers(P, u) /\ Numbers(P, t) /\ \A i \in T : u[i] = column[i] + t[i]
        BY <2>5, <3>1, <3>2
      <3>4. Part(u, T) = Part(column, T) + Part(t, T)
        BY ONLY <2>2, <3>3, T \in SUBSET P, SumOfTwo
      <3> QED BY <3>2, <3>4
    <2>12. Part(part(U), U) = part(U)[x] + Part(part(U), T)
      <3>1. Part(part(U), T \cup {x}) = part(U)[x] + Part(part(U), T)
        BY ONLY <1>0, <2>5, <2>6, T \in SUBSET P, x \in P, OneMore
      <3> QED BY <3>1
    <2>13. part(U)[x] = 1 + Part(rowOfP, T)
      BY <2>3, <2>5, <2>7, <2>8
    <2>14. Part(column, T) \in Int /\ Part(rowOfP, T) \in Int
      BY <1>0, <2>2, <2>4, PartIsInt
    <2>15. PICK n \in Nat, c, r \in Int : n = Cardinality(T) /\ c = Part(column, T) /\ r = Part(rowOfP, T)
      BY <2>1, <2>14
    <2>16. Part(part(U), U) = (n + 1) * (n + 1)
      <3>1. c + r = 2 * n
        BY ONLY <2>9, <2>10, <2>15
      <3>2. Part(part(U), U) = (1 + r) + (c + n * n)
        BY ONLY <2>6, <2>11, <2>12, <2>13, <2>15
      <3>3. (1 + r) + (c + n * n) = (n + 1) * (n + 1)
        BY ONLY <3>1, n \in Nat, c \in Int, r \in Int
      <3> QED BY ONLY <3>2, <3>3
    <2>17. Cardinality(U) = n + 1
      BY <2>1, <2>15
    <2> QED BY <2>1, <2>16, <2>17 DEF G
  <1>4. P \in G
    <2> HIDE DEF G
    <2> QED BY <1>0, <1>2, <1>3, OneByOne
  <1> QED BY <1>1, <1>4

\* What is added up over some predictions and three amounts of each.
LEMMA SumOfThree ==
  ASSUME NEW P, NEW f, NEW g, NEW h, NEW one, Numbers(P, f), Numbers(P, g), Numbers(P, h),
         Numbers(P, one), \A i \in P : one[i] = 1, \A i \in P : h[i] = f[i] + g[i] + 1
  PROVE  Part(h, P) = Part(f, P) + Part(g, P) + Cardinality(P)
  <1> DEFINE both == [i \in P |-> f[i] + g[i]]
  <1>1. Numbers(P, both) /\ \A i \in P : both[i] = f[i] + g[i]
    BY DEF Numbers
  <1>2. \A i \in P : h[i] = both[i] + one[i]
    BY <1>1
  <1> HIDE DEF both
  <1>3. Part(both, P) = Part(f, P) + Part(g, P)
    BY <1>1, SumOfTwo
  <1>4. Part(h, P) = Part(both, P) + Part(one, P)
    BY <1>1, <1>2, SumOfTwo
  <1>5. Part(one, P) = 1 * Cardinality(P)
    BY SumOfSame
  <1>6. Cardinality(P) \in Nat /\ Part(f, P) \in Int /\ Part(g, P) \in Int
    BY PartIsInt, FS_CardinalityType DEF Numbers
  <1> QED BY <1>3, <1>4, <1>5, <1>6

\* The area by ranks is the area by pairs.
LEMMA RankIsAuc ==
  ASSUME NEW items, IsScoring(items), NEW least
  PROVE  RankAuc(items, least) = Auc(items, least)
  <1>1. PICK L : L = 1..Len(items)
    OBVIOUS
  <1>2. PICK P : P = Positives(items, least)
    OBVIOUS
  <1>3. PICK M : M = L \ P
    OBVIOUS
  <1>4. P \in SUBSET L /\ M \in SUBSET L /\ P \cap M = {} /\ P \cup M = L
    BY <1>1, <1>2, <1>3 DEF Positives
  <1>5. IsFiniteSet(L) /\ IsFiniteSet(P) /\ IsFiniteSet(M) /\ Cardinality(P) \in Nat
    BY <1>1, <1>4, RowsAre, FS_Subset, FS_CardinalityType
  <1>6. \A i \in L : Numbers(L, Row(items, i))
    BY <1>1, RowsAre
  <1>7. PICK f : f = [i \in P |-> Part(Row(items, i), P)]
    OBVIOUS
  <1>8. PICK g : g = [i \in P |-> Part(Row(items, i), M)]
    OBVIOUS
  <1>9. PICK h : h = [i \in P |-> TwiceRank(items, i)]
    OBVIOUS
  <1>10. PICK one : one = [i \in P |-> 1]
    OBVIOUS
  <1>11. \A i \in P : Part(Row(items, i), P) \in Int /\ Part(Row(items, i), M) \in Int
    BY ONLY <1>4, <1>6, PartIsInt
  <1>12. \A i \in P : TwiceRank(items, i) = Part(Row(items, i), P) + Part(Row(items, i), M) + 1
    <2>1. ASSUME NEW i \in P
          PROVE  TwiceRank(items, i) = Part(Row(items, i), P) + Part(Row(items, i), M) + 1
      <3>1. i \in L /\ Numbers(L, Row(items, i))
        BY <1>4, <1>6
      <3>2. TwiceRank(items, i) = Part(Row(items, i), L) + 1
        BY <1>1, <3>1, RankIsRow
      <3>3. Part(Row(items, i), P \cup M) = Part(Row(items, i), P) + Part(Row(items, i), M)
        BY ONLY <1>4, <3>1, SumApart
      <3> QED BY <1>4, <3>2, <3>3
    <2> QED BY <2>1
  <1>13. Numbers(P, f) /\ Numbers(P, g) /\ Numbers(P, h) /\ Numbers(P, one)
    BY <1>5, <1>7, <1>8, <1>9, <1>10, <1>11, <1>12 DEF Numbers
  <1>14. Part(h, P) = Part(f, P) + Part(g, P) + Cardinality(P)
    <2>1. \A i \in P : one[i] = 1 /\ h[i] = f[i] + g[i] + 1
      BY ONLY <1>7, <1>8, <1>9, <1>10, <1>12
    <2> QED BY ONLY <1>13, <2>1, SumOfThree
  <1>15. Part(f, P) = Cardinality(P) * Cardinality(P)
    BY ONLY <1>1, <1>4, <1>7, IsScoring(items), SquareOfRows
  <1>16. RankAuc(items, least) = Part(h, P) - Cardinality(P) * (Cardinality(P) + 1)
    <2>1. Total(h) = Part(h, P)
      BY ONLY <1>9, TotalIsPart
    <2> QED BY <1>2, <1>9, <2>1 DEF RankAuc
  <1>17. Auc(items, least) = Part(g, P)
    <2>1. ASSUME NEW i \in P PROVE Total([j \in M |-> Beats(items, i, j)]) = Part(Row(items, i), M)
      <3>1. PICK r : r = [j \in M |-> Beats(items, i, j)]
        OBVIOUS
      <3>2. Numbers(L, Row(items, i)) /\ \A j \in M : Row(items, i)[j] = r[j]
        BY <1>1, <1>4, <1>6, <3>1 DEF Row
      <3>3. Numbers(M, r)
        BY <1>4, <1>5, <3>1, <3>2 DEF Numbers
      <3>4. M \in SUBSET (L \cap M)
        BY <1>4
      <3>5. Part(Row(items, i), M) = Part(r, M)
        BY ONLY <3>2, <3>3, <3>4, SameSum
      <3>6. Total(r) = Part(r, M)
        BY ONLY <3>1, TotalIsPart
      <3> QED BY <3>1, <3>5, <3>6
    <2>2. [i \in P |-> Total([j \in M |-> Beats(items, i, j)])] = g
      BY ONLY <1>8, <2>1
    <2>3. Total(g) = Part(g, P)
      BY ONLY <1>8, TotalIsPart
    <2>4. Auc(items, least) = Total([i \in P |-> Total([j \in M |-> Beats(items, i, j)])])
      BY <1>1, <1>2, <1>3, Zenon DEF Auc
    <2> QED BY <2>2, <2>3, <2>4
  <1>18. PICK p \in Nat, q \in Int : p = Cardinality(P) /\ q = Part(g, P)
    BY <1>5, <1>13, PartIsInt
  <1>19. RankAuc(items, least) = (p * p + q + p) - p * (p + 1)
    BY ONLY <1>14, <1>15, <1>16, <1>18
  <1>20. (p * p + q + p) - p * (p + 1) = q
    BY ONLY p \in Nat, q \in Int
  <1> QED BY <1>17, <1>18, <1>19, <1>20

\* Predictions, and the records of the units of a writing run.
ScoresInv ==
  /\ predictions \in Seq([score : 0..2, label : 0..2])
  /\ DOMAIN texts = TextUnits
  /\ \A u \in TextUnits : texts[u] # Missing => texts[u].scores \in [Metrics -> Scores \cup {Missing}]

\* There are none.
LEMMA ScoresStart == MeasuresInit => ScoresInv
  BY DEF MeasuresInit, ScoresInv

\* A prediction is added, or a unit is recorded.
LEMMA ScoresStep == ScoresInv /\ [MeasuresNext]_measureVars => ScoresInv'
  <1> SUFFICES ASSUME ScoresInv, [MeasuresNext]_measureVars PROVE ScoresInv'
    OBVIOUS
  <1>1. CASE UNCHANGED <<predictions, texts>>
    BY <1>1 DEF ScoresInv
  <1>2. CASE Predict
    BY <1>2 DEF ScoresInv, Predict
  <1>3. ASSUME NEW u \in TextUnits, Rate(u) PROVE ScoresInv'
    <2>1. PICK ok \in BOOLEAN, f \in [Metrics -> Scores \cup {Missing}] :
            texts' = [texts EXCEPT ![u] = [ok |-> ok, scores |-> IF ok THEN f ELSE [k \in Metrics |-> Missing]]]
      BY <1>3 DEF Rate
    <2>2. DOMAIN texts' = TextUnits /\ \A v \in TextUnits : v # u => texts'[v] = texts[v]
      BY <2>1 DEF ScoresInv
    <2>3. texts'[u].scores \in [Metrics -> Scores \cup {Missing}]
      <3>1. texts'[u] = [ok |-> ok, scores |-> IF ok THEN f ELSE [k \in Metrics |-> Missing]]
        BY <2>1 DEF ScoresInv
      <3>2. texts'[u].scores = IF ok THEN f ELSE [k \in Metrics |-> Missing]
        BY <3>1
      <3> QED BY <3>2
    <2>4. predictions' = predictions
      BY <1>3 DEF Rate
    <2> QED BY <2>2, <2>3, <2>4 DEF ScoresInv
  <1> QED BY <1>1, <1>2, <1>3 DEF MeasuresNext, Verdict, Answer, Judging, Pool, OpenSession,
                                 JudgePage, CloseSession, Writing, measureVars

\* A text each of whose usable scores is the same has that score.
LEMMA TextOfSame ==
  ASSUME ScoresInv, NEW t, NEW k \in Metrics, NEW n \in Nat,
         \A u \in Usable(t, k) : texts[u].scores[k] = n
  PROVE  \E m \in Nat : TextScore(t, k) = <<n * m, m>>
  <1>1. PICK U : U = Usable(t, k)
    OBVIOUS
  <1>2. PICK f : f = [u \in U |-> texts[u].scores[k]]
    OBVIOUS
  <1>3. IsFiniteSet(U) /\ Cardinality(U) \in Nat
    BY <1>1, MeasuresAssumption, FS_Subset, FS_CardinalityType DEF Usable
  <1>4. \A u \in U : f[u] = n
    BY <1>1, <1>2
  <1>5. Numbers(U, f)
    <2>1. f = [u \in U |-> n]
      BY <1>2, <1>4
    <2> QED BY <1>3, <2>1 DEF Numbers
  <1>6. Part(f, U) = n * Cardinality(U)
    BY ONLY <1>4, <1>5, n \in Nat, SumOfSame
  <1>7. Total(f) = Part(f, U)
    BY ONLY <1>2, TotalIsPart
  <1>8. TextScore(t, k) = <<Total(f), Cardinality(U)>>
    BY <1>1, <1>2 DEF TextScore
  <1> QED BY <1>3, <1>6, <1>7, <1>8

\* One score for all.
OneScore ==
  \A u, v \in TextUnits, k \in Metrics :
    texts[u] # Missing /\ texts[v] # Missing /\ texts[u].scores[k] # Missing /\ texts[v].scores[k] # Missing
    => texts[u].scores[k] = texts[v].scores[k]

\* A corrector that gives every text the same score ties on every text.
LEMMA SameScoresTie ==
  ASSUME ScoresInv, OneScore, NEW t \in Scorable
  PROVE  TwiceDetected(t) = 1
  <1>1. PICK k, c : k = t[2] /\ c = <<t[1], "clean">>
    OBVIOUS
  <1>2. k \in Metrics
    <2>1. PICK u \in TextUnits : t = <<u[1], u[2]>> /\ t[2] # "clean"
      BY DEF Scorable, Defects, TextIds
    <2> QED BY <1>1, <2>1, MeasuresAssumption
  <1>3. PICK v \in Usable(t, k) : TRUE
    BY <1>1 DEF Scorable
  <1>4. \A d : \A u \in Usable(d, k) : u \in TextUnits /\ texts[u] # Missing /\ texts[u].scores[k] # Missing
    BY DEF Usable
  <1>5. PICK n : n = texts[v].scores[k]
    OBVIOUS
  <1>6. n \in Nat
    <2>1. v \in TextUnits /\ texts[v] # Missing /\ texts[v].scores[k] # Missing
      BY <1>3, <1>4
    <2>2. texts[v].scores[k] \in Scores \cup {Missing}
      BY <1>2, <2>1 DEF ScoresInv
    <2> QED BY <1>5, <2>1, <2>2, MeasuresAssumption
  <1>7. \A d : \A u \in Usable(d, k) : texts[u].scores[k] = n
    BY <1>2, <1>3, <1>4, <1>5 DEF OneScore
  <1>8. PICK p \in Nat : TextScore(t, k) = <<n * p, p>>
    BY <1>2, <1>6, <1>7, TextOfSame
  <1>9. PICK q \in Nat : TextScore(c, k) = <<n * q, q>>
    BY <1>2, <1>6, <1>7, TextOfSame
  <1>10. (n * p) * q = (n * q) * p /\ (n * p) * q \in Int
    BY ONLY n \in Nat, p \in Nat, q \in Nat
  <1> QED BY <1>1, <1>6, <1>8, <1>9, <1>10 DEF TwiceDetected

\* And is at chance.
LEMMA ScoresHalve == ScoresInv => TiesCountHalf
  <1> SUFFICES ASSUME ScoresInv PROVE TiesCountHalf
    OBVIOUS
  <1>1. IsScoring(predictions)
    <2>1. PICK V : V = [score : 0..2, label : 0..2]
      OBVIOUS
    <2>2. predictions \in Seq(V)
      BY <2>1 DEF ScoresInv
    <2>3. Len(predictions) \in Nat /\ \A i \in 1..Len(predictions) : predictions[i] \in V
      BY ONLY <2>2
    <2>4. \A x \in V : x.score \in Int
      BY <2>1
    <2> QED BY ONLY <2>3, <2>4 DEF IsScoring
  <1>2. \A least \in 1..2 : RankAuc(predictions, least) = Auc(predictions, least)
    BY <1>1, RankIsAuc
  <1>3. ASSUME OneScore PROVE Detection = Cardinality(Scorable)
    <2>1. PICK S : S = Scorable
      OBVIOUS
    <2>2. PICK f : f = [t \in S |-> TwiceDetected(t)]
      OBVIOUS
    <2>3. \A t \in S : f[t] = 1
      BY <1>3, <2>1, <2>2, SameScoresTie
    <2>4. IsFiniteSet(S)
      <3>1. IsFiniteSet(TextIds)
        <4>1. PICK id : id = [u \in TextUnits |-> <<u[1], u[2]>>]
          OBVIOUS
        <4>2. TextIds = {id[u] : u \in TextUnits}
          BY <4>1 DEF TextIds
        <4>3. id \in Surjection(TextUnits, TextIds)
          BY <4>1, <4>2 DEF Surjection
        <4> QED BY <4>3, MeasuresAssumption, FS_Surjection
      <3> QED BY <2>1, <3>1, FS_Subset DEF Scorable, Defects
    <2>5. Numbers(S, f)
      <3>1. f = [t \in S |-> 1]
        BY <2>2, <2>3
      <3> QED BY <2>4, <3>1 DEF Numbers
    <2>6. Part(f, S) = 1 * Cardinality(S)
      BY ONLY <2>3, <2>5, SumOfSame
    <2>7. Total(f) = Part(f, S)
      BY ONLY <2>2, TotalIsPart
    <2>8. Cardinality(S) \in Nat
      BY <2>4, FS_CardinalityType
    <2>9. Detection = Total(f)
      BY <2>1, <2>2 DEF Detection
    <2> QED BY <2>1, <2>6, <2>7, <2>8, <2>9
  <1> QED BY <1>2, <1>3 DEF TiesCountHalf, OneScore

-----------------------------------------------------------------------------
(* Full marks are a perfect run. *)

\* What the statistics count.
LEMMA CountsAre ==
  ASSUME NEW pairs, NEW D, D = DOMAIN pairs, NEW k
  PROVE  /\ N(pairs) = Cardinality(D)
         /\ Correct(pairs) = Cardinality({c \in D : pairs[c].gold = pairs[c].got})
         /\ Gold(pairs, k) = Cardinality({c \in D : pairs[c].gold = k})
         /\ Predicted(pairs, k) = Cardinality({c \in D : pairs[c].got = k})
         /\ TruePositive(pairs, k) = Cardinality({c \in D : pairs[c].gold = k /\ pairs[c].got = k})
  BY DEF N, Correct, Gold, Predicted, TruePositive, Count

\* A part of a finite set is as large only if it is all of it.
LEMMA PartCounts ==
  ASSUME NEW S, IsFiniteSet(S), NEW T \in SUBSET S
  PROVE  /\ Cardinality(S) \in Nat /\ Cardinality(T) \in Nat /\ Cardinality(T) <= Cardinality(S)
         /\ Cardinality(T) = Cardinality(S) <=> T = S
  BY FS_Subset, FS_CardinalityType

\* How the counts compare.
LEMMA CountsCompare ==
  ASSUME NEW pairs, IsFiniteSet(DOMAIN pairs)
  PROVE  /\ N(pairs) \in Nat /\ Correct(pairs) \in Nat
         /\ \A k : /\ Gold(pairs, k) \in Nat /\ Predicted(pairs, k) \in 0..N(pairs)
                   /\ TruePositive(pairs, k) \in Nat
                   /\ TruePositive(pairs, k) <= Gold(pairs, k)
                   /\ TruePositive(pairs, k) <= Predicted(pairs, k)
         /\ Correct(pairs) = N(pairs) <=> \A c \in DOMAIN pairs : pairs[c].gold = pairs[c].got
  <1>1. PICK D : D = DOMAIN pairs
    OBVIOUS
  <1>2. IsFiniteSet(D)
    BY <1>1
  <1>3. N(pairs) \in Nat /\ Correct(pairs) \in Nat
        /\ (Correct(pairs) = N(pairs) <=> \A c \in DOMAIN pairs : pairs[c].gold = pairs[c].got)
    <2>1. PICK T \in SUBSET D : T = {c \in D : pairs[c].gold = pairs[c].got}
      OBVIOUS
    <2>2. T = D <=> \A c \in D : pairs[c].gold = pairs[c].got
      BY <2>1
    <2>3. N(pairs) = Cardinality(D) /\ Correct(pairs) = Cardinality(T)
      BY <1>1, <2>1, CountsAre
    <2> QED BY <1>1, <1>2, <2>2, <2>3, PartCounts
  <1>4. ASSUME NEW k
        PROVE  /\ Gold(pairs, k) \in Nat /\ Predicted(pairs, k) \in 0..N(pairs)
               /\ TruePositive(pairs, k) \in Nat
               /\ TruePositive(pairs, k) <= Gold(pairs, k)
               /\ TruePositive(pairs, k) <= Predicted(pairs, k)
    <2>1. /\ N(pairs) = Cardinality(D) /\ Gold(pairs, k) = Cardinality({c \in D : pairs[c].gold = k})
          /\ Predicted(pairs, k) = Cardinality({c \in D : pairs[c].got = k})
          /\ TruePositive(pairs, k) = Cardinality({c \in D : pairs[c].gold = k /\ pairs[c].got = k})
      BY <1>1 DEF N, Gold, Predicted, TruePositive, Count
    <2>2. PICK G \in SUBSET D : G = {c \in D : pairs[c].gold = k}
      OBVIOUS
    <2>3. PICK P \in SUBSET D : P = {c \in D : pairs[c].got = k}
      OBVIOUS
    <2>4. PICK T : T = {c \in D : pairs[c].gold = k /\ pairs[c].got = k}
      OBVIOUS
    <2>5. T \in SUBSET G /\ T \in SUBSET P
      BY <2>2, <2>3, <2>4
    <2>6. N(pairs) = Cardinality(D) /\ Gold(pairs, k) = Cardinality(G)
          /\ Predicted(pairs, k) = Cardinality(P) /\ TruePositive(pairs, k) = Cardinality(T)
      BY <2>1, <2>2, <2>3, <2>4
    <2>7. IsFiniteSet(G) /\ IsFiniteSet(P)
      BY <1>2, FS_Subset
    <2>8. Cardinality(P) \in Nat /\ Cardinality(D) \in Nat /\ Cardinality(P) <= Cardinality(D)
      BY <1>2, PartCounts
    <2>9. /\ Cardinality(G) \in Nat /\ Cardinality(T) \in Nat
          /\ Cardinality(T) <= Cardinality(G) /\ Cardinality(T) <= Cardinality(P)
      BY <2>5, <2>7, PartCounts
    <2> QED BY <2>6, <2>8, <2>9
  <1> QED BY <1>3, <1>4

\* A class whose verdicts are all true positives has all of its claims right, and
\* nothing else is given it.
LEMMA RightClass ==
  ASSUME NEW pairs, IsFiniteSet(DOMAIN pairs), NEW k
  PROVE  TruePositive(pairs, k) = Gold(pairs, k)
           <=> \A c \in DOMAIN pairs : pairs[c].gold = k => pairs[c].got = k
  <1>1. PICK D : D = DOMAIN pairs
    OBVIOUS
  <1>2. /\ Gold(pairs, k) = Cardinality({c \in D : pairs[c].gold = k})
        /\ TruePositive(pairs, k) = Cardinality({c \in D : pairs[c].gold = k /\ pairs[c].got = k})
    BY <1>1 DEF Gold, TruePositive, Count
  <1>3. PICK G \in SUBSET D : G = {c \in D : pairs[c].gold = k}
    OBVIOUS
  <1>4. PICK T \in SUBSET G : T = {c \in D : pairs[c].gold = k /\ pairs[c].got = k}
    BY <1>3
  <1>5. IsFiniteSet(G)
    BY <1>1, FS_Subset
  <1>6. T = G <=> \A c \in D : pairs[c].gold = k => pairs[c].got = k
    BY <1>3, <1>4
  <1>7. Gold(pairs, k) = Cardinality(G) /\ TruePositive(pairs, k) = Cardinality(T)
    BY <1>2, <1>3, <1>4
  <1> QED BY <1>1, <1>5, <1>6, <1>7, PartCounts

\* In a perfect run nothing else is given a class.
LEMMA PerfectClass ==
  ASSUME NEW pairs, \A c \in DOMAIN pairs : pairs[c].gold = pairs[c].got, NEW k
  PROVE  2 * TruePositive(pairs, k) = Gold(pairs, k) + Predicted(pairs, k)
         \/ Gold(pairs, k) \notin Nat
  <1>1. PICK D : D = DOMAIN pairs
    OBVIOUS
  <1>2. /\ {c \in D : pairs[c].gold = k} = {c \in D : pairs[c].got = k}
        /\ {c \in D : pairs[c].gold = k} = {c \in D : pairs[c].gold = k /\ pairs[c].got = k}
    BY <1>1
  <1>3. Predicted(pairs, k) = Gold(pairs, k) /\ TruePositive(pairs, k) = Gold(pairs, k)
    <2>1. /\ Gold(pairs, k) = Cardinality({c \in D : pairs[c].gold = k})
          /\ Predicted(pairs, k) = Cardinality({c \in D : pairs[c].got = k})
          /\ TruePositive(pairs, k) = Cardinality({c \in D : pairs[c].gold = k /\ pairs[c].got = k})
      BY <1>1, CountsAre
    <2> QED BY <1>2, <2>1
  <1> QED BY <1>3

\* A class's term of macro-F1: all of the denominator exactly when its F1 is 1.
LEMMA TermIs ==
  ASSUME NEW n \in Nat, NEW d \in Nat \ {0}, n <= d, NEW q \in Nat \ {0}, NEW all, all = d * q
  PROVE  LET term == IF n = 0 THEN 0 ELSE n * (all \div d)
         IN term \in Nat /\ term <= all /\ (term = all <=> n = d)
  <1>1. all \div d = q
    OBVIOUS
  <1>2. n * q <= d * q /\ n * q \in Nat /\ d * q \in Nat /\ d * q > 0
    OBVIOUS
  <1>3. n * q = d * q <=> n = d
    OBVIOUS
  <1> QED BY <1>1, <1>2, <1>3

\* The classes of the gold labels are finitely many, and each has a claim.
LEMMA GoldClassesAre ==
  ASSUME NEW pairs, IsFiniteSet(DOMAIN pairs)
  PROVE  IsFiniteSet(GoldClasses(pairs)) /\ \A k \in GoldClasses(pairs) : Gold(pairs, k) > 0
  <1>1. PICK D : D = DOMAIN pairs
    OBVIOUS
  <1>2. IsFiniteSet(GoldClasses(pairs))
    <2>1. PICK gold : gold = [c \in D |-> pairs[c].gold]
      OBVIOUS
    <2>2. gold \in Surjection(D, GoldClasses(pairs))
      BY <1>1, <2>1 DEF Surjection, GoldClasses
    <2> QED BY <1>1, <2>2, FS_Surjection
  <1>3. ASSUME NEW k \in GoldClasses(pairs) PROVE Gold(pairs, k) > 0
    <2>1. PICK G : G = {c \in D : pairs[c].gold = k}
      OBVIOUS
    <2>2. Gold(pairs, k) = Cardinality(G)
      BY <1>1, <2>1 DEF Gold, Count
    <2>3. G # {} /\ IsFiniteSet(G)
      BY <1>1, <2>1, FS_Subset DEF GoldClasses
    <2>4. Cardinality(G) \in Nat /\ Cardinality(G) # 0
      BY <2>3, FS_CardinalityType, FS_EmptySet
    <2> QED BY <2>2, <2>4
  <1> QED BY <1>2, <1>3

\* Macro-F1 is between 0 and 1, and 1 exactly for a perfect run.
LEMMA MacroIs ==
  ASSUME NEW pairs, IsFiniteSet(DOMAIN pairs)
  PROVE  /\ MacroF1(pairs)[1] \in 0..MacroF1(pairs)[2]
         /\ Correct(pairs) = N(pairs) <=> MacroF1(pairs)[1] = MacroF1(pairs)[2]
  <1>1. PICK K : K = GoldClasses(pairs)
    OBVIOUS
  <1>2. PICK dens : dens = [k \in K |-> F1(pairs, k)[2]]
    OBVIOUS
  <1>3. PICK all : all = Product(dens)
    OBVIOUS
  <1>4. PICK terms : terms = [k \in K |-> IF F1(pairs, k)[1] = 0 THEN 0
                                          ELSE F1(pairs, k)[1] * (all \div F1(pairs, k)[2])]
    OBVIOUS
  <1>5. PICK tops : tops = [k \in K |-> all]
    OBVIOUS
  <1>6. PICK none : none = [k \in K |-> 0]
    OBVIOUS
  <1>7. IsFiniteSet(K) /\ Cardinality(K) \in Nat
    BY <1>1, GoldClassesAre, FS_CardinalityType
  <1>8. ASSUME NEW k \in K
        PROVE  /\ F1(pairs, k)[1] \in Nat /\ F1(pairs, k)[2] \in Nat \ {0}
               /\ F1(pairs, k)[1] <= F1(pairs, k)[2]
               /\ F1(pairs, k)[1] = F1(pairs, k)[2] => TruePositive(pairs, k) = Gold(pairs, k)
    <2>1. Gold(pairs, k) > 0
      BY <1>1, GoldClassesAre
    <2>2. F1(pairs, k)[1] = 2 * TruePositive(pairs, k) /\ F1(pairs, k)[2] = Gold(pairs, k) + Predicted(pairs, k)
      BY DEF F1
    <2>3. /\ N(pairs) \in Nat /\ Gold(pairs, k) \in Nat /\ Predicted(pairs, k) \in 0..N(pairs)
          /\ TruePositive(pairs, k) \in Nat /\ TruePositive(pairs, k) <= Gold(pairs, k)
          /\ TruePositive(pairs, k) <= Predicted(pairs, k)
      BY CountsCompare
    <2>4. PICK g, p, t \in Nat : g = Gold(pairs, k) /\ p = Predicted(pairs, k) /\ t = TruePositive(pairs, k)
      BY <2>3
    <2> QED BY <2>1, <2>2, <2>3, <2>4
  <1>9. all \in Nat \ {0} /\ \A k \in K : \E q \in Nat \ {0} : all = F1(pairs, k)[2] * q
    <2>1. dens \in [K -> Nat \ {0}] /\ \A k \in K : dens[k] = F1(pairs, k)[2]
      BY <1>2, <1>8
    <2>2. Product(dens) \in Nat \ {0} /\ \A k \in K : \E q \in Nat \ {0} : Product(dens) = dens[k] * q
      BY <1>7, <2>1, ProductIs
    <2> QED BY <1>3, <2>1, <2>2
  <1>10. ASSUME NEW k \in K
         PROVE  /\ terms[k] \in Nat /\ terms[k] <= all
                /\ terms[k] = all <=> F1(pairs, k)[1] = F1(pairs, k)[2]
    <2>1. PICK n, d : n = F1(pairs, k)[1] /\ d = F1(pairs, k)[2]
      OBVIOUS
    <2>2. n \in Nat /\ d \in Nat \ {0} /\ n <= d
      BY <1>8, <2>1
    <2>3. PICK q \in Nat \ {0} : all = d * q
      BY <1>9, <2>1
    <2>4. terms[k] = IF n = 0 THEN 0 ELSE n * (all \div d)
      BY <1>4, <2>1
    <2> QED BY <2>1, <2>2, <2>3, <2>4, TermIs
  <1>11. Numbers(K, terms) /\ Numbers(K, tops) /\ Numbers(K, none)
    <2>1. terms = [k \in K |-> terms[k]]
      BY <1>4
    <2> QED BY <1>5, <1>6, <1>7, <1>9, <1>10, <2>1 DEF Numbers
  <1>12. /\ \A k \in K : none[k] <= terms[k] /\ terms[k] <= tops[k] /\ none[k] = 0 /\ tops[k] = all
         /\ all \in Int /\ 0 \in Int
    BY <1>5, <1>6, <1>9, <1>10
  <1>13. Part(none, K) = 0 * Cardinality(K) /\ Part(tops, K) = all * Cardinality(K)
    BY ONLY <1>11, <1>12, SumOfSame
  <1>14. /\ Part(none, K) <= Part(terms, K) /\ Part(terms, K) <= Part(tops, K)
         /\ Part(terms, K) = Part(tops, K) <=> \A k \in K : terms[k] = tops[k]
    BY ONLY <1>11, <1>12, SumBelow
  <1>15. Part(terms, K) \in Int
    BY ONLY <1>11, PartIsInt
  <1>16. MacroF1(pairs)[1] = Part(terms, K) /\ MacroF1(pairs)[2] = all * Cardinality(K)
    <2>1. Total(terms) = Part(terms, K)
      BY ONLY <1>4, TotalIsPart
    <2>2. MacroF1(pairs) = <<Total(terms), all * Cardinality(K)>>
      BY <1>1, <1>2, <1>3, <1>4 DEF MacroF1
    <2> QED BY <2>1, <2>2
  <1>17. MacroF1(pairs)[1] \in 0..MacroF1(pairs)[2]
    <2>1. all * Cardinality(K) \in Int
      BY <1>7, <1>9
    <2>2. 0 * Cardinality(K) = 0
      BY <1>7
    <2> QED BY <1>13, <1>14, <1>15, <1>16, <2>1, <2>2
  <1>18. MacroF1(pairs)[1] = MacroF1(pairs)[2] <=> \A k \in K : F1(pairs, k)[1] = F1(pairs, k)[2]
    BY <1>10, <1>12, <1>13, <1>14, <1>16
  <1>19. ASSUME Correct(pairs) = N(pairs), NEW k \in K PROVE F1(pairs, k)[1] = F1(pairs, k)[2]
    <2>1. \A c \in DOMAIN pairs : pairs[c].gold = pairs[c].got
      BY <1>19, CountsCompare
    <2>2. Gold(pairs, k) \in Nat
      BY CountsCompare
    <2>3. 2 * TruePositive(pairs, k) = Gold(pairs, k) + Predicted(pairs, k)
      BY <2>1, <2>2, PerfectClass
    <2> QED BY <2>3 DEF F1
  <1>20. ASSUME \A k \in K : F1(pairs, k)[1] = F1(pairs, k)[2] PROVE Correct(pairs) = N(pairs)
    <2>1. \A k \in K : TruePositive(pairs, k) = Gold(pairs, k)
      BY <1>8, <1>20
    <2>2. \A c \in DOMAIN pairs : pairs[c].gold \in K
      BY <1>1 DEF GoldClasses
    <2>3. \A c \in DOMAIN pairs : pairs[c].got = pairs[c].gold
      BY <2>1, <2>2, RightClass
    <2> QED BY <2>3, CountsCompare
  <1> QED BY <1>17, <1>18, <1>19, <1>20

\* Chance is no more than every claim with every claim.
LEMMA ChanceIs ==
  ASSUME NEW pairs, IsFiniteSet(DOMAIN pairs)
  PROVE  Chance(pairs) \in Int /\ Chance(pairs) <= N(pairs) * N(pairs)
  <1>1. PICK D : D = DOMAIN pairs
    OBVIOUS
  <1>2. PICK K : K = Classes
    OBVIOUS
  <1>3. PICK v : v = [c \in D |-> pairs[c].gold]
    OBVIOUS
  <1>4. PICK gold : gold = [k \in K |-> Cardinality({c \in D : v[c] = k})]
    OBVIOUS
  <1>5. PICK chance : chance = [k \in K |-> Gold(pairs, k) * Predicted(pairs, k)]
    OBVIOUS
  <1>6. PICK most : most = [k \in K |-> N(pairs) * gold[k]]
    OBVIOUS
  <1>7. IsFiniteSet(K)
    <2>1. IsFiniteSet({})
      BY FS_EmptySet
    <2>2. IsFiniteSet({} \cup {"TRUE"})
      BY <2>1, FS_AddElement
    <2>3. IsFiniteSet(({} \cup {"TRUE"}) \cup {"PARTIALLY_TRUE"})
      BY <2>2, FS_AddElement
    <2>4. IsFiniteSet((({} \cup {"TRUE"}) \cup {"PARTIALLY_TRUE"}) \cup {"MISLEADING"})
      BY <2>3, FS_AddElement
    <2>5. IsFiniteSet(((({} \cup {"TRUE"}) \cup {"PARTIALLY_TRUE"}) \cup {"MISLEADING"}) \cup {"FALSE"})
      BY <2>4, FS_AddElement
    <2>6. IsFiniteSet((((({} \cup {"TRUE"}) \cup {"PARTIALLY_TRUE"}) \cup {"MISLEADING"}) \cup {"FALSE"})
                      \cup {"UNVERIFIED"})
      BY <2>5, FS_AddElement
    <2>7. K = (((({} \cup {"TRUE"}) \cup {"PARTIALLY_TRUE"}) \cup {"MISLEADING"}) \cup {"FALSE"})
              \cup {"UNVERIFIED"}
      BY <1>2 DEF Classes
    <2> QED BY <2>6, <2>7
  <1>8. N(pairs) \in Nat /\ N(pairs) = Cardinality(D)
    BY <1>1, CountsCompare DEF N
  <1>9. Numbers(K, gold) /\ Part(gold, K) = Cardinality({c \in D : v[c] \in K})
    BY <1>1, <1>4, <1>7, SumOfCounts
  <1>10. Part(gold, K) \in 0..N(pairs)
    <2>1. PICK T \in SUBSET D : T = {c \in D : v[c] \in K}
      OBVIOUS
    <2>2. Cardinality(T) \in Nat /\ Cardinality(T) <= Cardinality(D)
      BY <1>1, PartCounts
    <2> QED BY <1>8, <1>9, <2>1, <2>2
  <1>11. ASSUME NEW k \in K
         PROVE  gold[k] = Gold(pairs, k) /\ chance[k] \in Int /\ most[k] \in Int /\ chance[k] <= most[k]
    <2>1. {c \in D : v[c] = k} = {c \in D : pairs[c].gold = k}
      BY <1>3
    <2>2. gold[k] = Gold(pairs, k)
      BY <1>1, <1>4, <2>1 DEF Gold, Count
    <2>3. Gold(pairs, k) \in Nat /\ Predicted(pairs, k) \in 0..N(pairs)
      BY CountsCompare
    <2>4. chance[k] = Gold(pairs, k) * Predicted(pairs, k) /\ most[k] = N(pairs) * Gold(pairs, k)
      BY <1>5, <1>6, <2>2
    <2>5. \A g, p, n \in Nat : p <= n => g * p \in Int /\ n * g \in Int /\ g * p <= n * g
      OBVIOUS
    <2> QED BY <1>8, <2>2, <2>3, <2>4, <2>5
  <1>12. Numbers(K, chance) /\ Numbers(K, most)
    <2>1. chance = [k \in K |-> chance[k]] /\ most = [k \in K |-> most[k]]
      BY <1>5, <1>6
    <2> QED BY <1>7, <1>11, <2>1 DEF Numbers
  <1>13. Part(chance, K) <= Part(most, K) /\ Part(chance, K) \in Int
    <2>1. \A k \in K : chance[k] <= most[k]
      BY <1>11
    <2> QED BY ONLY <1>12, <2>1, SumBelow, PartIsInt
  <1>14. Part(most, K) = N(pairs) * Part(gold, K)
    <2>1. (\A k \in K : most[k] = N(pairs) * gold[k]) /\ N(pairs) \in Int
      BY <1>6, <1>8
    <2> QED BY ONLY <1>9, <1>12, <2>1, SumOfTimes
  <1>15. Chance(pairs) = Part(chance, K)
    <2>1. Total(chance) = Part(chance, K)
      BY ONLY <1>5, TotalIsPart
    <2>2. Chance(pairs) = Total(chance)
      BY <1>2, <1>5 DEF Chance
    <2> QED BY <2>1, <2>2
  <1>16. \A n, g \in Nat : g <= n => n * g <= n * n /\ n * g \in Int /\ n * n \in Int
    OBVIOUS
  <1> QED BY <1>8, <1>10, <1>13, <1>14, <1>15, <1>16

\* Kappa is 1 exactly for a perfect run, and its denominator is not negative.
LEMMA KappaIs ==
  ASSUME NEW pairs, IsFiniteSet(DOMAIN pairs), N(pairs) > 0
  PROVE  /\ Kappa(pairs)[2] >= 0
         /\ Correct(pairs) = N(pairs) <=> Kappa(pairs)[1] = Kappa(pairs)[2]
  <1>1. PICK n, m \in Nat, c \in Int : n = N(pairs) /\ m = Correct(pairs) /\ c = Chance(pairs)
    BY ChanceIs, CountsCompare
  <1>2. Kappa(pairs)[1] = m * n - c /\ Kappa(pairs)[2] = n * n - c
    BY <1>1 DEF Kappa
  <1>3. c <= n * n
    BY <1>1, ChanceIs
  <1>4. n > 0
    BY <1>1
  <1>5. m * n = n * n <=> m = n
    BY <1>4
  <1>6. m * n \in Int /\ n * n \in Int
    OBVIOUS
  <1> QED BY <1>1, <1>2, <1>3, <1>5, <1>6

\* The accuracy of the definitive verdicts is between 0 and 1.
LEMMA SelectiveIs ==
  ASSUME NEW pairs, IsFiniteSet(DOMAIN pairs)
  PROVE  SelectiveAccuracy(pairs)[1] \in 0..SelectiveAccuracy(pairs)[2]
  <1> DEFINE U == "UNVERIFIED"
  <1>1. PICK D : D = DOMAIN pairs
    OBVIOUS
  <1>2. /\ N(pairs) = Cardinality(D)
        /\ Correct(pairs) = Cardinality({c \in D : pairs[c].gold = pairs[c].got})
        /\ Predicted(pairs, U) = Cardinality({c \in D : pairs[c].got = U})
        /\ TruePositive(pairs, U) = Cardinality({c \in D : pairs[c].gold = U /\ pairs[c].got = U})
    BY <1>1 DEF N, Correct, Predicted, TruePositive, Count
  <1>3. PICK R \in SUBSET D : R = {c \in D : pairs[c].gold = pairs[c].got}
    OBVIOUS
  <1>4. PICK P \in SUBSET D : P = {c \in D : pairs[c].got = U}
    OBVIOUS
  <1>5. R \cap P = {c \in D : pairs[c].gold = U /\ pairs[c].got = U}
    BY <1>3, <1>4
  <1>6. IsFiniteSet(D) /\ IsFiniteSet(R)
    BY <1>1, FS_Subset
  <1>7. Cardinality(R \ P) = Cardinality(R) - Cardinality(R \cap P)
    BY <1>6, FS_Difference
  <1>8. Cardinality(D \ P) = Cardinality(D) - Cardinality(D \cap P)
    BY <1>6, FS_Difference
  <1>9. D \cap P = P
    OBVIOUS
  <1>10. R \ P \in SUBSET (D \ P) /\ IsFiniteSet(D \ P)
    BY <1>6, FS_Subset
  <1>11. /\ Cardinality(R \ P) \in Nat /\ Cardinality(D \ P) \in Nat
         /\ Cardinality(R \ P) <= Cardinality(D \ P)
    BY <1>10, PartCounts
  <1>12. Correct(pairs) = Cardinality(R) /\ Predicted(pairs, U) = Cardinality(P)
         /\ TruePositive(pairs, U) = Cardinality(R \cap P)
    BY <1>2, <1>3, <1>4, <1>5
  <1>13. SelectiveAccuracy(pairs)[1] = Cardinality(R \ P) /\ SelectiveAccuracy(pairs)[2] = Cardinality(D \ P)
    BY <1>2, <1>7, <1>8, <1>9, <1>12 DEF SelectiveAccuracy, Coverage
  <1> QED BY <1>11, <1>13

\* The headline's statistics agree on what a perfect run is, whatever was recorded.
LEMMA PerfectIsPerfect == PerfectMeansPerfect
  <1> SUFFICES ASSUME NEW s \in Systems, NEW pairs, pairs = Pairs(records[s], ScoredBy(s)), N(pairs) > 0
               PROVE  /\ Correct(pairs) = N(pairs) <=> MacroF1(pairs)[1] = MacroF1(pairs)[2]
                      /\ Correct(pairs) = N(pairs) <=> Kappa(pairs)[1] = Kappa(pairs)[2]
                      /\ MacroF1(pairs)[1] \in 0..MacroF1(pairs)[2]
                      /\ SelectiveAccuracy(pairs)[1] \in 0..SelectiveAccuracy(pairs)[2]
                      /\ Kappa(pairs)[2] >= 0
    BY Zenon DEF PerfectMeansPerfect
  <1>1. IsFiniteSet(DOMAIN pairs)
    <2>1. IsFiniteSet(ScoredBy(s))
      BY MeasuresAssumption, FS_Subset DEF ScoredBy
    <2> QED BY <2>1 DEF Pairs
  <1> QED BY <1>1, MacroIs, KappaIs, SelectiveIs

\* The numbers of a report mean what a reader takes them for: full marks are a
\* perfect run, by macro-F1 and by kappa; no ratio leaves its range; the area by
\* ranks is the area by pairs, ties included; and a corrector that gives every text
\* the same score is at chance.
THEOREM ScoresHold == MeasuresSpec => []ScoresMeanWhatTheySay
  <1>1. ScoresInv => ScoresMeanWhatTheySay
    BY PerfectIsPerfect, ScoresHalve DEF ScoresMeanWhatTheySay
  <1> QED BY <1>1, ScoresStart, ScoresStep, PTL DEF MeasuresSpec
=============================================================================
