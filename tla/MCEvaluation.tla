----------------------------- MODULE MCEvaluation -----------------------------
(* Instances of EvalRuns and of Measures for TLC: runs that are resumed, retried,
   started afresh, stopped, or replayed by another; and what is measured of two
   runs over two claims, of pages pooled and judged, of predictions, and of texts.
   The measures are functions of what the runs left, so a behaviour of this
   instance is of one of them. *)
EXTENDS EvalRuns, Measures, TLC

CONSTANTS d1, d2, r1, r2,       \* run directories and rows
          a, b, c1, c2, p1, p2, p3  \* compared runs, their claims, and pages

MCSourceOf == d1 :> d1 @@ d2 :> d1

MCOrder == <<r1, r2>>

How(fresh, retry, limit, repeats) ==
  [fresh |-> fresh, retry |-> retry, limit |-> limit, repeats |-> repeats]

Config(mode, loop, workers, sessions, options) ==
  [mode |-> mode, loop |-> loop, workers |-> workers, sessions |-> sessions, options |-> options]

Resumed == How(FALSE, FALSE, 2, 1)
Afresh == How(TRUE, FALSE, 2, 1)
Retried == How(FALSE, TRUE, 2, 1)
One == How(FALSE, FALSE, 1, 1)
Twice == How(FALSE, FALSE, 1, 2)

NoReplay == Config("replay", FALSE, {}, 0, {})

MCPlans ==
  {d1 :> Config("full", TRUE, {1}, 2, {Resumed, Afresh, Retried}) @@ d2 :> NoReplay,
   d1 :> Config("retrieval", FALSE, {1}, 2, {Resumed}) @@ d2 :> Config("replay", FALSE, {1}, 1, {One}),
   d1 :> Config("oracle", TRUE, {1, 2}, 2, {One, Resumed, Retried}) @@ d2 :> NoReplay,
   d1 :> Config("closed_book", FALSE, {1, 2}, 1, {Resumed}) @@ d2 :> NoReplay,
   d1 :> Config("writing", FALSE, {1}, 2, {Twice, Afresh}) @@ d2 :> NoReplay}

VARIABLE part  \* what is run or measured

\* What a check may answer.  p1 is the annotator's page of both claims and p2
\* another page of its site; p3 is the fact-checker's own page of c2.
Checked(ok, search, llm) == [ok |-> ok, searchUnavailable |-> ~search, llmUnreachable |-> ~llm]
Judgement(look, label, raw, first, unsure, second) ==
  [look |-> look, label |-> label, raw |-> raw, first |-> first, unsure |-> unsure, second |-> second]
Evidence(seen, ranked, cited) == [candidates |-> seen, evidence |-> ranked, cited |-> cited]

Well == Checked(TRUE, TRUE, TRUE)

JudgedAnswers == [c \in {c1, c2} |->
  LET U == "UNVERIFIED"
      gold == IF c = c1 THEN "TRUE" ELSE U
  IN {Well @@ Judgement("none", gold, "TRUE", "TRUE", FALSE, U) @@ Evidence({p1, p3}, <<p3, p1>>, {p1}),
      Well @@ Judgement("none", gold, "TRUE", U, FALSE, U) @@ Evidence({}, <<p2>>, {p2}),
      Well @@ Judgement("pipeline", gold, "FALSE", "TRUE", TRUE, U) @@ Evidence({p1}, <<p3>>, {}),
      Well @@ Judgement("pipeline", gold, U, U, FALSE, "TRUE") @@ Evidence({p1}, << >>, {}),
      Well @@ Judgement("loop", gold, "FALSE", "FALSE", FALSE, gold) @@ Evidence({p3}, <<p3, p2>>, {p3}),
      Well @@ Judgement("loop", gold, U, U, TRUE, "FALSE") @@ Evidence({}, << >>, {}),
      Well @@ Judgement("none", "FALSE", "FALSE", "FALSE", FALSE, U) @@ Evidence({p2}, <<p2>>, {p2}),
      Checked(TRUE, FALSE, TRUE) @@ Judgement("none", gold, U, U, FALSE, U) @@ Evidence({}, << >>, {}),
      Checked(TRUE, TRUE, FALSE) @@ Judgement("none", gold, U, U, FALSE, U) @@ Evidence({p1}, <<p1>>, {}),
      Checked(FALSE, TRUE, TRUE) @@ Judgement("none", gold, Missing, Missing, FALSE, U) @@ Evidence({}, << >>, {})}]

\* Of one claim, whose top two pages are pooled.
PooledAnswers == {Well @@ Judgement("none", "TRUE", "TRUE", "TRUE", FALSE, "TRUE") @@ Evidence({}, e, {}) :
                    e \in {<<p1>>, <<p2, p1>>, <<p2, p3>>}}
PooledRecords == {RecordOfAnswer(x) : x \in PooledAnswers}

MCAnswers == [JudgedAnswers EXCEPT ![c1] = @ \cup PooledAnswers]

MCReferences == c1 :> {p1} @@ c2 :> {p1, p3}
MCDomainOf == p1 :> "annotated" @@ p2 :> "annotated" @@ p3 :> "checker"
MCSiteOf == c1 :> "outlet" @@ c2 :> "checker"
MCPools == {{a}, {a, b}}
MCTextUnits == {<<1, "clean", 0>>, <<1, "clean", 1>>, <<1, "tone", 0>>, <<1, "tone", 1>>}

MCInit ==
    /\ Init /\ MeasuresInit
    /\ part \in {"running", "verdicts", "pool", "predictions", "texts"}
    /\ part # "running" => plan = CHOOSE p \in Plans : TRUE

MCNext ==
    \/ part = "running" /\ Next /\ UNCHANGED <<measureVars, part>>
    \/ part = "verdicts" /\ Verdict /\ UNCHANGED <<vars, part>>
       /\ \A s \in Systems : records'[s][c1] \notin PooledRecords
    \/ part = "pool" /\ (Verdict \/ Judging) /\ UNCHANGED <<vars, part>>
       /\ \A s \in Systems : records'[s][c1] \in PooledRecords \cup {Missing} /\ records'[s][c2] = Missing
    \/ part = "predictions" /\ Predict /\ UNCHANGED <<vars, part>>
    \/ part = "texts" /\ Writing /\ UNCHANGED <<vars, part>>

MCSpec ==
    /\ MCInit /\ [][MCNext]_<<vars, measureVars, part>>
    /\ \A d \in Runs : WF_vars(Running(d)) /\ \A w \in Workers : WF_vars(Working(d, w))
=============================================================================
