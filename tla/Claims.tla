------------------------------- MODULE Claims -------------------------------
(***************************************************************************)
(* The fact-check of one article (services/fact_checker/): its claims are   *)
(* selected, then verified side by side, each through retrieval, ranking,   *)
(* the language model (services/llms.py, one permit for the process) and    *)
(* recalibration, with a second, wider look at a verdict in doubt; then the *)
(* article is reported.                                                     *)
(*                                                                         *)
(* Scores, texts and clocks are left to chance: which pages are found, how  *)
(* they are ordered, what the model answers and when a deadline runs short. *)
(***************************************************************************)
EXTENDS Integers, Sequences, FiniteSets, SequencesExt

CONSTANTS
  Statements,   \* what the article says that could be checked
  Same,         \* pairs of statements that say the same
  Pages,        \* pages that a search or the corpus may return
  Outlet,       \* the domain each page is on
  Own,          \* the article itself, however its URL is spelled
  Hits,         \* pages that a web search for the i-th claim may return
  Corpus,       \* pages the internal corpus holds
  Workers,      \* CLAIM_MAX_CONCURRENCY
  LlmLimit,     \* LLM_MAX_CONCURRENCY
  MaxWaits,     \* RATE_LIMIT_MAX_WAITS
  Options,      \* bound: the thresholds a run may be given
  MaxFailures   \* bound: searches, calls and encodings that go wrong

Option == [answer : {"list", "per_source"}, stated : BOOLEAN, floor : Nat, cap : Nat \ {0},
           lookAgain : BOOLEAN, deadline : BOOLEAN, anchors : Nat \ {0}]

ASSUME ClaimsAssumption ==
  /\ IsFiniteSet(Statements) /\ Same \subseteq Statements \X Statements
  /\ IsFiniteSet(Pages) /\ Own \in Pages /\ Corpus \subseteq Pages
  /\ DOMAIN Outlet = Pages
  /\ Hits \in [1..Cardinality(Statements) -> SUBSET Pages]
  /\ Workers \in Nat \ {0} /\ LlmLimit \in Nat \ {0} /\ MaxWaits \in Nat
  /\ Options \subseteq Option /\ MaxFailures \in Nat

VARIABLES
  opt,       \* the run's thresholds
  claims,    \* each selected claim's check, by index
  report,    \* the article's FactCheckReport
  failures   \* what has gone wrong so far

claimVars == <<opt, claims, report, failures>>

-----------------------------------------------------------------------------
(* What is said of a claim. *)

Definitive == {"TRUE", "PARTIALLY_TRUE", "FALSE", "MISLEADING"}
ClaimVerdicts == Definitive \cup {"UNVERIFIED"}

Severity == [v \in ClaimVerdicts |->
  CASE v = "TRUE" -> 0 [] v = "PARTIALLY_TRUE" -> 1 [] v = "UNVERIFIED" -> 2
    [] v = "MISLEADING" -> 3 [] v = "FALSE" -> 4]

\* "none": the model gave the source no stance. "off": unrelated, or silent.
Stances == {"none", "supports", "contradicts", "off"}

Item == [page : Pages, origin : {"web", "internal"}]

\* A source from the corpus comes without its domain; its URL stands in for it.
Domain(item) == IF item.origin = "web" THEN Outlet[item.page] ELSE item.page

\* Why a source was left out, by the stage that did.
Rejected == [page : Pages, stage : {"retrieval", "ranking", "verification"}]
Reject(items, stage) == {[page |-> i.page, stage |-> stage] : i \in items}

\* LLMVerificationResult: indices cited, and a stance for each source shown.
\* usable: FALSE when the model answered nothing that could be read.
Result(verdict, cited, stances, usable, down) ==
  [verdict |-> verdict, cited |-> cited, stances |-> stances, usable |-> usable, down |-> down]

NoStances(ranked) == [i \in DOMAIN ranked |-> "none"]
NotAsked(ranked) == Result("UNVERIFIED", {}, NoStances(ranked), TRUE, FALSE)
Unreachable(ranked) == Result("UNVERIFIED", {}, NoStances(ranked), TRUE, TRUE)
Unreadable(ranked) == Result("UNVERIFIED", {}, NoStances(ranked), FALSE, FALSE)

ClaimCheck == [verdict : ClaimVerdicts, unsure : BOOLEAN, evidence : Seq(Item),
          stances : Seq(Stances), cited : SUBSET Nat, domains : Nat,
          raw : ClaimVerdicts, usable : BOOLEAN, llmDown : BOOLEAN, searchDown : BOOLEAN, second : BOOLEAN]

NoCheck == [verdict |-> "UNVERIFIED", unsure |-> TRUE, evidence |-> << >>,
            stances |-> << >>, cited |-> {}, domains |-> 0, raw |-> "UNVERIFIED", usable |-> TRUE, llmDown |-> FALSE,
            searchDown |-> FALSE, second |-> FALSE]

-----------------------------------------------------------------------------
(* confidence_scorer.py *)

BelowFloor(ranked) == ranked = << >> \/ Len(ranked) < opt.floor

HoldsToStances == opt.stated \/ opt.answer = "per_source"

\* Fault: a citation counts whatever the model said of the source.
GroundedAsCited(result) == result.cited

\* Citations of sources that the model did not itself call off the subject.
Grounded(result) == {i \in result.cited : result.stances[i] # "off"}

CitedStances(result) == {result.stances[i] : i \in Grounded(result)} \ {"none"}

WithStance(result, stance) == {i \in DOMAIN result.stances : result.stances[i] = stance}

\* A model that gave no stance at all is taken at its citations.
Corroborating(result) ==
  IF \A i \in DOMAIN result.stances : result.stances[i] = "none"
  THEN result.cited ELSE WithStance(result, "supports")

IndependentDomains(ranked, result) ==
  Cardinality({Domain(ranked[i]) : i \in Corroborating(result)})

\* The verdict the model's own stances allow.
Recalibrated(result) ==
  LET said == result.verdict
      cited == CitedStances(result)
      unheld == \/ said = "FALSE" /\ "contradicts" \notin cited
                \/ said \in {"TRUE", "PARTIALLY_TRUE"} /\ "supports" \notin cited
      mixed == said = "TRUE" /\ WithStance(result, "contradicts") # {}
  IN IF \/ said \in Definitive /\ Grounded(result) = {}
        \/ HoldsToStances /\ unheld
     THEN "UNVERIFIED"
     ELSE IF mixed /\ opt.answer # "per_source" THEN "PARTIALLY_TRUE" ELSE said

\* One claim judged on the sources it was ranked. unsure: whether the confidence
\* falls under second_look_below_confidence; with too little evidence it is 0.
Score(ranked, result, unsure) ==
  IF BelowFloor(ranked) THEN NoCheck
  ELSE [NoCheck EXCEPT !.verdict = Recalibrated(result), !.unsure = unsure,
                       !.evidence = ranked, !.stances = result.stances,
                       !.cited = result.cited,
                       !.domains = IndependentDomains(ranked, result)]

\* FactChecker._judge, once the model has answered or was not asked.
Judged(ranked, result, unsure, searchDown) ==
  [Score(ranked, result, unsure) EXCEPT
     !.raw = result.verdict, !.usable = result.usable, !.llmDown = result.down,
     !.searchDown = searchDown]

\* per_source.py: each source's answer alone, and the side more outlets take.
VerdictFrom(ranked, answers) ==
  LET Outlets(stance) == {Domain(ranked[i]) : i \in {j \in DOMAIN answers : answers[j] = stance}}
      for == Cardinality(Outlets("supports"))
      against == Cardinality(Outlets("contradicts"))
      verdict == IF for > against THEN "TRUE" ELSE IF against > for THEN "FALSE"
                 ELSE "UNVERIFIED"
      stances == [i \in DOMAIN answers |-> IF answers[i] = "down" THEN "none" ELSE answers[i]]
      cited == {i \in DOMAIN answers : answers[i] \in {"supports", "contradicts"}}
  IN IF \A i \in DOMAIN answers : answers[i] = "down" THEN Unreachable(ranked)
     ELSE IF \A i \in DOMAIN stances : stances[i] = "none" THEN Unreadable(ranked)
     ELSE Result(verdict, cited, stances, TRUE, FALSE)

\* Ranked, but not cited.
NotCited(ranked, result) ==
  Reject({ranked[i] : i \in DOMAIN ranked \ result.cited}, "verification")

\* second_look.py: why a verdict is in doubt. An outage is not doubt.
InDoubt(check) ==
  /\ ~check.second /\ ~check.llmDown /\ ~check.searchDown
  /\ check.verdict = "UNVERIFIED" \/ check.unsure

-----------------------------------------------------------------------------
(* The threads of the claims. *)

\* at: "queued" for a worker; "planning" a second look's queries. time: what the
\* claim's deadline leaves: enough, too little to start a stage
\* (MIN_STAGE_SECONDS), or too little to ask at all. found: what retrieval kept.
\* left: what it left out. attempt, waits, refused: of complete_json; refused when
\* the last attempt did not reach the model. answers: of the sources asked about
\* one by one. looks: 2 when it is the second look that is under way.
Claim == [at : {"queued", "retrieving", "ranking", "asking", "waiting", "calling",
                "searching", "done", "failed", "dropped"},
          looks : {1, 2}, planning : BOOLEAN, time : {"enough", "short", "gone"},
          found : SUBSET Item, left : SUBSET Rejected, searchDown : BOOLEAN,
          ranked : Seq(Item), attempt : {0, 1}, waits : 0..MaxWaits, refused : BOOLEAN,
          answers : Seq(Stances \cup {"down"}), check : ClaimCheck]

NewClaim == [at |-> "queued", looks |-> 1, planning |-> FALSE, time |-> "enough",
             found |-> {}, left |-> {}, searchDown |-> FALSE, ranked |-> << >>,
             attempt |-> 0, waits |-> 0, refused |-> FALSE, answers |-> << >>,
             check |-> NoCheck]

Busy == {"retrieving", "ranking", "asking", "waiting", "calling", "searching"}

NothingReported(at) == [at |-> at, overall |-> "UNVERIFIED", found |-> "none",
                 judged |-> 0, unverified |-> 0, notChecked |-> 0]

ClaimsInit ==
  /\ opt \in Options
  /\ claims = << >>
  /\ report = NothingReported("selecting")
  /\ failures = 0

Failing == failures < MaxFailures /\ failures' = failures + 1
Holds == UNCHANGED failures

Now(c) == claims[c]
Set(c, new) == claims' = [claims EXCEPT ![c] = new]

\* ClaimSelector.select goes down the statements by their score and keeps each that
\* repeats none kept before, until it has enough. Which statements it was given and
\* how they score is left to chance.
Anchors ==
  {kept \in SetToAllKPermutations(Statements) :
     /\ Len(kept) <= opt.anchors
     /\ \A i, j \in DOMAIN kept : i < j => <<kept[i], kept[j]>> \notin Same}

Select ==
  /\ report.at = "selecting"
  /\ \E kept \in Anchors : claims' = [i \in DOMAIN kept |-> NewClaim]
  /\ report' = NothingReported("checking")
  /\ UNCHANGED <<opt, failures>>

\* bounded_map's pool: a free worker takes the next claim.
BeginClaim(c) ==
  /\ Now(c).at = "queued"
  /\ \A d \in 1..(c - 1) : Now(d).at # "queued"
  /\ Cardinality({d \in DOMAIN claims : Now(d).at \in Busy}) < Workers
  /\ Set(c, [Now(c) EXCEPT !.at = "retrieving"])
  /\ Holds /\ UNCHANGED <<opt, report>>

\* A claim's clock runs whatever it is doing.
TimePasses(c) ==
  /\ opt.deadline /\ Now(c).at \in Busy /\ Now(c).time # "gone"
  /\ \E t \in {"short", "gone"} \ {Now(c).time} : Set(c, [Now(c) EXCEPT !.time = t])
  /\ Holds /\ UNCHANGED <<opt, report>>

WebItem(p) == [page |-> p, origin |-> "web"]
CorpusItem(p) == [page |-> p, origin |-> "internal"]

\* One page for each outlet of these pages.
OnePerOutlet(pages) ==
  {best \in SUBSET pages : /\ {Outlet[p] : p \in best} = {Outlet[p] : p \in pages}
                           /\ \A p, q \in best : Outlet[p] = Outlet[q] => p = q}

Firsts(S, n) == {T \in SUBSET S : Cardinality(T) = IF Cardinality(S) < n THEN Cardinality(S) ELSE n}

\* What the queries of a claim may bring back together: a query that fails adds
\* nothing, and the search is out of reach only when every one of them fails.
Searched(c) == SUBSET Hits[c]

\* EvidenceRetriever._without_the_article
Elsewhere(pages) == pages \ {Own}

\* EvidenceRetriever.retrieve: the web and the corpus, without the article, one
\* page per outlet, the best of them read. The embedding service may fail it.
Retrieve(c) ==
  /\ Now(c).at = "retrieving"
  /\ \/ \E web \in Searched(c), corpus \in SUBSET Elsewhere(Corpus) :
          \E best \in OnePerOutlet(Elsewhere(web)) : \E top \in Firsts(best, opt.cap) :
            /\ Holds
            /\ Set(c, [Now(c) EXCEPT
                 !.at = "ranking",
                 !.found = {WebItem(p) : p \in top} \cup {CorpusItem(p) : p \in corpus},
                 !.left = Reject({WebItem(p) : p \in web \ top}, "retrieval")])
     \/ \E corpus \in SUBSET Elsewhere(Corpus) :
            /\ Failing
            /\ Set(c, [Now(c) EXCEPT !.at = "ranking", !.searchDown = TRUE,
                                     !.found = {CorpusItem(p) : p \in corpus}])
     \/ Failing /\ Set(c, [Now(c) EXCEPT !.at = "failed"])
  /\ UNCHANGED <<opt, report>>

\* What the claim comes to when it has been judged: a doubt about the first
\* verdict is looked into once, and not when the claim has a deadline.
Conclude(t, result, check) ==
  IF t.looks = 2
  THEN [NewClaim EXCEPT !.at = "done", !.looks = 2, !.check = [check EXCEPT !.second = TRUE]]
  ELSE IF opt.lookAgain /\ ~opt.deadline /\ InDoubt(check)
  THEN [NewClaim EXCEPT !.at = "asking", !.looks = 2, !.planning = TRUE,
                        !.found = ToSet(check.evidence),
                        !.left = t.left \cup NotCited(t.ranked, result)]
  ELSE [NewClaim EXCEPT !.at = "done", !.check = check]

\* Only a first look's confidence is read again, and when there may be a second.
Concluded(t, result) ==
  {Conclude(t, result, Judged(t.ranked, result, unsure, t.searchDown)) :
     unsure \in IF BelowFloor(t.ranked) THEN {TRUE}
                ELSE IF opt.lookAgain /\ t.looks = 1 THEN BOOLEAN ELSE {FALSE}}

\* EvidenceRanker.rank, then whether the model is to be asked.
Rank(c) ==
  /\ Now(c).at = "ranking"
  /\ \/ \E ranked \in SetToAllKPermutations(Now(c).found) :
          /\ Len(ranked) <= opt.cap
          /\ LET out == Reject(Now(c).found \ ToSet(ranked), "ranking")
                 t == [Now(c) EXCEPT !.ranked = ranked, !.left = @ \cup out, !.answers = << >>,
                                     !.attempt = 0, !.waits = 0, !.refused = FALSE]
             IN \/ /\ BelowFloor(ranked)
                   /\ \E new \in Concluded(t, NotAsked(ranked)) : Set(c, new)
                \/ /\ ~BelowFloor(ranked) /\ t.time # "enough"
                   /\ \E new \in Concluded(t, Unreachable(ranked)) : Set(c, new)
                \/ /\ ~BelowFloor(ranked) /\ t.time = "enough"
                   /\ Set(c, [t EXCEPT !.at = "asking"])
          /\ Holds
     \/ Now(c).found # {} /\ Failing /\ Set(c, [Now(c) EXCEPT !.at = "failed"])
  /\ UNCHANGED <<opt, report>>

Alone(t) == opt.answer = "per_source" /\ ~t.planning

\* What the model may have written about the sources it was shown.
Written(ranked) ==
  {Result(v, cited, stances, TRUE, FALSE) :
     v \in ClaimVerdicts, cited \in SUBSET DOMAIN ranked, stances \in [DOMAIN ranked -> Stances]}

\* A second look searches whatever the model answered when asked for its queries:
\* with none of use, for the claim as a sentence.
Planned(t) == [t EXCEPT !.at = "searching", !.planning = FALSE]

\* What follows complete_json's return ("json", or "none" of use) or its
\* LLMUnavailableError ("down"). A source asked alone is followed by the next one.
Ended(t, outcome) ==
  LET with == IF outcome = "json" THEN Stances ELSE {IF outcome = "down" THEN "down" ELSE "none"}
      ThenNext(a) == [t EXCEPT !.at = "asking", !.answers = Append(@, a),
                            !.attempt = 0, !.waits = 0, !.refused = FALSE]
      AtLast(a) == Concluded([t EXCEPT !.answers = << >>], VerdictFrom(t.ranked, Append(t.answers, a)))
  IN IF t.planning THEN {Planned(t)}
     ELSE IF Alone(t)
     THEN IF Len(t.answers) + 1 < Len(t.ranked) THEN {ThenNext(a) : a \in with}
          ELSE UNION {AtLast(a) : a \in with}
     ELSE CASE outcome = "json" -> UNION {Concluded(t, r) : r \in Written(t.ranked)}
            [] outcome = "none" -> Concluded(t, Unreadable(t.ranked))
            [] outcome = "down" -> Concluded(t, Unreachable(t.ranked))

End(c, outcome) == \E new \in Ended(Now(c), outcome) : Set(c, new)

\* An attempt of complete_json starts, if there is time for it.
Ask(c) ==
  /\ Now(c).at = "asking"
  /\ LET t == Now(c) IN
     \/ /\ Alone(t) /\ t.attempt = 0 /\ t.time # "enough"
        /\ End(c, "down")
     \/ /\ t.time = "gone" /\ ~(Alone(t) /\ t.attempt = 0)
        /\ End(c, IF t.attempt = 0 \/ t.refused THEN "down" ELSE "none")
     \/ /\ t.time # "gone"
        /\ Alone(t) /\ t.attempt = 0 => t.time = "enough"
        /\ Set(c, [t EXCEPT !.at = "waiting"])
  /\ Holds /\ UNCHANGED <<opt, report>>

\* LLM.permit: one of the calls the process may make at once, if it comes in time.
Permit(c) ==
  /\ Now(c).at = "waiting"
  /\ \/ /\ Cardinality({d \in DOMAIN claims : Now(d).at = "calling"}) < LlmLimit
        /\ Set(c, [Now(c) EXCEPT !.at = "calling"])
     \/ Now(c).time = "gone" /\ End(c, "down")
  /\ Holds /\ UNCHANGED <<opt, report>>

Again(t, refused) == [t EXCEPT !.at = "asking", !.attempt = 1, !.waits = 0, !.refused = refused]

\* The model answers; or it writes no JSON, which is asked for once more unless the
\* answer was cut; or the call fails; or the provider asks to be asked later.
Respond(c) ==
  /\ Now(c).at = "calling"
  /\ LET t == Now(c)
         Broken == IF t.attempt = 0 THEN Set(c, Again(t, TRUE)) ELSE End(c, "down")
     IN \/ Holds /\ End(c, "json")
        \/ Failing /\ End(c, "none")
        \/ Failing /\ IF t.attempt = 0 THEN Set(c, Again(t, FALSE)) ELSE End(c, "none")
        \/ Failing /\ Broken
        \/ Failing /\ IF t.waits < MaxWaits /\ t.time # "gone"
                    THEN Set(c, [t EXCEPT !.at = "waiting", !.waits = @ + 1])
                    ELSE Broken
  /\ UNCHANGED <<opt, report>>

PagesOf(items) == {i.page : i \in items}

\* Fault: outlets that the first look had are searched again.
WiderUnaware(c, hits) ==
  {[found |-> Now(c).found \cup {WebItem(p) : p \in top}, left |-> Now(c).left] :
     top \in UNION {Firsts(best, opt.cap) : best \in OnePerOutlet(hits \ (PagesOf(Now(c).found) \cup {Own}))}}

\* SecondLooker.recheck: pages that the first look did not see, on outlets it did
\* not have, are added to what the first look was judged on.
Wider(c, hits) ==
  LET had == Now(c).found
      seen == PagesOf(had) \cup {r.page : r \in Now(c).left} \cup {Own}
      fresh == {p \in hits \ seen : Outlet[p] \notin {Outlet[q] : q \in PagesOf(had)}}
  IN {[found |-> had \cup {WebItem(p) : p \in top},
       left |-> {r \in Now(c).left : r.stage = "retrieval"}
                \cup Reject({WebItem(p) : p \in {q \in fresh : \A k \in top : Outlet[q] # Outlet[k]}},
                            "retrieval")] :
        top \in UNION {Firsts(best, opt.cap) : best \in OnePerOutlet(fresh)}}

SearchAgain(c) ==
  /\ Now(c).at = "searching"
  /\ \/ Holds /\ \E hits \in Searched(c) : \E w \in Wider(c, hits) :
          Set(c, [Now(c) EXCEPT !.at = "ranking", !.found = w.found, !.left = w.left])
     \/ Failing /\ \E w \in Wider(c, {}) :
          Set(c, [Now(c) EXCEPT !.at = "ranking", !.found = w.found, !.left = w.left])
  /\ UNCHANGED <<opt, report>>

-----------------------------------------------------------------------------
(* The article. *)

Worst(checks) == CHOOSE v \in {k.verdict : k \in checks} :
                   \A k \in checks : Severity[k.verdict] <= Severity[v]

\* A claim whose search or model failed was not checked.
Failed(check) == check.searchDown \/ check.llmDown

Count(P(_)) == Cardinality({c \in DOMAIN claims : P(claims[c].check)})

IsJudged(check) == ~Failed(check) /\ check.verdict # "UNVERIFIED"
IsUnverified(check) == ~Failed(check) /\ check.verdict = "UNVERIFIED"

\* FactChecker._aggregate_verdict and _coverage.
Reported ==
  LET checks == {claims[c].check : c \in DOMAIN claims}
      judged == {k \in checks : IsJudged(k)}
  IN [at |-> "done",
      overall |-> IF checks = {} THEN "UNVERIFIED" ELSE Worst(checks),
      found |-> IF judged = {} THEN "none" ELSE Worst(judged),
      judged |-> Count(IsJudged), unverified |-> Count(IsUnverified),
      notChecked |-> Count(Failed)]

\* The pool's results are read in order: the first claim that raised calls off
\* those no worker has taken.
CallOff ==
  /\ report.at = "checking"
  /\ \E c \in DOMAIN claims :
       /\ Now(c).at = "failed"
       /\ \A d \in 1..(c - 1) : Now(d).at = "done"
  /\ \E c \in DOMAIN claims : Now(c).at = "queued"
  /\ claims' = [c \in DOMAIN claims |-> IF Now(c).at = "queued"
                                        THEN [Now(c) EXCEPT !.at = "dropped"] ELSE Now(c)]
  /\ UNCHANGED <<opt, report, failures>>

\* The pool is left when its threads are over, and one claim that raised fails
\* the article.
Finish ==
  /\ report.at = "checking"
  /\ \A c \in DOMAIN claims : Now(c).at \notin Busy \cup {"queued"}
  /\ report' = IF \E c \in DOMAIN claims : Now(c).at = "failed"
               THEN NothingReported("failed") ELSE Reported
  /\ UNCHANGED <<opt, claims, failures>>

Over == report.at \in {"done", "failed"} /\ UNCHANGED claimVars

Step(c) == Retrieve(c) \/ Rank(c) \/ Ask(c) \/ Permit(c) \/ Respond(c) \/ SearchAgain(c)

ClaimsNext ==
  \/ Select \/ CallOff \/ Finish
  \/ \E c \in DOMAIN claims : BeginClaim(c) \/ TimePasses(c) \/ Step(c)
  \/ Over

ClaimsSpec == ClaimsInit /\ [][ClaimsNext]_claimVars

-----------------------------------------------------------------------------
(* Properties. *)

ClaimsTypeOK ==
  /\ opt \in Options
  /\ claims \in Seq(Claim)
  /\ report \in [at : {"selecting", "checking", "done", "failed"}, overall : ClaimVerdicts,
                 found : Definitive \cup {"none"}, judged : Nat, unverified : Nat,
                 notChecked : Nat]
  /\ failures \in 0..MaxFailures

Checks == {claims[c].check : c \in {d \in DOMAIN claims : claims[d].at = "done"}}

OnEvidence(check, i) == i \in check.cited /\ check.stances[i] # "off"

\* A claim is called true, partly true, false or misleading only on enough sources,
\* one of them cited and not called off the subject by the model; where the rules
\* hold a verdict to its stances (holds_to_stances), nothing is called false
\* without a source cited against it, nor true without one cited for it; and never
\* when the model was not reached.
VerdictsAreGrounded ==
  \A check \in Checks : check.verdict \in Definitive =>
    LET cited == {check.stances[i] : i \in {j \in DOMAIN check.evidence : OnEvidence(check, j)}}
    IN /\ ~check.llmDown /\ check.usable
       /\ Len(check.evidence) >= opt.floor /\ cited # {}
       /\ HoldsToStances /\ check.verdict = "FALSE" => "contradicts" \in cited
       /\ HoldsToStances /\ check.verdict \in {"TRUE", "PARTIALLY_TRUE"} => "supports" \in cited

WebPages(check) == {i.page : i \in {j \in ToSet(check.evidence) : j.origin = "web"}}

\* After one look or two, a claim is judged on one page of each outlet on the web
\* at most, and never on the article it was taken from: neither the search, the
\* corpus nor the second look's search brings it back.
CorroborationIsIndependent ==
  \A check \in Checks :
    /\ \A i \in DOMAIN check.evidence : check.evidence[i].page # Own
    /\ \A p, q \in WebPages(check) : Outlet[p] = Outlet[q] => p = q

\* models/fact_checker/fact_check.py:83-85: independent_domains is "How many
\* distinct domains back this claim".
DomainsAreOutlets ==
  \A check \in Checks :
    check.domains <= Cardinality({Outlet[check.evidence[i].page] : i \in DOMAIN check.evidence})
=============================================================================
