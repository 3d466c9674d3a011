----------------------------- MODULE Knowledge -----------------------------
(***************************************************************************)
(* What the knowledge graph holds (services/graph/graph_writer.py).  Two   *)
(* writers share it: the pipeline, which replaces what it wrote of an      *)
(* article each time it analyses it, and the labeller, which replaces what *)
(* one labelled fact wrote.  They meet on the claims: the same sentence is *)
(* one node, whichever article, run or fact brought it.                    *)
(*                                                                         *)
(* A write is one transaction: all its statements, or none.  Every node    *)
(* is its key (schema.py's constraints), so MERGE is a union of sets.      *)
(***************************************************************************)
EXTENDS Naturals, FiniteSets

CONSTANTS Articles,    \* article URLs
          Claims,      \* claim texts, up to case and spacing
          EntityOf,    \* [Claims -> the entity a claim mentions]
          Links,       \* evidence pages
          Facts,       \* labelled facts
          Verdicts,
          MaxWrites    \* bound: writes to the graph

VARIABLES graph,       \* [claims, entities, evidence, edges]
          analysed,    \* history: the last analysis written of each article
          checked,     \* history: the last check of each claim by the pipeline
          labelled,    \* history: each fact as last saved
          writes
graphVars == <<graph, analysed, checked, labelled, writes>>

None == "none"

\* A node is its label and its key, so nodes of different labels are never one.
ASSUME KnowledgeAssumption ==
    /\ Claims \cap (Articles \cup Links \cup Verdicts) = {}
    /\ None \notin Facts
    /\ MaxWrites \in Nat

Empty == [claims |-> {}, entities |-> {}, evidence |-> {}, edges |-> {}]

\* A relationship, with the method and the fact that wrote it.
Edge(from, type, to, method, fact) ==
    [from |-> from, type |-> type, to |-> to, method |-> method, fact |-> fact]

Piped(from, type, to) == Edge(from, type, to, "pipeline", None)

\* An analysis: the article's own claims, and the verdict and pages of each check.
\* A checked claim need not be one of the article's: the selector rewrites some.
Analyses ==
    [url : Articles, claims : SUBSET Claims,
     checks : UNION {[C -> [verdict : Verdicts, links : SUBSET Links]]
                        : C \in SUBSET Claims}]

\* What a history is after it learns of more.
Noted(old, new) ==
    [x \in DOMAIN old \cup DOMAIN new |-> IF x \in DOMAIN new THEN new[x] ELSE old[x]]

FactFiles == [url : Articles, claim : Claims, verdict : Verdicts,
              links : SUBSET Links]
----------------------------------------------------------------------------
(* The pipeline's statements, in order *)

ClaimRows(a) == a.claims \cup DOMAIN a.checks

Containers(g, c) == {e \in g.edges : e.type = "CONTAINS_CLAIM" /\ e.to = c}

\* DETACH DELETE: the claims go with every relationship they have.
Detach(g, gone) ==
    [g EXCEPT !.claims = @ \ gone,
              !.edges = {e \in @ : e.from \notin gone /\ e.to \notin gone}]

\* Fault: a claim goes when the pipeline no longer holds it, labelled or not.
ClearEverything(g, url) ==
    LET mine == {e \in g.edges : e.from = url /\ e.method = "pipeline"}
        left == [g EXCEPT !.edges = @ \ mine]
    IN  Detach(left, {c \in {e.to : e \in mine} \cap g.claims :
                        \A e \in Containers(left, c) : e.method # "pipeline"})

\* What the last run wrote of this article, and the claims nothing else contains.
ClearArticle(g, url) ==
    LET mine == {e \in g.edges : e.from = url /\ e.method = "pipeline"}
        left == [g EXCEPT !.edges = @ \ mine]
    IN  Detach(left, {c \in {e.to : e \in mine} \cap g.claims :
                        Containers(left, c) = {}})

LinkClaims(g, a) ==
    [g EXCEPT !.claims = @ \cup ClaimRows(a),
              !.edges = @ \cup {Piped(a.url, "CONTAINS_CLAIM", c) : c \in ClaimRows(a)}]

\* Entities come with the article's own claims only, and are the article's too.
LinkEntities(g, a) ==
    [g EXCEPT !.entities = @ \cup {EntityOf[c] : c \in a.claims},
              !.edges = @ \cup {Piped(c, "MENTIONS", EntityOf[c]) : c \in a.claims}
                          \cup {Piped(a.url, "MENTIONS", EntityOf[c]) : c \in a.claims}]

\* Fault: the verdicts of an earlier run are left beside the new ones.
KeepVerdicts(g, C) == g

ClearVerdicts(g, C) ==
    [g EXCEPT !.edges = {e \in @ : ~ /\ e.from \in C /\ e.method = "pipeline"
                                     /\ e.type \in {"HAS_VERDICT", "CHECKED_AGAINST"}}]

LinkVerdicts(g, checks) ==
    [g EXCEPT
        !.edges = @ \cup {Piped(c, "HAS_VERDICT", checks[c].verdict) : c \in DOMAIN checks},
        !.evidence = @ \cup UNION {checks[c].links : c \in DOMAIN checks}]

\* Evidence is keyed by claim, page and method: a second fact that gives the same
\* page for the same claim takes the relationship over.
LinkEvidence(g, c, links, method, fact) ==
    [g EXCEPT
        !.evidence = @ \cup links,
        !.edges = {e \in @ : ~ /\ e.from = c /\ e.type = "CHECKED_AGAINST"
                               /\ e.method = method /\ e.to \in links}
                  \cup {Edge(c, "CHECKED_AGAINST", l, method, fact) : l \in links}]

LinkChecks(g, checks) ==
    [LinkVerdicts(g, checks) EXCEPT
        !.edges = @ \cup {Piped(p[1], "CHECKED_AGAINST", p[2])
                            : p \in {q \in Claims \X Links : q[1] \in DOMAIN checks
                                                             /\ q[2] \in checks[q[1]].links}}]

\* Nodes no relationship touches.  An evidence page always has its publisher's.
PruneOrphans(g) ==
    LET touched == {e.from : e \in g.edges} \cup {e.to : e \in g.edges}
    IN  [g EXCEPT !.claims = @ \cap touched, !.entities = @ \cap touched]

AnalysisStatements(g, a) ==
    LET linked == LinkEntities(LinkClaims(ClearArticle(g, a.url), a), a)
    IN  PruneOrphans(LinkChecks(ClearVerdicts(linked, DOMAIN a.checks), a.checks))
----------------------------------------------------------------------------
(* The labeller's statements, in order *)

ClearFact(g, f) == [g EXCEPT !.edges = {e \in @ : e.fact # f}]

LinkFact(g, f, fact) ==
    [g EXCEPT !.claims = @ \cup {fact.claim},
              !.edges = @ \cup {Edge(fact.url, "CONTAINS_CLAIM", fact.claim, "manual", f),
                                Edge(fact.claim, "HAS_VERDICT", fact.verdict, "manual", f)}]

FactStatements(g, f, fact) ==
    PruneOrphans(LinkEvidence(LinkFact(ClearFact(g, f), f, fact),
                              fact.claim, fact.links, "manual", f))
----------------------------------------------------------------------------
(* The two writers *)

WriteAnalysis ==
    /\ writes < MaxWrites
    /\ \E a \in Analyses :
          /\ graph' = AnalysisStatements(graph, a)
          /\ analysed' = Noted(analysed, [u \in {a.url} |-> a])
          /\ checked' = Noted(checked, a.checks)
    /\ writes' = writes + 1
    /\ UNCHANGED labelled

WriteLabelledFact ==
    /\ writes < MaxWrites
    /\ \E f \in Facts, fact \in FactFiles :
          /\ graph' = FactStatements(graph, f, fact)
          /\ labelled' = Noted(labelled, [x \in {f} |-> fact])
    /\ writes' = writes + 1
    /\ UNCHANGED <<analysed, checked>>

GraphInit ==
    /\ graph = Empty
    /\ analysed = << >> /\ checked = << >> /\ labelled = << >> /\ writes = 0

GraphNext == WriteAnalysis \/ WriteLabelledFact

GraphSpec == GraphInit /\ [][GraphNext]_graphVars
----------------------------------------------------------------------------
(* What the graph must show *)

Holds(method, c, type) ==
    {e.to : e \in {x \in graph.edges : x.from = c /\ x.type = type /\ x.method = method}}

\* Of the pipeline, the graph shows its last word: the claims of an article's last
\* analysis, and of a claim the verdict and the pages of its last check, whatever
\* articles and facts share it and however often each is written again.
LastWordIsShown ==
    /\ \A u \in DOMAIN analysed :
          Holds("pipeline", u, "CONTAINS_CLAIM") = ClaimRows(analysed[u])
    /\ \A c \in graph.claims \cap DOMAIN checked :
          /\ Holds("pipeline", c, "HAS_VERDICT") \in {{}, {checked[c].verdict}}
          /\ Holds("pipeline", c, "CHECKED_AGAINST") \in {{}, checked[c].links}
    /\ \A u \in DOMAIN analysed : \A c \in DOMAIN analysed[u].checks :
          Holds("pipeline", c, "HAS_VERDICT") # {}

\* What the labeller wrote is never the pipeline's to remove: a labelled fact is in
\* the graph as it was last saved - its claim on its article, its verdict, no link it
\* no longer gives - as long as no other fact labels the same sentence.
LabelsStand ==
    \A f \in DOMAIN labelled :
        LET fact == labelled[f]
        IN  (\A g \in DOMAIN labelled \ {f} : labelled[g].claim # fact.claim) =>
                /\ fact.claim \in graph.claims
                /\ \E e \in Containers(graph, fact.claim) : e.from = fact.url /\ e.fact = f
                /\ Holds("manual", fact.claim, "HAS_VERDICT") = {fact.verdict}
                /\ Holds("manual", fact.claim, "CHECKED_AGAINST") \subseteq fact.links

\* Two writers on shared claims, and each one's last word stands.
EachHasItsWord == LastWordIsShown /\ LabelsStand

\* What the writer's comment says: a claim is only ever reachable from an article.
ClaimsAreReachable == \A c \in graph.claims : Containers(graph, c) # {}
=============================================================================
