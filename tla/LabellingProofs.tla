--------------------------- MODULE LabellingProofs ---------------------------
(***************************************************************************)
(* The labelled set keeps its word, for any number of facts, batches, edits *)
(* and crashes: its halves stay apart, its queue forgets nothing; and in    *)
(* the graph it shares with the pipeline each writer finds what it wrote    *)
(* last, for any articles, claims and labelled facts.                       *)
(***************************************************************************)
EXTENDS Labelling, Knowledge, FiniteSetTheorems, SequenceTheorems,
        WellFoundedInduction, TLAPS

-----------------------------------------------------------------------------
(* The graph. *)

IsGraph(g) == {"claims", "entities", "evidence", "edges"} \subseteq DOMAIN g

CheckTypes == {"HAS_VERDICT", "CHECKED_AGAINST"}

\* An edge leads from a node that is there to a node of its kind.
Woven(g) ==
  /\ IsGraph(g) /\ g.claims \subseteq Claims
  /\ \A e \in g.edges :
       /\ e.type = "CONTAINS_CLAIM" => e.from \in Articles /\ e.to \in g.claims
       /\ e.type \in CheckTypes => e.from \in g.claims /\ e.to \in Links \cup Verdicts
       /\ e.method = "pipeline" => e.fact = None

\* A labelled fact has its claim and its verdict in the graph, and an edge of the
\* labeller is of what its fact says now.
FactEdges(g) ==
  /\ \A f \in DOMAIN labelled :
       /\ Edge(labelled[f].url, "CONTAINS_CLAIM", labelled[f].claim, "manual", f) \in g.edges
       /\ Edge(labelled[f].claim, "HAS_VERDICT", labelled[f].verdict, "manual", f) \in g.edges
  /\ \A e \in g.edges : e.method = "manual" =>
       /\ e.fact \in DOMAIN labelled
       /\ e.type \in {"CONTAINS_CLAIM"} \cup CheckTypes
       /\ e.type \in CheckTypes => e.from = labelled[e.fact].claim
       /\ e.type = "HAS_VERDICT" => e.to = labelled[e.fact].verdict
       /\ e.type = "CHECKED_AGAINST" => e.to \in labelled[e.fact].links

Histories ==
  /\ DOMAIN analysed \subseteq Articles
  /\ DOMAIN labelled \subseteq Facts /\ \A f \in DOMAIN labelled : labelled[f] \in FactFiles

GraphInv == Woven(graph) /\ FactEdges(graph) /\ LastWordIsShown /\ Histories

\* What the invariant is for.
LEMMA GraphImplies == GraphInv => EachHasItsWord
  <1> SUFFICES ASSUME GraphInv PROVE LabelsStand
    BY DEF GraphInv, EachHasItsWord
  <1> SUFFICES ASSUME NEW f \in DOMAIN labelled,
                      \A g \in DOMAIN labelled \ {f} : labelled[g].claim # labelled[f].claim
               PROVE  LET fact == labelled[f]
                      IN /\ fact.claim \in graph.claims
                         /\ \E e \in Containers(graph, fact.claim) : e.from = fact.url /\ e.fact = f
                         /\ Holds("manual", fact.claim, "HAS_VERDICT") = {fact.verdict}
                         /\ Holds("manual", fact.claim, "CHECKED_AGAINST") \subseteq fact.links
    BY DEF LabelsStand
  <1> DEFINE fact == labelled[f]
             word == Edge(fact.url, "CONTAINS_CLAIM", fact.claim, "manual", f)
             verdict == Edge(fact.claim, "HAS_VERDICT", fact.verdict, "manual", f)
  <1>1. word \in graph.edges /\ verdict \in graph.edges
    BY DEF GraphInv, FactEdges
  <1>2. /\ word.type = "CONTAINS_CLAIM" /\ word.to = fact.claim
        /\ word.from = fact.url /\ word.fact = f
        /\ verdict.type = "HAS_VERDICT" /\ verdict.from = fact.claim
        /\ verdict.to = fact.verdict /\ verdict.method = "manual"
    BY DEF Edge
  <1>3. fact.claim \in graph.claims
    BY <1>1, <1>2 DEF GraphInv, Woven
  <1>4. \E e \in Containers(graph, fact.claim) : e.from = fact.url /\ e.fact = f
    BY <1>1, <1>2 DEF Containers
  <1>5. ASSUME NEW e \in graph.edges, e.method = "manual", e.from = fact.claim, e.type \in CheckTypes
        PROVE  e.fact = f
    BY <1>5 DEF GraphInv, FactEdges
  <1>6. Holds("manual", fact.claim, "HAS_VERDICT") = {fact.verdict}
    <2>1. \A e \in graph.edges : e.from = fact.claim /\ e.type = "HAS_VERDICT" /\ e.method = "manual"
                                 => e.to = fact.verdict
      BY <1>5 DEF GraphInv, FactEdges, CheckTypes
    <2> QED BY <1>1, <1>2, <2>1 DEF Holds
  <1>7. Holds("manual", fact.claim, "CHECKED_AGAINST") \subseteq fact.links
    <2>1. \A e \in graph.edges : e.from = fact.claim /\ e.type = "CHECKED_AGAINST" /\ e.method = "manual"
                                 => e.to \in fact.links
      BY <1>5 DEF GraphInv, FactEdges, CheckTypes
    <2> QED BY <2>1 DEF Holds
  <1> QED BY <1>3, <1>4, <1>6, <1>7

\* The graph is empty.
LEMMA GraphStart == GraphInit => GraphInv
  BY DEF GraphInit, GraphInv, Woven, FactEdges, LastWordIsShown, Histories, IsGraph, Empty

-----------------------------------------------------------------------------
(* What an analysis makes of the graph. *)

OfArticle(g, url) == {e \in g.edges : e.from = url /\ e.method = "pipeline"}

\* The claims that only the article's last analysis contained.
Gone(g, url) ==
  {c \in {e.to : e \in OfArticle(g, url)} \cap g.claims :
     \A e \in g.edges : e.type = "CONTAINS_CLAIM" /\ e.to = c => e \in OfArticle(g, url)}

\* The edges that stay, and those that come.
Staying(g, a) ==
  {e \in g.edges \ OfArticle(g, a.url) :
     /\ e.from \notin Gone(g, a.url) /\ e.to \notin Gone(g, a.url)
     /\ ~(e.from \in DOMAIN a.checks /\ e.method = "pipeline" /\ e.type \in CheckTypes)}

Contained(a) == {Piped(a.url, "CONTAINS_CLAIM", c) : c \in ClaimRows(a)}
Mentioned(a) ==
  {Piped(c, "MENTIONS", EntityOf[c]) : c \in a.claims}
  \cup {Piped(a.url, "MENTIONS", EntityOf[c]) : c \in a.claims}
Verdicted(a) == {Piped(c, "HAS_VERDICT", a.checks[c].verdict) : c \in DOMAIN a.checks}
Against(a) ==
  {Piped(p[1], "CHECKED_AGAINST", p[2])
     : p \in {q \in Claims \X Links : q[1] \in DOMAIN a.checks /\ q[2] \in a.checks[q[1]].links}}

Touched(edges) == {e.from : e \in edges} \cup {e.to : e \in edges}

\* What the statements leave.
LEMMA AnalysisLeaves ==
  ASSUME NEW g, IsGraph(g), NEW a \in Analyses
  PROVE  LET new == AnalysisStatements(g, a)
         IN /\ IsGraph(new)
            /\ new.edges = Staying(g, a) \cup Contained(a) \cup Mentioned(a)
                           \cup Verdicted(a) \cup Against(a)
            /\ new.claims = ((g.claims \ Gone(g, a.url)) \cup ClaimRows(a)) \cap Touched(new.edges)
  <1> DEFINE mine == OfArticle(g, a.url)
             left == [g EXCEPT !.edges = @ \ mine]
             gone == {c \in {e.to : e \in mine} \cap g.claims : Containers(left, c) = {}}
             g1 == ClearArticle(g, a.url)
             g2 == LinkClaims(g1, a)
             g3 == LinkEntities(g2, a)
             g4 == ClearVerdicts(g3, DOMAIN a.checks)
             g5 == LinkVerdicts(g4, a.checks)
             g6 == LinkChecks(g4, a.checks)
  <1>1. IsGraph(left) /\ left.edges = g.edges \ mine /\ left.claims = g.claims
    BY DEF IsGraph
  <1>2. gone = Gone(g, a.url)
    BY <1>1 DEF Gone, Containers
  <1>3. /\ IsGraph(g1) /\ g1.claims = g.claims \ gone
        /\ g1.edges = {e \in g.edges \ mine : e.from \notin gone /\ e.to \notin gone}
    <2>1. g1 = Detach(left, gone)
      BY DEF ClearArticle, OfArticle
    <2> QED BY <1>1, <2>1 DEF Detach, IsGraph
  <1>4. /\ IsGraph(g2) /\ g2.claims = g1.claims \cup ClaimRows(a)
        /\ g2.edges = g1.edges \cup Contained(a)
    BY <1>3 DEF LinkClaims, IsGraph, Contained
  <1>5. /\ IsGraph(g3) /\ g3.claims = g2.claims
        /\ g3.edges = g2.edges \cup Mentioned(a)
    BY <1>4 DEF LinkEntities, IsGraph, Mentioned
  <1>6. /\ IsGraph(g4) /\ g4.claims = g3.claims
        /\ g4.edges = {e \in g3.edges : ~(e.from \in DOMAIN a.checks /\ e.method = "pipeline"
                                          /\ e.type \in CheckTypes)}
    BY <1>5 DEF ClearVerdicts, IsGraph, CheckTypes
  <1>7. /\ IsGraph(g5) /\ g5.claims = g4.claims /\ g5.edges = g4.edges \cup Verdicted(a)
    BY <1>6 DEF LinkVerdicts, IsGraph, Verdicted
  <1>8. /\ IsGraph(g6) /\ g6.claims = g4.claims /\ g6.edges = g5.edges \cup Against(a)
    BY <1>7 DEF LinkChecks, IsGraph, Against
  <1>9. AnalysisStatements(g, a) = PruneOrphans(g6)
    BY DEF AnalysisStatements
  <1>10. /\ IsGraph(PruneOrphans(g6)) /\ PruneOrphans(g6).edges = g6.edges
         /\ PruneOrphans(g6).claims = g6.claims \cap Touched(g6.edges)
    BY <1>8 DEF PruneOrphans, IsGraph, Touched
  <1>11. \A e \in Contained(a) \cup Mentioned(a) : e.type \notin CheckTypes
    BY DEF Contained, Mentioned, Piped, Edge, CheckTypes
  <1>12. g6.edges = Staying(g, a) \cup Contained(a) \cup Mentioned(a) \cup Verdicted(a) \cup Against(a)
    <2>1. g4.edges = Staying(g, a) \cup Contained(a) \cup Mentioned(a)
      <3> HIDE DEF g1, g2, g3, g4, gone, mine
      <3>1. \A e \in g1.edges : e \in g4.edges <=> e \in Staying(g, a)
        BY <1>2, <1>3, <1>4, <1>5, <1>6 DEF Staying, mine
      <3>2. Staying(g, a) \subseteq g1.edges
        BY <1>2, <1>3 DEF Staying, mine
      <3>3. g4.edges \subseteq g1.edges \cup Contained(a) \cup Mentioned(a)
        BY <1>4, <1>5, <1>6
      <3>4. Contained(a) \cup Mentioned(a) \subseteq g4.edges
        BY <1>4, <1>5, <1>6, <1>11
      <3> QED BY <3>1, <3>2, <3>3, <3>4
    <2> HIDE DEF g4, g5, g6
    <2> QED BY <1>7, <1>8, <2>1
  <1>13. g6.claims = (g.claims \ Gone(g, a.url)) \cup ClaimRows(a)
    <2> HIDE DEF g1, g2, g3, g4, g5, g6, gone
    <2> QED BY <1>2, <1>3, <1>4, <1>5, <1>6, <1>8
  <1> HIDE DEF g6
  <1> QED BY <1>9, <1>10, <1>12, <1>13

\* What comes is the pipeline's, and says what the analysis says.
LEMMA ComesAs ==
  ASSUME NEW a \in Analyses
  PROVE  /\ \A e \in Contained(a) : /\ e.type = "CONTAINS_CLAIM" /\ e.method = "pipeline" /\ e.fact = None
                                    /\ e.from = a.url /\ e.to \in ClaimRows(a)
         /\ \A c \in ClaimRows(a) : \E e \in Contained(a) : e.to = c
         /\ \A e \in Mentioned(a) : e.type = "MENTIONS" /\ e.method = "pipeline" /\ e.fact = None
         /\ \A e \in Verdicted(a) : /\ e.type = "HAS_VERDICT" /\ e.method = "pipeline" /\ e.fact = None
                                    /\ e.from \in DOMAIN a.checks /\ e.to = a.checks[e.from].verdict
         /\ \A c \in DOMAIN a.checks : \E e \in Verdicted(a) : e.from = c
         /\ \A e \in Against(a) : /\ e.type = "CHECKED_AGAINST" /\ e.method = "pipeline" /\ e.fact = None
                                  /\ e.from \in DOMAIN a.checks /\ e.to \in a.checks[e.from].links
         /\ \A c \in DOMAIN a.checks : \A l \in a.checks[c].links :
              \E e \in Against(a) : e.from = c /\ e.to = l
         /\ a.url \in Articles /\ ClaimRows(a) \subseteq Claims /\ DOMAIN a.checks \subseteq ClaimRows(a)
         /\ \A c \in DOMAIN a.checks : a.checks[c].verdict \in Verdicts /\ a.checks[c].links \subseteq Links
  <1>1. /\ a.url \in Articles /\ a.claims \subseteq Claims
        /\ \E C \in SUBSET Claims : a.checks \in [C -> [verdict : Verdicts, links : SUBSET Links]]
    BY DEF Analyses
  <1>2. /\ ClaimRows(a) \subseteq Claims /\ DOMAIN a.checks \subseteq ClaimRows(a)
        /\ \A c \in DOMAIN a.checks : a.checks[c].verdict \in Verdicts /\ a.checks[c].links \subseteq Links
    BY <1>1 DEF ClaimRows
  <1>3. /\ \A e \in Contained(a) : /\ e.type = "CONTAINS_CLAIM" /\ e.method = "pipeline" /\ e.fact = None
                                   /\ e.from = a.url /\ e.to \in ClaimRows(a)
        /\ \A c \in ClaimRows(a) : \E e \in Contained(a) : e.to = c
    <2>1. \A c : LET e == Piped(a.url, "CONTAINS_CLAIM", c)
                 IN /\ e.type = "CONTAINS_CLAIM" /\ e.method = "pipeline" /\ e.fact = None
                    /\ e.from = a.url /\ e.to = c
      BY DEF Piped, Edge
    <2> QED BY <2>1 DEF Contained
  <1>4. \A e \in Mentioned(a) : e.type = "MENTIONS" /\ e.method = "pipeline" /\ e.fact = None
    BY DEF Mentioned, Piped, Edge
  <1>5. /\ \A e \in Verdicted(a) : /\ e.type = "HAS_VERDICT" /\ e.method = "pipeline" /\ e.fact = None
                                   /\ e.from \in DOMAIN a.checks /\ e.to = a.checks[e.from].verdict
        /\ \A c \in DOMAIN a.checks : \E e \in Verdicted(a) : e.from = c
    <2>1. \A c, v : LET e == Piped(c, "HAS_VERDICT", v)
                    IN /\ e.type = "HAS_VERDICT" /\ e.method = "pipeline" /\ e.fact = None
                       /\ e.from = c /\ e.to = v
      BY DEF Piped, Edge
    <2>2. ASSUME NEW e \in Verdicted(a)
          PROVE  /\ e.type = "HAS_VERDICT" /\ e.method = "pipeline" /\ e.fact = None
                 /\ e.from \in DOMAIN a.checks /\ e.to = a.checks[e.from].verdict
      <3>1. PICK c \in DOMAIN a.checks : e = Piped(c, "HAS_VERDICT", a.checks[c].verdict)
        BY DEF Verdicted
      <3> QED BY <2>1, <3>1
    <2>3. ASSUME NEW c \in DOMAIN a.checks PROVE \E e \in Verdicted(a) : e.from = c
      <3>1. Piped(c, "HAS_VERDICT", a.checks[c].verdict) \in Verdicted(a)
        BY DEF Verdicted
      <3> QED BY <2>1, <3>1
    <2> QED BY <2>2, <2>3
  <1>6. \A e \in Against(a) : /\ e.type = "CHECKED_AGAINST" /\ e.method = "pipeline" /\ e.fact = None
                              /\ e.from \in DOMAIN a.checks /\ e.to \in a.checks[e.from].links
    BY DEF Against, Piped, Edge
  <1>7. ASSUME NEW c \in DOMAIN a.checks, NEW l \in a.checks[c].links
        PROVE  \E e \in Against(a) : e.from = c /\ e.to = l
    <2>1. <<c, l>> \in {q \in Claims \X Links : q[1] \in DOMAIN a.checks /\ q[2] \in a.checks[q[1]].links}
      BY <1>2
    <2>2. Piped(c, "CHECKED_AGAINST", l) \in Against(a)
      BY <2>1 DEF Against
    <2> QED BY <2>2 DEF Piped, Edge
  <1> QED BY <1>1, <1>2, <1>3, <1>4, <1>5, <1>6, <1>7

\* A claim that somebody else contains is not gone, and what leads to no claim and
\* from none that is gone stays.
LEMMA NotGone ==
  ASSUME NEW g, Woven(g), NEW url \in Articles
  PROVE  /\ Gone(g, url) \subseteq Claims /\ Gone(g, url) \subseteq g.claims
         /\ \A e \in g.edges : e.type = "CONTAINS_CLAIM" /\ e \notin OfArticle(g, url)
                               => e.to \notin Gone(g, url) /\ e.from \notin Gone(g, url)
         /\ \A e \in g.edges : e.type \in CheckTypes /\ e.from \notin Gone(g, url)
                               => e.to \notin Gone(g, url) /\ e \notin OfArticle(g, url)
  <1>1. Gone(g, url) \subseteq Claims /\ Gone(g, url) \subseteq g.claims
    BY DEF Gone, Woven
  <1>2. \A e \in g.edges : e.type = "CONTAINS_CLAIM" /\ e \notin OfArticle(g, url)
                           => e.to \notin Gone(g, url) /\ e.from \notin Gone(g, url)
    BY <1>1, KnowledgeAssumption DEF Gone, Woven
  <1>3. \A e \in g.edges : e.type \in CheckTypes /\ e.from \notin Gone(g, url)
                           => e.to \notin Gone(g, url) /\ e \notin OfArticle(g, url)
    BY <1>1, KnowledgeAssumption DEF Woven, OfArticle
  <1> QED BY <1>1, <1>2, <1>3

\* An analysis leaves the graph woven.
LEMMA AnalysisWoven ==
  ASSUME NEW g, Woven(g), NEW a \in Analyses
  PROVE  Woven(AnalysisStatements(g, a))
  <1> DEFINE new == AnalysisStatements(g, a)
  <1>1. IsGraph(g)
    BY DEF Woven
  <1>2. /\ IsGraph(new)
        /\ new.edges = Staying(g, a) \cup Contained(a) \cup Mentioned(a) \cup Verdicted(a) \cup Against(a)
        /\ new.claims = ((g.claims \ Gone(g, a.url)) \cup ClaimRows(a)) \cap Touched(new.edges)
    BY <1>1, AnalysisLeaves
  <1> HIDE DEF new
  <1>3. a.url \in Articles /\ ClaimRows(a) \subseteq Claims
    BY ComesAs
  <1>4. new.claims \subseteq Claims
    BY <1>2, <1>3 DEF Woven
  <1>5. \A e \in new.edges : e.from \in Touched(new.edges) /\ e.to \in Touched(new.edges)
    BY DEF Touched
  <1>6. ASSUME NEW e \in Staying(g, a)
        PROVE  /\ e.type = "CONTAINS_CLAIM" => e.from \in Articles /\ e.to \in new.claims
               /\ e.type \in CheckTypes => e.from \in new.claims /\ e.to \in Links \cup Verdicts
               /\ e.method = "pipeline" => e.fact = None
    <2>1. e \in g.edges /\ e \in new.edges /\ e.from \notin Gone(g, a.url) /\ e.to \notin Gone(g, a.url)
      BY <1>2 DEF Staying
    <2>2. /\ e.type = "CONTAINS_CLAIM" => e.from \in Articles /\ e.to \in g.claims
          /\ e.type \in CheckTypes => e.from \in g.claims /\ e.to \in Links \cup Verdicts
          /\ e.method = "pipeline" => e.fact = None
      BY <2>1 DEF Woven
    <2> QED BY <1>2, <1>5, <2>1, <2>2
  <1>7. ASSUME NEW e \in Contained(a)
        PROVE  /\ e.type = "CONTAINS_CLAIM" /\ e.from \in Articles /\ e.to \in new.claims /\ e.fact = None
    <2>1. e.type = "CONTAINS_CLAIM" /\ e.fact = None /\ e.from = a.url /\ e.to \in ClaimRows(a)
      BY ComesAs
    <2>2. e \in new.edges
      BY <1>2
    <2> QED BY <1>2, <1>3, <1>5, <2>1, <2>2
  <1>8. ASSUME NEW e \in Verdicted(a) \cup Against(a)
        PROVE  e.type \in CheckTypes /\ e.from \in new.claims /\ e.to \in Links \cup Verdicts /\ e.fact = None
    <2>1. /\ e.type \in CheckTypes /\ e.fact = None /\ e.from \in ClaimRows(a)
          /\ e.to \in Links \cup Verdicts
      BY ComesAs DEF CheckTypes
    <2>2. e \in new.edges
      BY <1>2
    <2> QED BY <1>2, <1>5, <2>1, <2>2
  <1>9. \A e \in Mentioned(a) : e.type = "MENTIONS" /\ e.fact = None
    BY ComesAs
  <1>10. ASSUME NEW e \in new.edges
         PROVE  /\ e.type = "CONTAINS_CLAIM" => e.from \in Articles /\ e.to \in new.claims
                /\ e.type \in CheckTypes => e.from \in new.claims /\ e.to \in Links \cup Verdicts
                /\ e.method = "pipeline" => e.fact = None
    BY <1>2, <1>6, <1>7, <1>8, <1>9 DEF CheckTypes
  <1> QED BY <1>2, <1>4, <1>10 DEF Woven, new

\* An analysis takes nothing of the labeller's, and adds nothing to it.
LEMMA AnalysisSpares ==
  ASSUME NEW g, Woven(g), FactEdges(g), Histories, NEW a \in Analyses
  PROVE  LET new == AnalysisStatements(g, a)
         IN \A e : e \in new.edges /\ e.method = "manual" <=> e \in g.edges /\ e.method = "manual"
  <1> DEFINE new == AnalysisStatements(g, a)
  <1>1. IsGraph(g) /\ a.url \in Articles
    BY ComesAs DEF Woven
  <1>2. new.edges = Staying(g, a) \cup Contained(a) \cup Mentioned(a) \cup Verdicted(a) \cup Against(a)
    BY <1>1, AnalysisLeaves
  <1> HIDE DEF new
  <1>3. \A e \in Contained(a) \cup Mentioned(a) \cup Verdicted(a) \cup Against(a) : e.method = "pipeline"
    BY ComesAs
  <1>4. ASSUME NEW e \in g.edges, e.method = "manual" PROVE e \in Staying(g, a)
    <2>1. e \notin OfArticle(g, a.url)
      BY <1>4 DEF OfArticle
    <2>2. CASE e.type = "CONTAINS_CLAIM"
      BY <1>1, <1>4, <2>1, <2>2, NotGone DEF Staying
    <2>3. CASE e.type \in CheckTypes
      <3> DEFINE f == e.fact
                 word == Edge(labelled[f].url, "CONTAINS_CLAIM", labelled[f].claim, "manual", f)
      <3>1. f \in DOMAIN labelled /\ e.from = labelled[f].claim /\ word \in g.edges
        BY <1>4, <2>3 DEF FactEdges
      <3>2. word.type = "CONTAINS_CLAIM" /\ word.to = labelled[f].claim /\ word.method = "manual"
        BY DEF Edge
      <3>3. word \notin OfArticle(g, a.url)
        BY <3>2 DEF OfArticle
      <3> HIDE DEF word
      <3>4. e.from \notin Gone(g, a.url)
        BY <1>1, <3>1, <3>2, <3>3, NotGone
      <3> QED BY <1>1, <1>4, <2>1, <2>3, <3>4, NotGone DEF Staying
    <2> QED BY <1>4, <2>2, <2>3 DEF FactEdges
  <1>5. Staying(g, a) \subseteq g.edges
    BY DEF Staying
  <1> QED BY <1>2, <1>3, <1>4, <1>5 DEF new

-----------------------------------------------------------------------------
(* The two writers keep the invariant. *)

\* What the pipeline says of a node by some of its edges.
Says(g, from, type) ==
  {e.to : e \in {x \in g.edges : x.from = from /\ x.type = type /\ x.method = "pipeline"}}

\* Of what an analysis does not write anew, the graph says as much as before.
LEMMA AnalysisSays ==
  ASSUME NEW g, Woven(g), NEW a \in Analyses
  PROVE  LET new == AnalysisStatements(g, a)
         IN /\ Says(new, a.url, "CONTAINS_CLAIM") = ClaimRows(a)
            /\ \A u \in Articles \ {a.url} : Says(new, u, "CONTAINS_CLAIM") = Says(g, u, "CONTAINS_CLAIM")
            /\ \A c \in DOMAIN a.checks :
                 /\ Says(new, c, "HAS_VERDICT") = {a.checks[c].verdict}
                 /\ Says(new, c, "CHECKED_AGAINST") = a.checks[c].links
            /\ \A type \in CheckTypes : \A c \in Claims \ DOMAIN a.checks :
                 /\ c \in Gone(g, a.url) => Says(new, c, type) = {}
                 /\ c \notin Gone(g, a.url) => Says(new, c, type) = Says(g, c, type)
  <1> DEFINE new == AnalysisStatements(g, a)
  <1>1. IsGraph(g) /\ a.url \in Articles /\ ClaimRows(a) \subseteq Claims
        /\ DOMAIN a.checks \subseteq ClaimRows(a)
    BY ComesAs DEF Woven
  <1>2. new.edges = Staying(g, a) \cup Contained(a) \cup Mentioned(a) \cup Verdicted(a) \cup Against(a)
    BY <1>1, AnalysisLeaves
  <1> HIDE DEF new
  <1>3. Staying(g, a) \subseteq g.edges /\ Staying(g, a) \cap OfArticle(g, a.url) = {}
    BY DEF Staying
  <1>4. Says(new, a.url, "CONTAINS_CLAIM") = ClaimRows(a)
    <2>1. \A e \in new.edges : e.from = a.url /\ e.type = "CONTAINS_CLAIM" /\ e.method = "pipeline"
                               => e \in Contained(a)
      BY <1>2, <1>3, ComesAs DEF OfArticle
    <2>2. Contained(a) \subseteq new.edges
      BY <1>2
    <2>3. Says(new, a.url, "CONTAINS_CLAIM") = {e.to : e \in Contained(a)}
      BY <2>1, <2>2, ComesAs DEF Says
    <2>4. \A c \in ClaimRows(a) : \E e \in Contained(a) : e.to = c
      BY ComesAs
    <2>5. \A e \in Contained(a) : e.to \in ClaimRows(a)
      BY ComesAs
    <2> QED BY <2>3, <2>4, <2>5
  <1>5. ASSUME NEW u \in Articles \ {a.url}
        PROVE  Says(new, u, "CONTAINS_CLAIM") = Says(g, u, "CONTAINS_CLAIM")
    <2>1. ASSUME NEW e \in g.edges, e.from = u, e.type = "CONTAINS_CLAIM" PROVE e \in new.edges
      <3>1. e \notin OfArticle(g, a.url)
        BY <2>1 DEF OfArticle
      <3>2. e.to \notin Gone(g, a.url) /\ e.from \notin Gone(g, a.url)
        BY <1>1, <2>1, <3>1, NotGone
      <3> QED BY <1>2, <2>1, <3>1, <3>2 DEF Staying, CheckTypes
    <2>2. \A e \in new.edges : e.from = u /\ e.type = "CONTAINS_CLAIM" => e \in g.edges
      BY <1>2, <1>3, ComesAs
    <2> QED BY <2>1, <2>2 DEF Says
  <1>6. ASSUME NEW c \in DOMAIN a.checks
        PROVE  /\ Says(new, c, "HAS_VERDICT") = {a.checks[c].verdict}
               /\ Says(new, c, "CHECKED_AGAINST") = a.checks[c].links
    <2>1. \A e \in Staying(g, a) : ~(e.from = c /\ e.method = "pipeline" /\ e.type \in CheckTypes)
      BY DEF Staying
    <2>2. Says(new, c, "HAS_VERDICT") = {e.to : e \in {x \in Verdicted(a) : x.from = c}}
      <3>1. \A e : e \in new.edges /\ e.from = c /\ e.type = "HAS_VERDICT" /\ e.method = "pipeline"
                   <=> e \in Verdicted(a) /\ e.from = c
        BY <1>2, <2>1, ComesAs DEF CheckTypes
      <3> QED BY <3>1 DEF Says
    <2>3. Says(new, c, "CHECKED_AGAINST") = {e.to : e \in {x \in Against(a) : x.from = c}}
      <3>1. \A e : e \in new.edges /\ e.from = c /\ e.type = "CHECKED_AGAINST" /\ e.method = "pipeline"
                   <=> e \in Against(a) /\ e.from = c
        BY <1>2, <2>1, ComesAs DEF CheckTypes
      <3> QED BY <3>1 DEF Says
    <2>4. {e.to : e \in {x \in Verdicted(a) : x.from = c}} = {a.checks[c].verdict}
      BY ComesAs
    <2>5. {e.to : e \in {x \in Against(a) : x.from = c}} = a.checks[c].links
      BY ComesAs
    <2> QED BY <2>2, <2>3, <2>4, <2>5
  <1>7. ASSUME NEW type \in CheckTypes, NEW c \in Claims \ DOMAIN a.checks
        PROVE  /\ c \in Gone(g, a.url) => Says(new, c, type) = {}
               /\ c \notin Gone(g, a.url) => Says(new, c, type) = Says(g, c, type)
    <2>1. \A e \in new.edges : e.from = c /\ e.type = type => e \in Staying(g, a)
      BY <1>2, ComesAs DEF CheckTypes
    <2>2. c \in Gone(g, a.url) => \A e \in new.edges : ~(e.from = c /\ e.type = type)
      BY <2>1 DEF Staying
    <2>3. ASSUME c \notin Gone(g, a.url), NEW e \in g.edges, e.from = c, e.type = type PROVE e \in new.edges
      BY <1>1, <1>2, <2>3, NotGone DEF Staying
    <2> QED BY <1>3, <2>1, <2>2, <2>3 DEF Says
  <1> QED BY <1>4, <1>5, <1>6, <1>7 DEF new

\* The last word, in terms of what the pipeline says.
LEMMA LastWordSays ==
  LastWordIsShown <=>
    /\ \A u \in DOMAIN analysed : Says(graph, u, "CONTAINS_CLAIM") = ClaimRows(analysed[u])
    /\ \A c \in graph.claims \cap DOMAIN checked :
         /\ Says(graph, c, "HAS_VERDICT") \in {{}, {checked[c].verdict}}
         /\ Says(graph, c, "CHECKED_AGAINST") \in {{}, checked[c].links}
    /\ \A u \in DOMAIN analysed : \A c \in DOMAIN analysed[u].checks : Says(graph, c, "HAS_VERDICT") # {}
  <1>1. \A c, type : Holds("pipeline", c, type) = Says(graph, c, type)
    BY DEF Holds, Says
  <1> QED BY <1>1 DEF LastWordIsShown

\* What says nothing, of a claim that is not there.
LEMMA AbsentSaysNothing ==
  ASSUME NEW g, Woven(g), NEW c, c \notin g.claims, NEW type \in CheckTypes
  PROVE  Says(g, c, type) = {}
  BY DEF Says, Woven

\* An analysis is written.
LEMMA WriteAnalysisKeeps == ASSUME GraphInv, WriteAnalysis PROVE GraphInv'
  <1>1. PICK a \in Analyses :
          /\ graph' = AnalysisStatements(graph, a)
          /\ analysed' = Noted(analysed, [u \in {a.url} |-> a])
          /\ checked' = Noted(checked, a.checks)
    BY DEF WriteAnalysis
  <1>2. labelled' = labelled /\ Woven(graph) /\ FactEdges(graph) /\ Histories
    BY DEF WriteAnalysis, GraphInv
  <1>3. a.url \in Articles /\ DOMAIN a.checks \subseteq ClaimRows(a) /\ ClaimRows(a) \subseteq Claims
    BY ComesAs
  <1>4. Woven(graph')
    BY <1>1, <1>2, AnalysisWoven
  <1>5. FactEdges(graph)'
    <2>1. \A e : e \in graph'.edges /\ e.method = "manual" <=> e \in graph.edges /\ e.method = "manual"
      BY <1>1, <1>2, AnalysisSpares
    <2>2. \A e \in graph'.edges : e.method = "manual" => e \in graph.edges
      BY <2>1
    <2>3. \A f \in DOMAIN labelled :
            /\ Edge(labelled[f].url, "CONTAINS_CLAIM", labelled[f].claim, "manual", f) \in graph'.edges
            /\ Edge(labelled[f].claim, "HAS_VERDICT", labelled[f].verdict, "manual", f) \in graph'.edges
      <3>1. \A x, y, z, f : Edge(x, y, z, "manual", f).method = "manual"
        BY DEF Edge
      <3> QED BY <1>2, <2>1, <3>1 DEF FactEdges
    <2> QED BY <1>2, <2>2, <2>3 DEF FactEdges
  <1>6. /\ DOMAIN analysed' = DOMAIN analysed \cup {a.url} /\ analysed'[a.url] = a
        /\ \A u \in DOMAIN analysed \ {a.url} : analysed'[u] = analysed[u]
    BY <1>1 DEF Noted
  <1>7. /\ DOMAIN checked' = DOMAIN checked \cup DOMAIN a.checks
        /\ \A c \in DOMAIN a.checks : checked'[c] = a.checks[c]
        /\ \A c \in DOMAIN checked \ DOMAIN a.checks : checked'[c] = checked[c]
    BY <1>1 DEF Noted
  <1>8. /\ \A u \in DOMAIN analysed : Says(graph, u, "CONTAINS_CLAIM") = ClaimRows(analysed[u])
        /\ \A c \in graph.claims \cap DOMAIN checked :
             /\ Says(graph, c, "HAS_VERDICT") \in {{}, {checked[c].verdict}}
             /\ Says(graph, c, "CHECKED_AGAINST") \in {{}, checked[c].links}
        /\ \A u \in DOMAIN analysed : \A c \in DOMAIN analysed[u].checks : Says(graph, c, "HAS_VERDICT") # {}
    BY LastWordSays DEF GraphInv
  <1>9. /\ Says(graph', a.url, "CONTAINS_CLAIM") = ClaimRows(a)
        /\ \A u \in Articles \ {a.url} : Says(graph', u, "CONTAINS_CLAIM") = Says(graph, u, "CONTAINS_CLAIM")
        /\ \A c \in DOMAIN a.checks :
             /\ Says(graph', c, "HAS_VERDICT") = {a.checks[c].verdict}
             /\ Says(graph', c, "CHECKED_AGAINST") = a.checks[c].links
        /\ \A type \in CheckTypes : \A c \in Claims \ DOMAIN a.checks :
             /\ c \in Gone(graph, a.url) => Says(graph', c, type) = {}
             /\ c \notin Gone(graph, a.url) => Says(graph', c, type) = Says(graph, c, type)
    BY <1>1, <1>2, AnalysisSays
  <1>10. \A u \in DOMAIN analysed' : Says(graph', u, "CONTAINS_CLAIM") = ClaimRows(analysed'[u])
    BY <1>2, <1>6, <1>8, <1>9 DEF Histories
  <1>11. ASSUME NEW c \in graph'.claims \cap DOMAIN checked'
         PROVE  /\ Says(graph', c, "HAS_VERDICT") \in {{}, {checked'[c].verdict}}
                /\ Says(graph', c, "CHECKED_AGAINST") \in {{}, checked'[c].links}
    <2>1. CASE c \in DOMAIN a.checks
      BY <1>7, <1>9, <2>1
    <2>2. CASE c \notin DOMAIN a.checks
      <3>1. c \in Claims /\ c \in DOMAIN checked /\ checked'[c] = checked[c]
        BY <1>4, <1>7, <2>2 DEF Woven
      <3>2. CASE c \notin graph.claims
        <4>1. c \notin Gone(graph, a.url)
          BY <3>2 DEF Gone
        <4>2. Says(graph, c, "HAS_VERDICT") = {} /\ Says(graph, c, "CHECKED_AGAINST") = {}
          BY <1>2, <3>2, AbsentSaysNothing DEF CheckTypes
        <4> QED BY <1>9, <2>2, <3>1, <4>1, <4>2 DEF CheckTypes
      <3>3. CASE c \in graph.claims
        BY <1>8, <1>9, <2>2, <3>1, <3>3 DEF CheckTypes
      <3> QED BY <3>2, <3>3
    <2> QED BY <2>1, <2>2
  <1>12. ASSUME NEW u \in DOMAIN analysed', NEW c \in DOMAIN analysed'[u].checks
         PROVE  Says(graph', c, "HAS_VERDICT") # {}
    <2>1. CASE c \in DOMAIN a.checks
      BY <1>9, <2>1
    <2>2. CASE c \notin DOMAIN a.checks
      <3>1. u \in DOMAIN analysed \ {a.url} /\ c \in DOMAIN analysed[u].checks
        BY <1>6, <2>2
      <3>2. c \in Says(graph, u, "CONTAINS_CLAIM")
        BY <1>8, <3>1 DEF ClaimRows
      <3>3. PICK e \in graph.edges : /\ e.from = u /\ e.type = "CONTAINS_CLAIM" /\ e.method = "pipeline"
                                     /\ e.to = c
        BY <3>2 DEF Says
      <3>4. e \notin OfArticle(graph, a.url)
        BY <3>1, <3>3 DEF OfArticle
      <3>5. c \notin Gone(graph, a.url) /\ c \in Claims
        BY <1>2, <1>3, <3>3, <3>4, NotGone DEF Woven
      <3> QED BY <1>8, <1>9, <2>2, <3>1, <3>5 DEF CheckTypes
    <2> QED BY <2>1, <2>2
  <1>13. LastWordIsShown'
    <2>1. \A c, type : Holds("pipeline", c, type)' = Says(graph', c, type)
      BY DEF Holds, Says
    <2> QED BY <1>10, <1>11, <1>12, <2>1 DEF LastWordIsShown
  <1>14. Histories'
    BY <1>2, <1>3, <1>6 DEF Histories
  <1> QED BY <1>4, <1>5, <1>13, <1>14 DEF GraphInv

\* What saving a labelled fact makes of the graph.
LEMMA FactLeaves ==
  ASSUME NEW g, IsGraph(g), NEW f, NEW fact
  PROVE  LET new == FactStatements(g, f, fact)
             word == Edge(fact.url, "CONTAINS_CLAIM", fact.claim, "manual", f)
             verdict == Edge(fact.claim, "HAS_VERDICT", fact.verdict, "manual", f)
             taken(e) == /\ e.from = fact.claim /\ e.type = "CHECKED_AGAINST"
                         /\ e.method = "manual" /\ e.to \in fact.links
         IN /\ IsGraph(new)
            /\ new.edges = {e \in g.edges : e.fact # f /\ ~taken(e)} \cup {word, verdict}
                           \cup {Edge(fact.claim, "CHECKED_AGAINST", l, "manual", f) : l \in fact.links}
            /\ new.claims = (g.claims \cup {fact.claim}) \cap Touched(new.edges)
  <1> DEFINE word == Edge(fact.url, "CONTAINS_CLAIM", fact.claim, "manual", f)
             verdict == Edge(fact.claim, "HAS_VERDICT", fact.verdict, "manual", f)
             taken(e) == /\ e.from = fact.claim /\ e.type = "CHECKED_AGAINST"
                         /\ e.method = "manual" /\ e.to \in fact.links
             cited == {Edge(fact.claim, "CHECKED_AGAINST", l, "manual", f) : l \in fact.links}
             g1 == ClearFact(g, f)
             g2 == LinkFact(g1, f, fact)
             g3 == LinkEvidence(g2, fact.claim, fact.links, "manual", f)
  <1>1. IsGraph(g1) /\ g1.claims = g.claims /\ g1.edges = {e \in g.edges : e.fact # f}
    BY DEF IsGraph, ClearFact
  <1>2. /\ IsGraph(g2) /\ g2.claims = g1.claims \cup {fact.claim}
        /\ g2.edges = g1.edges \cup {word, verdict}
    BY <1>1 DEF IsGraph, LinkFact
  <1>3. /\ IsGraph(g3) /\ g3.claims = g2.claims
        /\ g3.edges = {e \in g2.edges : ~taken(e)} \cup cited
    BY <1>2 DEF IsGraph, LinkEvidence
  <1>4. ~taken(word) /\ ~taken(verdict)
    BY DEF Edge
  <1>5. FactStatements(g, f, fact) = PruneOrphans(g3)
    BY DEF FactStatements
  <1>6. /\ IsGraph(PruneOrphans(g3)) /\ PruneOrphans(g3).edges = g3.edges
        /\ PruneOrphans(g3).claims = g3.claims \cap Touched(g3.edges)
    BY <1>3 DEF PruneOrphans, IsGraph, Touched
  <1> HIDE DEF word, verdict, g1, g2, g3
  <1>7. g3.edges = {e \in g.edges : e.fact # f /\ ~taken(e)} \cup {word, verdict} \cup cited
    BY <1>1, <1>2, <1>3, <1>4
  <1>8. g3.claims = g.claims \cup {fact.claim}
    BY <1>1, <1>2, <1>3
  <1> QED BY <1>5, <1>6, <1>7, <1>8 DEF word, verdict

\* A labelled fact is written.
LEMMA WriteLabelledFactKeeps == ASSUME GraphInv, WriteLabelledFact PROVE GraphInv'
  <1>1. PICK f \in Facts, fact \in FactFiles :
          /\ graph' = FactStatements(graph, f, fact)
          /\ labelled' = Noted(labelled, [x \in {f} |-> fact])
    BY DEF WriteLabelledFact
  <1>2. /\ analysed' = analysed /\ checked' = checked
        /\ Woven(graph) /\ FactEdges(graph) /\ Histories
    BY DEF WriteLabelledFact, GraphInv
  <1>3. /\ fact.url \in Articles /\ fact.claim \in Claims /\ fact.verdict \in Verdicts
        /\ fact.links \subseteq Links
    BY DEF FactFiles
  <1> DEFINE word == Edge(fact.url, "CONTAINS_CLAIM", fact.claim, "manual", f)
             verdict == Edge(fact.claim, "HAS_VERDICT", fact.verdict, "manual", f)
             taken(e) == /\ e.from = fact.claim /\ e.type = "CHECKED_AGAINST"
                         /\ e.method = "manual" /\ e.to \in fact.links
             cited == {Edge(fact.claim, "CHECKED_AGAINST", l, "manual", f) : l \in fact.links}
             old == {e \in graph.edges : e.fact # f /\ ~taken(e)}
  <1>4. /\ IsGraph(graph') /\ graph'.edges = old \cup {word, verdict} \cup cited
        /\ graph'.claims = (graph.claims \cup {fact.claim}) \cap Touched(graph'.edges)
    BY <1>1, <1>2, FactLeaves DEF Woven
  <1>5. /\ word.from = fact.url /\ word.type = "CONTAINS_CLAIM" /\ word.to = fact.claim
        /\ word.method = "manual" /\ word.fact = f
        /\ verdict.from = fact.claim /\ verdict.type = "HAS_VERDICT" /\ verdict.to = fact.verdict
        /\ verdict.method = "manual" /\ verdict.fact = f
    BY DEF Edge
  <1>6. \A e \in cited : /\ e.from = fact.claim /\ e.type = "CHECKED_AGAINST" /\ e.to \in fact.links
                         /\ e.method = "manual" /\ e.fact = f
    BY DEF Edge
  <1>7. old \subseteq graph.edges /\ \A e \in old : e.fact # f
    OBVIOUS
  <1>8. \A e \in graph.edges : e.fact # f /\ ~(e.type = "CHECKED_AGAINST" /\ e.method = "manual") => e \in old
    OBVIOUS
  <1> HIDE DEF word, verdict, cited, old
  <1>9. fact.claim \in graph'.claims
    BY <1>4, <1>5 DEF Touched
  <1>10. Woven(graph')
    <2>1. graph'.claims \subseteq Claims
      BY <1>2, <1>3, <1>4 DEF Woven
    <2>2. \A e \in graph'.edges : e.from \in Touched(graph'.edges) /\ e.to \in Touched(graph'.edges)
      BY DEF Touched
    <2>3. \A e \in old : /\ e.type = "CONTAINS_CLAIM" => e.from \in Articles /\ e.to \in graph'.claims
                         /\ e.type \in CheckTypes => e.from \in graph'.claims /\ e.to \in Links \cup Verdicts
                         /\ e.method = "pipeline" => e.fact = None
      BY <1>2, <1>4, <1>7, <2>2 DEF Woven
    <2>4. \A e \in {word, verdict} \cup cited :
            /\ e.type = "CONTAINS_CLAIM" => e.from \in Articles /\ e.to \in graph'.claims
            /\ e.type \in CheckTypes => e.from \in graph'.claims /\ e.to \in Links \cup Verdicts
            /\ e.method = "pipeline" => e.fact = None
      BY <1>3, <1>5, <1>6, <1>9 DEF CheckTypes
    <2>5. \A e \in graph'.edges : e \in old \/ e \in {word, verdict} \cup cited
      BY <1>4
    <2> QED BY <1>4, <2>1, <2>3, <2>4, <2>5 DEF Woven
  <1>11. /\ DOMAIN labelled' = DOMAIN labelled \cup {f} /\ labelled'[f] = fact
         /\ \A x \in DOMAIN labelled \ {f} : labelled'[x] = labelled[x]
    BY <1>1 DEF Noted
  <1>12. FactEdges(graph)'
    <2>1. ASSUME NEW x \in DOMAIN labelled \ {f}
          PROVE  /\ Edge(labelled[x].url, "CONTAINS_CLAIM", labelled[x].claim, "manual", x) \in old
                 /\ Edge(labelled[x].claim, "HAS_VERDICT", labelled[x].verdict, "manual", x) \in old
      <3>1. \A from, type, to : /\ Edge(from, type, to, "manual", x).fact = x
                                /\ Edge(from, type, to, "manual", x).type = type
        BY DEF Edge
      <3> QED BY <1>2, <1>8, <3>1 DEF FactEdges
    <2>2. \A x \in DOMAIN labelled' :
            /\ Edge(labelled'[x].url, "CONTAINS_CLAIM", labelled'[x].claim, "manual", x) \in graph'.edges
            /\ Edge(labelled'[x].claim, "HAS_VERDICT", labelled'[x].verdict, "manual", x) \in graph'.edges
      BY <1>4, <1>11, <2>1 DEF word, verdict
    <2>3. ASSUME NEW e \in old, e.method = "manual"
          PROVE  /\ e.fact \in DOMAIN labelled'
                 /\ e.type \in {"CONTAINS_CLAIM"} \cup CheckTypes
                 /\ e.type \in CheckTypes => e.from = labelled'[e.fact].claim
                 /\ e.type = "HAS_VERDICT" => e.to = labelled'[e.fact].verdict
                 /\ e.type = "CHECKED_AGAINST" => e.to \in labelled'[e.fact].links
      BY <1>2, <1>7, <1>11, <2>3 DEF FactEdges
    <2>4. ASSUME NEW e \in {word, verdict} \cup cited
          PROVE  /\ e.fact \in DOMAIN labelled'
                 /\ e.type \in {"CONTAINS_CLAIM"} \cup CheckTypes
                 /\ e.type \in CheckTypes => e.from = labelled'[e.fact].claim
                 /\ e.type = "HAS_VERDICT" => e.to = labelled'[e.fact].verdict
                 /\ e.type = "CHECKED_AGAINST" => e.to \in labelled'[e.fact].links
      BY <1>5, <1>6, <1>11 DEF CheckTypes
    <2>5. \A e \in graph'.edges : e \in old \/ e \in {word, verdict} \cup cited
      BY <1>4
    <2> QED BY <2>2, <2>3, <2>4, <2>5 DEF FactEdges
  <1>13. \A from, type : Says(graph', from, type) = Says(graph, from, type)
    <2>1. \A e \in graph.edges : e.method = "pipeline" => e \in old
      BY <1>2, <1>8, KnowledgeAssumption DEF Woven
    <2>2. \A e \in {word, verdict} \cup cited : e.method # "pipeline"
      BY <1>5, <1>6
    <2>3. \A e : e \in graph'.edges /\ e.method = "pipeline" <=> e \in graph.edges /\ e.method = "pipeline"
      BY <1>4, <1>7, <2>1, <2>2
    <2> QED BY <2>3 DEF Says
  <1>14. LastWordIsShown'
    <2>1. \A c, type : Holds("pipeline", c, type)' = Says(graph, c, type)
      BY <1>13 DEF Holds, Says
    <2>2. /\ \A u \in DOMAIN analysed : Says(graph, u, "CONTAINS_CLAIM") = ClaimRows(analysed[u])
          /\ \A c \in graph.claims \cap DOMAIN checked :
               /\ Says(graph, c, "HAS_VERDICT") \in {{}, {checked[c].verdict}}
               /\ Says(graph, c, "CHECKED_AGAINST") \in {{}, checked[c].links}
          /\ \A u \in DOMAIN analysed : \A c \in DOMAIN analysed[u].checks : Says(graph, c, "HAS_VERDICT") # {}
      BY LastWordSays DEF GraphInv
    <2>3. \A c : c \notin graph.claims => Says(graph, c, "HAS_VERDICT") = {}
                                          /\ Says(graph, c, "CHECKED_AGAINST") = {}
      BY <1>2, AbsentSaysNothing DEF CheckTypes
    <2>4. \A c \in graph'.claims \cap DOMAIN checked :
            /\ Says(graph, c, "HAS_VERDICT") \in {{}, {checked[c].verdict}}
            /\ Says(graph, c, "CHECKED_AGAINST") \in {{}, checked[c].links}
      BY <2>2, <2>3
    <2> QED BY <1>2, <2>1, <2>2, <2>4 DEF LastWordIsShown
  <1>15. Histories'
    BY <1>2, <1>11 DEF Histories
  <1> QED BY <1>10, <1>12, <1>14, <1>15 DEF GraphInv

\* Every step keeps the invariant.
LEMMA GraphKeeps == GraphInv /\ [GraphNext]_graphVars => GraphInv'
  <1>1. ASSUME GraphInv, UNCHANGED graphVars PROVE GraphInv'
    <2>1. graph' = graph /\ analysed' = analysed /\ checked' = checked /\ labelled' = labelled
      BY <1>1 DEF graphVars
    <2>2. FactEdges(graph)'
      BY <1>1, <2>1 DEF GraphInv, FactEdges
    <2>3. LastWordIsShown'
      BY <1>1, <2>1 DEF GraphInv, LastWordIsShown, Holds
    <2> QED BY <1>1, <2>1, <2>2, <2>3 DEF GraphInv, Histories
  <1> QED BY <1>1, WriteAnalysisKeeps, WriteLabelledFactKeeps DEF GraphNext

\* Whatever two writers write of the claims they share, the graph shows the pipeline's
\* last word of each article and claim, and each labelled fact as it was saved last.
THEOREM WordsHold == GraphSpec => []EachHasItsWord
  <1> QED BY GraphStart, GraphKeeps, GraphImplies, PTL DEF GraphSpec

-----------------------------------------------------------------------------
(* Numbers and groups. *)

\* A set of numbers has a least one.
LEMMA SmallestNumber ==
  ASSUME NEW S \in SUBSET Nat, S # {}
  PROVE  \E m \in S : \A k \in S : m <= k
  <1>1. PICK m \in S : \A k \in S : <<k, m>> \notin OpToRel(<, Nat)
    BY NatLessThanWellFounded, WFMin
  <1>2. \A k \in S : ~(k < m)
    BY <1>1 DEF OpToRel
  <1> QED BY <1>2

\* A set of numbers within a bound has a greatest one.
LEMMA GreatestNumber ==
  ASSUME NEW n \in Nat, NEW S \in SUBSET (0..n), S # {}
  PROVE  Greatest(S) \in S /\ \A k \in S : k <= Greatest(S)
  <1> DEFINE above == {m \in Nat : \A k \in S : k <= m}
  <1>1. n \in above
    OBVIOUS
  <1>2. PICK m \in above : \A k \in above : m <= k
    BY <1>1, SmallestNumber
  <1>3. m \in S
    <2> SUFFICES ASSUME m \notin S PROVE FALSE
      OBVIOUS
    <2>1. \A k \in S : k <= m - 1 /\ m - 1 \in Nat
      OBVIOUS
    <2>2. m - 1 \in above
      BY <2>1
    <2> QED BY <1>2, <2>2
  <1>4. \E g \in S : \A k \in S : k <= g
    BY <1>3
  <1> QED BY <1>4 DEF Greatest

\* The numbers given out so far.
Known == DOMAIN facts \cup DOMAIN excluded

\* The next number is new.
LEMMA NextIsNew ==
  ASSUME Known \subseteq Ids
  PROVE  NextNumber \in Nat \ {0} /\ NextNumber \notin Known
  <1> DEFINE S == {0} \cup DOMAIN facts \cup DOMAIN excluded
  <1>1. S \subseteq 0..MaxFacts /\ MaxFacts \in Nat
    BY LabellingAssumption DEF Known, Ids
  <1>2. Greatest(S) \in S /\ \A k \in S : k <= Greatest(S)
    BY <1>1, GreatestNumber
  <1>3. NextNumber = Greatest(S) + 1
    BY DEF NextNumber
  <1>4. Known \subseteq S
    BY DEF Known
  <1> HIDE DEF S
  <1>5. PICK g \in 0..MaxFacts : g = Greatest(S)
    BY <1>1, <1>2
  <1>6. \A k \in S : k \in 0..MaxFacts /\ k <= g
    BY <1>1, <1>2, <1>5
  <1>7. g + 1 \in Nat \ {0} /\ g + 1 \notin S
    BY <1>6
  <1> QED BY <1>3, <1>4, <1>5, <1>7

\* A group is within the set and has the fact it is of; what is linked to one of it is
\* of it; and it is the least such set.
LEMMA GroupIs ==
  ASSUME NEW fs, NEW f \in DOMAIN fs
  PROVE  /\ f \in GroupOf(fs, f) /\ GroupOf(fs, f) \subseteq DOMAIN fs
         /\ \A x \in GroupOf(fs, f), y \in DOMAIN fs : Linked(fs, x, y) => y \in GroupOf(fs, f)
         /\ \A S \in SUBSET DOMAIN fs :
              f \in S /\ (\A x \in S, y \in DOMAIN fs : Linked(fs, x, y) => y \in S)
                => GroupOf(fs, f) \subseteq S
  <1>1. f \in GroupOf(fs, f) /\ GroupOf(fs, f) \subseteq DOMAIN fs
    BY DEF GroupOf
  <1>2. ASSUME NEW x \in GroupOf(fs, f), NEW y \in DOMAIN fs, Linked(fs, x, y)
        PROVE  y \in GroupOf(fs, f)
    <2> SUFFICES ASSUME NEW S \in SUBSET DOMAIN fs, f \in S,
                        \A u \in S, v \in DOMAIN fs : Linked(fs, u, v) => v \in S
                 PROVE  y \in S
      BY DEF GroupOf
    <2>1. x \in S
      BY DEF GroupOf
    <2> QED BY <1>2, <2>1
  <1>3. \A S \in SUBSET DOMAIN fs :
          f \in S /\ (\A x \in S, y \in DOMAIN fs : Linked(fs, x, y) => y \in S)
            => GroupOf(fs, f) \subseteq S
    BY DEF GroupOf
  <1> QED BY <1>1, <1>2, <1>3

\* Only articles and sources make groups.
SameLinks(fs, gs) ==
  /\ DOMAIN fs = DOMAIN gs
  /\ \A f \in DOMAIN fs : fs[f].page = gs[f].page /\ fs[f].source = gs[f].source

\* Sets of the same links have the same groups.
LEMMA SameGroups ==
  ASSUME NEW fs, NEW gs, SameLinks(fs, gs)
  PROVE  /\ \A f, g \in DOMAIN fs : Linked(fs, f, g) <=> Linked(gs, f, g)
         /\ \A f \in DOMAIN fs : GroupOf(fs, f) = GroupOf(gs, f)
  <1>1. \A f, g \in DOMAIN fs : Linked(fs, f, g) <=> Linked(gs, f, g)
    BY DEF SameLinks, Linked
  <1>2. ASSUME NEW f \in DOMAIN fs PROVE GroupOf(fs, f) = GroupOf(gs, f)
    <2>1. DOMAIN fs = DOMAIN gs
      BY DEF SameLinks
    <2>2. GroupOf(fs, f) \subseteq GroupOf(gs, f)
      BY <1>1, <2>1, GroupIs
    <2>3. GroupOf(gs, f) \subseteq GroupOf(fs, f)
      BY <1>1, <2>1, GroupIs
    <2> QED BY <2>2, <2>3
  <1> QED BY <1>1, <1>2

\* A placed fact keeps its side; a group none of whose facts is placed goes to one side,
\* and the others of a group all of whose placed facts are on a side join it.
Settled(fs, frozen, s) ==
  /\ s \in [DOMAIN fs -> Sides]
  /\ \A f \in DOMAIN fs \cap DOMAIN frozen : s[f] = frozen[f]
  /\ \A f \in DOMAIN fs : GroupOf(fs, f) \cap DOMAIN frozen = {} =>
       \A g \in GroupOf(fs, f) : s[g] = s[f]
  /\ \A f \in DOMAIN fs : \A side \in Sides :
       /\ GroupOf(fs, f) \cap DOMAIN frozen # {}
       /\ \A g \in GroupOf(fs, f) \cap DOMAIN frozen : frozen[g] = side
       => \A g \in GroupOf(fs, f) : s[g] = side

\* That is how sides are assigned.
LEMMA SidesAssigned ==
  ASSUME NEW fs, NEW frozen, NEW s \in AssignSplits(fs, frozen)
  PROVE  Settled(fs, frozen, s)
  <1>1. s \in [DOMAIN fs -> Sides]
    BY DEF AssignSplits
  <1>2. ASSUME NEW f \in DOMAIN fs
        PROVE  LET G == GroupOf(fs, f)
                   sides == Placed(G, frozen)
               IN IF sides = {} THEN \A x, y \in G : s[x] = s[y]
                  ELSE \A x \in G : s[x] = IF x \in DOMAIN frozen THEN frozen[x] ELSE FirstSide(sides)
    <2>1. GroupOf(fs, f) \in SplitGroups(fs)
      BY DEF SplitGroups
    <2> QED BY <2>1 DEF AssignSplits
  <1>3. \A f \in DOMAIN fs : f \in GroupOf(fs, f)
    BY GroupIs
  <1>4. \A G : Placed(G, frozen) = {} <=> G \cap DOMAIN frozen = {}
    BY DEF Placed
  <1>5. \A f \in DOMAIN fs \cap DOMAIN frozen : s[f] = frozen[f]
    BY <1>2, <1>3, <1>4
  <1>6. \A f \in DOMAIN fs : GroupOf(fs, f) \cap DOMAIN frozen = {} =>
          \A g \in GroupOf(fs, f) : s[g] = s[f]
    BY <1>2, <1>3, <1>4
  <1>7. ASSUME NEW f \in DOMAIN fs, NEW side \in Sides, GroupOf(fs, f) \cap DOMAIN frozen # {},
               \A g \in GroupOf(fs, f) \cap DOMAIN frozen : frozen[g] = side,
               NEW g \in GroupOf(fs, f)
        PROVE  s[g] = side
    <2> DEFINE sides == Placed(GroupOf(fs, f), frozen)
    <2>1. sides = {side}
      BY <1>7 DEF Placed
    <2>2. FirstSide({side}) = side
      BY DEF FirstSide, Sides
    <2> HIDE DEF sides
    <2>3. s[g] = IF g \in DOMAIN frozen THEN frozen[g] ELSE FirstSide(sides)
      BY <1>2, <2>1 DEF sides
    <2> QED BY <1>7, <2>1, <2>2, <2>3
  <1> QED BY <1>1, <1>5, <1>6, <1>7 DEF Settled

-----------------------------------------------------------------------------
(* The invariant of the files. *)

AFact ==
  [page : Pages \cup {NoPage}, label : LabelNames, source : {0} \cup Ids, split : Sides,
   first : LabelNames \cup {"none"}, ref : {NoRef} \cup (Nat \X Pages)]

\* The facts there are, each with a source that was given a number.
FactsInv ==
  /\ Known \subseteq Ids /\ DOMAIN facts \cap DOMAIN excluded = {}
  /\ broken \subseteq DOMAIN facts
  /\ \A f \in DOMAIN facts : facts[f] \in AFact /\ facts[f].source \in {0} \cup Known

\* The manifest says of a fact what its file says.
ManifestInv ==
  /\ DOMAIN manifest.side \subseteq Known
  /\ \A f \in DOMAIN manifest.side \cap DOMAIN facts : manifest.side[f] = facts[f].split
  /\ ~manifest.frozen => DOMAIN manifest.side = {}

IsFactWrite(w) == w.to = "fact"
IsManifestWrite(w) == w.to = "manifest"

WritesIn(s) == {s[n] : n \in 1..Len(s)}
Freezing == manifest.frozen \/ \E w \in WritesIn(todo) : IsManifestWrite(w)

\* Where the sides are going: each fact is on the side it is to have or is still to be
\* written, which is only a fact the manifest does not name; and then the manifest is.
HeadsFor(goal) ==
  /\ DOMAIN goal = DOMAIN facts /\ \A f \in DOMAIN goal : goal[f] \in Sides
  /\ \A w \in WritesIn(todo) : IsFactWrite(w) =>
       /\ w.id \in DOMAIN facts \ DOMAIN manifest.side
       /\ w.value = [facts[w.id] EXCEPT !.split = goal[w.id]]
  /\ \A f \in DOMAIN facts :
       facts[f].split = goal[f] \/ \E w \in WritesIn(todo) : IsFactWrite(w) /\ w.id = f
  /\ \A n \in 1..Len(todo) : IsManifestWrite(todo[n]) =>
       /\ todo[n].value.frozen /\ DOMAIN todo[n].value.side \subseteq DOMAIN facts
       /\ \A f \in DOMAIN todo[n].value.side : todo[n].value.side[f] = goal[f]
       /\ \A k \in n..Len(todo) : ~IsFactWrite(todo[k])

\* Two facts of a group are going to one side, but for those that are astray.
Whole(goal) ==
  \A f, g \in DOMAIN facts \ astray : Linked(facts, f, g) => goal[f] = goal[g]

Aimed == \E goal : HeadsFor(goal) /\ (Freezing => Whole(goal))

\* The claims of the batches and what became of them.
Statuses == {"pending", "labelled", "skipped"}
Item == [status : Statuses, facts : SUBSET Ids]
Batch == [req : Nat, skipped : SUBSET Pages, items : UNION {[S -> Item] : S \in SUBSET Pages}]

\* A fact's number and the claim it was labelled from.
LabelledFrom(f, b, p) ==
  \/ f \in DOMAIN facts /\ facts[f].ref = <<b, p>>
  \/ f \in DOMAIN excluded /\ excluded[f].ref = <<b, p>>

MarksInv ==
  /\ \A b \in 1..Len(queue) : \A p \in DOMAIN queue[b].items :
       \A f \in queue[b].items[p].facts : LabelledFrom(f, b, p)
  /\ \A w \in WritesIn(todo) : w.to = "queue" =>
       \E b \in 1..Len(queue) : \E p \in DOMAIN queue[b].items :
         w.value = <<b, p>> /\ w.id \in Ids /\ LabelledFrom(w.id, b, p)

Backend ==
  [running : BOOLEAN, req : Nat, exclude : SUBSET Pages, error : BOOLEAN,
   batch : [req : Nat, items : SUBSET Pages, skipped : SUBSET Pages]]

\* The batch that is waited for has nothing a saved one has: nothing was saved since it
\* was asked for.
Awaited ==
  pending # 0 =>
    /\ backend.running => backend.batch.req # pending
    /\ backend.running /\ backend.req = pending => Proposed(queue) \subseteq backend.exclude
    /\ backend.batch.req = pending =>
         (backend.batch.items \cup backend.batch.skipped) \cap Proposed(queue) = {}

BatchesInv ==
  /\ queue \in Seq(Batch) /\ NothingProposedTwice
  /\ backend \in Backend /\ requests \in Nat /\ pending \in 0..requests
  /\ backend.req <= requests /\ backend.batch.req <= requests
  /\ Awaited

TodoInv == todo \in Seq(WritesIn(todo)) /\ \A w \in WritesIn(todo) : w.to \in {"fact", "manifest", "queue"}

LabelInv == FactsInv /\ ManifestInv /\ Aimed /\ MarksInv /\ BatchesInv /\ TodoInv

\* What the invariant is for.
LEMMA LabelImplies == LabelInv => QueueRemembers /\ GroupsStayWhole
  <1> SUFFICES ASSUME LabelInv PROVE QueueRemembers /\ GroupsStayWhole
    OBVIOUS
  <1>1. DOMAIN queue = 1..Len(queue)
    BY DEF LabelInv, BatchesInv
  <1>2. \A f, b, p : LabelledFrom(f, b, p) => f \in DOMAIN Everywhere /\ Everywhere[f].ref = <<b, p>>
    BY DEF LabelInv, FactsInv, LabelledFrom, Everywhere, Merge
  <1>3. QueueNamesItsFacts
    BY <1>1, <1>2 DEF LabelInv, MarksInv, QueueNamesItsFacts
  <1>4. NothingProposedTwice
    BY DEF LabelInv, BatchesInv
  <1>5. GroupsStayWhole
    <2> SUFFICES ASSUME manifest.frozen,
                        NEW f \in (DOMAIN manifest.side \cap DOMAIN facts) \ astray,
                        NEW g \in (DOMAIN manifest.side \cap DOMAIN facts) \ astray,
                        Linked(facts, f, g)
                 PROVE  facts[f].split = facts[g].split
      BY DEF GroupsStayWhole
    <2>1. PICK goal : HeadsFor(goal) /\ Whole(goal)
      BY DEF LabelInv, Aimed, Freezing
    <2>2. facts[f].split = goal[f] /\ facts[g].split = goal[g]
      BY <2>1 DEF HeadsFor
    <2> QED BY <2>1, <2>2 DEF Whole
  <1> QED BY <1>3, <1>4, <1>5 DEF QueueRemembers

\* Nothing is labelled.
LEMMA LabelStart == Init => LabelInv
  <1> SUFFICES ASSUME Init PROVE LabelInv
    OBVIOUS
  <1>1. /\ facts = << >> /\ excluded = << >> /\ broken = {} /\ manifest = NotFrozen
        /\ queue = << >> /\ pending = 0 /\ backend = Idle /\ todo = << >> /\ requests = 0
    BY DEF Init
  <1>2. DOMAIN << >> = {} /\ Len(<< >>) = 0 /\ WritesIn(<< >>) = {}
    BY DEF WritesIn
  <1>3. FactsInv /\ ManifestInv
    BY <1>1, <1>2 DEF FactsInv, ManifestInv, Known, NotFrozen
  <1>4. HeadsFor(<< >>) /\ ~Freezing
    BY <1>1, <1>2 DEF HeadsFor, Freezing, NotFrozen
  <1>5. MarksInv
    BY <1>1, <1>2 DEF MarksInv
  <1>6. BatchesInv
    BY <1>1 DEF BatchesInv, NothingProposedTwice, Backend, Idle, Awaited
  <1>7. TodoInv
    BY <1>1, <1>2 DEF TodoInv
  <1> QED BY <1>3, <1>4, <1>5, <1>6, <1>7 DEF LabelInv, Aimed

-----------------------------------------------------------------------------
(* What the steps are made of. *)

\* What is still to be written is a sequence of writes.
LEMMA TodoIs ==
  ASSUME NEW S, NEW s \in Seq(S)
  PROVE  s \in Seq(WritesIn(s)) /\ WritesIn(s) \subseteq S
  <1>1. Len(s) \in Nat /\ s \in [1..Len(s) -> S]
    OBVIOUS
  <1>2. WritesIn(s) \subseteq S
    BY <1>1 DEF WritesIn
  <1>3. s \in [1..Len(s) -> WritesIn(s)]
    BY <1>1 DEF WritesIn
  <1> QED BY <1>1, <1>2, <1>3, SeqDef

\* A function on 1..n is a sequence as long as n.
LEMMA LengthIs ==
  ASSUME NEW S, NEW n \in Nat, NEW s \in [1..n -> S]
  PROVE  s \in Seq(S) /\ Len(s) = n
  <1>1. s \in Seq(S)
    BY SeqDef
  <1>2. DOMAIN s = 1..Len(s) /\ Len(s) \in Nat /\ DOMAIN s = 1..n
    BY <1>1, LenProperties
  <1> DEFINE m == Len(s)
  <1> HIDE DEF m
  <1>3. m \in Nat /\ 1..m = 1..n
    BY <1>2 DEF m
  <1>4. (n # 0 => n \in 1..m) /\ (m # 0 => m \in 1..n)
    BY <1>3
  <1>5. m = n
    BY <1>3, <1>4
  <1> QED BY <1>1, <1>5 DEF m

\* Linked goes both ways.
LEMMA LinkedBothWays ==
  ASSUME NEW fs, NEW f, NEW g, Linked(fs, f, g)
  PROVE  Linked(fs, g, f)
  BY DEF Linked

\* The first of the writes still to make, and the others.
LEMMA FirstWrite ==
  ASSUME TodoInv, todo # << >>
  PROVE  /\ Head(todo) \in WritesIn(todo) /\ WritesIn(todo) = {Head(todo)} \cup WritesIn(Tail(todo))
         /\ Tail(todo) \in Seq(WritesIn(Tail(todo)))
         /\ Len(Tail(todo)) = Len(todo) - 1 /\ Len(todo) \in Nat \ {0} /\ Head(todo) = todo[1]
         /\ \A n \in 1..Len(Tail(todo)) : Tail(todo)[n] = todo[n + 1]
  <1> DEFINE W == WritesIn(todo)
  <1>1. todo \in Seq(W)
    BY DEF TodoInv
  <1> HIDE DEF W
  <1>2. /\ Len(Tail(todo)) = Len(todo) - 1 /\ Len(todo) \in Nat \ {0} /\ Head(todo) = todo[1]
        /\ \A n \in 1..Len(Tail(todo)) : Tail(todo)[n] = todo[n + 1]
        /\ Tail(todo) \in Seq(W)
    BY <1>1
  <1>3. Tail(todo) \in Seq(WritesIn(Tail(todo)))
    BY <1>2, TodoIs
  <1>4. Head(todo) \in WritesIn(todo)
    BY <1>2 DEF WritesIn
  <1>5. ASSUME NEW w \in WritesIn(Tail(todo)) PROVE w \in WritesIn(todo)
    <2>1. PICK n \in 1..Len(Tail(todo)) : w = Tail(todo)[n]
      BY DEF WritesIn
    <2>2. n + 1 \in 1..Len(todo) /\ w = todo[n + 1]
      BY <1>2, <2>1
    <2> QED BY <2>2 DEF WritesIn
  <1>6. ASSUME NEW w \in WritesIn(todo), w # Head(todo) PROVE w \in WritesIn(Tail(todo))
    <2>1. PICK n \in 1..Len(todo) : w = todo[n]
      BY DEF WritesIn
    <2>2. n # 1
      BY <1>2, <1>6, <2>1
    <2>3. n - 1 \in 1..Len(Tail(todo)) /\ (n - 1) + 1 = n
      BY <1>2, <2>2
    <2>4. w = Tail(todo)[n - 1]
      BY <1>2, <2>1, <2>3
    <2> QED BY <2>3, <2>4 DEF WritesIn
  <1> QED BY <1>2, <1>3, <1>4, <1>5, <1>6

\* A claim is marked in q, and nothing else: new are facts it has now.
OnlyMarked(r, q, b, p, new) ==
  /\ r \in Seq(Batch) /\ Len(r) = Len(q)
  /\ \A c \in 1..Len(q) :
       /\ DOMAIN r[c].items = DOMAIN q[c].items /\ r[c].skipped = q[c].skipped
       /\ r[c].req = q[c].req
       /\ \A x \in DOMAIN q[c].items : c # b \/ x # p => r[c].items[x].facts = q[c].items[x].facts
  /\ r[b].items[p].facts = q[b].items[p].facts \cup new

\* Marking a claim changes the claim alone, and adds to its facts.
LEMMA MarkIs ==
  ASSUME NEW q \in Seq(Batch), NEW b \in 1..Len(q), NEW p \in DOMAIN q[b].items,
         NEW status \in Statuses, NEW new \in SUBSET Ids
  PROVE  OnlyMarked(Mark(q, <<b, p>>, status, new), q, b, p, new)
  <1> DEFINE r == Mark(q, <<b, p>>, status, new)
             items == [q[b].items EXCEPT ![p] = Marked(@, status, new)]
             batch == [q[b] EXCEPT !.items = items]
  <1>1. r = [q EXCEPT ![b] = batch]
    BY DEF Mark
  <1>2. Len(q) \in Nat /\ q \in [1..Len(q) -> Batch] /\ q[b] \in Batch
    OBVIOUS
  <1>3. PICK S \in SUBSET Pages : q[b].items \in [S -> Item]
    BY <1>2 DEF Batch
  <1>4. Marked(q[b].items[p], status, new) \in Item
    BY <1>3 DEF Marked, Item, Statuses
  <1>5. items \in [S -> Item]
    BY <1>3, <1>4
  <1>6. Marked(q[b].items[p], status, new).facts = q[b].items[p].facts \cup new
    BY DEF Marked
  <1>7. /\ DOMAIN items = DOMAIN q[b].items
        /\ \A x \in DOMAIN items :
             items[x].facts = IF x = p THEN q[b].items[x].facts \cup new ELSE q[b].items[x].facts
    BY <1>6
  <1> HIDE DEF items
  <1>8. batch \in Batch /\ batch.items = items /\ batch.skipped = q[b].skipped /\ batch.req = q[b].req
    <2>1. items \in UNION {[T -> Item] : T \in SUBSET Pages}
      BY <1>5
    <2> QED BY <1>2, <2>1 DEF Batch
  <1> HIDE DEF batch
  <1>9. r \in [1..Len(q) -> Batch] /\ r[b] = batch
        /\ \A c \in 1..Len(q) : c # b => r[c] = q[c]
    BY <1>1, <1>2, <1>8
  <1> HIDE DEF r
  <1>10. r \in Seq(Batch) /\ Len(r) = Len(q)
    BY <1>2, <1>9, LengthIs
  <1>11. ASSUME NEW c \in 1..Len(q)
         PROVE  /\ DOMAIN r[c].items = DOMAIN q[c].items /\ r[c].skipped = q[c].skipped
                /\ r[c].req = q[c].req
                /\ \A x \in DOMAIN q[c].items :
                     c # b \/ x # p => r[c].items[x].facts = q[c].items[x].facts
    <2>1. CASE c = b
      BY <2>1, <1>7, <1>8, <1>9
    <2>2. CASE c # b
      BY <2>2, <1>9
    <2> QED BY <2>1, <2>2
  <1>12. r[b].items[p].facts = q[b].items[p].facts \cup new
    BY <1>7, <1>8, <1>9
  <1> QED BY <1>10, <1>11, <1>12 DEF r, OnlyMarked

-----------------------------------------------------------------------------
(* The handler's next file. *)

FilesInv == FactsInv /\ ManifestInv /\ Aimed /\ TodoInv

\* A fact is written: its side is the one it was to have.
LEMMA WriteFactKeeps ==
  ASSUME LabelInv, Write, IsFactWrite(Head(todo))
  PROVE  /\ FilesInv' /\ MarksInv'
         /\ \A f \in DOMAIN manifest.side \cap DOMAIN facts : facts'[f] = facts[f]
  <1> DEFINE w == Head(todo)
  <1>1. /\ TodoInv /\ todo # << >> /\ todo' = Tail(todo) /\ w.to = "fact"
        /\ facts' = With(facts, w.id, w.value) /\ manifest' = manifest /\ queue' = queue
        /\ UNCHANGED <<excluded, broken, astray>>
    BY DEF LabelInv, Write, Ready, Apply, IsFactWrite
  <1>2. /\ w \in WritesIn(todo) /\ WritesIn(todo) = {w} \cup WritesIn(todo')
        /\ todo' \in Seq(WritesIn(todo'))
        /\ Len(todo') = Len(todo) - 1 /\ Len(todo) \in Nat \ {0}
        /\ \A n \in 1..Len(todo') : todo'[n] = todo[n + 1]
    BY <1>1, FirstWrite
  <1>3. PICK goal : HeadsFor(goal) /\ (Freezing => Whole(goal))
    BY DEF LabelInv, Aimed
  <1> HIDE DEF w
  <1>4. /\ w.id \in DOMAIN facts \ DOMAIN manifest.side
        /\ w.value = [facts[w.id] EXCEPT !.split = goal[w.id]] /\ goal[w.id] \in Sides
    BY <1>1, <1>2, <1>3 DEF HeadsFor, IsFactWrite
  <1>5. facts[w.id] \in AFact
    BY <1>4 DEF LabelInv, FactsInv
  <1>6. /\ w.value \in AFact /\ w.value.split = goal[w.id]
        /\ w.value.page = facts[w.id].page /\ w.value.source = facts[w.id].source
        /\ w.value.ref = facts[w.id].ref
    BY <1>4, <1>5 DEF AFact
  <1>7. /\ DOMAIN facts' = DOMAIN facts /\ facts'[w.id] = w.value
        /\ \A f \in DOMAIN facts \ {w.id} : facts'[f] = facts[f]
    <2> DEFINE new == With(facts, w.id, w.value)
    <2>1. /\ DOMAIN new = DOMAIN facts \cup {w.id} /\ new[w.id] = w.value
          /\ \A f \in DOMAIN facts \ {w.id} : new[f] = facts[f]
      BY DEF With, Merge
    <2>2. facts' = new
      BY <1>1
    <2> HIDE DEF new
    <2> QED BY <1>4, <2>1, <2>2
  <1>8. FactsInv'
    BY <1>1, <1>5, <1>6, <1>7 DEF LabelInv, FactsInv, Known
  <1>9. ManifestInv'
    BY <1>1, <1>4, <1>7 DEF LabelInv, ManifestInv, Known
  <1>10. HeadsFor(goal)'
    <2>1. ASSUME NEW v \in WritesIn(todo'), IsFactWrite(v)
          PROVE  v.id \in DOMAIN facts \ DOMAIN manifest.side
                 /\ v.value = [facts'[v.id] EXCEPT !.split = goal[v.id]]
      <3>1. v.id \in DOMAIN facts \ DOMAIN manifest.side /\ v.value = [facts[v.id] EXCEPT !.split = goal[v.id]]
        BY <1>2, <1>3, <2>1 DEF HeadsFor
      <3>2. CASE v.id # w.id
        BY <1>7, <3>1, <3>2
      <3>3. CASE v.id = w.id
        <4>1. [facts'[v.id] EXCEPT !.split = goal[v.id]] = [facts[v.id] EXCEPT !.split = goal[v.id]]
          BY <1>4, <1>5, <1>7, <3>3 DEF AFact
        <4> QED BY <3>1, <4>1
      <3> QED BY <3>2, <3>3
    <2>2. \A f \in DOMAIN facts' :
            facts'[f].split = goal[f] \/ \E v \in WritesIn(todo') : IsFactWrite(v) /\ v.id = f
      BY <1>2, <1>3, <1>6, <1>7 DEF HeadsFor
    <2>3. ASSUME NEW n \in 1..Len(todo'), IsManifestWrite(todo'[n])
          PROVE  /\ todo'[n].value.frozen /\ DOMAIN todo'[n].value.side \subseteq DOMAIN facts'
                 /\ \A f \in DOMAIN todo'[n].value.side : todo'[n].value.side[f] = goal[f]
                 /\ \A k \in n..Len(todo') : ~IsFactWrite(todo'[k])
      <3>1. n + 1 \in 1..Len(todo) /\ todo'[n] = todo[n + 1]
        BY <1>2
      <3>2. \A k \in n..Len(todo') : k \in 1..Len(todo') /\ k + 1 \in (n + 1)..Len(todo)
        BY <1>2
      <3> QED BY <1>2, <1>3, <1>7, <2>3, <3>1, <3>2 DEF HeadsFor
    <2> QED BY <1>1, <1>3, <1>7, <2>1, <2>2, <2>3 DEF HeadsFor
  <1>11. Freezing' => Whole(goal)'
    <2>1. Freezing' => Freezing
      BY <1>1, <1>2 DEF Freezing
    <2>2. \A f \in DOMAIN facts : facts'[f].page = facts[f].page /\ facts'[f].source = facts[f].source
      BY <1>6, <1>7
    <2>3. \A f, g \in DOMAIN facts : Linked(facts', f, g) <=> Linked(facts, f, g)
      BY <2>2 DEF Linked
    <2> QED BY <1>1, <1>3, <1>7, <2>1, <2>3 DEF Whole
  <1>12. TodoInv'
    BY <1>1, <1>2 DEF TodoInv
  <1>13. MarksInv'
    <2>1. \A f, b, p : LabelledFrom(f, b, p) => LabelledFrom(f, b, p)'
      BY <1>1, <1>6, <1>7 DEF LabelledFrom
    <2> QED BY <1>1, <1>2, <2>1 DEF LabelInv, MarksInv
  <1> QED BY <1>4, <1>7, <1>8, <1>9, <1>10, <1>11, <1>12, <1>13 DEF FilesInv, Aimed

\* The manifest is written: every fact has the side it was to have.
LEMMA WriteManifestKeeps ==
  ASSUME LabelInv, Write, IsManifestWrite(Head(todo))
  PROVE  FilesInv' /\ MarksInv' /\ facts' = facts
  <1> DEFINE w == Head(todo)
  <1>1. /\ TodoInv /\ todo # << >> /\ todo' = Tail(todo) /\ w.to = "manifest"
        /\ facts' = facts /\ manifest' = w.value /\ queue' = queue
        /\ UNCHANGED <<excluded, broken, astray>>
    BY DEF LabelInv, Write, Ready, Apply, IsManifestWrite
  <1>2. /\ w \in WritesIn(todo) /\ WritesIn(todo) = {w} \cup WritesIn(todo')
        /\ todo' \in Seq(WritesIn(todo')) /\ w = todo[1]
        /\ Len(todo') = Len(todo) - 1 /\ Len(todo) \in Nat \ {0}
        /\ \A n \in 1..Len(todo') : todo'[n] = todo[n + 1]
    BY <1>1, FirstWrite
  <1>3. PICK goal : HeadsFor(goal) /\ (Freezing => Whole(goal))
    BY DEF LabelInv, Aimed
  <1> HIDE DEF w
  <1>4. 1 \in 1..Len(todo) /\ IsManifestWrite(todo[1])
    BY <1>1, <1>2 DEF IsManifestWrite
  <1>5. /\ w.value.frozen /\ DOMAIN w.value.side \subseteq DOMAIN facts
        /\ \A f \in DOMAIN w.value.side : w.value.side[f] = goal[f]
        /\ \A k \in 1..Len(todo) : ~IsFactWrite(todo[k])
    BY <1>2, <1>3, <1>4 DEF HeadsFor
  <1>6. \A v \in WritesIn(todo) : ~IsFactWrite(v)
    BY <1>5 DEF WritesIn
  <1>7. \A f \in DOMAIN facts : facts[f].split = goal[f]
    BY <1>3, <1>6 DEF HeadsFor
  <1>8. FactsInv'
    BY <1>1 DEF LabelInv, FactsInv, Known
  <1>9. ManifestInv'
    BY <1>1, <1>5, <1>7 DEF ManifestInv, Known
  <1>10. HeadsFor(goal)'
    <2>1. ASSUME NEW n \in 1..Len(todo'), IsManifestWrite(todo'[n])
          PROVE  /\ todo'[n].value.frozen /\ DOMAIN todo'[n].value.side \subseteq DOMAIN facts'
                 /\ \A f \in DOMAIN todo'[n].value.side : todo'[n].value.side[f] = goal[f]
                 /\ \A k \in n..Len(todo') : ~IsFactWrite(todo'[k])
      <3>1. n + 1 \in 1..Len(todo) /\ todo'[n] = todo[n + 1]
        BY <1>2
      <3>2. \A k \in n..Len(todo') : k \in 1..Len(todo') /\ k + 1 \in 1..Len(todo)
        BY <1>2
      <3>3. \A k \in n..Len(todo') : ~IsFactWrite(todo'[k])
        BY <1>2, <1>5, <3>2
      <3> QED BY <1>1, <1>3, <2>1, <3>1, <3>3 DEF HeadsFor
    <2> QED BY <1>1, <1>2, <1>3, <1>6, <1>7, <2>1 DEF HeadsFor
  <1>11. Freezing' => Whole(goal)'
    <2>1. Freezing
      BY <1>1, <1>2 DEF Freezing, IsManifestWrite
    <2> QED BY <1>1, <1>3, <2>1 DEF Whole
  <1>12. TodoInv'
    BY <1>1, <1>2 DEF TodoInv
  <1>13. MarksInv'
    <2>1. \A f, b, p : LabelledFrom(f, b, p) => LabelledFrom(f, b, p)'
      BY <1>1 DEF LabelledFrom
    <2> QED BY <1>1, <1>2, <2>1 DEF LabelInv, MarksInv
  <1> QED BY <1>1, <1>8, <1>9, <1>10, <1>11, <1>12, <1>13 DEF FilesInv, Aimed

\* A marked claim proposes nothing new.
LEMMA MarkKeeps ==
  ASSUME BatchesInv, NEW b \in 1..Len(queue), NEW p \in DOMAIN queue[b].items,
         NEW status \in Statuses, NEW new \in SUBSET Ids,
         queue' = Mark(queue, <<b, p>>, status, new), UNCHANGED <<backend, requests, pending>>
  PROVE  BatchesInv'
  <1>1. queue \in Seq(Batch)
    BY DEF BatchesInv
  <1>2. /\ queue' \in Seq(Batch) /\ Len(queue') = Len(queue)
        /\ \A c \in 1..Len(queue) : /\ DOMAIN queue'[c].items = DOMAIN queue[c].items
                                    /\ queue'[c].skipped = queue[c].skipped
    <2>1. OnlyMarked(queue', queue, b, p, new)
      BY <1>1, MarkIs
    <2> QED BY <2>1 DEF OnlyMarked
  <1>3. DOMAIN queue = 1..Len(queue) /\ DOMAIN queue' = 1..Len(queue)
    BY <1>1, <1>2
  <1>4. Proposed(queue') = Proposed(queue)
    BY <1>2, <1>3 DEF Proposed
  <1>5. NothingProposedTwice'
    BY <1>2, <1>3 DEF BatchesInv, NothingProposedTwice
  <1>6. Awaited'
    BY <1>4 DEF BatchesInv, Awaited
  <1> QED BY <1>2, <1>5, <1>6 DEF BatchesInv

\* A claim is marked as labelled.
LEMMA WriteQueueKeeps ==
  ASSUME LabelInv, Write, Head(todo).to = "queue"
  PROVE  FilesInv' /\ MarksInv' /\ BatchesInv' /\ facts' = facts
  <1> DEFINE w == Head(todo)
  <1>1. /\ TodoInv /\ todo # << >> /\ todo' = Tail(todo) /\ w.to = "queue"
        /\ facts' = facts /\ manifest' = manifest /\ queue' = Mark(queue, w.value, "labelled", {w.id})
        /\ UNCHANGED <<excluded, broken, astray, pending, backend, requests>>
    BY DEF LabelInv, Write, Ready, Apply
  <1>2. /\ w \in WritesIn(todo) /\ WritesIn(todo) = {w} \cup WritesIn(todo')
        /\ todo' \in Seq(WritesIn(todo'))
        /\ Len(todo') = Len(todo) - 1 /\ Len(todo) \in Nat \ {0}
        /\ \A n \in 1..Len(todo') : todo'[n] = todo[n + 1]
    BY <1>1, FirstWrite
  <1>3. PICK goal : HeadsFor(goal) /\ (Freezing => Whole(goal))
    BY DEF LabelInv, Aimed
  <1> HIDE DEF w
  <1>4. PICK b \in 1..Len(queue) : \E p \in DOMAIN queue[b].items :
          w.value = <<b, p>> /\ w.id \in Ids /\ LabelledFrom(w.id, b, p)
    BY <1>1, <1>2 DEF LabelInv, MarksInv
  <1>5. PICK p \in DOMAIN queue[b].items :
          w.value = <<b, p>> /\ w.id \in Ids /\ LabelledFrom(w.id, b, p)
    BY <1>4
  <1>6. /\ queue' = Mark(queue, <<b, p>>, "labelled", {w.id})
        /\ "labelled" \in Statuses /\ {w.id} \in SUBSET Ids
    BY <1>1, <1>5 DEF Statuses
  <1>7. BatchesInv /\ queue \in Seq(Batch)
    BY DEF LabelInv, BatchesInv
  <1>8. /\ Len(queue') = Len(queue)
        /\ \A c \in 1..Len(queue) :
             /\ DOMAIN queue'[c].items = DOMAIN queue[c].items
             /\ \A x \in DOMAIN queue[c].items :
                  c # b \/ x # p => queue'[c].items[x].facts = queue[c].items[x].facts
        /\ queue'[b].items[p].facts = queue[b].items[p].facts \cup {w.id}
    <2>1. OnlyMarked(queue', queue, b, p, {w.id})
      BY <1>6, <1>7, MarkIs
    <2> QED BY <2>1 DEF OnlyMarked
  <1>9. BatchesInv'
    BY <1>1, <1>6, <1>7, MarkKeeps
  <1>10. \A f, c, x : LabelledFrom(f, c, x)' <=> LabelledFrom(f, c, x)
    BY <1>1 DEF LabelledFrom
  <1>11. MarksInv'
    <2>1. ASSUME NEW c \in 1..Len(queue'), NEW x \in DOMAIN queue'[c].items,
                 NEW f \in queue'[c].items[x].facts
          PROVE  LabelledFrom(f, c, x)
      <3>1. c \in 1..Len(queue) /\ x \in DOMAIN queue[c].items
        BY <1>8
      <3>2. f \in queue[c].items[x].facts \/ (f = w.id /\ c = b /\ x = p)
        BY <1>8, <3>1
      <3> QED BY <1>5, <3>1, <3>2 DEF LabelInv, MarksInv
    <2>2. ASSUME NEW v \in WritesIn(todo'), v.to = "queue"
          PROVE  \E c \in 1..Len(queue') : \E x \in DOMAIN queue'[c].items :
                   v.value = <<c, x>> /\ v.id \in Ids /\ LabelledFrom(v.id, c, x)
      <3>1. PICK c \in 1..Len(queue) : \E x \in DOMAIN queue[c].items :
              v.value = <<c, x>> /\ v.id \in Ids /\ LabelledFrom(v.id, c, x)
        BY <1>2, <2>2 DEF LabelInv, MarksInv
      <3> QED BY <1>8, <3>1
    <2> QED BY <1>10, <2>1, <2>2 DEF MarksInv
  <1>12. HeadsFor(goal)'
    <2>1. ASSUME NEW n \in 1..Len(todo'), IsManifestWrite(todo'[n])
          PROVE  /\ todo'[n].value.frozen /\ DOMAIN todo'[n].value.side \subseteq DOMAIN facts'
                 /\ \A f \in DOMAIN todo'[n].value.side : todo'[n].value.side[f] = goal[f]
                 /\ \A k \in n..Len(todo') : ~IsFactWrite(todo'[k])
      <3>1. n + 1 \in 1..Len(todo) /\ todo'[n] = todo[n + 1]
        BY <1>2
      <3>2. \A k \in n..Len(todo') : k \in 1..Len(todo') /\ k + 1 \in (n + 1)..Len(todo)
        BY <1>2
      <3> QED BY <1>1, <1>2, <1>3, <2>1, <3>1, <3>2 DEF HeadsFor
    <2>2. ~IsFactWrite(w)
      BY <1>1 DEF IsFactWrite
    <2> QED BY <1>1, <1>2, <1>3, <2>1, <2>2 DEF HeadsFor
  <1>13. Freezing' => Whole(goal)'
    <2>1. Freezing' => Freezing
      BY <1>1, <1>2 DEF Freezing
    <2> QED BY <1>1, <1>3, <2>1 DEF Whole
  <1>14. FactsInv' /\ ManifestInv'
    BY <1>1 DEF LabelInv, FactsInv, ManifestInv, Known
  <1>15. TodoInv'
    BY <1>1, <1>2 DEF TodoInv
  <1> QED BY <1>1, <1>9, <1>11, <1>12, <1>13, <1>14, <1>15 DEF FilesInv, Aimed

\* The batches, when neither they nor the requests change.
LEMMA SameBatches ==
  ASSUME BatchesInv, UNCHANGED <<queue, backend, requests, pending>>
  PROVE  BatchesInv'
  BY DEF BatchesInv, NothingProposedTwice, Awaited

\* The handler goes on to its next file.
LEMMA WriteKeeps ==
  ASSUME LabelInv, Write
  PROVE  /\ LabelInv'
         /\ \A f \in DOMAIN manifest.side \cap DOMAIN facts \cap DOMAIN facts' :
              facts'[f].split = facts[f].split
  <1>1. TodoInv /\ todo # << >> /\ BatchesInv
    BY DEF LabelInv, Write, Ready
  <1>2. Head(todo).to \in {"fact", "manifest", "queue"}
    BY <1>1, FirstWrite DEF TodoInv
  <1>3. ASSUME Head(todo).to # "queue" PROVE BatchesInv'
    <2>1. UNCHANGED <<queue, backend, requests, pending>>
      BY <1>3 DEF Write, Apply
    <2> QED BY <1>1, <2>1, SameBatches
  <1>4. CASE Head(todo).to = "fact"
    BY <1>3, <1>4, WriteFactKeeps DEF IsFactWrite, FilesInv, LabelInv
  <1>5. CASE Head(todo).to = "manifest"
    BY <1>3, <1>5, WriteManifestKeeps DEF IsManifestWrite, FilesInv, LabelInv
  <1>6. CASE Head(todo).to = "queue"
    BY <1>6, WriteQueueKeeps DEF FilesInv, LabelInv
  <1> QED BY <1>2, <1>4, <1>5, <1>6

-----------------------------------------------------------------------------
(* A fact is created. *)

\* Linked facts are on one side, unless one of them is in U.
SharedSides(fs, side, U) ==
  \A x, y \in DOMAIN fs \ U : Linked(fs, x, y) => side[x] = side[y]

\* A group without any of U is on one side then.
LEMMA GroupOnOneSide ==
  ASSUME NEW fs, NEW side, NEW U, NEW f \in DOMAIN fs, GroupOf(fs, f) \cap U = {},
         SharedSides(fs, side, U)
  PROVE  \A g \in GroupOf(fs, f) : side[g] = side[f]
  <1> DEFINE S == {x \in GroupOf(fs, f) : side[x] = side[f]}
  <1>1. f \in GroupOf(fs, f) /\ GroupOf(fs, f) \subseteq DOMAIN fs
    BY GroupIs
  <1>2. f \in S /\ S \in SUBSET DOMAIN fs
    BY <1>1
  <1>3. ASSUME NEW x \in S, NEW y \in DOMAIN fs, Linked(fs, x, y) PROVE y \in S
    <2>1. x \in GroupOf(fs, f)
      OBVIOUS
    <2>2. y \in GroupOf(fs, f)
      BY <1>3, <2>1, GroupIs
    <2>3. side[x] = side[y]
      BY <1>1, <1>3, <2>1, <2>2 DEF SharedSides
    <2> QED BY <2>2, <2>3
  <1> HIDE DEF S
  <1>4. GroupOf(fs, f) \subseteq S
    BY <1>2, <1>3, GroupIs
  <1> QED BY <1>4 DEF S

\* A new fact shares an article, or a source, with all it is linked to, so these are
\* linked to each other.
LEMMA NewLinks ==
  ASSUME FactsInv, NEW new \in Nat \ {0}, new \notin Known, NEW fs,
         DOMAIN fs \subseteq DOMAIN facts \cup {new},
         \A f \in DOMAIN fs \ {new} : fs[f] = facts[f],
         fs[new].source # 0 => /\ fs[new].source \in DOMAIN facts
                               /\ fs[new].page = facts[fs[new].source].page,
         NEW f \in DOMAIN fs \ {new}, NEW g \in DOMAIN fs \ {new},
         Linked(fs, new, f), Linked(fs, new, g)
  PROVE  f = g \/ Linked(facts, f, g)
  <1>1. f \in DOMAIN facts /\ g \in DOMAIN facts /\ fs[f] = facts[f] /\ fs[g] = facts[g]
    OBVIOUS
  <1>2. f # 0 /\ g # 0
    BY <1>1 DEF FactsInv, Known, Ids
  <1>3. facts[f].source # new /\ facts[g].source # new
    BY <1>1 DEF FactsInv
  <1>4. \/ fs[new].page # NoPage /\ fs[new].page = facts[f].page
        \/ fs[new].source = f
    BY <1>1, <1>3 DEF Linked
  <1>5. \/ fs[new].page # NoPage /\ fs[new].page = facts[g].page
        \/ fs[new].source = g
    BY <1>1, <1>3 DEF Linked
  <1> QED BY <1>2, <1>4, <1>5 DEF Linked

\* Sequences of one or two writes.
LEMMA ShortSequences ==
  ASSUME NEW S, NEW a \in S, NEW b \in S
  PROVE  /\ << >> \in Seq(S) /\ <<a>> \in Seq(S)
         /\ <<a>> \o << >> \in Seq(S) /\ <<a>> \o <<b>> \in Seq(S)
  <1>1. <<a>> \in Seq(S) /\ <<b>> \in Seq(S) /\ << >> \in Seq(S)
    OBVIOUS
  <1> QED BY <1>1, ConcatProperties

\* A fact was made on a side, with a number, and what is left to be written.
Created(page, label, source, ref, new, side) ==
  LET placed == Fact(page, label, source, side, ref)
      all == With(Load, new, placed)
  IN  /\ facts' = With(facts, new, placed)
      /\ todo' \in Seq({WriteManifest(all), MarkLabelled(ref, new)})
      /\ ref = NoRef => todo' \in Seq({WriteManifest(all)})
      /\ manifest.frozen =>
           /\ astray' = astray \cup broken \cup Strays(all, {new})
           /\ \E sides \in AssignSplits(With(Load, new, Fact(page, label, source, "test", ref)),
                                        SidesOf(Load)) : side = sides[new]
      /\ ~manifest.frozen =>
           /\ astray' = astray
           /\ todo' \in Seq({MarkLabelled(ref, new)})
           /\ ref = NoRef => todo' = << >>

\* That is what a create does.
LEMMA CreateWrites ==
  ASSUME NEW page, NEW label, NEW source, NEW ref, Create(page, label, source, ref),
         NEW new, new = NextNumber
  PROVE  \E side \in Sides : Created(page, label, source, ref, new, side)
  <1> DEFINE fact == Fact(page, label, source, "test", ref)
             mark == MarkLabelled(ref, new)
             marks == IF ref = NoRef THEN << >> ELSE <<mark>>
  <1>1. (ref = NoRef => marks = << >>) /\ (ref # NoRef => marks = <<mark>>)
    OBVIOUS
  <1>2. CASE ~manifest.frozen
    <2>1. facts' = With(facts, new, fact) /\ todo' = marks /\ astray' = astray
      BY <1>2 DEF Create
    <2> HIDE DEF mark, marks
    <2>2. marks \in Seq({mark}) /\ \A m : marks \in Seq({m, mark}) /\ (ref = NoRef => marks \in Seq({m}))
      <3>1. CASE ref = NoRef
        BY <1>1, <3>1
      <3>2. CASE ref # NoRef
        BY <1>1, <3>2, ShortSequences
      <3> QED BY <3>1, <3>2
    <2>3. "test" \in Sides
      BY DEF Sides
    <2> QED BY <1>1, <1>2, <2>1, <2>2, <2>3 DEF mark, Created
  <1>3. CASE manifest.frozen
    <2>1. PICK sides \in AssignSplits(With(Load, new, fact), SidesOf(Load)) :
            LET placed == [fact EXCEPT !.split = sides[new]]
                all == With(Load, new, placed)
            IN  /\ facts' = With(facts, new, placed)
                /\ todo' = <<WriteManifest(all)>> \o marks
                /\ astray' = astray \cup broken \cup Strays(all, {new})
      BY <1>3 DEF Create
    <2> DEFINE placed == Fact(page, label, source, sides[new], ref)
               all == With(Load, new, placed)
               first == WriteManifest(all)
    <2>2. [fact EXCEPT !.split = sides[new]] = placed
      BY DEF Fact
    <2>3. new \in DOMAIN With(Load, new, fact)
      BY DEF With, Merge
    <2>4. sides[new] \in Sides
      <3>1. sides \in [DOMAIN With(Load, new, fact) -> Sides]
        BY DEF AssignSplits
      <3> QED BY <2>3, <3>1
    <2>6. /\ facts' = With(facts, new, placed) /\ todo' = <<first>> \o marks
          /\ astray' = astray \cup broken \cup Strays(all, {new})
      BY <2>1, <2>2
    <2> HIDE DEF mark, marks, first, fact
    <2>5. \A m : <<m>> \o marks \in Seq({m, mark}) /\ (ref = NoRef => <<m>> \o marks \in Seq({m}))
      <3>1. CASE ref = NoRef
        BY <1>1, <3>1
      <3>2. CASE ref # NoRef
        BY <1>1, <3>2, ShortSequences
      <3> QED BY <3>1, <3>2
    <2>7. /\ todo' \in Seq({first, mark}) /\ (ref = NoRef => todo' \in Seq({first}))
      BY <2>5, <2>6
    <2> HIDE DEF placed, all
    <2> QED BY <1>3, <2>4, <2>6, <2>7 DEF mark, placed, all, first, fact, Created
  <1> QED BY <1>2, <1>3

\* A new fact joins its group: those of it that are placed, and not astray, are all on
\* the side it is put on.
LEMMA NewFactJoins ==
  ASSUME FactsInv, NEW new \in Nat \ {0}, new \notin Known,
         NEW page, NEW label, NEW source, NEW ref, NEW side,
         source # 0 => source \in DOMAIN facts /\ page = facts[source].page,
         NEW sides \in AssignSplits(With(Load, new, Fact(page, label, source, "test", ref)),
                                    SidesOf(Load)),
         side = sides[new],
         \A x, y \in DOMAIN facts \ astray : Linked(facts, x, y) => facts[x].split = facts[y].split,
         new \notin Strays(With(Load, new, Fact(page, label, source, side, ref)), {new}),
         NEW g \in DOMAIN Load,
         Linked(With(Load, new, Fact(page, label, source, side, ref)), new, g)
  PROVE  side = facts[g].split
  <1> DEFINE fact == Fact(page, label, source, "test", ref)
             placed == Fact(page, label, source, side, ref)
             fs == With(Load, new, fact)
             all == With(Load, new, placed)
             given == [x \in DOMAIN fs |-> IF x = new THEN facts[g].split ELSE facts[x].split]
             G == GroupOf(fs, new)
  <1>1. /\ placed.page = page /\ placed.source = source
        /\ fact.page = page /\ fact.source = source
    BY DEF Fact
  <1> HIDE DEF fact, placed
  <1>2. /\ DOMAIN Load = DOMAIN facts \ broken /\ \A x \in DOMAIN Load : Load[x] = facts[x]
    BY DEF Load, Without
  <1>3. new \notin DOMAIN Load /\ new \notin DOMAIN facts /\ g # new
    BY <1>2 DEF Known
  <1>4. /\ DOMAIN fs = DOMAIN Load \cup {new} /\ fs[new] = fact
        /\ \A x \in DOMAIN Load : fs[x] = facts[x]
    BY <1>2, <1>3 DEF With, Merge
  <1>5. /\ DOMAIN all = DOMAIN Load \cup {new} /\ all[new] = placed
        /\ \A x \in DOMAIN Load : all[x] = facts[x]
    BY <1>2, <1>3 DEF With, Merge
  <1> HIDE DEF fs, all
  <1>6. SameLinks(fs, all)
    BY <1>1, <1>3, <1>4, <1>5 DEF SameLinks
  <1>7. /\ \A x, y \in DOMAIN fs : Linked(fs, x, y) <=> Linked(all, x, y)
        /\ G = GroupOf(all, new)
    BY <1>4, <1>6, SameGroups
  <1>8. G \cap astray = {}
    BY <1>7 DEF Strays, all, placed
  <1>9. new \in G /\ G \subseteq DOMAIN fs /\ \A x \in G, y \in DOMAIN fs : Linked(fs, x, y) => y \in G
    BY <1>4, GroupIs
  <1> HIDE DEF G
  <1>10. Linked(fs, new, g) /\ g \in G
    <2>1. Linked(all, new, g)
      BY DEF all, placed
    <2> QED BY <1>4, <1>7, <1>9, <2>1
  <1>11. ASSUME NEW x \in DOMAIN fs \ astray, NEW y \in DOMAIN fs \ astray, Linked(fs, x, y)
         PROVE  given[x] = given[y]
    <2>1. ASSUME NEW z \in DOMAIN Load, z \notin astray, Linked(fs, new, z)
          PROVE  facts[z].split = facts[g].split
      <3>1. g = z \/ Linked(facts, g, z)
        BY <1>1, <1>2, <1>3, <1>4, <1>10, <2>1, NewLinks
      <3> QED BY <1>2, <1>8, <1>10, <2>1, <3>1
    <2>2. CASE x = new /\ y = new
      BY <2>2
    <2>3. CASE x = new /\ y # new
      BY <1>4, <1>11, <2>1, <2>3
    <2>4. CASE x # new /\ y = new
      <3>1. Linked(fs, new, x)
        BY <1>11, <2>4, LinkedBothWays
      <3> QED BY <1>4, <2>1, <2>4, <3>1
    <2>5. CASE x # new /\ y # new
      <3>1. x \in DOMAIN facts /\ y \in DOMAIN facts /\ fs[x] = facts[x] /\ fs[y] = facts[y]
        BY <1>2, <1>4, <2>5
      <3>2. Linked(facts, x, y)
        BY <1>11, <3>1 DEF Linked
      <3> QED BY <2>5, <3>1, <3>2
    <2> QED BY <2>2, <2>3, <2>4, <2>5
  <1> HIDE DEF given
  <1>12. \A x \in G : given[x] = given[new]
    <2>1. SharedSides(fs, given, astray)
      BY <1>11 DEF SharedSides
    <2>2. new \in DOMAIN fs /\ GroupOf(fs, new) \cap astray = {}
      BY <1>4, <1>8 DEF G
    <2>3. \A x \in GroupOf(fs, new) : given[x] = given[new]
      BY <2>1, <2>2, GroupOnOneSide
    <2> QED BY <2>3 DEF G
  <1>13. \A x \in G \ {new} : facts[x].split = facts[g].split
    BY <1>9, <1>12 DEF given
  <1> DEFINE frozen == SidesOf(Load)
  <1>14. DOMAIN frozen = DOMAIN Load /\ \A x \in DOMAIN Load : frozen[x] = facts[x].split
    BY <1>2 DEF SidesOf
  <1>15. facts[g].split \in Sides
    BY <1>2 DEF FactsInv, AFact
  <1>16. sides \in AssignSplits(fs, frozen)
    BY DEF fs, fact
  <1> HIDE DEF frozen
  <1>17. /\ G \cap DOMAIN frozen # {}
         /\ \A x \in G \cap DOMAIN frozen : frozen[x] = facts[g].split
    BY <1>3, <1>10, <1>13, <1>14
  <1>18. sides[new] = facts[g].split
    BY <1>4, <1>9, <1>15, <1>16, <1>17, SidesAssigned DEF G, Settled
  <1> QED BY <1>18

\* A fact is created, from a form, from a claim of a batch or from another fact.
LEMMA CreateKeeps ==
  ASSUME LabelInv, todo = << >>, NEW page \in Pages \cup {NoPage}, NEW label \in LabelNames,
         NEW source, source # 0 => source \in DOMAIN facts /\ page = facts[source].page,
         NEW ref, ref = NoRef \/ \E b \in 1..Len(queue) : \E p \in DOMAIN queue[b].items : ref = <<b, p>>,
         Create(page, label, source, ref),
         UNCHANGED <<excluded, broken, manifest, queue, pending, backend, requests>>
  PROVE  LabelInv' /\ \A f \in DOMAIN facts : facts'[f] = facts[f]
  <1>1. PICK new : new = NextNumber
    OBVIOUS
  <1>2. FactsInv /\ ManifestInv /\ MarksInv /\ BatchesInv
    BY DEF LabelInv
  <1>3. new \in Nat \ {0} /\ new \notin Known /\ new \in Ids
    <2>1. new \in Nat \ {0} /\ new \notin Known
      BY <1>2, <1>1, NextIsNew DEF FactsInv
    <2>2. new <= MaxFacts
      BY <1>1 DEF Create
    <2> QED BY <2>1, <2>2, LabellingAssumption DEF Ids
  <1>4. PICK side \in Sides : Created(page, label, source, ref, new, side)
    BY <1>1, CreateWrites
  <1> DEFINE placed == Fact(page, label, source, side, ref)
             all == With(Load, new, placed)
  <1>5. /\ facts' = With(facts, new, placed)
        /\ todo' \in Seq({WriteManifest(all), MarkLabelled(ref, new)})
        /\ ref = NoRef => todo' \in Seq({WriteManifest(all)})
        /\ ~manifest.frozen => astray' = astray /\ todo' \in Seq({MarkLabelled(ref, new)})
        /\ ~manifest.frozen /\ ref = NoRef => todo' = << >>
    BY <1>4 DEF Created
  <1>6. /\ placed.page = page /\ placed.source = source /\ placed.ref = ref
        /\ placed.split = side
    BY DEF Fact
  <1>7. placed \in AFact
    <2>1. ref \in {NoRef} \cup (Nat \X Pages)
      <3>1. ASSUME NEW b \in 1..Len(queue), NEW p \in DOMAIN queue[b].items, ref = <<b, p>>
            PROVE  ref \in Nat \X Pages
        <4>1. queue[b] \in Batch /\ b \in Nat
          BY <1>2 DEF BatchesInv
        <4>2. p \in Pages
          BY <4>1 DEF Batch
        <4> QED BY <3>1, <4>1, <4>2
      <3> QED BY <3>1
    <2>2. source \in {0} \cup Ids
      BY <1>2 DEF FactsInv, Known
    <2> QED BY <2>1, <2>2 DEF Fact, AFact, LabelNames
  <1>8. source \in {0} \cup Known
    BY <1>2 DEF FactsInv, Known
  <1> HIDE DEF placed
  <1>9. /\ DOMAIN facts' = DOMAIN facts \cup {new} /\ facts'[new] = placed
        /\ \A f \in DOMAIN facts : facts'[f] = facts[f]
    <2>1. new \notin DOMAIN facts
      BY <1>3 DEF Known
    <2> QED BY <1>5, <2>1 DEF With, Merge
  <1>10. /\ DOMAIN Load = DOMAIN facts \ broken /\ \A f \in DOMAIN Load : Load[f] = facts[f]
        /\ DOMAIN all = DOMAIN Load \cup {new} /\ all[new] = placed
        /\ \A f \in DOMAIN Load : all[f] = facts[f]
    <2>1. DOMAIN Load = DOMAIN facts \ broken /\ \A f \in DOMAIN Load : Load[f] = facts[f]
      BY DEF Load, Without
    <2>2. new \notin DOMAIN Load
      BY <1>3, <2>1 DEF Known
    <2> QED BY <2>1, <2>2 DEF With, Merge
  <1>11. FactsInv'
    BY <1>2, <1>3, <1>6, <1>7, <1>8, <1>9 DEF FactsInv, Known
  <1>12. ManifestInv'
    BY <1>2, <1>3, <1>9 DEF ManifestInv, Known
  <1>13. /\ \A w \in WritesIn(todo') : w \in {WriteManifest(all), MarkLabelled(ref, new)}
         /\ ref = NoRef => \A w \in WritesIn(todo') : w = WriteManifest(all)
         /\ ~manifest.frozen => \A w \in WritesIn(todo') : w = MarkLabelled(ref, new)
         /\ todo' \in Seq(WritesIn(todo'))
    <2>1. todo' \in Seq(WritesIn(todo')) /\ WritesIn(todo') \subseteq {WriteManifest(all), MarkLabelled(ref, new)}
      BY <1>5, TodoIs
    <2>2. ref = NoRef => WritesIn(todo') \subseteq {WriteManifest(all)}
      BY <1>5, TodoIs
    <2>3. ~manifest.frozen => WritesIn(todo') \subseteq {MarkLabelled(ref, new)}
      BY <1>5, TodoIs
    <2> QED BY <2>1, <2>2, <2>3
  <1>14. /\ WriteManifest(all).to = "manifest" /\ WriteManifest(all).value.frozen
         /\ DOMAIN WriteManifest(all).value.side = DOMAIN all
         /\ \A f \in DOMAIN all : WriteManifest(all).value.side[f] = all[f].split
         /\ MarkLabelled(ref, new).to = "queue" /\ MarkLabelled(ref, new).value = ref
         /\ MarkLabelled(ref, new).id = new
    BY DEF WriteManifest, Manifest, SidesOf, MarkLabelled
  <1>15. TodoInv'
    BY <1>13, <1>14 DEF TodoInv
  <1>16. MarksInv'
    <2>1. \A f, b, p : LabelledFrom(f, b, p) => LabelledFrom(f, b, p)'
      BY <1>9 DEF LabelledFrom
    <2>2. ASSUME NEW w \in WritesIn(todo'), w.to = "queue"
          PROVE  \E b \in 1..Len(queue) : \E p \in DOMAIN queue[b].items :
                   w.value = <<b, p>> /\ w.id \in Ids /\ LabelledFrom(w.id, b, p)'
      <3>1. w = MarkLabelled(ref, new) /\ ref # NoRef
        BY <1>13, <1>14, <2>2
      <3>2. w.value = ref /\ w.id = new
        BY <1>14, <3>1
      <3>3. PICK b \in 1..Len(queue) : \E p \in DOMAIN queue[b].items : ref = <<b, p>>
        BY <3>1
      <3>4. \A p : ref = <<b, p>> => LabelledFrom(new, b, p)'
        BY <1>6, <1>9 DEF LabelledFrom
      <3> QED BY <1>3, <3>2, <3>3, <3>4
    <2> QED BY <1>2, <2>1, <2>2 DEF MarksInv
  <1>17. PICK old : HeadsFor(old) /\ (Freezing => Whole(old))
    BY DEF LabelInv, Aimed
  <1>18. WritesIn(todo) = {} /\ \A f \in DOMAIN facts : facts[f].split = old[f]
    <2>1. Len(todo) = 0
      OBVIOUS
    <2>2. WritesIn(todo) = {}
      BY <2>1 DEF WritesIn
    <2> QED BY <1>17, <2>2 DEF HeadsFor
  <1>19. PICK goal : goal = [f \in DOMAIN facts' |-> facts'[f].split]
    OBVIOUS
  <1>20. HeadsFor(goal)'
    <2>1. \A w \in WritesIn(todo') : ~IsFactWrite(w)
      BY <1>13, <1>14 DEF IsFactWrite
    <2>2. \A f \in DOMAIN facts' : facts'[f].split \in Sides
      BY <1>11 DEF FactsInv, AFact
    <2>3. ASSUME NEW n \in 1..Len(todo'), IsManifestWrite(todo'[n])
          PROVE  /\ todo'[n].value.frozen /\ DOMAIN todo'[n].value.side \subseteq DOMAIN facts'
                 /\ \A f \in DOMAIN todo'[n].value.side : todo'[n].value.side[f] = goal[f]
                 /\ \A k \in n..Len(todo') : ~IsFactWrite(todo'[k])
      <3>1. todo'[n] = WriteManifest(all)
        BY <1>13, <1>14, <2>3 DEF WritesIn, IsManifestWrite
      <3>2. DOMAIN all \subseteq DOMAIN facts' /\ \A f \in DOMAIN all : all[f] = facts'[f]
        BY <1>9, <1>10
      <3>3. \A k \in n..Len(todo') : k \in 1..Len(todo')
        BY <1>13
      <3>4. \A k \in n..Len(todo') : ~IsFactWrite(todo'[k])
        BY <2>1, <3>3 DEF WritesIn
      <3> HIDE DEF all
      <3> QED BY <1>14, <1>19, <3>1, <3>2, <3>4
    <2> QED BY <1>19, <2>1, <2>2, <2>3 DEF HeadsFor
  <1>21. Freezing' => Whole(goal)'
    <2> SUFFICES ASSUME Freezing' PROVE Whole(goal)'
      OBVIOUS
    <2>1. manifest.frozen
      <3>1. ~manifest.frozen => \A w \in WritesIn(todo') : ~IsManifestWrite(w)
        BY <1>13, <1>14 DEF IsManifestWrite
      <3> QED BY <3>1 DEF Freezing
    <2>2. /\ astray' = astray \cup broken \cup Strays(all, {new})
          /\ \E sides \in AssignSplits(With(Load, new, Fact(page, label, source, "test", ref)),
                                       SidesOf(Load)) : side = sides[new]
      BY <1>4, <2>1 DEF placed, Created
    <2>3. \A x, y \in DOMAIN facts \ astray : Linked(facts, x, y) => facts[x].split = facts[y].split
      BY <1>17, <1>18, <2>1 DEF Freezing, Whole
    <2>4. ASSUME NEW g \in DOMAIN facts \ astray', new \notin astray', Linked(facts', new, g)
          PROVE  side = facts[g].split
      <3>1. g \in DOMAIN Load /\ new \notin Strays(all, {new})
        BY <1>10, <2>2, <2>4
      <3>2. Linked(all, new, g)
        BY <1>9, <1>10, <2>4, <3>1 DEF Linked
      <3> HIDE DEF all
      <3>3. PICK sides \in AssignSplits(With(Load, new, Fact(page, label, source, "test", ref)),
                                        SidesOf(Load)) : side = sides[new]
        BY <2>2
      <3> QED BY <1>2, <1>3, <2>3, <3>1, <3>2, <3>3, NewFactJoins DEF all, placed
    <2>5. \A f \in DOMAIN facts : goal[f] = facts[f].split
      BY <1>9, <1>19
    <2>6. goal[new] = side
      BY <1>6, <1>9, <1>19
    <2> HIDE DEF all
    <2>7. ASSUME NEW f \in DOMAIN facts' \ astray', NEW g \in DOMAIN facts' \ astray', Linked(facts', f, g)
          PROVE  goal[f] = goal[g]
      <3>1. CASE f = g
        BY <3>1
      <3>2. CASE f = new /\ g # new
        BY <1>9, <2>4, <2>5, <2>6, <2>7, <3>2
      <3>3. CASE f # new /\ g = new
        <4>1. Linked(facts', new, f)
          BY <2>7, <3>3, LinkedBothWays
        <4> QED BY <1>9, <2>4, <2>5, <2>6, <3>3, <4>1
      <3>4. CASE f # new /\ g # new
        <4>1. f \in DOMAIN facts \ astray /\ g \in DOMAIN facts \ astray
          BY <1>9, <2>2, <3>4
        <4>2. Linked(facts, f, g)
          BY <1>9, <2>7, <4>1 DEF Linked
        <4> QED BY <2>3, <2>5, <4>1, <4>2
      <3> QED BY <3>1, <3>2, <3>3, <3>4
    <2> QED BY <2>7 DEF Whole
  <1>22. BatchesInv'
    BY <1>2, SameBatches
  <1> QED BY <1>9, <1>11, <1>12, <1>15, <1>16, <1>20, <1>21, <1>22 DEF LabelInv, Aimed

\* The three ways to a new fact.
LEMMA CreatesKeep ==
  ASSUME LabelInv, CreateFact \/ LabelFromBatch \/ Mutate
  PROVE  LabelInv' /\ \A f \in DOMAIN facts : facts'[f] = facts[f]
  <1>1. /\ todo = << >> /\ UNCHANGED <<excluded, broken, manifest, queue, pending, backend, requests>>
        /\ FactsInv /\ BatchesInv
    BY DEF CreateFact, LabelFromBatch, Mutate, Ready, LabelInv
  <1>2. CASE CreateFact
    <2>1. PICK page \in FormPages, label \in LabelNames : Create(page, label, 0, NoRef)
      BY <1>2 DEF CreateFact
    <2>2. page \in Pages \cup {NoPage}
      BY LabellingAssumption
    <2> QED BY <1>1, <2>1, <2>2, CreateKeeps
  <1>3. CASE LabelFromBatch
    <2>1. PICK b \in DOMAIN queue : \E p \in DOMAIN queue[b].items : Create(p, "TRUE", 0, <<b, p>>)
      BY <1>3 DEF LabelFromBatch
    <2>2. PICK p \in DOMAIN queue[b].items : Create(p, "TRUE", 0, <<b, p>>)
      BY <2>1
    <2>3. b \in 1..Len(queue) /\ queue[b] \in Batch
      BY <1>1 DEF BatchesInv
    <2>4. p \in Pages /\ "TRUE" \in LabelNames
      BY <2>3 DEF Batch, LabelNames
    <2>5. PICK ref : ref = <<b, p>>
      OBVIOUS
    <2>6. \E c \in 1..Len(queue) : \E x \in DOMAIN queue[c].items : ref = <<c, x>>
      BY <2>3, <2>5
    <2>7. Create(p, "TRUE", 0, ref)
      BY <2>2, <2>5
    <2> QED BY <1>1, <2>4, <2>6, <2>7, CreateKeeps
  <1>4. CASE Mutate
    <2>1. PICK source \in DOMAIN Load : Create(facts[source].page, "FALSE", source, NoRef)
      BY <1>4 DEF Mutate
    <2>2. source \in DOMAIN facts
      BY DEF Load, Without
    <2>3. PICK page : page = facts[source].page
      OBVIOUS
    <2>4. page \in Pages \cup {NoPage} /\ "FALSE" \in LabelNames
      BY <1>1, <2>2, <2>3 DEF FactsInv, AFact, LabelNames
    <2>5. Create(page, "FALSE", source, NoRef)
      BY <2>1, <2>3
    <2> QED BY <1>1, <2>2, <2>3, <2>4, <2>5, CreateKeeps
  <1> QED BY <1>2, <1>3, <1>4

-----------------------------------------------------------------------------
(* A fact is edited, reviewed or moved by hand. *)

\* When nothing is to be written the facts are on the sides they head for.
LEMMA NothingToWrite ==
  ASSUME LabelInv, todo = << >>
  PROVE  /\ WritesIn(todo) = {} /\ Len(todo) = 0 /\ (Freezing <=> manifest.frozen)
         /\ manifest.frozen =>
              \A f, g \in DOMAIN facts \ astray : Linked(facts, f, g) => facts[f].split = facts[g].split
  <1>1. Len(todo) = 0
    OBVIOUS
  <1>2. WritesIn(todo) = {}
    BY <1>1 DEF WritesIn
  <1>3. PICK goal : HeadsFor(goal) /\ (Freezing => Whole(goal))
    BY DEF LabelInv, Aimed
  <1>4. \A f \in DOMAIN facts : facts[f].split = goal[f]
    BY <1>2, <1>3 DEF HeadsFor
  <1>5. Freezing <=> manifest.frozen
    BY <1>2 DEF Freezing
  <1> QED BY <1>1, <1>2, <1>3, <1>4, <1>5 DEF Whole

\* The facts' sides are the goal of a step that leaves nothing to be written.
LEMMA SettledAims ==
  ASSUME todo' = << >>, FactsInv',
         manifest'.frozen =>
           \A f, g \in DOMAIN facts' \ astray' : Linked(facts', f, g) => facts'[f].split = facts'[g].split
  PROVE  Aimed' /\ TodoInv'
  <1>1. Len(todo') = 0
    OBVIOUS
  <1>2. WritesIn(todo') = {}
    BY <1>1 DEF WritesIn
  <1>3. PICK goal : goal = [f \in DOMAIN facts' |-> facts'[f].split]
    OBVIOUS
  <1>4. \A f \in DOMAIN facts' : facts'[f].split \in Sides
    BY DEF FactsInv, AFact
  <1>5. HeadsFor(goal)'
    BY <1>1, <1>2, <1>3, <1>4 DEF HeadsFor
  <1>6. Freezing' => Whole(goal)'
    BY <1>2, <1>3 DEF Freezing, Whole
  <1>7. TodoInv'
    BY <1>2 DEF TodoInv
  <1> QED BY <1>5, <1>6, <1>7 DEF Aimed

\* What a fact was labelled from does not change with it.
LEMMA SameMarks ==
  ASSUME MarksInv, WritesIn(todo') \subseteq WritesIn(todo), queue' = queue, excluded' = excluded,
         DOMAIN facts' = DOMAIN facts, \A f \in DOMAIN facts : facts'[f].ref = facts[f].ref
  PROVE  MarksInv'
  <1>1. \A f, b, p : LabelledFrom(f, b, p) => LabelledFrom(f, b, p)'
    BY DEF LabelledFrom
  <1> QED BY <1>1 DEF MarksInv

\* An edit.
LEMMA UpdateKeeps ==
  ASSUME LabelInv, Update
  PROVE  LabelInv' /\ \A f \in DOMAIN facts : facts'[f].split = facts[f].split
  <1>1. PICK f \in DOMAIN Load, page \in FormPages, label \in LabelNames :
          /\ facts' = [facts EXCEPT ![f] = BuildRecord(@, page, label)]
          /\ astray' = IF manifest.frozen /\ page # facts[f].page
                       THEN astray \cup {f} ELSE astray
    BY DEF Update
  <1>2. /\ todo = << >> /\ todo' = todo
        /\ UNCHANGED <<excluded, broken, manifest, queue, pending, backend, requests>>
        /\ FactsInv /\ ManifestInv /\ MarksInv /\ BatchesInv
    BY DEF Update, Ready, LabelInv
  <1>3. f \in DOMAIN facts /\ facts[f] \in AFact /\ page \in Pages \cup {NoPage}
    BY <1>2, LabellingAssumption DEF Load, Without, FactsInv
  <1> DEFINE new == BuildRecord(facts[f], page, label)
  <1>4. /\ new \in AFact /\ new.page = page /\ new.source = facts[f].source
        /\ new.split = facts[f].split /\ new.ref = facts[f].ref
    BY <1>3 DEF BuildRecord, AFact
  <1>5. /\ DOMAIN facts' = DOMAIN facts /\ facts'[f] = new
        /\ \A g \in DOMAIN facts \ {f} : facts'[g] = facts[g]
    BY <1>1, <1>3
  <1> HIDE DEF new
  <1>6. FactsInv'
    BY <1>2, <1>3, <1>4, <1>5 DEF FactsInv, Known
  <1>7. \A g \in DOMAIN facts : facts'[g].split = facts[g].split /\ facts'[g].ref = facts[g].ref
    BY <1>4, <1>5
  <1>8. ManifestInv'
    BY <1>2, <1>5, <1>7 DEF ManifestInv, Known
  <1>9. MarksInv'
    BY <1>2, <1>5, <1>7, SameMarks
  <1>10. BatchesInv'
    BY <1>2, SameBatches
  <1>11. ASSUME manifest.frozen, NEW x \in DOMAIN facts' \ astray', NEW y \in DOMAIN facts' \ astray',
                Linked(facts', x, y)
         PROVE  facts'[x].split = facts'[y].split
    <2>1. x \in DOMAIN facts \ astray /\ y \in DOMAIN facts \ astray
      BY <1>1, <1>5
    <2>2. Linked(facts, x, y)
      <3>1. CASE page = facts[f].page
        BY <1>4, <1>5, <1>11, <2>1, <3>1 DEF Linked
      <3>2. CASE page # facts[f].page
        <4>1. x # f /\ y # f
          BY <1>1, <1>11, <3>2
        <4> QED BY <1>5, <1>11, <2>1, <4>1 DEF Linked
      <3> QED BY <3>1, <3>2
    <2>3. facts[x].split = facts[y].split
      BY <1>2, <1>11, <2>1, <2>2, NothingToWrite
    <2> QED BY <1>7, <2>1, <2>3
  <1>12. Aimed' /\ TodoInv'
    <2>1. manifest'.frozen => \A x, y \in DOMAIN facts' \ astray' :
            Linked(facts', x, y) => facts'[x].split = facts'[y].split
      BY <1>2, <1>11
    <2> QED BY <1>2, <1>6, <2>1, SettledAims
  <1> QED BY <1>6, <1>7, <1>8, <1>9, <1>10, <1>12 DEF LabelInv

\* A review.
LEMMA ReviewKeeps ==
  ASSUME LabelInv, Review
  PROVE  LabelInv' /\ \A f \in DOMAIN facts : facts'[f].split = facts[f].split
  <1>1. PICK f \in DOMAIN Load : facts' = [facts EXCEPT ![f].first = facts[f].label]
    BY DEF Review
  <1>2. /\ todo = << >> /\ todo' = todo
        /\ UNCHANGED <<excluded, broken, manifest, queue, pending, backend, requests, astray>>
        /\ FactsInv /\ ManifestInv /\ MarksInv /\ BatchesInv
    BY DEF Review, Ready, LabelInv
  <1>3. f \in DOMAIN facts /\ facts[f] \in AFact
    BY <1>2 DEF Load, Without, FactsInv
  <1> DEFINE new == [facts[f] EXCEPT !.first = facts[f].label]
  <1>4. /\ new \in AFact /\ new.page = facts[f].page /\ new.source = facts[f].source
        /\ new.split = facts[f].split /\ new.ref = facts[f].ref
    BY <1>3 DEF AFact
  <1>5. /\ DOMAIN facts' = DOMAIN facts /\ facts'[f] = new
        /\ \A g \in DOMAIN facts \ {f} : facts'[g] = facts[g]
    BY <1>1, <1>3
  <1> HIDE DEF new
  <1>6. FactsInv'
    BY <1>2, <1>3, <1>4, <1>5 DEF FactsInv, Known
  <1>7. \A g \in DOMAIN facts : facts'[g].split = facts[g].split /\ facts'[g].ref = facts[g].ref
    BY <1>4, <1>5
  <1>8. ManifestInv'
    BY <1>2, <1>5, <1>7 DEF ManifestInv, Known
  <1>9. MarksInv'
    BY <1>2, <1>5, <1>7, SameMarks
  <1>10. BatchesInv'
    BY <1>2, SameBatches
  <1>11. \A x, y \in DOMAIN facts : Linked(facts', x, y) => Linked(facts, x, y)
    BY <1>4, <1>5 DEF Linked
  <1>12. Aimed' /\ TodoInv'
    <2>1. manifest'.frozen => \A x, y \in DOMAIN facts' \ astray' :
            Linked(facts', x, y) => facts'[x].split = facts'[y].split
      BY <1>2, <1>5, <1>7, <1>11, NothingToWrite
    <2> QED BY <1>2, <1>6, <2>1, SettledAims
  <1> QED BY <1>6, <1>7, <1>8, <1>9, <1>10, <1>12 DEF LabelInv

\* A fact is moved out of the set.
LEMMA LeaveOutKeeps ==
  ASSUME LabelInv, LeaveOut
  PROVE  LabelInv' /\ \A f \in DOMAIN facts \cap DOMAIN facts' : facts'[f].split = facts[f].split
  <1>1. PICK f \in DOMAIN facts :
          /\ excluded' = With(excluded, f, facts[f])
          /\ facts' = Without(facts, {f})
          /\ broken' = broken \ {f}
    BY DEF LeaveOut
  <1>2. /\ todo = << >> /\ todo' = todo
        /\ UNCHANGED <<manifest, queue, pending, backend, requests, astray>>
        /\ FactsInv /\ ManifestInv /\ MarksInv /\ BatchesInv
    BY DEF LeaveOut, Ready, LabelInv
  <1>3. f \notin DOMAIN excluded
    BY <1>2 DEF FactsInv
  <1>4. /\ DOMAIN facts' = DOMAIN facts \ {f} /\ \A g \in DOMAIN facts \ {f} : facts'[g] = facts[g]
        /\ DOMAIN excluded' = DOMAIN excluded \cup {f} /\ excluded'[f] = facts[f]
        /\ \A g \in DOMAIN excluded : excluded'[g] = excluded[g]
    BY <1>1, <1>3 DEF Without, With, Merge
  <1>5. Known' = Known
    BY <1>4 DEF Known
  <1>6. FactsInv'
    BY <1>1, <1>2, <1>4, <1>5 DEF FactsInv
  <1>7. ManifestInv'
    BY <1>2, <1>4, <1>5 DEF ManifestInv
  <1>8. MarksInv'
    <2>1. \A g, b, p : LabelledFrom(g, b, p) => LabelledFrom(g, b, p)'
      BY <1>3, <1>4 DEF LabelledFrom
    <2> QED BY <1>2, <2>1 DEF MarksInv
  <1>9. BatchesInv'
    BY <1>2, SameBatches DEF LeaveOut
  <1>10. Aimed' /\ TodoInv'
    <2>1. manifest'.frozen => \A x, y \in DOMAIN facts' \ astray' :
            Linked(facts', x, y) => facts'[x].split = facts'[y].split
      <3>1. \A x, y \in DOMAIN facts' : Linked(facts', x, y) => Linked(facts, x, y)
        BY <1>4 DEF Linked
      <3> QED BY <1>2, <1>4, <3>1, NothingToWrite
    <2> QED BY <1>2, <1>6, <2>1, SettledAims
  <1> QED BY <1>4, <1>6, <1>7, <1>8, <1>9, <1>10 DEF LabelInv

\* An edit leaves a file that is not JSON, or it is put right.
LEMMA BreakKeeps ==
  ASSUME LabelInv, Break \/ Repair
  PROVE  LabelInv' /\ facts' = facts
  <1>1. /\ UNCHANGED <<facts, excluded, manifest, queue, pending, backend, todo, astray, requests>>
        /\ broken' \subseteq DOMAIN facts
    BY DEF Break, Repair
  <1>2. FactsInv' /\ ManifestInv' /\ MarksInv' /\ TodoInv'
    BY <1>1 DEF LabelInv, FactsInv, Known, ManifestInv, MarksInv, LabelledFrom, TodoInv
  <1>3. BatchesInv'
    BY <1>1, SameBatches DEF LabelInv
  <1>4. Aimed'
    <2>1. PICK goal : HeadsFor(goal) /\ (Freezing => Whole(goal))
      BY DEF LabelInv, Aimed
    <2>2. HeadsFor(goal)' /\ (Freezing' => Whole(goal)')
      BY <1>1, <2>1 DEF HeadsFor, Freezing, Whole
    <2> QED BY <2>2 DEF Aimed
  <1> QED BY <1>1, <1>2, <1>3, <1>4 DEF LabelInv

-----------------------------------------------------------------------------
(* The split. *)

\* The new sides keep what the manifest names, and linked facts are on one side, but for
\* those that were astray and those placed among such.
LEMMA SplitSides ==
  ASSUME LabelInv, todo = << >>, NEW frozen,
         frozen = Without(manifest.side, DOMAIN manifest.side \ DOMAIN facts),
         NEW sides \in AssignSplits(facts, frozen),
         NEW fs, SameLinks(facts, fs)
  PROVE  /\ sides \in [DOMAIN facts -> Sides]
         /\ \A f \in DOMAIN facts \cap DOMAIN manifest.side : sides[f] = facts[f].split
         /\ \A f, g \in DOMAIN facts \ (astray \cup Strays(fs, DOMAIN facts \ DOMAIN manifest.side)) :
              Linked(facts, f, g) => sides[f] = sides[g]
  <1>1. FactsInv /\ ManifestInv
    BY DEF LabelInv
  <1>2. /\ DOMAIN frozen = DOMAIN manifest.side \cap DOMAIN facts
        /\ \A f \in DOMAIN frozen : frozen[f] = facts[f].split
    BY <1>1 DEF Without, ManifestInv
  <1>3. Settled(facts, frozen, sides)
    BY SidesAssigned
  <1>4. /\ sides \in [DOMAIN facts -> Sides]
        /\ \A f \in DOMAIN facts \cap DOMAIN frozen : sides[f] = frozen[f]
    BY <1>3 DEF Settled
  <1>5. \A f \in DOMAIN facts : GroupOf(facts, f) \cap DOMAIN frozen = {} =>
          \A g \in GroupOf(facts, f) : sides[g] = sides[f]
    BY <1>3 DEF Settled
  <1>6. \A f \in DOMAIN facts : \A side \in Sides :
           /\ GroupOf(facts, f) \cap DOMAIN frozen # {}
           /\ \A g \in GroupOf(facts, f) \cap DOMAIN frozen : frozen[g] = side
           => \A g \in GroupOf(facts, f) : sides[g] = side
    BY <1>3 DEF Settled
  <1> DEFINE placed == DOMAIN facts \ DOMAIN manifest.side
             split == SidesOf(facts)
  <1>7. DOMAIN split = DOMAIN facts /\ \A f \in DOMAIN facts : split[f] = facts[f].split
    BY DEF SidesOf
  <1>8. \A f \in DOMAIN facts : GroupOf(facts, f) = GroupOf(fs, f)
    BY SameGroups
  <1> HIDE DEF split, placed
  <1>9. ASSUME manifest.frozen PROVE SharedSides(facts, split, astray)
    BY <1>7, <1>9, NothingToWrite DEF SharedSides
  <1>10. ASSUME NEW f \in placed, f \notin Strays(fs, placed), NEW g \in GroupOf(facts, f)
        PROVE  sides[g] = sides[f]
    <2>1. f \in DOMAIN facts /\ GroupOf(facts, f) \cap astray = {}
      BY <1>8, <1>10 DEF Strays, placed
    <2> DEFINE G == GroupOf(facts, f)
    <2>2. f \in G /\ G \subseteq DOMAIN facts
      BY <2>1, GroupIs
    <2>3. CASE G \cap DOMAIN frozen = {}
      BY <1>10, <1>5, <2>1, <2>3
    <2>4. CASE G \cap DOMAIN frozen # {}
      <3>1. manifest.frozen
        BY <1>1, <1>2, <2>4 DEF ManifestInv
      <3>2. \A x \in G : split[x] = split[f]
        BY <1>9, <2>1, <3>1, GroupOnOneSide
      <3>3. \A x \in G \cap DOMAIN frozen : frozen[x] = split[f]
        BY <1>2, <1>7, <3>2
      <3>4. split[f] \in Sides
        BY <1>1, <1>7, <2>1 DEF FactsInv, AFact
      <3>5. \A x \in G : sides[x] = split[f]
        BY <1>6, <2>1, <2>4, <3>3, <3>4
      <3> QED BY <1>10, <2>2, <3>5
    <2> QED BY <2>3, <2>4
  <1>11. ASSUME NEW f \in DOMAIN facts \ (astray \cup Strays(fs, placed)),
               NEW g \in DOMAIN facts \ (astray \cup Strays(fs, placed)), Linked(facts, f, g)
        PROVE  sides[f] = sides[g]
    <2>1. CASE f \in placed
      <3>1. g \in GroupOf(facts, f)
        BY <1>11, GroupIs
      <3> QED BY <1>10, <1>11, <2>1, <3>1
    <2>2. CASE g \in placed
      <3>1. Linked(facts, g, f)
        BY <1>11, LinkedBothWays
      <3>2. f \in GroupOf(facts, g)
        BY <1>11, <3>1, GroupIs
      <3> QED BY <1>10, <1>11, <2>2, <3>2
    <2>3. CASE f \notin placed /\ g \notin placed
      <3>1. f \in DOMAIN frozen /\ g \in DOMAIN frozen
        BY <1>2, <2>3 DEF placed
      <3>2. manifest.frozen
        BY <1>1, <1>2, <3>1 DEF ManifestInv
      <3>3. split[f] = split[g]
        BY <1>9, <1>11, <3>2 DEF SharedSides
      <3> QED BY <1>2, <1>4, <1>7, <3>1, <3>3
    <2> QED BY <2>1, <2>2, <2>3
  <1> QED BY <1>2, <1>4, <1>11 DEF placed

\* What a split leaves to be written: each changed fact, then the manifest.
SplitWrites(ws, after, changed) ==
  /\ \E n \in Nat : /\ Len(ws) = n + 1
                    /\ \A i \in 1..n : \E f \in changed : ws[i] = WriteFact(f, after[f])
                    /\ ws[n + 1] = WriteManifest(after)
  /\ \A f \in changed : \E i \in 1..Len(ws) : ws[i] = WriteFact(f, after[f])
  /\ ws \in Seq(WritesIn(ws))

\* That is what it leaves.
LEMMA SplitLeaves ==
  ASSUME NEW after, NEW S, IsFiniteSet(S), NEW changed \in InOrder(S), NEW ws,
         ws = [n \in DOMAIN changed |-> WriteFact(changed[n], after[changed[n]])]
              \o <<WriteManifest(after)>>
  PROVE  SplitWrites(ws, after, S)
  <1> DEFINE c == Cardinality(S)
             T == {WriteFact(f, after[f]) : f \in S} \cup {WriteManifest(after)}
             first == [n \in DOMAIN changed |-> WriteFact(changed[n], after[changed[n]])]
             last == WriteManifest(after)
  <1>1. c \in Nat
    BY FS_CardinalityType
  <1>2. changed \in [1..c -> S] /\ \A f \in S : \E i \in 1..c : changed[i] = f
    BY DEF InOrder
  <1> HIDE DEF c
  <1>3. first \in [1..c -> T] /\ \A n \in 1..c : first[n] = WriteFact(changed[n], after[changed[n]])
    BY <1>2
  <1>4. last \in T
    OBVIOUS
  <1> HIDE DEF T, first
  <1>5. first \in Seq(T) /\ Len(first) = c
    BY <1>1, <1>3, LengthIs
  <1> HIDE DEF last
  <1>6. <<last>> \in Seq(T) /\ Len(<<last>>) = 1 /\ <<last>>[1] = last
    BY <1>4
  <1>7. ws = first \o <<last>>
    BY DEF first, last
  <1>8. /\ ws \in Seq(T) /\ Len(ws) = c + 1
        /\ \A i \in 1..c : ws[i] = first[i]
        /\ ws[c + 1] = last
    <2>1. \A s \in Seq(T) : /\ s \o <<last>> \in Seq(T) /\ Len(s \o <<last>>) = Len(s) + 1
                             /\ \A i \in 1..Len(s) : (s \o <<last>>)[i] = s[i]
                             /\ (s \o <<last>>)[Len(s) + 1] = last
      BY <1>4
    <2>2. /\ first \o <<last>> \in Seq(T) /\ Len(first \o <<last>>) = Len(first) + 1
          /\ \A i \in 1..Len(first) : (first \o <<last>>)[i] = first[i]
          /\ (first \o <<last>>)[Len(first) + 1] = last
      BY <1>5, <2>1
    <2> QED BY <1>5, <1>7, <2>2
  <1>9. \A f \in S : \E i \in 1..Len(ws) : ws[i] = WriteFact(f, after[f])
    <2>1. ASSUME NEW f \in S PROVE \E i \in 1..Len(ws) : ws[i] = WriteFact(f, after[f])
      <3>1. PICK i \in 1..c : changed[i] = f
        BY <1>2
      <3>2. i \in 1..Len(ws) /\ ws[i] = WriteFact(f, after[f])
        BY <1>1, <1>3, <1>8, <3>1
      <3> QED BY <3>2
    <2> QED BY <2>1
  <1>10. \A i \in 1..c : changed[i] \in S /\ ws[i] = WriteFact(changed[i], after[changed[i]])
    BY <1>2, <1>3, <1>8
  <1>11. ws \in Seq(WritesIn(ws))
    BY <1>8, TodoIs
  <1> QED BY <1>1, <1>8, <1>9, <1>10, <1>11 DEF SplitWrites, last

\* The set is split.
LEMMA SplitKeeps ==
  ASSUME LabelInv, Split
  PROVE  LabelInv' /\ facts' = facts
  <1> DEFINE frozen == Without(manifest.side, DOMAIN manifest.side \ DOMAIN facts)
             After(sides) == [f \in DOMAIN facts |-> [facts[f] EXCEPT !.split = sides[f]]]
             Changed(after) == {f \in DOMAIN facts : after[f] # facts[f]}
  <1>1. PICK sides \in AssignSplits(facts, frozen) :
          /\ \E changed \in InOrder(Changed(After(sides))) :
               todo' = [n \in DOMAIN changed |-> WriteFact(changed[n], After(sides)[changed[n]])]
                       \o <<WriteManifest(After(sides))>>
          /\ astray' = astray \cup Strays(After(sides), DOMAIN facts \ DOMAIN manifest.side)
    BY DEF Split
  <1>2. /\ todo = << >> /\ FactsInv /\ ManifestInv /\ MarksInv /\ BatchesInv
        /\ UNCHANGED <<facts, excluded, broken, manifest, queue, pending, backend, requests>>
    BY DEF Split, Ready, LabelInv
  <1> HIDE DEF After, Changed
  <1>3. PICK after : after = After(sides)
    OBVIOUS
  <1>4. PICK S : S = Changed(after)
    OBVIOUS
  <1>5. /\ DOMAIN after = DOMAIN facts
        /\ \A f \in DOMAIN facts : after[f] = [facts[f] EXCEPT !.split = sides[f]]
    BY <1>3 DEF After
  <1>6. S \subseteq DOMAIN facts /\ \A f \in DOMAIN facts : f \in S <=> after[f] # facts[f]
    BY <1>4 DEF Changed
  <1>7. IsFiniteSet(S)
    <2>1. S \subseteq 1..MaxFacts /\ MaxFacts \in Nat
      BY <1>2, <1>6, LabellingAssumption DEF FactsInv, Known, Ids
    <2>2. IsFiniteSet(1..MaxFacts)
      BY <2>1, FS_Interval
    <2> QED BY <2>1, <2>2, FS_Subset
  <1>8. PICK changed \in InOrder(S) :
          todo' = [n \in DOMAIN changed |-> WriteFact(changed[n], after[changed[n]])]
                  \o <<WriteManifest(after)>>
    BY <1>1, <1>3, <1>4
  <1>9. astray' = astray \cup Strays(after, DOMAIN facts \ DOMAIN manifest.side)
    BY <1>1, <1>3
  <1>10. SplitWrites(todo', after, S)
    BY <1>7, <1>8, SplitLeaves
  <1>11. \A f \in DOMAIN facts : facts[f] \in AFact
    BY <1>2 DEF FactsInv
  <1>12. \A f \in DOMAIN facts : /\ after[f].page = facts[f].page /\ after[f].source = facts[f].source
                                 /\ after[f].split = sides[f]
    BY <1>5, <1>11 DEF AFact
  <1>13. SameLinks(facts, after)
    BY <1>5, <1>12 DEF SameLinks
  <1>14. PICK kept : kept = frozen
    OBVIOUS
  <1>15. /\ sides \in [DOMAIN facts -> Sides]
         /\ \A f \in DOMAIN facts \cap DOMAIN manifest.side : sides[f] = facts[f].split
         /\ \A f, g \in DOMAIN facts \ astray' : Linked(facts, f, g) => sides[f] = sides[g]
    <2>1. sides \in AssignSplits(facts, kept)
      BY <1>14
    <2>2. /\ sides \in [DOMAIN facts -> Sides]
          /\ \A f \in DOMAIN facts \cap DOMAIN manifest.side : sides[f] = facts[f].split
          /\ \A f, g \in DOMAIN facts \ (astray \cup Strays(after, DOMAIN facts \ DOMAIN manifest.side)) :
               Linked(facts, f, g) => sides[f] = sides[g]
      BY <1>2, <1>13, <1>14, <2>1, SplitSides
    <2> QED BY <1>9, <2>2
  <1> HIDE DEF frozen
  <1>16. \A f \in DOMAIN facts : sides[f] = facts[f].split => f \notin S
    <2>1. ASSUME NEW f \in DOMAIN facts, sides[f] = facts[f].split PROVE after[f] = facts[f]
      <3>1. after[f] = [facts[f] EXCEPT !.split = facts[f].split]
        BY <1>5, <2>1
      <3> QED BY <1>11, <3>1 DEF AFact
    <2> QED BY <1>6, <2>1
  <1>17. PICK n \in Nat : /\ Len(todo') = n + 1
                          /\ \A i \in 1..n : \E f \in S : todo'[i] = WriteFact(f, after[f])
                          /\ todo'[n + 1] = WriteManifest(after)
    BY <1>10 DEF SplitWrites
  <1>18. /\ WriteManifest(after).to = "manifest" /\ WriteManifest(after).value.frozen
         /\ DOMAIN WriteManifest(after).value.side = DOMAIN facts
         /\ \A f \in DOMAIN facts : WriteManifest(after).value.side[f] = sides[f]
    BY <1>5, <1>12 DEF WriteManifest, Manifest, SidesOf
  <1>19. \A f : WriteFact(f, after[f]).to = "fact" /\ WriteFact(f, after[f]).id = f
                /\ WriteFact(f, after[f]).value = after[f]
    BY DEF WriteFact
  <1>20. \A w \in WritesIn(todo') : w = WriteManifest(after) \/ \E f \in S : w = WriteFact(f, after[f])
    <2>1. \A i \in 1..(n + 1) : i \in 1..n \/ i = n + 1
      OBVIOUS
    <2> QED BY <1>17, <2>1 DEF WritesIn
  <1>21. HeadsFor(sides)'
    <2>1. ASSUME NEW w \in WritesIn(todo'), IsFactWrite(w)
          PROVE  /\ w.id \in DOMAIN facts \ DOMAIN manifest.side
                 /\ w.value = [facts[w.id] EXCEPT !.split = sides[w.id]]
      <3>1. PICK f \in S : w = WriteFact(f, after[f])
        BY <1>18, <1>20, <2>1 DEF IsFactWrite
      <3>2. w.id = f /\ w.value = after[f]
        BY <1>19, <3>1
      <3> QED BY <1>5, <1>6, <1>15, <1>16, <3>2
    <2>2. ASSUME NEW f \in DOMAIN facts
          PROVE  facts[f].split = sides[f] \/ \E w \in WritesIn(todo') : IsFactWrite(w) /\ w.id = f
      <3>1. CASE f \in S
        <4>1. PICK i \in 1..Len(todo') : todo'[i] = WriteFact(f, after[f])
          BY <1>10, <3>1 DEF SplitWrites
        <4>2. todo'[i] \in WritesIn(todo') /\ IsFactWrite(todo'[i]) /\ todo'[i].id = f
          BY <1>19, <4>1 DEF WritesIn, IsFactWrite
        <4> QED BY <4>2
      <3>2. CASE f \notin S
        BY <1>6, <1>12, <3>2
      <3> QED BY <3>1, <3>2
    <2>3. ASSUME NEW k \in 1..Len(todo'), IsManifestWrite(todo'[k])
          PROVE  /\ todo'[k].value.frozen /\ DOMAIN todo'[k].value.side \subseteq DOMAIN facts'
                 /\ \A f \in DOMAIN todo'[k].value.side : todo'[k].value.side[f] = sides[f]
                 /\ \A j \in k..Len(todo') : ~IsFactWrite(todo'[j])
      <3>1. k \notin 1..n
        BY <1>17, <1>19, <2>3 DEF IsManifestWrite
      <3>2. k = n + 1 /\ \A j \in k..Len(todo') : j = n + 1
        BY <1>17, <3>1
      <3>3. ~IsFactWrite(todo'[n + 1]) /\ todo'[k] = WriteManifest(after)
        BY <1>17, <1>18, <3>2 DEF IsFactWrite
      <3> QED BY <1>2, <1>18, <3>2, <3>3
    <2>4. DOMAIN sides = DOMAIN facts' /\ \A f \in DOMAIN sides : sides[f] \in Sides
      BY <1>2, <1>15
    <2> QED BY <1>2, <2>1, <2>2, <2>3, <2>4 DEF HeadsFor
  <1>22. Whole(sides)'
    BY <1>2, <1>15 DEF Whole
  <1>23. TodoInv'
    BY <1>10, <1>18, <1>19, <1>20 DEF TodoInv, SplitWrites
  <1>24. FactsInv' /\ ManifestInv'
    BY <1>2 DEF FactsInv, ManifestInv, Known
  <1>25. MarksInv'
    <2>1. \A f, b, p : LabelledFrom(f, b, p) => LabelledFrom(f, b, p)'
      BY <1>2 DEF LabelledFrom
    <2>2. \A w \in WritesIn(todo') : w.to # "queue"
      BY <1>18, <1>19, <1>20
    <2> QED BY <1>2, <2>1, <2>2 DEF MarksInv
  <1>26. BatchesInv'
    BY <1>2, SameBatches
  <1> QED BY <1>2, <1>21, <1>22, <1>23, <1>24, <1>25, <1>26 DEF LabelInv, Aimed

-----------------------------------------------------------------------------
(* The day's batch. *)

FactsStand == UNCHANGED <<facts, excluded, broken, manifest, todo, astray>>

\* The facts, when neither they nor what is to be written changes.
LEMMA SameFacts ==
  ASSUME LabelInv, FactsStand
  PROVE  FilesInv'
  <1>1. FactsInv' /\ ManifestInv' /\ TodoInv'
    BY DEF LabelInv, FactsStand, FactsInv, Known, ManifestInv, TodoInv
  <1>2. PICK goal : HeadsFor(goal) /\ (Freezing => Whole(goal))
    BY DEF LabelInv, Aimed
  <1>3. HeadsFor(goal)' /\ (Freezing' => Whole(goal)')
    BY <1>2 DEF FactsStand, HeadsFor, Freezing, Whole
  <1> QED BY <1>1, <1>3 DEF FilesInv, Aimed

\* The marks, when neither the facts nor the queue changes.
LEMMA SameQueue ==
  ASSUME MarksInv, FactsStand, queue' = queue
  PROVE  MarksInv'
  BY DEF MarksInv, FactsStand, LabelledFrom

\* What is proposed or tried is an article.
LEMMA ProposedArticles ==
  ASSUME BatchesInv
  PROVE  Proposed(queue) \subseteq Pages
  <1>1. ASSUME NEW b \in DOMAIN queue PROVE DOMAIN queue[b].items \cup queue[b].skipped \subseteq Pages
    <2>1. queue[b] \in Batch
      BY DEF BatchesInv
    <2> QED BY <2>1 DEF Batch
  <1> QED BY <1>1 DEF Proposed

\* A batch is asked for: what is not to be in it is all that was ever proposed or tried.
LEMMA FetchKeeps ==
  ASSUME LabelInv, Fetch
  PROVE  LabelInv' /\ facts' = facts
  <1>1. /\ FactsInv /\ BatchesInv /\ MarksInv /\ FactsStand /\ queue' = queue /\ facts' = facts
        /\ ~backend.running /\ requests' = requests + 1
        /\ backend' = Started(requests + 1, BatchRequest) /\ pending' \in {requests + 1, 0}
    BY DEF LabelInv, Fetch, FactsStand, CallOutcomes
  <1>2. BatchRequest \subseteq Pages /\ Proposed(queue) \subseteq BatchRequest
    <2>1. ASSUME NEW f \in DOMAIN Load PROVE Load[f].page \in Pages \cup {NoPage}
      BY <1>1 DEF Load, Without, FactsInv, AFact
    <2>2. Proposed(queue) \subseteq Pages
      BY <1>1, ProposedArticles
    <2> QED BY <2>1, <2>2 DEF BatchRequest, KnownUrls
  <1>3. /\ backend'.running /\ backend'.req = requests + 1 /\ backend'.exclude = BatchRequest
        /\ backend'.batch = backend.batch /\ backend' \in Backend
    <2>1. requests \in Nat /\ backend \in Backend
      BY <1>1 DEF BatchesInv
    <2>2. backend' = [backend EXCEPT !.running = TRUE, !.req = requests + 1,
                                     !.exclude = BatchRequest, !.error = FALSE]
      BY <1>1 DEF Started
    <2>3. requests + 1 \in Nat /\ BatchRequest \in SUBSET Pages
      BY <1>2, <2>1
    <2> QED BY <2>1, <2>2, <2>3 DEF Backend
  <1>4. requests \in Nat /\ backend.batch.req \in Nat /\ backend.batch.req <= requests
    BY <1>1 DEF BatchesInv, Backend
  <1>5. Awaited'
    BY <1>1, <1>2, <1>3, <1>4 DEF Awaited
  <1>6. BatchesInv'
    <2>1. queue' \in Seq(Batch) /\ NothingProposedTwice'
      BY <1>1 DEF BatchesInv, NothingProposedTwice
    <2>2. requests' \in Nat /\ pending' \in 0..requests'
      BY <1>1, <1>4
    <2>3. backend'.req <= requests' /\ backend'.batch.req <= requests'
      BY <1>1, <1>3, <1>4
    <2> QED BY <1>3, <1>5, <2>1, <2>2, <2>3 DEF BatchesInv
  <1> QED BY <1>1, <1>6, SameFacts, SameQueue DEF LabelInv, FilesInv

\* A batch is built of articles it was not told to leave out.
LEMMA BuiltKeeps ==
  ASSUME LabelInv, BatchBuilt
  PROVE  LabelInv' /\ facts' = facts
  <1>1. /\ BatchesInv /\ MarksInv /\ FactsStand /\ queue' = queue /\ facts' = facts
        /\ backend.running /\ UNCHANGED <<requests, pending>>
    BY DEF LabelInv, BatchBuilt, FactsStand
  <1>2. PICK drawn \in Draw(Fresh(backend.exclude), BatchSize * Oversample * ScreenSpare) :
        \E passed \in Screen(drawn) : \E candidates \in FirstOf(passed) :
        \E ready \in Prepare(candidates) : \E chosen \in Choose(ready) :
          backend' = [backend EXCEPT !.running = FALSE, !.exclude = {},
                        !.batch = [req |-> backend.req, items |-> chosen,
                                   skipped |-> candidates \ ready]]
    BY DEF BatchBuilt
  <1>3. PICK passed \in Screen(drawn) : \E candidates \in FirstOf(passed) :
        \E ready \in Prepare(candidates) : \E chosen \in Choose(ready) :
          backend' = [backend EXCEPT !.running = FALSE, !.exclude = {},
                        !.batch = [req |-> backend.req, items |-> chosen,
                                   skipped |-> candidates \ ready]]
    BY <1>2
  <1>4. PICK candidates \in FirstOf(passed) :
        \E ready \in Prepare(candidates) : \E chosen \in Choose(ready) :
          backend' = [backend EXCEPT !.running = FALSE, !.exclude = {},
                        !.batch = [req |-> backend.req, items |-> chosen,
                                   skipped |-> candidates \ ready]]
    BY <1>3
  <1>5. PICK ready \in Prepare(candidates) : \E chosen \in Choose(ready) :
          backend' = [backend EXCEPT !.running = FALSE, !.exclude = {},
                        !.batch = [req |-> backend.req, items |-> chosen,
                                   skipped |-> candidates \ ready]]
    BY <1>4
  <1>6. PICK chosen \in Choose(ready) :
          backend' = [backend EXCEPT !.running = FALSE, !.exclude = {},
                        !.batch = [req |-> backend.req, items |-> chosen,
                                   skipped |-> candidates \ ready]]
    BY <1>5
  <1>7. drawn \subseteq Fresh(backend.exclude) /\ candidates \subseteq drawn
        /\ ready \subseteq candidates /\ chosen \subseteq ready
    BY DEF Draw, Screen, FirstOf, Prepare, Choose
  <1>8. Fresh(backend.exclude) \subseteq Pages \ backend.exclude
    BY LabellingAssumption DEF Fresh
  <1>9. backend \in Backend
    BY <1>1 DEF BatchesInv
  <1>10. /\ ~backend'.running /\ backend'.req = backend.req /\ backend'.exclude = {}
        /\ backend'.batch = [req |-> backend.req, items |-> chosen, skipped |-> candidates \ ready]
        /\ backend'.error = backend.error
    BY <1>6, <1>9 DEF Backend
  <1>11. backend' \in Backend
    <2>1. [req |-> backend.req, items |-> chosen, skipped |-> candidates \ ready]
            \in [req : Nat, items : SUBSET Pages, skipped : SUBSET Pages]
      BY <1>7, <1>8, <1>9 DEF Backend
    <2> QED BY <1>6, <1>9, <2>1 DEF Backend
  <1>12. Awaited'
    <2>1. ASSUME pending # 0, backend.req = pending
          PROVE  (chosen \cup (candidates \ ready)) \cap Proposed(queue) = {}
      <3>1. Proposed(queue) \subseteq backend.exclude
        BY <1>1, <2>1 DEF BatchesInv, Awaited
      <3> QED BY <1>7, <1>8, <3>1
    <2> QED BY <1>1, <1>10, <2>1 DEF Awaited
  <1>13. BatchesInv'
    <2>1. queue' \in Seq(Batch) /\ NothingProposedTwice' /\ requests' \in Nat /\ pending' \in 0..requests'
          /\ backend.req <= requests'
      BY <1>1 DEF BatchesInv, NothingProposedTwice
    <2> QED BY <1>10, <1>11, <1>12, <2>1 DEF BatchesInv
  <1> QED BY <1>1, <1>13, SameFacts, SameQueue DEF LabelInv, FilesInv

\* A batch fails, or the backend is restarted: the batch it answers with is the last one
\* or none.
LEMMA BackendKeeps ==
  ASSUME LabelInv, BatchFailed \/ BackendRestart
  PROVE  LabelInv' /\ facts' = facts
  <1>1. /\ BatchesInv /\ MarksInv /\ FactsStand /\ queue' = queue /\ facts' = facts
        /\ UNCHANGED <<requests, pending>>
    BY DEF LabelInv, BatchFailed, BackendRestart, FactsStand
  <1>2. backend \in Backend /\ requests \in Nat /\ backend.req <= requests /\ backend.batch.req <= requests
        /\ queue' \in Seq(Batch) /\ NothingProposedTwice' /\ requests' \in Nat /\ pending' \in 0..requests'
    BY <1>1 DEF BatchesInv, NothingProposedTwice
  <1>3. CASE BatchFailed
    <2>1. /\ backend.running
          /\ backend' = [backend EXCEPT !.running = FALSE, !.exclude = {}, !.error = TRUE]
      BY <1>3 DEF BatchFailed
    <2>2. /\ ~backend'.running /\ backend'.req = backend.req /\ backend'.batch = backend.batch
          /\ backend' \in Backend
      BY <1>2, <2>1 DEF Backend
    <2>3. Awaited'
      BY <1>1, <2>1, <2>2 DEF BatchesInv, Awaited
    <2>4. BatchesInv'
      BY <1>1, <1>2, <2>2, <2>3 DEF BatchesInv
    <2> QED BY <1>1, <2>4, SameFacts, SameQueue DEF LabelInv, FilesInv
  <1>4. CASE BackendRestart
    <2>1. backend' = Idle
      BY <1>4 DEF BackendRestart
    <2>2. /\ ~backend'.running /\ backend'.req = 0 /\ backend'.batch.req = 0 /\ backend' \in Backend
      BY <2>1 DEF Idle, Backend
    <2>3. Awaited'
      BY <1>1, <2>2 DEF Awaited
    <2>4. BatchesInv'
      BY <1>2, <1>1, <2>2, <2>3 DEF BatchesInv
    <2> QED BY <1>1, <2>4, SameFacts, SameQueue DEF LabelInv, FilesInv
  <1> QED BY <1>3, <1>4

\* A finished batch is saved when it is the one waited for: nothing of it was proposed.
LEMMA StatusKeeps ==
  ASSUME LabelInv, BatchStatus
  PROVE  LabelInv' /\ facts' = facts
  <1>1. /\ BatchesInv /\ MarksInv /\ TodoInv /\ FactsStand /\ facts' = facts
        /\ todo = << >> /\ UNCHANGED <<requests, backend>> /\ pending # 0 /\ pending' = 0
    BY DEF LabelInv, BatchStatus, FactsStand, Ready
  <1>2. Awaited'
    BY <1>1 DEF Awaited
  <1>3. /\ queue \in Seq(Batch) /\ NothingProposedTwice /\ backend \in Backend /\ requests \in Nat
        /\ backend.req <= requests /\ backend.batch.req <= requests
    BY <1>1 DEF BatchesInv
  <1>4. 0 \in 0..requests
    BY <1>3
  <1>5. CASE queue' = queue
    <2>1. BatchesInv'
      BY <1>1, <1>2, <1>3, <1>4, <1>5 DEF BatchesInv, NothingProposedTwice
    <2> QED BY <1>1, <1>5, <2>1, SameFacts, SameQueue DEF LabelInv, FilesInv
  <1>6. CASE queue' # queue
    <2> DEFINE saved == NewBatch(backend.batch)
    <2>1. backend.batch.req = pending /\ queue' = Append(queue, saved)
      BY <1>6 DEF BatchStatus, SaveBatch
    <2>2. (backend.batch.items \cup backend.batch.skipped) \cap Proposed(queue) = {}
      BY <1>1, <2>1 DEF BatchesInv, Awaited
    <2>3. /\ saved \in Batch /\ saved.skipped = backend.batch.skipped
          /\ DOMAIN saved.items = backend.batch.items
          /\ \A p \in DOMAIN saved.items : saved.items[p].facts = {}
      <3> DEFINE items == [p \in backend.batch.items |-> [status |-> "pending", facts |-> {}]]
      <3>1. [status |-> "pending", facts |-> {}] \in Item
        BY DEF Item, Statuses
      <3>2. backend.batch.items \in SUBSET Pages /\ backend.batch.skipped \in SUBSET Pages
            /\ backend.batch.req \in Nat
        BY <1>3 DEF Backend
      <3>3. items \in [backend.batch.items -> Item]
        BY <3>1
      <3>4. items \in UNION {[S -> Item] : S \in SUBSET Pages}
        BY <3>2, <3>3
      <3>5. DOMAIN items = backend.batch.items /\ \A p \in DOMAIN items : items[p].facts = {}
        OBVIOUS
      <3>6. saved = [req |-> backend.batch.req, skipped |-> backend.batch.skipped, items |-> items]
        BY DEF NewBatch
      <3> HIDE DEF items, saved
      <3> QED BY <3>2, <3>4, <3>5, <3>6 DEF Batch
    <2> HIDE DEF saved
    <2>4. /\ queue' \in Seq(Batch) /\ Len(queue') = Len(queue) + 1 /\ Len(queue) \in Nat
          /\ \A b \in 1..Len(queue) : queue'[b] = queue[b]
          /\ queue'[Len(queue) + 1] = saved
      BY <1>3, <2>1, <2>3, AppendProperties
    <2>5. /\ DOMAIN queue = 1..Len(queue) /\ DOMAIN queue' = 1..(Len(queue) + 1)
          /\ \A b \in DOMAIN queue' : b \in DOMAIN queue \/ b = Len(queue) + 1
          /\ \A b \in DOMAIN queue : b # Len(queue) + 1
      BY <1>3, <2>4
    <2>6. NothingProposedTwice'
      <3> DEFINE of(batch) == DOMAIN batch.items \cup batch.skipped
      <3>1. \A b \in DOMAIN queue : of(queue[b]) \subseteq Proposed(queue)
        BY DEF Proposed
      <3>2. of(saved) \cap Proposed(queue) = {}
        BY <2>2, <2>3
      <3>3. \A b, c \in DOMAIN queue : b # c => of(queue[b]) \cap of(queue[c]) = {}
        BY <1>3 DEF NothingProposedTwice
      <3> HIDE DEF of
      <3>4. ASSUME NEW b \in DOMAIN queue', NEW c \in DOMAIN queue', b # c
            PROVE  of(queue'[b]) \cap of(queue'[c]) = {}
        <4>1. CASE b \in DOMAIN queue /\ c \in DOMAIN queue
          BY <2>4, <2>5, <3>3, <3>4, <4>1
        <4>2. CASE b \in DOMAIN queue /\ c \notin DOMAIN queue
          <5>1. queue'[b] = queue[b] /\ queue'[c] = saved
            BY <2>4, <2>5, <4>2
          <5> QED BY <3>1, <3>2, <4>2, <5>1
        <4>3. CASE b \notin DOMAIN queue /\ c \in DOMAIN queue
          <5>1. queue'[c] = queue[c] /\ queue'[b] = saved
            BY <2>4, <2>5, <4>3
          <5> QED BY <3>1, <3>2, <4>3, <5>1
        <4>4. CASE b \notin DOMAIN queue /\ c \notin DOMAIN queue
          BY <2>5, <3>4, <4>4
        <4> QED BY <4>1, <4>2, <4>3, <4>4
      <3> QED BY <3>4 DEF NothingProposedTwice, of
    <2>7. BatchesInv'
      BY <1>1, <1>2, <1>3, <1>4, <2>4, <2>6 DEF BatchesInv
    <2>8. MarksInv'
      <3>1. \A f, b, p : LabelledFrom(f, b, p)' <=> LabelledFrom(f, b, p)
        BY <1>1 DEF LabelledFrom, FactsStand
      <3>2. \A b \in 1..Len(queue) : \A p \in DOMAIN queue[b].items :
              \A f \in queue[b].items[p].facts : LabelledFrom(f, b, p)
        BY <1>1 DEF MarksInv
      <3>3. \A b \in 1..Len(queue') : \A p \in DOMAIN queue'[b].items :
              \A f \in queue'[b].items[p].facts : LabelledFrom(f, b, p)
        BY <2>3, <2>4, <2>5, <3>2
      <3>4. todo' = << >> /\ WritesIn(<< >>) = {}
        BY <1>1 DEF FactsStand, WritesIn
      <3> QED BY <3>1, <3>3, <3>4 DEF MarksInv
    <2> QED BY <1>1, <2>7, <2>8, SameFacts DEF LabelInv, FilesInv
  <1> QED BY <1>5, <1>6

\* A claim is skipped or put back.
LEMMA MarkClaimKeeps ==
  ASSUME LabelInv, MarkClaim
  PROVE  LabelInv' /\ facts' = facts
  <1>1. /\ BatchesInv /\ MarksInv /\ FactsStand /\ facts' = facts /\ todo = << >>
        /\ UNCHANGED <<requests, backend, pending>>
    BY DEF LabelInv, MarkClaim, FactsStand, Ready
  <1>2. PICK b \in DOMAIN queue : \E page \in DOMAIN queue[b].items, status \in {"skipped", "pending"} :
          queue' = Mark(queue, <<b, page>>, status, {})
    BY DEF MarkClaim
  <1>3. PICK page \in DOMAIN queue[b].items, status \in {"skipped", "pending"} :
          queue' = Mark(queue, <<b, page>>, status, {})
    BY <1>2
  <1>4. /\ queue \in Seq(Batch) /\ b \in 1..Len(queue) /\ status \in Statuses /\ {} \in SUBSET Ids
    BY <1>1 DEF BatchesInv, Statuses
  <1>5. OnlyMarked(queue', queue, b, page, {})
    BY <1>3, <1>4, MarkIs
  <1>6. BatchesInv'
    BY <1>1, <1>3, <1>4, MarkKeeps
  <1>7. MarksInv'
    <2>1. \A f, c, p : LabelledFrom(f, c, p)' <=> LabelledFrom(f, c, p)
      BY <1>1 DEF LabelledFrom, FactsStand
    <2>2. ASSUME NEW c \in 1..Len(queue'), NEW p \in DOMAIN queue'[c].items,
                 NEW f \in queue'[c].items[p].facts
          PROVE  LabelledFrom(f, c, p)
      <3>1. c \in 1..Len(queue) /\ p \in DOMAIN queue[c].items
        BY <1>5 DEF OnlyMarked
      <3>2. queue'[c].items[p].facts = queue[c].items[p].facts
        <4>1. CASE c = b /\ p = page
          BY <1>5, <4>1 DEF OnlyMarked
        <4>2. CASE c # b \/ p # page
          BY <1>5, <3>1, <4>2 DEF OnlyMarked
        <4> QED BY <4>1, <4>2
      <3> QED BY <1>1, <3>1, <3>2 DEF MarksInv
    <2>3. todo' = << >> /\ WritesIn(<< >>) = {}
      BY <1>1 DEF FactsStand, WritesIn
    <2> QED BY <2>1, <2>2, <2>3 DEF MarksInv
  <1> QED BY <1>1, <1>6, <1>7, SameFacts DEF LabelInv, FilesInv

-----------------------------------------------------------------------------
(* The labeller stops. *)

\* What it had still to write stays as it was: a fact that was to change sides may be
\* apart from its group.
LEMMA CrashKeeps ==
  ASSUME LabelInv, LabellerCrash
  PROVE  LabelInv' /\ facts' = facts
  <1>1. /\ FactsInv /\ ManifestInv /\ MarksInv /\ BatchesInv /\ TodoInv
        /\ UNCHANGED <<facts, excluded, broken, manifest, queue, backend, requests>>
        /\ todo' = << >> /\ pending' = 0
        /\ astray' = IF manifest.frozen THEN astray \cup Unwritten ELSE astray
    BY DEF LabelInv, LabellerCrash
  <1>2. FactsInv' /\ ManifestInv'
    BY <1>1 DEF FactsInv, ManifestInv, Known
  <1>3. PICK goal : HeadsFor(goal) /\ (Freezing => Whole(goal))
    BY DEF LabelInv, Aimed
  <1>4. \A f \in DOMAIN facts \ Unwritten : facts[f].split = goal[f]
    <2>1. ASSUME NEW w \in WritesIn(todo), IsFactWrite(w) PROVE w.id \in Unwritten
      <3>1. PICK n \in 1..Len(todo) : w = todo[n]
        BY DEF WritesIn
      <3>2. n \in DOMAIN todo
        BY <1>1 DEF TodoInv
      <3> QED BY <2>1, <3>1, <3>2 DEF Unwritten, IsFactWrite
    <2> QED BY <1>3, <2>1 DEF HeadsFor
  <1>5. Aimed' /\ TodoInv'
    <2>1. ASSUME manifest'.frozen
          PROVE  \A x, y \in DOMAIN facts' \ astray' :
                   Linked(facts', x, y) => facts'[x].split = facts'[y].split
      <3>1. Whole(goal) /\ astray' = astray \cup Unwritten
        BY <1>1, <1>3, <2>1 DEF Freezing
      <3> QED BY <1>1, <1>4, <3>1 DEF Whole
    <2> QED BY <1>1, <1>2, <2>1, SettledAims
  <1>6. MarksInv'
    <2>1. WritesIn(todo') \subseteq WritesIn(todo)
      BY <1>1 DEF WritesIn
    <2> QED BY <1>1, <2>1, SameMarks
  <1>7. BatchesInv'
    <2>1. queue' \in Seq(Batch) /\ NothingProposedTwice' /\ backend' \in Backend /\ requests' \in Nat
          /\ backend'.req <= requests' /\ backend'.batch.req <= requests'
      BY <1>1 DEF BatchesInv, NothingProposedTwice
    <2>2. pending' \in 0..requests' /\ Awaited'
      BY <1>1, <2>1 DEF Awaited
    <2> QED BY <2>1, <2>2 DEF BatchesInv
  <1> QED BY <1>1, <1>2, <1>5, <1>6, <1>7 DEF LabelInv

-----------------------------------------------------------------------------
(* The theorems. *)

SidesStand ==
  \A f \in DOMAIN manifest.side \cap DOMAIN facts \cap DOMAIN facts' :
    facts'[f].split = facts[f].split

\* Every step keeps the invariant, and the sides of the facts the manifest names.
LEMMA LabelKeeps == LabelInv /\ [Next]_vars => LabelInv' /\ SidesStand
  <1> SUFFICES ASSUME LabelInv, [Next]_vars PROVE LabelInv' /\ SidesStand
    OBVIOUS
  <1>1. CASE UNCHANGED vars
    <2>1. FactsStand /\ UNCHANGED <<queue, backend, requests, pending>>
      BY <1>1 DEF vars, FactsStand
    <2>2. FilesInv' /\ MarksInv' /\ BatchesInv'
      BY <2>1, SameFacts, SameQueue, SameBatches DEF LabelInv
    <2>3. SidesStand
      BY <2>1 DEF SidesStand, FactsStand
    <2> QED BY <2>2, <2>3 DEF LabelInv, FilesInv
  <1>2. CASE Write
    BY <1>2, WriteKeeps DEF SidesStand
  <1>3. CASE CreateFact \/ LabelFromBatch \/ Mutate
    BY <1>3, CreatesKeep DEF SidesStand
  <1>4. CASE Update
    BY <1>4, UpdateKeeps DEF SidesStand
  <1>5. CASE Review
    BY <1>5, ReviewKeeps DEF SidesStand
  <1>6. CASE Split
    BY <1>6, SplitKeeps DEF SidesStand
  <1>7. CASE LeaveOut
    BY <1>7, LeaveOutKeeps DEF SidesStand
  <1>8. CASE Break \/ Repair
    BY <1>8, BreakKeeps DEF SidesStand
  <1>9. CASE Fetch
    BY <1>9, FetchKeeps DEF SidesStand
  <1>10. CASE BatchBuilt
    BY <1>10, BuiltKeeps DEF SidesStand
  <1>11. CASE BatchFailed \/ BackendRestart
    BY <1>11, BackendKeeps DEF SidesStand
  <1>12. CASE BatchStatus
    BY <1>12, StatusKeeps DEF SidesStand
  <1>13. CASE MarkClaim
    BY <1>13, MarkClaimKeeps DEF SidesStand
  <1>14. CASE LabellerCrash
    BY <1>14, CrashKeeps DEF SidesStand
  <1> QED BY <1>1, <1>2, <1>3, <1>4, <1>5, <1>6, <1>7, <1>8, <1>9, <1>10, <1>11, <1>12, <1>13,
             <1>14 DEF Next

\* The queue is a memory that holds: a number is never given to another fact than the one
\* a claim names, and no article is proposed twice, however requests and crashes fall.
THEOREM QueueHolds == Spec => []QueueRemembers
  <1> QED BY LabelStart, LabelKeeps, LabelImplies, PTL DEF Spec

\* In the frozen split claims of one article, and a synthetic FALSE and its source, are on
\* one side, but for those an edit or a crash set astray and those placed among them.
THEOREM GroupsHold == Spec => []GroupsStayWhole
  <1> QED BY LabelStart, LabelKeeps, LabelImplies, PTL DEF Spec

\* A fact the frozen split names keeps its side.
THEOREM SidesHold == Spec => FrozenSidesStand
  <1>1. LabelInv /\ [Next]_vars => [SidesStand]_vars
    BY LabelKeeps
  <1>2. FrozenSidesStand <=> [][SidesStand]_vars
    BY DEF FrozenSidesStand, SidesStand
  <1> QED BY <1>1, <1>2, LabelStart, LabelKeeps, PTL DEF Spec
=============================================================================
