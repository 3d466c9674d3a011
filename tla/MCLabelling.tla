----------------------------- MODULE MCLabelling -----------------------------
(* Instances of Labelling and of Knowledge for TLC.  The files and the graph
   meet only through a synchronisation (graph_sync.py), so a behaviour of this
   instance is of one of them. *)
EXTENDS Labelling, Knowledge, TLC
CONSTANTS p1, p2,                   \* pages of the labelling tool
          u1, u2, c1, c2, l1, f1, f2  \* articles, claims, links, facts of the graph

\* Two sources that share a page.
MCPages == {p1, p2}
MCSources == 1..2
MCLinksOf == <<{p1}, {p1, p2}>>

MCFormPages == {p1, NoPage}

\* The order of the SHA-256 of "fact001" ... "fact007".
MCHashRank == [n \in 1..MaxFacts |-> <<4, 7, 2, 3, 5, 6, 1>>[n]]

\* Of the graph: every claim mentions the same entity.
MCArticles == {u1, u2}
MCClaims == {c1, c2}
MCFacts == {f1, f2}
MCEntityOf == [c \in MCClaims |-> "entity"]

VARIABLE part

MCInit == Init /\ GraphInit /\ part \in {"files", "graph"}

MCNext ==
    \/ part = "files" /\ Next /\ UNCHANGED <<graphVars, part>>
    \/ part = "graph" /\ GraphNext /\ UNCHANGED <<vars, part>>

MCSpec == MCInit /\ [][MCNext]_<<vars, graphVars, part>>

\* The whole set of facts without batches, and batches with few facts.
MCBound ==
    requests + Cardinality(DOMAIN facts \cup DOMAIN excluded) <= MaxFacts

MCSymmetry == Permutations({u1, u2}) \cup Permutations({c1, c2})
              \cup Permutations({f1, f2})
=============================================================================
