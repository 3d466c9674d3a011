------------------------------- MODULE MCPages -------------------------------
(* A small instance of Pages for TLC: a claim with a deadline that finds two
   pages, beside whoever reads one of them for something else. *)
EXTENDS Pages, TLC

CONSTANTS e1, e2, u1, u2

Plan(purpose, timed, items) == [purpose |-> purpose, timed |-> timed, items |-> items]

MCPlans ==
  e1 :> {Plan("evidence", TRUE, <<u1, u2>>)}
  @@ e2 :> {Plan("evidence", TRUE, <<u1>>), Plan("evidence", FALSE, <<u1>>),
            Plan("writing", FALSE, <<u1>>),
            Plan("article", FALSE, <<u1>>), Plan("article", FALSE, <<u2>>)}
=============================================================================
