----------------------------- MODULE MCWriting -----------------------------
(* A small instance of Writing for TLC: one related page that the corpus and the
   web spell differently, one fact-check, two angles, and texts that keep, drop,
   move and invent. Two of three facts cited are 66.67 of 100, which is stored as
   66.7: the target. *)
EXTENDS Writing, TLC

CONSTANTS own, rel, rel2, ev, f1, f2, a, b, g

MCPageOf == own :> 1 @@ rel :> 2 @@ rel2 :> 2 @@ ev :> 3
MCOutlet == own :> 1 @@ rel :> 2 @@ rel2 :> 2 @@ ev :> 3
MCTextOf == own :> {f1, a, b} @@ rel :> {f1, a} @@ rel2 :> {f1, a} @@ ev :> {f1, b}

MCChecked == <<[says |-> {f1, a}, cited |-> <<ev, rel2>>]>>

MCProposed == {[check |-> "TRUE", supported |-> {rel, own}], [check |-> "TRUE", supported |-> {rel, ev}]}

S(terms, cites) == [terms |-> terms, cites |-> cites]
B(said) == [said |-> said, rendered |-> 0, bare |-> 0]

MCDrafted == {B({S({f1, a}, {1}), S({f1}, {1}), S({f1, b}, {})}), B({S({f1, a}, {2, 9})})}
MCRedrafted == {B({S({f1, a}, {1, 2})}), B({S({f2, a}, {1, 2})}), B({S({f1, a}, {1, 2}), S({f1, b}, {})})}
MCProposals == {B({S({f1, a}, {1}), S({b}, {})}), B({S({f2, a}, {1, 2})})}
MCEdits == {{[find |-> S({f1, a}, {1}), replace |-> S({f1, b}, {1})]}}
MCTyped == {B({S({f2, a}, {1, 9})})}

MCTarget == [factConsistency |-> 850 * Tenth, hallucinationIndex |-> 667 * Tenth]
=============================================================================
