----------------------------- MODULE Editorial -----------------------------
(***************************************************************************)
(* What the newsroom promises about a public page, whatever happens to the *)
(* draft behind it: the page shows the text a person approved last when it *)
(* was published, and otherwise it only ever goes away.                    *)
(***************************************************************************)
CONSTANTS Texts, NoText

VARIABLES
  signed,  \* the text a person approved last
  public   \* what the public page shows

Init == signed = NoText /\ public = NoText

\* A person approves a text, as it stands.
Sign(text) == signed' = text /\ public' = public

\* The approved text, and no other, goes public.
Publish == signed \in Texts /\ public' = signed /\ signed' = signed

TakeDown == public' = NoText /\ signed' = signed

Next == (\E text \in Texts : Sign(text)) \/ Publish \/ TakeDown

Spec == Init /\ [][Next]_<<signed, public>>
=============================================================================
