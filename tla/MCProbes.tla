------------------------------ MODULE MCProbes ------------------------------
(* An instance of Probes for TLC: two sources, each with one topic page and a
   feed that may be empty; at most two sources read at once, one fault, and two
   pages read in all at any moment. *)
EXTENDS Probes

MCFeeds == {<< >>, <<"a">>}
MCSections == {<<"b">>}

MCBound ==
    /\ Cardinality({t \in SourceThreads : task[t].at # "idle"}) <= 2
    /\ failures + crashes <= 1
    /\ MapThenSumSet(LAMBDA t : Len(task[t].saw), SourceThreads) <= 2
=============================================================================
