-------------------------------- MODULE Reader --------------------------------
(***************************************************************************)
(* The reader's index of the lake (services/reader/index.py) beside the     *)
(* analyses that write it.  The index keeps the stamps of the last listing, *)
(* reads what is new since, and from all it has read keeps the newest run   *)
(* of each article and, of these, the ones to publish.                      *)
(*                                                                         *)
(* A refresh holds a lock while it lists and reads; the lake goes on        *)
(* changing meanwhile.  The index is memory: a restart empties it.          *)
(***************************************************************************)
EXTENDS Analyses

VARIABLE index

readerVars == <<run, lake, manifest, cache, corpus, graph, sync, clock, faults, crashes, index>>

\* An exploitation record is written once, so its stamp is whether it is there.
\* stamps: the last listing that was gone through. seen: records read.
\* missed: records that a refresh could not read. listing, todo: of the refresh in
\* progress.
Index == [busy : BOOLEAN, known : BOOLEAN, stamps : SUBSET Runs, seen : SUBSET Runs,
          missed : SUBSET Runs, listing : SUBSET Runs, todo : SUBSET Runs]

NoIndex == [busy |-> FALSE, known |-> FALSE, stamps |-> {}, seen |-> {},
            missed |-> {}, listing |-> {}, todo |-> {}]

Served(r) == lake[<<"exploitation", r>>]

\* JsonFileLakeBackend.stamps: the records of the layer, from the directory.
Listing == {r \in Runs : Served(r) # NoRecord}

ReaderInit == Init /\ index = NoIndex

RefreshStart ==
  /\ ~index.busy
  /\ ~index.known \/ Listing # index.stamps
  /\ index' = [index EXCEPT !.busy = TRUE, !.listing = Listing, !.todo = Listing \ index.seen]
  /\ UNCHANGED vars

\* A record that cannot be read is passed over.
RefreshRead(r) ==
  /\ r \in index.todo
  /\ \/ index' = [index EXCEPT !.todo = @ \ {r}, !.seen = @ \cup {r}, !.missed = @ \ {r}]
        /\ UNCHANGED faults
     \/ index' = [index EXCEPT !.todo = @ \ {r}, !.missed = @ \cup {r}] /\ Fails
  /\ UNCHANGED <<run, stored, sync, clock, crashes>>

RefreshEnd ==
  /\ index.busy /\ index.todo = {}
  /\ index' = [index EXCEPT !.busy = FALSE, !.known = TRUE, !.stamps = index.listing,
                            !.listing = {}, !.seen = @ \cap index.listing]
  /\ UNCHANGED vars

\* Fault: the newest of those to be published.
LatestPublished(rs) ==
  {r \in rs : Served(r).publishable /\ \A s \in rs :
     Served(s).publishable /\ Served(s).url = Served(r).url
     => Served(s).produced <= Served(r).produced}

\* The newest of some runs of each article.
Latest(rs) ==
  {r \in rs : \A s \in rs : Served(s).url = Served(r).url
                            => Served(s).produced <= Served(r).produced}

\* What the feed shows: records of the last refresh.
Feed == {r \in Latest(index.seen) : Served(r).publishable}

Refresh == RefreshStart \/ (\E r \in Runs : RefreshRead(r)) \/ RefreshEnd

Crash == CrashRuns /\ index' = NoIndex

ReaderNext ==
  \/ ((\E r \in Runs : Advance(r)) \/ Syncing) /\ UNCHANGED index
  \/ Refresh
  \/ Crash

ReaderSpec == ReaderInit /\ [][ReaderNext]_readerVars

-----------------------------------------------------------------------------
(* Properties *)

\* The variables have the shape the code gives them.
TypeOK ==
  /\ AnalysesTypeOK
  /\ index \in Index

\* The newest analysis of each article, and what it says of publishing it, decides:
\* one found wrong leaves the feed whatever an earlier run decided, one found right
\* enters it.  An index in step with the lake, that could read every record, shows
\* exactly that.
FeedFollowsLake ==
  ~index.busy /\ index.known /\ index.stamps = Listing /\ index.missed = {}
  => \A u \in Urls :
       LET of == {r \in Listing : Served(r).url = u}
           last == CHOOSE r \in of : \A s \in of : Served(s).produced <= Served(r).produced
       IN of # {} => {r \in Feed : Served(r).url = u} = {r \in {last} : Served(r).publishable}
=============================================================================
