---------------------------- MODULE RoundsProofs ----------------------------
(***************************************************************************)
(* The first sighting of an article stands, the flag names the one AI    *)
(* selection, only what a round shows is chosen, and each article a round   *)
(* met has one place: for any number of rounds, requests, threads, failures *)
(* and restarts, and whatever the sources list.                             *)
(***************************************************************************)
EXTENDS Rounds, FiniteSetTheorems, SequenceTheorems, NaturalsInduction, WellFoundedInduction, TLAPS

\* A sighting, whatever its moment is.
SightingLike(x) == x = [at |-> x.at, dated |-> x.dated] /\ x.dated \in BOOLEAN

\* What memory knows of an article is what the file knows, and perhaps more.
Follows(inMemory, inFile) ==
  inFile # NotSeen => inMemory.at = inFile.at /\ (inFile.dated => inMemory.dated)

\* Memory has every sighting that the file has: the file is written from it, and read
\* into it at a restart.
SightingInv ==
  /\ \A k \in Keys : SightingLike(seen.memory[k]) /\ SightingLike(seen.file[k])
  /\ \A k \in Keys : Follows(seen.memory[k], seen.file[k])

\* What a file may become.
Stands(old, new) == old # NotSeen => new.at = old.at /\ (old.dated => new.dated)

\* Nothing has been seen.
LEMMA SightingInit == Init => SightingInv
  <1> SUFFICES ASSUME Init PROVE SightingInv
    OBVIOUS
  <1>1. \A k \in Keys : seen.memory[k] = NotSeen /\ seen.file[k] = NotSeen
    BY DEF Init
  <1>2. SightingLike(NotSeen) /\ Follows(NotSeen, NotSeen)
    BY DEF SightingLike, NotSeen, Follows
  <1> QED BY <1>1, <1>2 DEF SightingInv

\* A first sighting is recorded when there is none, and a later one adds the feed's
\* time only.
LEMMA SightedStands ==
  ASSUME NEW entries, NEW found, NEW no, NEW k \in Keys, SightingLike(entries[k])
  PROVE  /\ SightingLike(Sighted(entries, found, no)[k])
         /\ Stands(entries[k], Sighted(entries, found, no)[k])
  <1> DEFINE new == UNION {one.urls : one \in ToSet(found)}
             published == UNION {one.published : one \in ToSet(found)}
             Has(set, j) == \E u \in set : Key(u) = j
             x == entries[k]
             y == Sighted(entries, found, no)[k]
  <1>1. y = IF x = NotSeen /\ Has(new, k) THEN [at |-> no, dated |-> Has(published, k)]
            ELSE IF Has(published, k) THEN [x EXCEPT !.dated = TRUE] ELSE x
    BY DEF Sighted
  <1>2. CASE x = NotSeen /\ Has(new, k)
    <2>1. PICK b \in BOOLEAN : b = Has(published, k)
      OBVIOUS
    <2>2. y = [at |-> no, dated |-> b]
      BY <1>1, <1>2, <2>1
    <2> QED BY <1>2, <2>2 DEF SightingLike, Stands
  <1>3. CASE ~(x = NotSeen /\ Has(new, k)) /\ Has(published, k)
    <2>1. y = [x EXCEPT !.dated = TRUE]
      BY <1>1, <1>3
    <2>2. x = [at |-> x.at, dated |-> x.dated]
      BY DEF SightingLike
    <2>3. y = [at |-> x.at, dated |-> TRUE]
      BY <2>1, <2>2
    <2> QED BY <2>3 DEF SightingLike, Stands
  <1>4. CASE ~(x = NotSeen /\ Has(new, k)) /\ ~Has(published, k)
    BY <1>1, <1>4 DEF Stands
  <1> QED BY <1>2, <1>3, <1>4

\* A round's sightings go to memory, and from there to the file.
LEMMA ReadStands ==
  ASSUME SightingInv, NEW t \in Threads, Read(t)
  PROVE  SightingInv' /\ \A k \in Keys : Stands(seen.file[k], seen'.file[k])
  <1>1. PICK found, no :
          LET entries == Sighted(seen.memory, found, no)
          IN \/ seen' = [memory |-> entries, file |-> entries]
             \/ seen' = [memory |-> entries, file |-> seen.file]
    BY DEF Read
  <1> DEFINE entries == Sighted(seen.memory, found, no)
  <1>2. ASSUME NEW k \in Keys
        PROVE  SightingLike(entries[k]) /\ Stands(seen.memory[k], entries[k])
    BY SightedStands DEF SightingInv
  <1> HIDE DEF entries
  <1>3. seen'.memory = entries /\ (seen'.file = entries \/ seen'.file = seen.file)
    BY <1>1 DEF entries
  <1>4. ASSUME NEW k \in Keys
        PROVE  /\ SightingLike(seen'.memory[k]) /\ SightingLike(seen'.file[k])
               /\ Follows(seen'.memory[k], seen'.file[k])
               /\ Stands(seen.file[k], seen'.file[k])
    <2>1. SightingLike(seen.memory[k]) /\ SightingLike(seen.file[k])
          /\ Follows(seen.memory[k], seen.file[k])
      BY DEF SightingInv
    <2>2. seen.file[k] # NotSeen => seen.memory[k] # NotSeen
      BY <2>1 DEF Follows, SightingLike, NotSeen
    <2>3. Stands(seen.file[k], entries[k])
      BY <1>2, <2>1, <2>2 DEF Follows, Stands
    <2> QED BY <1>2, <1>3, <2>1, <2>3 DEF Follows, Stands
  <1> QED BY <1>4 DEF SightingInv

\* Every step keeps it, and leaves the first sightings of the file.
LEMMA SightingNext ==
  SightingInv /\ [Next]_vars =>
    SightingInv' /\ \A k \in Keys : Stands(seen.file[k], seen'.file[k])
  <1> SUFFICES ASSUME SightingInv, [Next]_vars
               PROVE  SightingInv' /\ \A k \in Keys : Stands(seen.file[k], seen'.file[k])
    OBVIOUS
  <1>1. CASE UNCHANGED seen
    BY <1>1 DEF SightingInv, Stands
  <1>2. CASE Crash
    <2>1. seen'.file = seen.file /\ (seen'.memory = seen.file \/ seen' = seen)
      BY <1>2 DEF Crash
    <2> QED BY <2>1 DEF SightingInv, Follows, Stands
  <1>3. CASE \E t \in Threads : Read(t)
    BY <1>3, ReadStands
  <1>4. CASE \E t \in Threads : OfRequest(t) /\ ~Read(t)
    <2>1. UNCHANGED seen
      BY <1>4 DEF OfRequest, Start, Offer, AskMore, ShowMore, AskAI, StartAI, AskQueue, Send, Sent,
                  Note, OnRound
    <2> QED BY <1>1, <2>1
  <1>5. CASE OfSelection \/ Analysed \/ UNCHANGED vars
    <2>1. UNCHANGED seen
      BY <1>5 DEF OfSelection, OpenAI, Choose, Record, EndAI, Analysed, vars
    <2> QED BY <1>1, <2>1
  <1> QED BY <1>2, <1>3, <1>4, <1>5 DEF Next

\* When an article was first seen never changes in the file, whatever the threads,
\* failures and restarts; and its feed's time, once known, stays.
THEOREM FirstSightingHolds == Spec => FirstSightingStands
  <1>1. Init => SightingInv
    BY SightingInit
  <1>2. SightingInv /\ [Next]_vars => SightingInv'
    BY SightingNext
  <1>3. SightingInv /\ [Next]_vars =>
          [\A k \in Keys : seen.file[k] # NotSeen =>
             /\ seen'.file[k].at = seen.file[k].at
             /\ seen.file[k].dated => seen'.file[k].dated]_vars
    BY SightingNext DEF Stands
  <1> QED BY <1>1, <1>2, <1>3, PTL DEF Spec, FirstSightingStands

-----------------------------------------------------------------------------
(* The selection that is said to run. *)

Starting(t) == threads[t].at = "starting"

\* A place is reserved under the lock, and one thread at a time is about to start what
\* it was reserved for.
SelectionInv ==
  /\ DOMAIN threads = Threads
  /\ \A t \in Threads : "at" \in DOMAIN threads[t]
  /\ "at" \in DOMAIN ai
  /\ \A s, t \in Threads : Starting(s) /\ Starting(t) => s = t
  /\ ai.at # "none" => \A t \in Threads : ~Starting(t)
  /\ running # 0 <=> ai.at # "none" \/ \E t \in Threads : Starting(t)

\* Nobody asks for one.
LEMMA SelectionInit == Init => SelectionInv
  BY DEF Init, SelectionInv, Starting, Idle, NoAI

\* A request that has nothing to do with the AI: whoever was about to start one still is.
NobodyStarts ==
  /\ UNCHANGED running /\ UNCHANGED ai /\ DOMAIN threads' = Threads
  /\ \A t \in Threads : /\ "at" \in DOMAIN threads'[t]
                        /\ Starting(t)' <=> Starting(t)
                        /\ Starting(t) => threads'[t] = threads[t]

\* Steps of such a request.
LEMMA ElseKeeps == ASSUME SelectionInv, NobodyStarts PROVE SelectionInv'
  BY DEF SelectionInv, NobodyStarts

\* A thread goes to another place than "starting".
LEMMA GoKeeps ==
  ASSUME SelectionInv, UNCHANGED running, UNCHANGED ai, NEW t \in Threads, NEW new, Go(t, new),
         ~Starting(t), "at" \in DOMAIN threads'[t], threads'[t].at # "starting"
  PROVE  NobodyStarts
  <1>1. DOMAIN threads' = Threads /\ \A s \in Threads \ {t} : threads'[s] = threads[s]
    BY DEF Go, SelectionInv
  <1>2. ASSUME NEW s \in Threads
        PROVE  /\ "at" \in DOMAIN threads'[s] /\ (Starting(s)' <=> Starting(s))
               /\ Starting(s) => threads'[s] = threads[s]
    BY <1>1 DEF SelectionInv, Starting
  <1> QED BY <1>1, <1>2 DEF NobodyStarts

\* The request that finds no selection running is about to start one.
LEMMA AskAIKeeps == ASSUME SelectionInv, NEW t \in Threads, AskAI(t) PROVE SelectionInv'
  <1>1. UNCHANGED ai
    BY DEF AskAI, OnRound
  <1>2. CASE UNCHANGED <<threads, running>>
    BY <1>1, <1>2 DEF SelectionInv, Starting
  <1>3. CASE ~UNCHANGED <<threads, running>>
    <2>1. PICK id \in Ids :
            /\ running = 0 /\ running' = id
            /\ Go(t, [Idle EXCEPT !.at = "starting", !.obj = Got(id).obj])
      BY <1>3 DEF AskAI
    <2>2. DOMAIN threads' = Threads /\ Starting(t)' /\ "at" \in DOMAIN threads'[t]
          /\ \A s \in Threads \ {t} : threads'[s] = threads[s]
      BY <2>1 DEF Go, SelectionInv, Starting, Idle
    <2>3. id # 0
      BY RoundsAssumption DEF Ids
    <2>4. ai.at = "none" /\ \A s \in Threads : ~Starting(s)
      BY <2>1 DEF SelectionInv
    <2> QED BY <1>1, <2>1, <2>2, <2>3, <2>4 DEF SelectionInv, Starting
  <1> QED BY <1>2, <1>3

\* Its thread starts, or cannot be started.
LEMMA StartAIKeeps == ASSUME SelectionInv, NEW t \in Threads, StartAI(t) PROVE SelectionInv'
  <1>1. Starting(t) /\ Go(t, Idle) /\ ai'.at # "none" /\ "at" \in DOMAIN ai' /\ UNCHANGED running
    BY DEF StartAI, Starting
  <1>2. DOMAIN threads' = Threads /\ ~Starting(t)' /\ "at" \in DOMAIN threads'[t]
        /\ \A s \in Threads \ {t} : threads'[s] = threads[s]
    BY <1>1 DEF Go, SelectionInv, Starting, Idle
  <1>3. \A s \in Threads : ~Starting(s)'
    BY <1>1, <1>2 DEF SelectionInv, Starting
  <1> QED BY <1>1, <1>2, <1>3 DEF SelectionInv

\* The other requests.
LEMMA OthersKeep ==
  ASSUME SelectionInv, NEW t \in Threads, OfRequest(t), ~AskAI(t), ~StartAI(t)
  PROVE  NobodyStarts
  <1>1. UNCHANGED running /\ UNCHANGED ai
    BY DEF OfRequest, Start, Read, Offer, AskMore, ShowMore, AskQueue, Send, Sent, Note, OnRound
  <1>2. CASE UNCHANGED threads
    BY <1>1, <1>2 DEF SelectionInv, Starting, NobodyStarts
  <1>3. CASE ~UNCHANGED threads
    <2>1. ~Starting(t)
      BY <1>3 DEF OfRequest, Start, Read, Offer, AskMore, ShowMore, AskQueue, Send, Sent, Note,
                  OnRound, Starting
    <2>2. \E new : Go(t, new)
      BY <1>3 DEF OfRequest, Start, Read, Offer, AskMore, ShowMore, AskQueue, Send, Sent, Note
    <2>3. "at" \in DOMAIN threads'[t] /\ threads'[t].at # "starting"
      <3>1. "at" \in DOMAIN threads[t] /\ DOMAIN threads = Threads
        BY DEF SelectionInv
      <3>2. CASE Start(t)
        BY <3>1, <3>2 DEF Start, Go, Idle
      <3>3. CASE Read(t)
        BY <3>1, <3>3 DEF Read, Go
      <3>4. CASE Offer(t)
        <4>1. Go(t, Idle) \/ \E no, left :
                Go(t, [Idle EXCEPT !.at = "queueing", !.no = no, !.left = left])
          <5>1. PICK screen \in {"ok", "unavailable"} :
                  LET rows == RowsOf(threads[t].found, threads[t].req, screen)
                  IN IF threads[t].what = "ingest"
                     THEN Go(t, [Idle EXCEPT !.at = "queueing", !.no = threads[t].no,
                                             !.left = Picks(rows)])
                     ELSE \E all \in Orders(rows) : Go(t, Idle)
            BY <3>4, Zenon DEF Offer
          <5> QED BY <5>1
        <4>2. CASE Go(t, Idle)
          BY <3>1, <4>2 DEF Go, Idle
        <4>3. ASSUME NEW no, NEW left,
                     Go(t, [Idle EXCEPT !.at = "queueing", !.no = no, !.left = left])
              PROVE  "at" \in DOMAIN threads'[t] /\ threads'[t].at # "starting"
          BY <3>1, <4>3 DEF Go, Idle
        <4> QED BY <4>1, <4>2, <4>3
      <3>5. CASE AskMore(t)
        BY <1>3, <3>1, <3>5 DEF AskMore, Go, Idle
      <3>6. CASE ShowMore(t)
        BY <3>1, <3>6 DEF ShowMore, Go, Idle
      <3>7. CASE AskQueue(t)
        BY <1>3, <3>1, <3>7 DEF AskQueue, Go, Idle
      <3>8. CASE Send(t)
        BY <3>1, <3>8 DEF Send, Go
      <3>9. CASE Sent(t)
        BY <3>1, <3>9 DEF Sent, Go, Idle
      <3>10. CASE Note(t)
        BY <3>1, <3>10 DEF Note, Go, Idle
      <3> QED BY <3>2, <3>3, <3>4, <3>5, <3>6, <3>7, <3>8, <3>9, <3>10 DEF OfRequest
    <2> QED BY <1>1, <2>1, <2>2, <2>3, GoKeeps
  <1> QED BY <1>2, <1>3

\* The thread of a selection, to its end.
LEMMA OfSelectionKeeps == ASSUME SelectionInv, OfSelection PROVE SelectionInv'
  <1>1. CASE OpenAI \/ Choose \/ Record
    <2>1. UNCHANGED <<threads, running>> /\ ai.at # "none"
      BY <1>1 DEF OpenAI, Choose, Record
    <2>2. "at" \in DOMAIN ai' /\ ai'.at # "none"
      BY <1>1 DEF OpenAI, Choose, Record, SelectionInv, NoAI
    <2> QED BY <2>1, <2>2 DEF SelectionInv, Starting
  <1>2. CASE EndAI
    <2>1. UNCHANGED threads /\ ai.at # "none" /\ running' = 0 /\ ai'.at = "none"
          /\ "at" \in DOMAIN ai'
      BY <1>2 DEF EndAI, NoAI
    <2> QED BY <2>1 DEF SelectionInv, Starting
  <1> QED BY <1>1, <1>2 DEF OfSelection

\* Every step keeps it.
LEMMA SelectionNext == SelectionInv /\ [Next]_vars => SelectionInv'
  <1> SUFFICES ASSUME SelectionInv, [Next]_vars PROVE SelectionInv'
    OBVIOUS
  <1>1. CASE Crash
    BY <1>1 DEF Crash, SelectionInv, Starting, Idle, NoAI
  <1>2. CASE Analysed \/ UNCHANGED vars
    BY <1>2 DEF Analysed, vars, SelectionInv, Starting
  <1> QED BY <1>1, <1>2, AskAIKeeps, StartAIKeeps, OthersKeep, ElseKeeps, OfSelectionKeeps DEF Next

-----------------------------------------------------------------------------
(* Only what a round shows is chosen. *)

IsSequence(s) == s \in Seq(ToSet(s))

\* A round as it may be saved.
WellMade(r) ==
  /\ {"id", "shown", "reserve", "ai", "queued"} \subseteq DOMAIN r /\ r.id \in Ids
  /\ r.shown \in Seq(Links) /\ r.reserve \in Seq(Links)
  /\ Len(r.shown) <= MaxListed
  /\ r.ai.picks \cup r.queued.urls \subseteq ToSet(r.shown)
  /\ Cardinality(r.queued.urls) <= MaxSelected

\* The rounds that are kept, as objects and in files.
KeptInv ==
  /\ IsSequence(objects) /\ \A i \in DOMAIN objects : WellMade(objects[i])
  /\ memory \in Seq(DOMAIN objects)
  /\ DOMAIN disk = Ids /\ \A i \in Ids : disk[i] # NoRound => WellMade(disk[i])

\* What was chosen of the round in an object is in its view.
Choice(all, obj, urls) == obj \in DOMAIN all /\ urls \subseteq ToSet(all[obj].shown)

\* What a request thread, and that of an AI selection, have in hand, past their checks.
InHand(all, th) ==
  /\ {"at", "obj", "urls", "what"} \subseteq DOMAIN th
  /\ th.at \in {"reading", "read"} /\ th.what # "ingest" => th.obj \in Ids
  /\ th.at \in {"more", "starting", "noting"} => th.obj \in DOMAIN all
  /\ th.at = "queueing" /\ th.obj # 0 =>
       Choice(all, th.obj, th.urls) /\ Cardinality(th.urls) <= MaxSelected
Chosen(all, mind) ==
  /\ {"at", "obj", "picks"} \subseteq DOMAIN mind
  /\ mind.at = "started" => mind.obj \in Ids /\ mind.picks = {}
  /\ mind.at \in {"choosing", "done", "failed"} => Choice(all, mind.obj, mind.picks)

HandsInv ==
  /\ DOMAIN threads = Threads /\ \A t \in Threads : InHand(objects, threads[t])
  /\ Chosen(objects, ai)

\* A round has its number.
Counted == {"rounds", "requests", "faults"} \subseteq DOMAIN counts /\ counts.rounds \in 0..MaxRounds

\* What was checked against a round's list stays checked until it is written, as the
\* list only grows, in whatever object it is.
ShownInv == KeptInv /\ HandsInv /\ Counted

\* Nothing that was in view goes out of it.
Grows ==
  /\ DOMAIN objects \subseteq DOMAIN objects'
  /\ \A i \in DOMAIN objects : ToSet(objects[i].shown) \subseteq ToSet(objects'[i].shown)

\* What the invariant is for.
LEMMA ShownImplies == ShownInv => NothingButTheShown
  BY DEF ShownInv, KeptInv, WellMade, NothingButTheShown, AllRounds

\* There is no round.
LEMMA ShownInit == Init => ShownInv
  <1> SUFFICES ASSUME Init PROVE ShownInv
    OBVIOUS
  <1>1. objects = << >> /\ memory = << >> /\ disk = [i \in Ids |-> NoRound]
        /\ ai = NoAI /\ threads = [t \in Threads |-> Idle]
    BY DEF Init
  <1>2. << >> \in Seq(ToSet(<< >>)) /\ << >> \in Seq(DOMAIN << >>) /\ DOMAIN << >> = {}
    OBVIOUS
  <1>3. KeptInv
    BY <1>1, <1>2 DEF KeptInv, IsSequence
  <1>4. HandsInv
    BY <1>1 DEF HandsInv, InHand, Chosen, Idle, NoAI
  <1>5. Counted
    BY RoundsAssumption DEF Init, Counted
  <1> QED BY <1>3, <1>4, <1>5 DEF ShownInv

\* The numbers of rounds: one more, when one is asked for and one more may be made.
LEMMA CountedNext == Counted /\ [Next]_vars => Counted'
  <1> SUFFICES ASSUME Counted, [Next]_vars PROVE Counted'
    OBVIOUS
  <1>1. CASE \E t \in Threads : Start(t)
    <2>1. PICK r \in Requests : \E faults :
            /\ r.what = "round" => counts.rounds < MaxRounds
            /\ counts' = [counts EXCEPT !.requests = @ + 1,
                            !.rounds = IF r.what = "round" THEN @ + 1 ELSE @, !.faults = faults]
      BY <1>1 DEF Start
    <2>2. PICK faults : counts' = [counts EXCEPT !.requests = @ + 1,
                            !.rounds = IF r.what = "round" THEN @ + 1 ELSE @, !.faults = faults]
      BY <2>1
    <2> QED BY <2>1, <2>2, RoundsAssumption DEF Counted
  <1>2. CASE \E t \in Threads : OfRequest(t) /\ ~Start(t)
    <2>1. \/ UNCHANGED counts
          \/ counts' = [counts EXCEPT !.requests = @ + 1]
          \/ counts' = [counts EXCEPT !.faults = @ + 1]
      <3>1. PICK t \in Threads : OfRequest(t) /\ ~Start(t)
        BY <1>2
      <3>2. CASE Read(t)
        BY <3>2 DEF Read, Count, Holds, Fails
      <3>3. CASE Offer(t)
        BY <3>3 DEF Offer, Count, Holds, Fails, Save
      <3>4. CASE ShowMore(t) \/ StartAI(t) \/ Sent(t)
        BY <3>4 DEF ShowMore, StartAI, Sent, Count, Holds, Fails, Save
      <3>5. CASE AskMore(t) \/ AskAI(t) \/ AskQueue(t)
        BY <3>5 DEF AskMore, AskAI, AskQueue, OnRound, Count
      <3>6. CASE Send(t) \/ Note(t)
        BY <3>6 DEF Send, Note, Count, Holds, Fails
      <3> QED BY <3>1, <3>2, <3>3, <3>4, <3>5, <3>6 DEF OfRequest
    <2> QED BY <2>1 DEF Counted
  <1>3. CASE OfSelection \/ Analysed \/ Crash \/ UNCHANGED vars
    <2>1. UNCHANGED counts \/ counts' = [counts EXCEPT !.faults = @ + 1]
      BY <1>3 DEF OfSelection, OpenAI, Choose, Record, EndAI, Analysed, Crash, vars, Count, Holds,
                  Fails, Save
    <2> QED BY <2>1 DEF Counted
  <1> QED BY <1>1, <1>2, <1>3 DEF Next

\* A sequence with one more element.
LEMMA AppendIs ==
  ASSUME NEW s, IsSequence(s), NEW x
  PROVE  /\ Len(s) \in Nat /\ DOMAIN s = 1..Len(s)
         /\ IsSequence(Append(s, x)) /\ DOMAIN Append(s, x) = 1..(Len(s) + 1)
         /\ Append(s, x)[Len(s) + 1] = x
         /\ \A i \in DOMAIN s : Append(s, x)[i] = s[i]
  <1> DEFINE S == ToSet(s) \cup {x}
             a == Append(s, x)
  <1>1. s \in Seq(S) /\ x \in S
    <2>1. s \in Seq(ToSet(s))
      BY DEF IsSequence
    <2> QED BY <2>1
  <1> HIDE DEF S
  <1>2. /\ Len(s) \in Nat /\ DOMAIN s = 1..Len(s)
        /\ a \in Seq(S) /\ DOMAIN a = 1..(Len(s) + 1) /\ Len(a) = Len(s) + 1
        /\ a[Len(s) + 1] = x /\ \A i \in DOMAIN s : a[i] = s[i]
    BY <1>1
  <1> HIDE DEF a
  <1>3. \A i \in 1..Len(a) : a[i] \in ToSet(a)
    BY <1>2 DEF ToSet
  <1>4. IsSequence(a)
    BY <1>2, <1>3, IsASeq DEF IsSequence
  <1> QED BY <1>2, <1>4 DEF a

\* A sequence with another element in one place.
LEMMA ExceptIs ==
  ASSUME NEW s, IsSequence(s), NEW x, NEW i \in DOMAIN s
  PROVE  /\ IsSequence([s EXCEPT ![i] = x])
         /\ DOMAIN [s EXCEPT ![i] = x] = DOMAIN s
         /\ \A j \in DOMAIN s : [s EXCEPT ![i] = x][j] = IF j = i THEN x ELSE s[j]
  <1> DEFINE S == ToSet(s) \cup {x}
             a == [s EXCEPT ![i] = x]
  <1>1. s \in Seq(S) /\ x \in S
    <2>1. s \in Seq(ToSet(s))
      BY DEF IsSequence
    <2> QED BY <2>1
  <1> HIDE DEF S
  <1>2. /\ a \in Seq(S) /\ DOMAIN a = DOMAIN s /\ DOMAIN a = 1..Len(a)
        /\ \A j \in DOMAIN s : a[j] = IF j = i THEN x ELSE s[j]
    BY <1>1
  <1> HIDE DEF a
  <1>3. \A j \in 1..Len(a) : a[j] \in ToSet(a)
    BY <1>2 DEF ToSet
  <1>4. IsSequence(a)
    BY <1>2, <1>3, IsASeq DEF IsSequence
  <1> QED BY <1>2, <1>4 DEF a

\* A round is saved, new or with at least the list it had.
LEMMA SaveKeeps ==
  ASSUME KeptInv, NEW obj, NEW round, Save(obj, round), WellMade(round),
         \/ obj = Len(objects) + 1
         \/ obj \in DOMAIN objects /\ ToSet(objects[obj].shown) \subseteq ToSet(round.shown)
  PROVE  KeptInv' /\ Grows
  <1>0. IsSequence(objects) /\ Len(objects) \in Nat /\ DOMAIN objects = 1..Len(objects)
        /\ memory \in Seq(DOMAIN objects) /\ \A i \in DOMAIN objects : WellMade(objects[i])
    BY AppendIs DEF KeptInv
  <1>1. /\ IsSequence(objects') /\ DOMAIN objects \subseteq DOMAIN objects' /\ obj \in DOMAIN objects'
        /\ \A i \in DOMAIN objects' :
             (objects'[i] = round /\ i = obj) \/ (i \in DOMAIN objects /\ objects'[i] = objects[i])
        /\ obj \in DOMAIN objects => objects'[obj] = round
        /\ \A i \in DOMAIN objects : i # obj => objects'[i] = objects[i]
    <2>1. CASE obj \in DOMAIN objects
      <3>1. objects' = [objects EXCEPT ![obj] = round]
        BY <2>1 DEF Save
      <3> QED BY <1>0, <2>1, <3>1, ExceptIs
    <2>2. CASE obj \notin DOMAIN objects
      <3>1. objects' = Append(objects, round) /\ obj = Len(objects) + 1
        BY <2>2 DEF Save
      <3>2. /\ IsSequence(objects') /\ DOMAIN objects' = 1..(Len(objects) + 1)
            /\ objects'[Len(objects) + 1] = round /\ \A i \in DOMAIN objects : objects'[i] = objects[i]
        BY <1>0, <3>1, AppendIs
      <3> QED BY <1>0, <2>2, <3>1, <3>2
    <2> QED BY <2>1, <2>2
  <1>2. \A i \in DOMAIN objects' : WellMade(objects'[i])
    BY <1>0, <1>1
  <1>3. Grows
    <2>1. ASSUME NEW i \in DOMAIN objects
          PROVE  ToSet(objects[i].shown) \subseteq ToSet(objects'[i].shown)
      <3>1. CASE i = obj
        <4>1. obj # Len(objects) + 1
          BY <1>0, <3>1
        <4> QED BY <1>1, <3>1, <4>1
      <3> QED BY <1>1, <3>1
    <2> QED BY <1>1, <2>1 DEF Grows
  <1>4. memory' \in Seq(DOMAIN objects')
    <2> DEFINE place == {i \in DOMAIN memory : objects[memory[i]].id = round.id}
               held == IF place # {} THEN [memory EXCEPT ![CHOOSE i \in place : TRUE] = obj]
                       ELSE Append(memory, obj)
    <2>1. memory \in Seq(DOMAIN objects')
      BY <1>0, <1>1
    <2>2. held \in Seq(DOMAIN objects')
      <3>1. CASE place # {}
        <4>1. PICK i : i \in DOMAIN memory /\ held = [memory EXCEPT ![i] = obj]
          BY <3>1
        <4>2. i \in 1..Len(memory)
          BY <1>0, <4>1
        <4>3. [memory EXCEPT ![i] = obj] \in Seq(DOMAIN objects')
          BY <1>1, <2>1, <4>2, ExceptSeq
        <4> QED BY <4>1, <4>3
      <3>2. CASE place = {}
        <4>1. held = Append(memory, obj)
          BY <3>2
        <4>2. Append(memory, obj) \in Seq(DOMAIN objects')
          BY <1>1, <2>1, AppendProperties
        <4> QED BY <4>1, <4>2
      <3> QED BY <3>1, <3>2
    <2>3. memory' = IF Len(held) > Memory THEN Tail(held) ELSE held
      BY DEF Save
    <2> HIDE DEF held
    <2>4. ASSUME Len(held) > Memory PROVE Tail(held) \in Seq(DOMAIN objects')
      <3>1. held # << >>
        BY <2>4, RoundsAssumption
      <3> QED BY <2>2, <3>1, HeadTailProperties
    <2> QED BY <2>2, <2>3, <2>4
  <1>5. DOMAIN disk' = Ids /\ \A i \in Ids : disk'[i] # NoRound => WellMade(disk'[i])
    <2>1. disk' = [disk EXCEPT ![round.id] = round] \/ UNCHANGED disk
      BY DEF Save
    <2> QED BY <2>1 DEF KeptInv
  <1> QED BY <1>1, <1>2, <1>3, <1>4, <1>5 DEF KeptInv

\* A round is looked up, and perhaps read back from its file.
LEMMA GotKeeps ==
  ASSUME KeptInv, NEW id \in Ids, objects' = Got(id).all, UNCHANGED <<memory, disk>>
  PROVE  KeptInv' /\ Grows /\ (Got(id).obj # 0 => Got(id).obj \in DOMAIN objects')
  <1> DEFINE place == {i \in DOMAIN memory : objects[memory[i]].id = id}
  <1>0. IsSequence(objects) /\ Len(objects) \in Nat /\ DOMAIN objects = 1..Len(objects)
        /\ memory \in Seq(DOMAIN objects) /\ \A i \in DOMAIN objects : WellMade(objects[i])
    BY AppendIs DEF KeptInv
  <1>1. CASE place # {}
    <2>1. PICK i \in DOMAIN memory : Got(id).obj = memory[i] /\ Got(id).all = objects
      BY <1>1 DEF Got
    <2>2. memory[i] \in DOMAIN objects
      BY <1>0
    <2> QED BY <2>1, <2>2 DEF KeptInv, Grows
  <1>2. CASE place = {} /\ disk[id] # NoRound
    <2>1. Got(id).obj = Len(objects) + 1 /\ objects' = Append(objects, disk[id])
      BY <1>2 DEF Got
    <2>2. /\ IsSequence(objects') /\ DOMAIN objects' = 1..(Len(objects) + 1)
          /\ objects'[Len(objects) + 1] = disk[id] /\ \A i \in DOMAIN objects : objects'[i] = objects[i]
      BY <1>0, <2>1, AppendIs
    <2>3. WellMade(disk[id])
      BY <1>2 DEF KeptInv
    <2>4. DOMAIN objects \subseteq DOMAIN objects'
      BY <1>0, <2>2
    <2>5. \A i \in DOMAIN objects' : WellMade(objects'[i])
      BY <1>0, <2>2, <2>3
    <2>6. memory' \in Seq(DOMAIN objects')
      BY <1>0, <2>4
    <2>7. Grows
      BY <2>2, <2>4 DEF Grows
    <2> QED BY <1>0, <2>1, <2>2, <2>5, <2>6, <2>7 DEF KeptInv
  <1>3. CASE place = {} /\ disk[id] = NoRound
    <2>1. Got(id).obj = 0 /\ Got(id).all = objects
      BY <1>3 DEF Got
    <2> QED BY <2>1 DEF KeptInv, Grows
  <1> QED BY <1>1, <1>2, <1>3

\* What was in hand still is, as the lists only grow.
LEMMA GrowthKeeps ==
  ASSUME ShownInv, KeptInv', Grows
  PROVE  /\ \A t \in Threads : InHand(objects', threads[t])
         /\ Chosen(objects', ai)
  BY DEF ShownInv, HandsInv, InHand, Chosen, Choice, Grows

\* A request thread goes on, with something that it may have in hand.
LEMMA ThreadGoes ==
  ASSUME ShownInv, KeptInv', Counted', Grows, UNCHANGED ai,
         NEW t \in Threads, NEW th, Go(t, th), InHand(objects', th)
  PROVE  ShownInv'
  <1>1. DOMAIN threads = Threads /\ threads' = [threads EXCEPT ![t] = th]
    BY DEF ShownInv, HandsInv, Go
  <1>2. DOMAIN threads' = Threads
        /\ \A s \in Threads : threads'[s] = IF s = t THEN th ELSE threads[s]
    BY <1>1
  <1>3. (\A s \in Threads : InHand(objects', threads'[s])) /\ Chosen(objects', ai')
    BY <1>2, GrowthKeeps
  <1> QED BY <1>2, <1>3 DEF ShownInv, HandsInv

\* The objects are as they were, or as a lookup leaves them; no thread goes on.
LEMMA NoneGoes ==
  ASSUME ShownInv, KeptInv', Counted', Grows, UNCHANGED <<threads, ai>>
  PROVE  ShownInv'
  BY GrowthKeeps DEF ShownInv, HandsInv

\* Nothing that is kept changes.
LEMMA KeptStays == ASSUME KeptInv, UNCHANGED kept PROVE KeptInv' /\ Grows
  BY DEF KeptInv, kept, Grows

\* A thread that has no round in its hands, or the number of the one that it makes.
LEMMA EmptyHanded ==
  ASSUME NEW all, NEW th, {"at", "obj", "urls", "what"} \subseteq DOMAIN th,
         \/ th.at = "idle"
         \/ th.at \in {"reading", "read"} /\ (th.what # "ingest" => th.obj \in Ids)
         \/ th.at = "queueing" /\ th.obj = 0
  PROVE  InHand(all, th)
  BY DEF InHand

\* A round is asked for, and its sources are read.
LEMMA StartShown == ASSUME ShownInv, Counted', NEW t \in Threads, Start(t) PROVE ShownInv'
  <1>1. PICK r \in Requests : \E no, known, faults :
          /\ r.what = "round" => counts.rounds < MaxRounds
          /\ counts' = [counts EXCEPT !.requests = @ + 1,
                          !.rounds = IF r.what = "round" THEN @ + 1 ELSE @, !.faults = faults]
          /\ Go(t, [Idle EXCEPT !.at = "reading", !.no = no, !.what = r.what, !.req = r.req,
                                !.known = known, !.obj = counts'.rounds])
    BY DEF Start
  <1>0. PICK no, known, faults :
          /\ counts' = [counts EXCEPT !.requests = @ + 1,
                          !.rounds = IF r.what = "round" THEN @ + 1 ELSE @, !.faults = faults]
          /\ Go(t, [Idle EXCEPT !.at = "reading", !.no = no, !.what = r.what, !.req = r.req,
                                !.known = known, !.obj = counts'.rounds])
    BY <1>1
  <1> DEFINE obj == counts'.rounds
             th == [Idle EXCEPT !.at = "reading", !.no = no, !.what = r.what, !.req = r.req,
                                !.known = known, !.obj = obj]
  <1>2. r.what # "ingest" => obj \in Ids
    <2>1. r.what \in {"round", "ingest"}
      BY RoundsAssumption
    <2>2. r.what = "round" => counts'.rounds = counts.rounds + 1
      BY <1>0 DEF ShownInv, Counted
    <2> QED BY <1>1, <2>1, <2>2, RoundsAssumption DEF ShownInv, Counted, Ids
  <1>3. /\ th.at = "reading" /\ {"at", "obj", "urls", "what"} \subseteq DOMAIN th
        /\ th.what = r.what /\ th.obj = obj
    BY DEF Idle
  <1>4. UNCHANGED kept /\ UNCHANGED ai
    BY DEF Start
  <1>5. KeptInv' /\ Grows
    BY <1>4, KeptStays DEF ShownInv
  <1> HIDE DEF th, obj
  <1>6. InHand(objects', th)
    BY <1>2, <1>3, EmptyHanded
  <1>7. Go(t, th)
    BY <1>0 DEF th, obj
  <1> QED BY <1>4, <1>5, <1>6, <1>7, ThreadGoes

\* They have been read.
LEMMA ReadShown == ASSUME ShownInv, Counted', NEW t \in Threads, Read(t) PROVE ShownInv'
  <1>1. PICK known, found :
          Go(t, [threads[t] EXCEPT !.at = "read", !.known = known, !.found = found])
    BY DEF Read
  <1> DEFINE th == [threads[t] EXCEPT !.at = "read", !.known = known, !.found = found]
  <1>2. /\ {"at", "obj", "urls", "what"} \subseteq DOMAIN threads[t]
        /\ threads[t].what # "ingest" => threads[t].obj \in Ids
    BY DEF ShownInv, HandsInv, InHand, Read
  <1>3. /\ th.at = "read" /\ {"at", "obj", "urls", "what"} \subseteq DOMAIN th
        /\ th.what # "ingest" => th.obj \in Ids
    BY <1>2
  <1>4. UNCHANGED kept /\ UNCHANGED ai
    BY DEF Read
  <1>5. KeptInv' /\ Grows
    BY <1>4, KeptStays DEF ShownInv
  <1> HIDE DEF th
  <1>6. InHand(objects', th)
    BY <1>3, EmptyHanded
  <1>7. Go(t, th)
    BY <1>1 DEF th
  <1> QED BY <1>4, <1>5, <1>6, <1>7, ThreadGoes

\* An order of the candidates lists links.
LEMMA OrderIsSequence ==
  ASSUME NEW rows, NEW all \in Orders(rows)
  PROVE  all \in Seq(Links)
  <1> DEFINE S == Candidates(rows)
  <1>1. S \subseteq Links
    BY DEF Candidates
  <1>2. Cardinality(S) \in Nat
    BY <1>1, DiscoveryAssumption, FS_Subset, FS_CardinalityType
  <1>3. all \in [1..Cardinality(S) -> S]
    BY DEF Orders, SetToSeqs
  <1> HIDE DEF S
  <1> QED BY <1>1, <1>2, <1>3

\* A new round has its best in view, within the limit, and the others in reserve.
LEMMA NewRoundIsWellMade ==
  ASSUME NEW all \in Seq(Links), NEW id \in Ids, NEW req, NEW rows, NEW known, NEW screen
  PROVE  WellMade([id |-> id, req |-> req, rows |-> rows, known |-> known, screen |-> screen,
                   shown |-> FirstN(all, Listed), reserve |-> SubSeq(all, Listed + 1, Len(all)),
                   ai |-> NotChosen, queued |-> NotQueued])
  <1> DEFINE n == IF Len(all) < Listed THEN Len(all) ELSE Listed
  <1>1. Listed \in Nat /\ MaxListed \in Nat /\ Listed <= MaxListed /\ MaxSelected \in Nat
        /\ Len(all) \in Nat
    BY RoundsAssumption
  <1>2. \A i \in 1..Len(all) : all[i] \in Links
    OBVIOUS
  <1>3. n \in Nat /\ n <= Listed /\ \A i \in 1..n : all[i] \in Links
    BY <1>1, <1>2
  <1> HIDE DEF n
  <1>4. FirstN(all, Listed) = SubSeq(all, 1, n)
    BY DEF FirstN, n
  <1>5. FirstN(all, Listed) \in Seq(Links) /\ Len(FirstN(all, Listed)) <= MaxListed
    <2>1. SubSeq(all, 1, n) \in Seq(Links) /\ Len(SubSeq(all, 1, n)) = IF 1 <= n THEN n - 1 + 1 ELSE 0
      BY <1>3, SubSeqProperties
    <2> QED BY <1>1, <1>3, <1>4, <2>1
  <1>6. SubSeq(all, Listed + 1, Len(all)) \in Seq(Links)
    <2>1. \A i \in (Listed + 1)..Len(all) : all[i] \in Links
      BY <1>1, <1>2
    <2> QED BY <1>1, <2>1, SubSeqProperties
  <1>7. Cardinality({}) <= MaxSelected
    BY <1>1, FS_EmptySet
  <1> QED BY <1>5, <1>6, <1>7 DEF WellMade, NotChosen, NotQueued

\* The articles found become an ingestion's, or a round's.
LEMMA OfferShown == ASSUME ShownInv, Counted', NEW t \in Threads, Offer(t) PROVE ShownInv'
  <1>1. UNCHANGED ai
    BY DEF Offer
  <1>2. CASE threads[t].what = "ingest"
    <2>1. UNCHANGED kept /\ \E no, left :
            Go(t, [Idle EXCEPT !.at = "queueing", !.no = no, !.left = left])
      BY <1>2 DEF Offer
    <2>2. PICK no, left : Go(t, [Idle EXCEPT !.at = "queueing", !.no = no, !.left = left])
      BY <2>1
    <2> DEFINE th == [Idle EXCEPT !.at = "queueing", !.no = no, !.left = left]
    <2>3. th.at = "queueing" /\ th.obj = 0 /\ {"at", "obj", "urls", "what"} \subseteq DOMAIN th
      BY DEF Idle
    <2>4. KeptInv' /\ Grows
      BY <2>1, KeptStays DEF ShownInv
    <2> HIDE DEF th
    <2>5. InHand(objects', th)
      BY <2>3, EmptyHanded
    <2>6. Go(t, th)
      BY <2>2 DEF th
    <2> QED BY <1>1, <2>4, <2>5, <2>6, ThreadGoes
  <1>3. CASE threads[t].what # "ingest"
    <2>1. PICK screen \in {"ok", "unavailable"} :
            LET rows == RowsOf(threads[t].found, threads[t].req, screen)
            IN \E all \in Orders(rows) :
                 /\ Go(t, Idle)
                 /\ Save(Len(objects) + 1,
                      [id |-> threads[t].obj, req |-> threads[t].req, rows |-> rows,
                       known |-> threads[t].known, screen |-> screen, shown |-> FirstN(all, Listed),
                       reserve |-> SubSeq(all, Listed + 1, Len(all)),
                       ai |-> NotChosen, queued |-> NotQueued])
      BY <1>3, Zenon DEF Offer
    <2> DEFINE rows == RowsOf(threads[t].found, threads[t].req, screen)
    <2>2. PICK all \in Orders(rows) :
                 /\ Go(t, Idle)
                 /\ Save(Len(objects) + 1,
                      [id |-> threads[t].obj, req |-> threads[t].req, rows |-> rows,
                       known |-> threads[t].known, screen |-> screen, shown |-> FirstN(all, Listed),
                       reserve |-> SubSeq(all, Listed + 1, Len(all)),
                       ai |-> NotChosen, queued |-> NotQueued])
      BY <2>1
    <2> HIDE DEF rows
    <2> DEFINE round == [id |-> threads[t].obj, req |-> threads[t].req, rows |-> rows,
                         known |-> threads[t].known, screen |-> screen, shown |-> FirstN(all, Listed),
                         reserve |-> SubSeq(all, Listed + 1, Len(all)),
                         ai |-> NotChosen, queued |-> NotQueued]
    <2>3. WellMade(round)
      <3>1. threads[t].obj \in Ids
        BY <1>3 DEF Offer, ShownInv, HandsInv, InHand
      <3> QED BY <2>2, <3>1, OrderIsSequence, NewRoundIsWellMade
    <2>4. Save(Len(objects) + 1, round)
      BY <2>2
    <2> HIDE DEF round
    <2>5. KeptInv' /\ Grows
      BY <2>3, <2>4, SaveKeeps DEF ShownInv
    <2>6. InHand(objects', Idle)
      BY EmptyHanded DEF Idle
    <2> QED BY <1>1, <2>2, <2>5, <2>6, ThreadGoes
  <1> QED BY <1>2, <1>3

\* A request looks a round up.
LEMMA LookedUp ==
  ASSUME ShownInv, NEW id \in Ids, objects' = Got(id).all, UNCHANGED <<memory, disk>>
  PROVE  KeptInv' /\ Grows /\ (Got(id).obj # 0 => Got(id).obj \in DOMAIN objects')
  BY GotKeeps DEF ShownInv

\* A thread that only knows which object it will work on.
LEMMA KnowsItsRound ==
  ASSUME NEW all, NEW obj \in DOMAIN all, NEW at \in {"more", "starting"}
  PROVE  InHand(all, [Idle EXCEPT !.at = at, !.obj = obj])
  BY DEF InHand, Idle

\* More is asked for, or an AI selection.
LEMMA AskShown == ASSUME ShownInv, Counted', NEW t \in Threads, AskMore(t) \/ AskAI(t) PROVE ShownInv'
  <1>1. PICK id \in Ids :
          /\ objects' = Got(id).all /\ UNCHANGED <<memory, disk, ai>>
          /\ \/ UNCHANGED threads
             \/ /\ Got(id).obj # 0
                /\ \E at \in {"more", "starting"} : Go(t, [Idle EXCEPT !.at = at, !.obj = Got(id).obj])
    <2>1. CASE AskMore(t)
      BY <2>1 DEF AskMore, OnRound
    <2>2. CASE AskAI(t)
      BY <2>2 DEF AskAI, OnRound
    <2> QED BY <2>1, <2>2
  <1>2. KeptInv' /\ Grows /\ (Got(id).obj # 0 => Got(id).obj \in DOMAIN objects')
    BY <1>1, LookedUp
  <1>3. CASE UNCHANGED threads
    BY <1>1, <1>2, <1>3, NoneGoes
  <1>4. CASE ~UNCHANGED threads
    <2>1. PICK at \in {"more", "starting"} : Go(t, [Idle EXCEPT !.at = at, !.obj = Got(id).obj])
      BY <1>1, <1>4
    <2>2. InHand(objects', [Idle EXCEPT !.at = at, !.obj = Got(id).obj])
      BY <1>1, <1>2, <1>4, KnowsItsRound
    <2> QED BY <1>1, <1>2, <2>1, <2>2, ThreadGoes
  <1> QED BY <1>3, <1>4

\* The best of the reserve comes into view, after what was there, up to the limit.
LEMMA MoreIsWellMade ==
  ASSUME NEW r, WellMade(r), NEW room, room = MaxListed - Len(r.shown), room > 0
  PROVE  LET new == [r EXCEPT !.shown = @ \o FirstN(r.reserve, room),
                              !.reserve = SubSeq(@, room + 1, Len(@))]
         IN WellMade(new) /\ ToSet(r.shown) \subseteq ToSet(new.shown)
  <1> DEFINE n == IF Len(r.reserve) < room THEN Len(r.reserve) ELSE room
             more == SubSeq(r.reserve, 1, n)
             rest == SubSeq(r.reserve, room + 1, Len(r.reserve))
             new == [r EXCEPT !.shown = @ \o FirstN(r.reserve, room),
                              !.reserve = SubSeq(@, room + 1, Len(@))]
  <1>1. r.shown \in Seq(Links) /\ r.reserve \in Seq(Links) /\ Len(r.shown) <= MaxListed
        /\ {"id", "shown", "reserve", "ai", "queued"} \subseteq DOMAIN r
    BY DEF WellMade
  <1>2. Len(r.shown) \in Nat /\ Len(r.reserve) \in Nat /\ MaxListed \in Nat /\ room \in Nat
    BY <1>1, RoundsAssumption
  <1>3. \A i \in 1..Len(r.reserve) : r.reserve[i] \in Links
    BY <1>1
  <1>4. n \in Nat /\ n <= room /\ \A i \in 1..n : r.reserve[i] \in Links
    <2>1. n \in Nat /\ n <= room /\ n <= Len(r.reserve)
      <3>1. IF Len(r.reserve) < room THEN n = Len(r.reserve) ELSE n = room
        OBVIOUS
      <3> HIDE DEF n
      <3> QED BY <1>2, <3>1
    <2> HIDE DEF n
    <2> QED BY <1>2, <1>3, <2>1
  <1> HIDE DEF n
  <1>5. more \in Seq(Links) /\ Len(more) <= room
    <2>1. n \in Int /\ 1 \in Int /\ \A i \in 1..n : r.reserve[i] \in Links
      BY <1>4
    <2>2. more \in Seq(Links) /\ Len(more) = IF 1 <= n THEN n - 1 + 1 ELSE 0
      BY <2>1, SubSeqProperties
    <2>3. n \in Nat /\ room \in Nat /\ n <= room
      BY <1>2, <1>4
    <2> HIDE DEF more
    <2>4. Len(more) <= room
      BY <2>2, <2>3
    <2> QED BY <2>2, <2>4
  <1>6. rest \in Seq(Links)
    <2>1. \A i \in (room + 1)..Len(r.reserve) : r.reserve[i] \in Links
      BY <1>2, <1>3
    <2> QED BY <1>2, <2>1, SubSeqProperties
  <1>7. new = [r EXCEPT !.shown = r.shown \o more, !.reserve = rest]
    BY <1>1 DEF FirstN, n
  <1> HIDE DEF more, rest, new
  <1>8. /\ new.shown = r.shown \o more /\ new.reserve = rest
        /\ new.ai = r.ai /\ new.queued = r.queued /\ new.id = r.id
        /\ {"id", "shown", "reserve", "ai", "queued"} \subseteq DOMAIN new
    BY <1>1, <1>7
  <1>9. /\ r.shown \o more \in Seq(Links)
        /\ Len(r.shown \o more) = Len(r.shown) + Len(more)
        /\ \A i \in 1..Len(r.shown) : (r.shown \o more)[i] = r.shown[i]
    BY <1>1, <1>5
  <1>10. ToSet(r.shown) \subseteq ToSet(new.shown)
    <2>1. DOMAIN r.shown = 1..Len(r.shown) /\ DOMAIN (r.shown \o more) = 1..(Len(r.shown) + Len(more))
          /\ Len(more) \in Nat
      BY <1>1, <1>5, <1>9
    <2>2. DOMAIN r.shown \subseteq DOMAIN (r.shown \o more)
      BY <1>2, <2>1
    <2> QED BY <1>8, <1>9, <2>1, <2>2 DEF ToSet
  <1>11. Len(new.shown) <= MaxListed
    <2>1. Len(more) \in Nat
      BY <1>5
    <2> QED BY <1>2, <1>5, <1>8, <1>9, <2>1
  <1>12. WellMade(new)
    BY <1>6, <1>8, <1>9, <1>10, <1>11 DEF WellMade
  <1> QED BY <1>10, <1>12 DEF new

\* More is shown.
LEMMA ShowMoreShown == ASSUME ShownInv, Counted', NEW t \in Threads, ShowMore(t) PROVE ShownInv'
  <1> DEFINE obj == threads[t].obj
             round == objects[obj]
             room == MaxListed - Len(round.shown)
             new == [round EXCEPT !.shown = @ \o FirstN(round.reserve, room),
                                  !.reserve = SubSeq(@, room + 1, Len(@))]
  <1>1. Go(t, Idle) /\ UNCHANGED ai /\ threads[t].at = "more"
    BY DEF ShowMore
  <1>2. obj \in DOMAIN objects /\ WellMade(round)
    BY <1>1 DEF ShownInv, HandsInv, InHand, KeptInv
  <1>3. UNCHANGED kept \/ (room > 0 /\ Save(obj, new))
    BY DEF ShowMore
  <1>4. KeptInv' /\ Grows
    <2>1. CASE UNCHANGED kept
      BY <2>1, KeptStays DEF ShownInv
    <2>2. CASE room > 0 /\ Save(obj, new)
      <3>1. WellMade(new) /\ ToSet(round.shown) \subseteq ToSet(new.shown)
        BY <1>2, <2>2, MoreIsWellMade
      <3> HIDE DEF new, obj
      <3> QED BY <1>2, <2>2, <3>1, SaveKeeps DEF ShownInv
    <2> QED BY <1>3, <2>1, <2>2
  <1>5. InHand(objects', Idle)
    BY EmptyHanded DEF Idle
  <1> QED BY <1>1, <1>4, <1>5, ThreadGoes

\* A round in hand, with what is said of its selection or of who it was sent by.
LEMMA StillWellMade ==
  ASSUME NEW r, WellMade(r), NEW picks, picks \subseteq ToSet(r.shown), NEW status,
         NEW urls, urls \subseteq ToSet(r.shown), Cardinality(urls) <= MaxSelected, NEW by
  PROVE  LET chosen == [r EXCEPT !.ai = [status |-> status, picks |-> picks]]
             queued == [r EXCEPT !.queued = [urls |-> urls, by |-> by]]
         IN /\ WellMade(chosen) /\ chosen.shown = r.shown
            /\ WellMade(queued) /\ queued.shown = r.shown
  BY DEF WellMade

\* The same, without a choice of a person's.
LEMMA ChosenWellMade ==
  ASSUME NEW r, WellMade(r), NEW picks, picks \subseteq ToSet(r.shown), NEW status
  PROVE  LET chosen == [r EXCEPT !.ai = [status |-> status, picks |-> picks]]
         IN WellMade(chosen) /\ chosen.shown = r.shown
  BY DEF WellMade

\* An AI selection starts on it.
LEMMA StartAIShown == ASSUME ShownInv, Counted', NEW t \in Threads, StartAI(t) PROVE ShownInv'
  <1> DEFINE obj == threads[t].obj
             round == objects[obj]
             new == [round EXCEPT !.ai = [status |-> "running", picks |-> {}]]
  <1>1. Go(t, Idle) /\ threads[t].at = "starting" /\ Save(obj, new)
        /\ \E at \in {"started", "unstarted"} : ai' = [at |-> at, obj |-> round.id, picks |-> {}]
    BY DEF StartAI
  <1>2. obj \in DOMAIN objects /\ WellMade(round)
    BY <1>1 DEF ShownInv, HandsInv, InHand, KeptInv
  <1>3. WellMade(new) /\ new.shown = round.shown
    BY <1>2, ChosenWellMade
  <1> HIDE DEF new, obj
  <1>4. KeptInv' /\ Grows
    BY <1>1, <1>2, <1>3, SaveKeeps DEF ShownInv
  <1>5. DOMAIN threads = Threads /\ threads' = [threads EXCEPT ![t] = Idle]
    BY <1>1 DEF ShownInv, HandsInv, Go
  <1>6. InHand(objects', Idle)
    BY EmptyHanded DEF Idle
  <1>7. DOMAIN threads' = Threads /\ \A s \in Threads : InHand(objects', threads'[s])
    BY <1>4, <1>5, <1>6, GrowthKeeps
  <1>8. Chosen(objects', ai')
    <2>1. round.id \in Ids
      BY <1>2 DEF WellMade
    <2> QED BY <1>1, <2>1 DEF Chosen
  <1> QED BY <1>4, <1>7, <1>8 DEF ShownInv, HandsInv

\* A person's choice is checked against the round as it was looked up.
LEMMA AskQueueShown == ASSUME ShownInv, Counted', NEW t \in Threads, AskQueue(t) PROVE ShownInv'
  <1>1. PICK id \in Ids :
          /\ objects' = Got(id).all /\ UNCHANGED <<memory, disk, ai>>
          /\ \/ UNCHANGED threads
             \/ /\ Got(id).obj # 0
                /\ \E urls : /\ MaySend(objects'[Got(id).obj], urls)
                             /\ Go(t, [Idle EXCEPT !.at = "queueing", !.obj = Got(id).obj,
                                                   !.no = counts'.requests, !.urls = urls,
                                                   !.left = SetToSeq(urls)])
    BY Zenon DEF AskQueue, OnRound
  <1>2. KeptInv' /\ Grows /\ (Got(id).obj # 0 => Got(id).obj \in DOMAIN objects')
    BY <1>1, LookedUp
  <1>3. CASE UNCHANGED threads
    BY <1>1, <1>2, <1>3, NoneGoes
  <1>4. CASE ~UNCHANGED threads
    <2>1. PICK urls : /\ MaySend(objects'[Got(id).obj], urls)
                      /\ Go(t, [Idle EXCEPT !.at = "queueing", !.obj = Got(id).obj,
                                            !.no = counts'.requests, !.urls = urls,
                                            !.left = SetToSeq(urls)])
      BY <1>1, <1>4
    <2> DEFINE obj == Got(id).obj
               no == counts'.requests
               left == SetToSeq(urls)
               th == [Idle EXCEPT !.at = "queueing", !.obj = obj, !.no = no, !.urls = urls, !.left = left]
    <2>2. obj \in DOMAIN objects'
      BY <1>1, <1>2, <1>4
    <2>3. Choice(objects', obj, urls) /\ Cardinality(urls) <= MaxSelected
      BY <2>1, <2>2 DEF MaySend, Choice
    <2> HIDE DEF obj, no, left
    <2>4. /\ {"at", "obj", "urls", "what"} \subseteq DOMAIN th
          /\ th.at = "queueing" /\ th.obj = obj /\ th.urls = urls
      BY DEF Idle
    <2>5. Go(t, th)
      BY <2>1 DEF obj, no, left
    <2> HIDE DEF th
    <2>6. InHand(objects', th)
      BY <2>3, <2>4 DEF InHand
    <2> QED BY <1>1, <1>2, <2>5, <2>6, ThreadGoes
  <1> QED BY <1>3, <1>4

\* An article of the choice is sent, or cannot be.
LEMMA SendShown == ASSUME ShownInv, Counted', NEW t \in Threads, Send(t) PROVE ShownInv'
  <1>1. UNCHANGED kept /\ UNCHANGED ai
    BY DEF Send
  <1>2. KeptInv' /\ Grows
    BY <1>1, KeptStays DEF ShownInv
  <1>3. PICK th : /\ Go(t, th) /\ {"at", "obj", "urls", "what"} \subseteq DOMAIN th
                  /\ th.at = threads[t].at /\ th.obj = threads[t].obj /\ th.urls = threads[t].urls
                  /\ th.what = threads[t].what
    <2>1. {"at", "obj", "urls", "what"} \subseteq DOMAIN threads[t]
      BY DEF ShownInv, HandsInv, InHand
    <2>2. \E left, started : \/ Go(t, [threads[t] EXCEPT !.left = left, !.started = started])
                             \/ Go(t, [threads[t] EXCEPT !.left = left])
      BY DEF Send
    <2>3. PICK left, started : \/ Go(t, [threads[t] EXCEPT !.left = left, !.started = started])
                               \/ Go(t, [threads[t] EXCEPT !.left = left])
      BY <2>2
    <2> DEFINE th1 == [threads[t] EXCEPT !.left = left, !.started = started]
               th2 == [threads[t] EXCEPT !.left = left]
               Alike(th) == /\ {"at", "obj", "urls", "what"} \subseteq DOMAIN th
                            /\ th.at = threads[t].at /\ th.obj = threads[t].obj
                            /\ th.urls = threads[t].urls /\ th.what = threads[t].what
    <2>4. Alike(th1) /\ Alike(th2)
      BY <2>1
    <2>5. Go(t, th1) \/ Go(t, th2)
      BY <2>3
    <2> HIDE DEF th1, th2
    <2> QED BY <2>4, <2>5
  <1>4. InHand(objects', threads[t])
    BY <1>2, GrowthKeeps
  <1>5. InHand(objects', th)
    BY <1>3, <1>4 DEF InHand
  <1> QED BY <1>1, <1>2, <1>3, <1>5, ThreadGoes

\* All were: it is written in the round.
LEMMA SentShown == ASSUME ShownInv, Counted', NEW t \in Threads, Sent(t) PROVE ShownInv'
  <1> DEFINE obj == threads[t].obj
             round == objects[obj]
             by == SelectedBy(threads[t].urls, round.ai)
             new == [round EXCEPT !.queued = [urls |-> threads[t].urls, by |-> by]]
  <1>1. UNCHANGED ai /\ threads[t].at = "queueing"
    BY DEF Sent
  <1>2. InHand(objects', Idle)
    BY EmptyHanded DEF Idle
  <1>3. CASE obj = 0
    <2>1. UNCHANGED kept /\ Go(t, Idle)
      BY <1>3 DEF Sent
    <2>2. KeptInv' /\ Grows
      BY <2>1, KeptStays DEF ShownInv
    <2> QED BY <1>1, <1>2, <2>1, <2>2, ThreadGoes
  <1>4. CASE obj # 0
    <2>1. /\ Choice(objects, obj, threads[t].urls) /\ Cardinality(threads[t].urls) <= MaxSelected
          /\ {"at", "obj", "urls", "what"} \subseteq DOMAIN threads[t]
      BY <1>1, <1>4 DEF ShownInv, HandsInv, InHand
    <2>2. WellMade(round)
      BY <2>1 DEF ShownInv, KeptInv, Choice
    <2>3. Save(obj, new) /\ (Go(t, Idle) \/ Go(t, [threads[t] EXCEPT !.at = "noting"]))
      BY <1>4 DEF Sent
    <2>4. WellMade(new) /\ new.shown = round.shown
      <3>1. {} \subseteq ToSet(round.shown) /\ threads[t].urls \subseteq ToSet(round.shown)
        BY <2>1 DEF Choice
      <3> HIDE DEF round, by
      <3> QED BY <2>1, <2>2, <3>1, StillWellMade
    <2>5. obj \in DOMAIN objects
      BY <2>1 DEF Choice
    <2> HIDE DEF new, obj
    <2>6. KeptInv' /\ Grows
      BY <2>2, <2>3, <2>4, <2>5, SaveKeeps DEF ShownInv
    <2>7. InHand(objects', [threads[t] EXCEPT !.at = "noting"])
      <3> DEFINE th == [threads[t] EXCEPT !.at = "noting"]
      <3>1. /\ {"at", "obj", "urls", "what"} \subseteq DOMAIN th
            /\ th.at = "noting" /\ th.obj = threads[t].obj
        BY <2>1
      <3>2. th.obj \in DOMAIN objects'
        BY <2>5, <2>6, <3>1 DEF obj, Grows
      <3> HIDE DEF th
      <3>3. InHand(objects', th)
        BY <3>1, <3>2 DEF InHand
      <3> QED BY <3>3 DEF th
    <2> QED BY <1>1, <1>2, <2>3, <2>6, <2>7, ThreadGoes
  <1> QED BY <1>3, <1>4

\* The trends are remembered.
LEMMA NoteShown == ASSUME ShownInv, Counted', NEW t \in Threads, Note(t) PROVE ShownInv'
  <1>1. UNCHANGED kept /\ UNCHANGED ai /\ Go(t, Idle)
    BY DEF Note
  <1>2. KeptInv' /\ Grows
    BY <1>1, KeptStays DEF ShownInv
  <1>3. InHand(objects', Idle)
    BY EmptyHanded DEF Idle
  <1> QED BY <1>1, <1>2, <1>3, ThreadGoes

\* The AI's thread: it looks the round up again, chooses from its list, and writes.
LEMMA OfSelectionShown == ASSUME ShownInv, Counted', OfSelection PROVE ShownInv'
  <1>1. UNCHANGED threads
    BY DEF OfSelection, OpenAI, Choose, Record, EndAI
  <1>2. ASSUME KeptInv', Grows, Chosen(objects', ai') PROVE ShownInv'
    BY <1>1, <1>2, GrowthKeeps DEF ShownInv, HandsInv
  <1>3. CASE EndAI
    <2>1. UNCHANGED kept /\ ai' = NoAI
      BY <1>3 DEF EndAI
    <2>2. Chosen(objects', NoAI)
      BY DEF Chosen, NoAI
    <2> QED BY <1>2, <2>1, <2>2, KeptStays DEF ShownInv
  <1>4. CASE Choose
    <2>1. UNCHANGED kept /\ ai.at = "choosing"
      BY <1>4 DEF Choose
    <2>2. Chosen(objects, ai) /\ Choice(objects, ai.obj, ai.picks)
      BY <2>1 DEF ShownInv, HandsInv, Chosen
    <2>3. Chosen(objects, ai')
      <3>1. CASE \E picks \in MayPick(objects[ai.obj]) : ai' = [ai EXCEPT !.at = "done", !.picks = picks]
        <4>1. PICK picks : picks \subseteq ToSet(objects[ai.obj].shown)
                           /\ ai' = [ai EXCEPT !.at = "done", !.picks = picks]
          BY <3>1 DEF MayPick
        <4> QED BY <2>2, <4>1 DEF Chosen, Choice
      <3>2. CASE ai' = [ai EXCEPT !.at = "failed"]
        BY <2>2, <3>2 DEF Chosen, Choice
      <3> QED BY <1>4, <3>1, <3>2 DEF Choose
    <2>4. UNCHANGED objects
      BY <2>1 DEF kept
    <2> QED BY <1>2, <2>1, <2>3, <2>4, KeptStays DEF ShownInv
  <1>5. CASE Record
    <2> DEFINE new == [objects[ai.obj] EXCEPT !.ai = [status |-> ai.at, picks |-> ai.picks]]
    <2>1. ai.at \in {"done", "failed"} /\ Save(ai.obj, new) /\ ai' = [NoAI EXCEPT !.at = "ended"]
      BY <1>5 DEF Record
    <2>2. Choice(objects, ai.obj, ai.picks)
      BY <2>1 DEF ShownInv, HandsInv, Chosen
    <2>3. ai.obj \in DOMAIN objects /\ WellMade(objects[ai.obj])
          /\ ai.picks \subseteq ToSet(objects[ai.obj].shown)
      BY <2>2 DEF ShownInv, KeptInv, Choice
    <2>4. WellMade(new) /\ new.shown = objects[ai.obj].shown
      BY <2>3, ChosenWellMade
    <2> HIDE DEF new
    <2>5. KeptInv' /\ Grows
      BY <2>1, <2>3, <2>4, SaveKeeps DEF ShownInv
    <2>6. Chosen(objects', ai')
      BY <2>1 DEF Chosen, NoAI
    <2> QED BY <1>2, <2>5, <2>6
  <1>6. CASE OpenAI
    <2>1. ai.at = "started" /\ ai.obj \in Ids /\ ai.picks = {}
          /\ {"at", "obj", "picks"} \subseteq DOMAIN ai
      BY <1>6 DEF OpenAI, ShownInv, HandsInv, Chosen
    <2>2. /\ objects' = Got(ai.obj).all /\ UNCHANGED <<memory, disk>>
          /\ ai' = IF Got(ai.obj).obj = 0 THEN [NoAI EXCEPT !.at = "ended"]
                   ELSE [ai EXCEPT !.at = "choosing", !.obj = Got(ai.obj).obj]
      BY <1>6 DEF OpenAI
    <2>3. KeptInv' /\ Grows /\ (Got(ai.obj).obj # 0 => Got(ai.obj).obj \in DOMAIN objects')
      BY <2>1, <2>2, LookedUp
    <2>4. CASE Got(ai.obj).obj = 0
      <3>1. Chosen(objects', ai')
        BY <2>2, <2>4 DEF Chosen, NoAI
      <3> QED BY <1>2, <2>3, <3>1
    <2>5. CASE Got(ai.obj).obj # 0
      <3> DEFINE obj == Got(ai.obj).obj
      <3>1. obj \in DOMAIN objects' /\ ai' = [ai EXCEPT !.at = "choosing", !.obj = obj]
        BY <2>2, <2>3, <2>5
      <3> HIDE DEF obj
      <3>2. Chosen(objects', ai')
        BY <2>1, <3>1 DEF Chosen, Choice
      <3> QED BY <1>2, <2>3, <3>2
    <2> QED BY <2>4, <2>5
  <1> QED BY <1>3, <1>4, <1>5, <1>6 DEF OfSelection

\* Every step keeps it: what is in hand was checked, and what was in view stays there.
LEMMA ShownNext == ShownInv /\ [Next]_vars => ShownInv'
  <1> SUFFICES ASSUME ShownInv, [Next]_vars PROVE ShownInv'
    OBVIOUS
  <1>1. Counted'
    BY CountedNext DEF ShownInv
  <1>2. ASSUME NEW t \in Threads, OfRequest(t) PROVE ShownInv'
    BY <1>1, <1>2, StartShown, ReadShown, OfferShown, AskShown, ShowMoreShown, StartAIShown,
       AskQueueShown, SendShown, SentShown, NoteShown DEF OfRequest
  <1>3. CASE OfSelection
    BY <1>1, <1>3, OfSelectionShown
  <1>4. CASE Analysed \/ UNCHANGED vars
    <2>1. UNCHANGED kept /\ UNCHANGED <<threads, ai>>
      BY <1>4 DEF Analysed, vars, kept
    <2> QED BY <1>1, <2>1, KeptStays, NoneGoes DEF ShownInv
  <1>5. CASE Crash
    <2>1. objects' = << >> /\ memory' = << >> /\ UNCHANGED disk /\ ai' = NoAI
          /\ threads' = [t \in Threads |-> Idle]
      BY <1>5 DEF Crash
    <2>2. << >> \in Seq(ToSet(<< >>)) /\ << >> \in Seq(DOMAIN << >>) /\ DOMAIN << >> = {}
      OBVIOUS
    <2>3. KeptInv'
      BY <2>1, <2>2 DEF ShownInv, KeptInv, IsSequence
    <2>4. HandsInv'
      BY <2>1 DEF HandsInv, InHand, Chosen, Idle, NoAI
    <2> QED BY <1>1, <2>3, <2>4 DEF ShownInv
  <1> QED BY <1>2, <1>3, <1>4, <1>5 DEF Next

\* Only what a round shows is chosen, by the AI or a person, and within the limits:
\* whatever thread makes more of it visible, however often it is read back from its
\* file, and whenever the process ends.
THEOREM NothingElseIsChosen == Spec => []NothingButTheShown
  BY ShownInit, ShownNext, ShownImplies, PTL DEF Spec

-----------------------------------------------------------------------------
(* The flag names the one selection there is. *)

\* A file has the round of its number.
Numbered == \A i \in Ids : disk[i] # NoRound => disk[i].id = i

\* An object stays that of its round.
KeepNumbers == \A i \in DOMAIN objects : i \in DOMAIN objects' /\ objects'[i].id = objects[i].id

\* The round that is about to be selected from, or is: the request has an object of it
\* in hand, the thread is given its number and then looks it up.
NamesInv ==
  /\ \A t \in Threads : Starting(t) => objects[threads[t].obj].id = running
  /\ ai.at \in {"unstarted", "started"} => ai.obj = running
  /\ ai.at \in {"choosing", "done", "failed"} => objects[ai.obj].id = running

\* One selection, of the round that the flag names, in whatever object it is.
FlagInv == ShownInv /\ SelectionInv /\ Numbered /\ NamesInv

\* What the invariant is for.
LEMMA FlagImplies == FlagInv => SelectionHasTheFlag
  <1> SUFFICES ASSUME FlagInv PROVE SelectionHasTheFlag
    OBVIOUS
  <1> DEFINE starting == {t \in Threads : threads[t].at = "starting"}
  <1>1. Cardinality(starting) <= 1
    <2>1. CASE starting = {}
      BY <2>1, FS_EmptySet
    <2>2. CASE starting # {}
      <3>1. PICK t \in Threads : t \in starting
        BY <2>2
      <3>2. starting = {t}
        BY <3>1 DEF FlagInv, SelectionInv, Starting
      <3>3. Cardinality({t}) = 1
        BY FS_Singleton
      <3> QED BY <3>2, <3>3
    <2> QED BY <2>1, <2>2
  <1> QED BY <1>1 DEF SelectionHasTheFlag, FlagInv, SelectionInv, NamesInv, Starting

\* There is no round, and nobody asks for a selection.
LEMMA FlagInit == Init => FlagInv
  <1> SUFFICES ASSUME Init PROVE FlagInv
    OBVIOUS
  <1>1. Numbered
    BY DEF Init, Numbered
  <1>2. NamesInv
    BY DEF Init, NamesInv, Starting, Idle, NoAI
  <1> QED BY <1>1, <1>2, ShownInit, SelectionInit DEF FlagInv

\* A round is saved, new or in the object that it was in.
LEMMA SaveNumbers ==
  ASSUME KeptInv, Numbered, NEW obj, NEW round, Save(obj, round), round.id \in Ids,
         \/ obj = Len(objects) + 1
         \/ obj \in DOMAIN objects /\ round.id = objects[obj].id
  PROVE  Numbered' /\ KeepNumbers
  <1>0. IsSequence(objects) /\ Len(objects) \in Nat /\ DOMAIN objects = 1..Len(objects)
    BY AppendIs DEF KeptInv
  <1>1. KeepNumbers
    <2>1. CASE obj \in DOMAIN objects
      <3>1. objects' = [objects EXCEPT ![obj] = round] /\ round.id = objects[obj].id
        BY <1>0, <2>1 DEF Save
      <3>2. DOMAIN objects' = DOMAIN objects
            /\ \A i \in DOMAIN objects : objects'[i] = IF i = obj THEN round ELSE objects[i]
        BY <1>0, <2>1, <3>1, ExceptIs
      <3> QED BY <3>1, <3>2 DEF KeepNumbers
    <2>2. CASE obj \notin DOMAIN objects
      <3>1. objects' = Append(objects, round)
        BY <2>2 DEF Save
      <3>2. /\ DOMAIN objects' = 1..(Len(objects) + 1)
            /\ \A i \in DOMAIN objects : objects'[i] = objects[i]
        BY <1>0, <3>1, AppendIs
      <3> QED BY <1>0, <3>2 DEF KeepNumbers
    <2> QED BY <2>1, <2>2
  <1>2. Numbered'
    <2>1. disk' = [disk EXCEPT ![round.id] = round] \/ UNCHANGED disk
      BY DEF Save
    <2> QED BY <2>1 DEF KeptInv, Numbered
  <1> QED BY <1>1, <1>2

\* A round is looked up by its number: the object found is of that round.
LEMMA GotNumbers ==
  ASSUME KeptInv, Numbered, NEW id \in Ids, objects' = Got(id).all, UNCHANGED disk
  PROVE  Numbered' /\ KeepNumbers /\ (Got(id).obj # 0 => objects'[Got(id).obj].id = id)
  <1> DEFINE place == {i \in DOMAIN memory : objects[memory[i]].id = id}
  <1>0. IsSequence(objects) /\ Len(objects) \in Nat /\ DOMAIN objects = 1..Len(objects)
    BY AppendIs DEF KeptInv
  <1>1. Numbered'
    BY DEF Numbered
  <1>2. CASE place # {}
    <2>1. PICK i \in place : Got(id).obj = memory[i] /\ Got(id).all = objects
      BY <1>2 DEF Got
    <2> QED BY <1>1, <2>1 DEF KeepNumbers
  <1>3. CASE place = {} /\ disk[id] # NoRound
    <2>1. Got(id).obj = Len(objects) + 1 /\ objects' = Append(objects, disk[id])
      BY <1>3 DEF Got
    <2>2. /\ DOMAIN objects' = 1..(Len(objects) + 1) /\ objects'[Len(objects) + 1] = disk[id]
          /\ \A i \in DOMAIN objects : objects'[i] = objects[i]
      BY <1>0, <2>1, AppendIs
    <2>3. disk[id].id = id
      BY <1>3 DEF Numbered
    <2> QED BY <1>0, <1>1, <2>1, <2>2, <2>3 DEF KeepNumbers
  <1>4. CASE place = {} /\ disk[id] = NoRound
    <2>1. Got(id).obj = 0 /\ Got(id).all = objects
      BY <1>4 DEF Got
    <2> QED BY <1>1, <2>1 DEF KeepNumbers
  <1> QED BY <1>2, <1>3, <1>4

\* Nothing that is kept changes.
LEMMA KeptNumbers == ASSUME Numbered, UNCHANGED kept PROVE Numbered' /\ KeepNumbers
  BY DEF Numbered, KeepNumbers, kept

\* What each has in hand is one of the objects.
LEMMA InDomain ==
  ASSUME ShownInv
  PROVE  /\ \A t \in Threads : Starting(t) => threads[t].obj \in DOMAIN objects
         /\ ai.at \in {"choosing", "done", "failed"} => ai.obj \in DOMAIN objects
  BY DEF ShownInv, HandsInv, InHand, Chosen, Choice, Starting

\* Names stay while nobody starts a selection.
LEMMA NamesStay == ASSUME FlagInv, NobodyStarts, KeepNumbers PROVE NamesInv'
  <1>1. /\ \A t \in Threads : Starting(t) => threads[t].obj \in DOMAIN objects
        /\ ai.at \in {"choosing", "done", "failed"} => ai.obj \in DOMAIN objects
    BY InDomain DEF FlagInv
  <1>2. ASSUME NEW t \in Threads, Starting(t)' PROVE objects'[threads'[t].obj].id = running'
    <2>1. Starting(t) /\ threads'[t] = threads[t] /\ running' = running
      BY <1>2 DEF NobodyStarts
    <2> QED BY <1>1, <2>1 DEF FlagInv, NamesInv, KeepNumbers
  <1>3. ai' = ai /\ running' = running
    BY DEF NobodyStarts
  <1>4. ai'.at \in {"choosing", "done", "failed"} => objects'[ai'.obj].id = running'
    BY <1>1, <1>3 DEF FlagInv, NamesInv, KeepNumbers
  <1>5. ai'.at \in {"unstarted", "started"} => ai'.obj = running'
    BY <1>3 DEF FlagInv, NamesInv
  <1> QED BY <1>2, <1>4, <1>5 DEF NamesInv

\* A round in hand is one of those that are made.
LEMMA InHandNumber == ASSUME FlagInv, NEW obj \in DOMAIN objects PROVE WellMade(objects[obj])
  BY DEF FlagInv, ShownInv, KeptInv

\* A field that is not its number is written.
LEMMA SameNumber ==
  ASSUME NEW r, WellMade(r), NEW x, NEW y
  PROVE  /\ [r EXCEPT !.ai = x].id = r.id /\ [r EXCEPT !.queued = x].id = r.id
         /\ [r EXCEPT !.shown = x, !.reserve = y].id = r.id
  BY DEF WellMade

\* The other requests: they look a round up, save one that they hold, or a new one.
LEMMA OthersNumber ==
  ASSUME FlagInv, NEW t \in Threads, OfRequest(t), ~AskAI(t), ~StartAI(t)
  PROVE  Numbered' /\ KeepNumbers
  <1>1. CASE Start(t) \/ Read(t) \/ Send(t) \/ Note(t)
    <2>1. UNCHANGED kept
      BY <1>1 DEF Start, Read, Send, Note
    <2> QED BY <2>1, KeptNumbers DEF FlagInv
  <1>2. CASE AskMore(t) \/ AskQueue(t)
    <2>1. PICK id \in Ids : OnRound(t, id)
      BY <1>2 DEF AskMore, AskQueue
    <2>2. objects' = Got(id).all /\ UNCHANGED disk
      BY <2>1 DEF OnRound
    <2> QED BY <2>2, GotNumbers DEF FlagInv, ShownInv
  <1>3. CASE ShowMore(t)
    <2> DEFINE obj == threads[t].obj
               room == MaxListed - Len(objects[obj].shown)
               view == objects[obj].shown \o FirstN(objects[obj].reserve, room)
               rest == SubSeq(objects[obj].reserve, room + 1, Len(objects[obj].reserve))
               new == [objects[obj] EXCEPT !.shown = view, !.reserve = rest]
    <2>1. obj \in DOMAIN objects
      BY <1>3 DEF ShowMore, FlagInv, ShownInv, HandsInv, InHand
    <2>2. WellMade(objects[obj])
      BY <2>1, InHandNumber
    <2>3. UNCHANGED kept \/ Save(obj, new)
      BY <1>3 DEF ShowMore
    <2> HIDE DEF view, rest
    <2>4. new.id = objects[obj].id /\ new.id \in Ids
      BY <2>2, SameNumber DEF WellMade
    <2> HIDE DEF new, obj
    <2> QED BY <2>1, <2>3, <2>4, KeptNumbers, SaveNumbers DEF FlagInv, ShownInv
  <1>4. CASE Sent(t)
    <2> DEFINE obj == threads[t].obj
               by == SelectedBy(threads[t].urls, objects[obj].ai)
               x == [urls |-> threads[t].urls, by |-> by]
               new == [objects[obj] EXCEPT !.queued = x]
    <2>1. CASE obj = 0
      <3>1. UNCHANGED kept
        BY <1>4, <2>1 DEF Sent
      <3> QED BY <3>1, KeptNumbers DEF FlagInv
    <2>2. CASE obj # 0
      <3>1. obj \in DOMAIN objects
        BY <1>4, <2>2 DEF Sent, FlagInv, ShownInv, HandsInv, InHand, Choice
      <3>2. WellMade(objects[obj])
        BY <3>1, InHandNumber
      <3>3. Save(obj, new)
        BY <1>4, <2>2 DEF Sent
      <3> HIDE DEF x
      <3>4. new.id = objects[obj].id /\ new.id \in Ids
        BY <3>2, SameNumber DEF WellMade
      <3> HIDE DEF new, obj
      <3> QED BY <3>1, <3>3, <3>4, SaveNumbers DEF FlagInv, ShownInv
    <2> QED BY <2>1, <2>2
  <1>5. CASE Offer(t)
    <2>1. CASE threads[t].what = "ingest"
      <3>1. UNCHANGED kept
        BY <1>5, <2>1 DEF Offer
      <3> QED BY <3>1, KeptNumbers DEF FlagInv
    <2>2. CASE threads[t].what # "ingest"
      <3>1. \E rows, screen, shown, reserve :
              Save(Len(objects) + 1,
                   [id |-> threads[t].obj, req |-> threads[t].req, rows |-> rows,
                    known |-> threads[t].known, screen |-> screen, shown |-> shown,
                    reserve |-> reserve, ai |-> NotChosen, queued |-> NotQueued])
        BY <1>5, <2>2, Zenon DEF Offer
      <3>2. PICK round : Save(Len(objects) + 1, round) /\ round.id = threads[t].obj
        BY <3>1
      <3>3. threads[t].obj \in Ids
        BY <1>5, <2>2 DEF Offer, FlagInv, ShownInv, HandsInv, InHand
      <3>4. PICK obj : obj = Len(objects) + 1
        OBVIOUS
      <3> QED BY <3>2, <3>3, <3>4, SaveNumbers DEF FlagInv, ShownInv
    <2> QED BY <2>1, <2>2
  <1> QED BY <1>1, <1>2, <1>3, <1>4, <1>5 DEF OfRequest

\* The request that finds the flag free names in it the round that it has in hand.
LEMMA AskAINames ==
  ASSUME FlagInv, NEW t \in Threads, AskAI(t) PROVE Numbered' /\ NamesInv'
  <1>1. PICK id \in Ids :
          /\ OnRound(t, id)
          /\ \/ UNCHANGED <<threads, running>>
             \/ /\ Got(id).obj # 0 /\ running = 0 /\ running' = id
                /\ Go(t, [Idle EXCEPT !.at = "starting", !.obj = Got(id).obj])
    BY DEF AskAI
  <1>2. objects' = Got(id).all /\ UNCHANGED <<disk, ai>>
    BY <1>1 DEF OnRound
  <1>3. Numbered' /\ KeepNumbers /\ (Got(id).obj # 0 => objects'[Got(id).obj].id = id)
    BY <1>2, GotNumbers DEF FlagInv, ShownInv
  <1>4. CASE UNCHANGED <<threads, running>>
    <2>1. NobodyStarts
      BY <1>2, <1>4 DEF NobodyStarts, FlagInv, SelectionInv, Starting
    <2> QED BY <1>3, <2>1, NamesStay
  <1>5. CASE ~UNCHANGED <<threads, running>>
    <2> DEFINE obj == Got(id).obj
    <2>1. /\ running = 0 /\ running' = id /\ obj # 0
          /\ Go(t, [Idle EXCEPT !.at = "starting", !.obj = obj])
      BY <1>1, <1>5
    <2>2. ai'.at = "none" /\ \A s \in Threads : ~Starting(s)
      BY <1>2, <2>1 DEF FlagInv, SelectionInv
    <2> HIDE DEF obj
    <2>3. DOMAIN threads = Threads
      BY DEF FlagInv, SelectionInv
    <2>4. threads'[t].obj = obj /\ \A s \in Threads \ {t} : threads'[s] = threads[s]
      BY <2>1, <2>3 DEF Go, Idle
    <2>5. objects'[obj].id = running'
      BY <1>3, <2>1 DEF obj
    <2> QED BY <1>3, <2>2, <2>4, <2>5 DEF NamesInv, Starting
  <1> QED BY <1>4, <1>5

\* Its thread is given that round's number.
LEMMA StartAINames ==
  ASSUME FlagInv, NEW t \in Threads, StartAI(t), SelectionInv' PROVE Numbered' /\ NamesInv'
  <1> DEFINE obj == threads[t].obj
             x == [status |-> "running", picks |-> {}]
             new == [objects[obj] EXCEPT !.ai = x]
  <1>1. /\ Starting(t) /\ UNCHANGED running /\ Save(obj, new)
        /\ ai'.at \in {"started", "unstarted"} /\ ai'.obj = objects[obj].id
    BY DEF StartAI, Starting
  <1>2. obj \in DOMAIN objects
    BY <1>1, InDomain DEF FlagInv
  <1>3. WellMade(objects[obj])
    BY <1>2, InHandNumber
  <1>4. objects[obj].id = running
    BY <1>1 DEF FlagInv, NamesInv
  <1> HIDE DEF x
  <1>5. new.id = objects[obj].id /\ new.id \in Ids
    BY <1>3, SameNumber DEF WellMade
  <1>6. \A s \in Threads : ~Starting(s)'
    BY <1>1 DEF SelectionInv, Starting
  <1> HIDE DEF new, obj
  <1>7. Numbered'
    BY <1>1, <1>2, <1>5, SaveNumbers DEF FlagInv, ShownInv
  <1> QED BY <1>1, <1>4, <1>6, <1>7 DEF NamesInv, Starting

\* The thread looks it up by that number, and ends with it.
LEMMA OfSelectionNames == ASSUME FlagInv, OfSelection, SelectionInv' PROVE Numbered' /\ NamesInv'
  <1>1. UNCHANGED threads /\ ai.at # "none"
    BY DEF OfSelection, OpenAI, Choose, Record, EndAI
  <1>2. \A s \in Threads : ~Starting(s) /\ ~Starting(s)'
    BY <1>1 DEF FlagInv, SelectionInv, Starting
  <1>3. CASE OpenAI
    <2>1. /\ ai.at = "started" /\ objects' = Got(ai.obj).all /\ UNCHANGED <<disk, running>>
          /\ ai' = IF Got(ai.obj).obj = 0 THEN [NoAI EXCEPT !.at = "ended"]
                   ELSE [ai EXCEPT !.at = "choosing", !.obj = Got(ai.obj).obj]
      BY <1>3 DEF OpenAI
    <2>2. ai.obj \in Ids /\ ai.obj = running /\ {"at", "obj", "picks"} \subseteq DOMAIN ai
      BY <2>1 DEF FlagInv, NamesInv, ShownInv, HandsInv, Chosen
    <2>3. Numbered' /\ (Got(ai.obj).obj # 0 => objects'[Got(ai.obj).obj].id = ai.obj)
      BY <2>1, <2>2, GotNumbers DEF FlagInv, ShownInv
    <2>4. PICK obj : obj = Got(ai.obj).obj
      OBVIOUS
    <2>5. CASE obj = 0
      <3>1. ai'.at = "ended"
        BY <2>1, <2>4, <2>5 DEF NoAI
      <3> QED BY <1>2, <2>3, <3>1 DEF NamesInv
    <2>6. CASE obj # 0
      <3>1. ai' = [ai EXCEPT !.at = "choosing", !.obj = obj]
        BY <2>1, <2>4, <2>6
      <3>2. ai'.at = "choosing" /\ ai'.obj = obj
        BY <2>2, <3>1
      <3>3. objects'[obj].id = running'
        BY <2>1, <2>2, <2>3, <2>4, <2>6
      <3> QED BY <1>2, <2>3, <3>2, <3>3 DEF NamesInv
    <2> QED BY <2>5, <2>6
  <1>4. CASE Choose
    <2>1. UNCHANGED kept /\ UNCHANGED running /\ ai.at = "choosing"
      BY <1>4 DEF Choose
    <2>2. ai'.obj = ai.obj /\ ai'.at \in {"done", "failed"}
      <3>1. {"at", "obj", "picks"} \subseteq DOMAIN ai
        BY DEF FlagInv, ShownInv, HandsInv, Chosen
      <3> QED BY <1>4, <3>1 DEF Choose
    <2>3. Numbered' /\ UNCHANGED objects
      BY <2>1, KeptNumbers DEF FlagInv, kept
    <2> QED BY <1>2, <2>1, <2>2, <2>3 DEF FlagInv, NamesInv
  <1>5. CASE Record
    <2> DEFINE x == [status |-> ai.at, picks |-> ai.picks]
               new == [objects[ai.obj] EXCEPT !.ai = x]
    <2>1. ai.at \in {"done", "failed"} /\ Save(ai.obj, new) /\ ai'.at = "ended"
      BY <1>5 DEF Record, NoAI
    <2>2. ai.obj \in DOMAIN objects
      BY <2>1, InDomain DEF FlagInv
    <2>3. WellMade(objects[ai.obj])
      BY <2>2, InHandNumber
    <2> HIDE DEF x
    <2>4. new.id = objects[ai.obj].id /\ new.id \in Ids
      BY <2>3, SameNumber DEF WellMade
    <2> HIDE DEF new
    <2>5. Numbered'
      BY <2>1, <2>2, <2>4, SaveNumbers DEF FlagInv, ShownInv
    <2> QED BY <1>2, <2>1, <2>5 DEF NamesInv
  <1>6. CASE EndAI
    <2>1. UNCHANGED kept /\ ai'.at = "none"
      BY <1>6 DEF EndAI, NoAI
    <2>2. Numbered'
      BY <2>1, KeptNumbers DEF FlagInv
    <2> QED BY <1>2, <2>1, <2>2 DEF NamesInv
  <1> QED BY <1>3, <1>4, <1>5, <1>6 DEF OfSelection

\* Every step keeps it.
LEMMA FlagNext == FlagInv /\ [Next]_vars => FlagInv'
  <1> SUFFICES ASSUME FlagInv, [Next]_vars PROVE FlagInv'
    OBVIOUS
  <1>1. ShownInv' /\ SelectionInv'
    BY ShownNext, SelectionNext DEF FlagInv
  <1>2. ASSUME NEW t \in Threads, OfRequest(t) PROVE Numbered' /\ NamesInv'
    <2>1. CASE AskAI(t)
      BY <2>1, AskAINames
    <2>2. CASE StartAI(t)
      BY <1>1, <2>2, StartAINames
    <2>3. CASE ~AskAI(t) /\ ~StartAI(t)
      BY <1>2, <2>3, OthersKeep, OthersNumber, NamesStay DEF FlagInv
    <2> QED BY <2>1, <2>2, <2>3
  <1>3. CASE OfSelection
    BY <1>1, <1>3, OfSelectionNames DEF FlagInv
  <1>4. CASE Analysed \/ UNCHANGED vars
    <2>1. UNCHANGED kept /\ UNCHANGED <<threads, ai, running>>
      BY <1>4 DEF Analysed, vars, kept
    <2>2. NobodyStarts
      BY <2>1 DEF NobodyStarts, FlagInv, SelectionInv, Starting
    <2> QED BY <1>1, <2>1, <2>2, KeptNumbers, NamesStay DEF FlagInv
  <1>5. CASE Crash
    <2>1. UNCHANGED disk /\ ai' = NoAI /\ threads' = [t \in Threads |-> Idle]
      BY <1>5 DEF Crash
    <2>2. Numbered'
      BY <2>1 DEF FlagInv, Numbered
    <2>3. NamesInv'
      BY <2>1 DEF NamesInv, Starting, Idle, NoAI
    <2> QED BY <1>1, <2>2, <2>3 DEF FlagInv
  <1> QED BY <1>1, <1>2, <1>3, <1>4, <1>5 DEF Next, FlagInv

\* There is at most one AI selection, the flag is set for as long as there is, by the
\* request that reserved it, by its thread or for a thread that could not be started,
\* and it names that selection's round, whichever object of it each of them holds:
\* however many requests compete, rounds are read back, and processes end.
THEOREM SelectionHolds == Spec => []SelectionHasTheFlag
  BY FlagInit, FlagNext, FlagImplies, PTL DEF Spec

-----------------------------------------------------------------------------
(* What is made one step at a time. *)

\* A set of numbers has a least one.
LEMMA Least ==
  ASSUME NEW S \in SUBSET Nat, S # {}
  PROVE  \E m \in S : \A k \in S : m <= k
  <1>1. PICK m \in S : \A k \in S : <<k, m>> \notin OpToRel(<, Nat)
    BY NatLessThanWellFounded, WFMin
  <1>2. \A k \in S : ~(k < m)
    BY <1>1 DEF OpToRel
  <1> QED BY <1>2

\* A set that has 0 and with each number the next has them all.
LEMMA Induction ==
  ASSUME NEW S \in SUBSET Nat, 0 \in S, \A n \in S : n + 1 \in S
  PROVE  S = Nat
  <1> SUFFICES ASSUME Nat \ S # {} PROVE FALSE
    OBVIOUS
  <1>1. PICK m \in Nat \ S : \A k \in Nat \ S : m <= k
    BY Least
  <1>2. m # 0 /\ m - 1 \in S
    BY <1>1
  <1> QED BY <1>1, <1>2

\* What is made one step at a time, each from the step before.
Stepped(g, start, last, go) == g = [n \in 0..last |-> IF n = 0 THEN start ELSE go[n][g[n - 1]]]

\* What is made one step at a time from the step before it can be made.
LEMMA StepByStep ==
  ASSUME NEW V, NEW start \in V, NEW last \in Nat, NEW go \in [1..last -> [V -> V]]
  PROVE  \E g \in [0..last -> V] : Stepped(g, start, last, go)
  <1> DEFINE T == {k \in Nat : k <= last =>
                     \E g \in [0..k -> V] : g = [n \in 0..k |-> IF n = 0 THEN start ELSE go[n][g[n - 1]]]}
  <1>1. 0 \in T
    <2> DEFINE g == [n \in 0..0 |-> start]
    <2>1. g \in [0..0 -> V] /\ g[0] = start
      OBVIOUS
    <2>3. \A n \in 0..0 : n = 0
      OBVIOUS
    <2>2. g = [n \in 0..0 |-> IF n = 0 THEN start ELSE go[n][g[n - 1]]]
      BY <2>1, <2>3
    <2>4. 0 <= last => \E h \in [0..0 -> V] : h = [n \in 0..0 |-> IF n = 0 THEN start ELSE go[n][h[n - 1]]]
      BY <2>1, <2>2
    <2> QED BY <2>4
  <1>2. ASSUME NEW k \in T PROVE k + 1 \in T
    <2> SUFFICES ASSUME k + 1 <= last
                 PROVE  \E g \in [0..k+1 -> V] : g = [n \in 0..k+1 |-> IF n = 0 THEN start ELSE go[n][g[n - 1]]]
      <3>1. k + 1 \in Nat
        OBVIOUS
      <3> QED BY <3>1, Zenon
    <2>1. PICK g \in [0..k -> V] : g = [n \in 0..k |-> IF n = 0 THEN start ELSE go[n][g[n - 1]]]
      OBVIOUS
    <2> DEFINE h == [n \in 0..k+1 |-> IF n <= k THEN g[n] ELSE go[k + 1][g[k]]]
    <2>2. k \in 0..k /\ k + 1 \in 1..last /\ (k + 1) - 1 = k
      OBVIOUS
    <2>3. go[k + 1][g[k]] \in V
      BY <2>2
    <2>4. h \in [0..k+1 -> V]
      BY <2>3
    <2>5. \A n \in 0..k : h[n] = g[n]
      OBVIOUS
    <2>6. h[k + 1] = go[k + 1][g[k]]
      OBVIOUS
    <2>7. \A n \in 0..k+1 : h[n] = IF n = 0 THEN start ELSE go[n][h[n - 1]]
      <3> HIDE DEF h
      <3> TAKE n \in 0..k+1
      <3>1. CASE n = 0
        <4>1. n \in 0..k
          BY <3>1
        <4> QED BY <2>1, <2>5, <3>1, <4>1
      <3>2. CASE n # 0 /\ n <= k
        <4>1. n \in 0..k /\ n - 1 \in 0..k
          BY <3>2
        <4>2. g[n] = go[n][g[n - 1]]
          BY <2>1, <3>2, <4>1
        <4> QED BY <2>5, <3>2, <4>1, <4>2
      <3>3. CASE n = k + 1
        BY <2>2, <2>5, <2>6, <3>3
      <3> QED BY <3>1, <3>2, <3>3
    <2>8. h = [n \in 0..k+1 |-> h[n]]
      OBVIOUS
    <2> HIDE DEF h
    <2>9. h = [n \in 0..k+1 |-> IF n = 0 THEN start ELSE go[n][h[n - 1]]]
      BY <2>7, <2>8
    <2> QED BY <2>4, <2>9
  <1>3. last \in T
    BY <1>1, <1>2, Induction
  <1> QED BY <1>3 DEF Stepped

-----------------------------------------------------------------------------
(* What is taken of a sequence, and put together. *)

\* Of the first n elements of s, those at the positions `at`, in a sequence.
Taken(a, s, at, n) ==
  /\ a \in Seq(ToSet(s))
  /\ \A k \in 1..Len(a) : \E i \in (1..n) \cap at : a[k] = s[i]
  /\ Len(a) = Cardinality((1..n) \cap at)

\* There are n numbers up to n.
LEMMA HowMany == ASSUME NEW n \in Nat PROVE IsFiniteSet(1..n) /\ Cardinality(1..n) = n
  <1>1. Cardinality(1..n) = IF 1 > n THEN 0 ELSE n - 1 + 1
    BY FS_Interval
  <1>2. IsFiniteSet(1..n)
    BY FS_Interval
  <1> QED BY <1>1, <1>2

\* One more element is looked at.
LEMMA OneMoreTaken ==
  ASSUME NEW s, IsSequence(s), NEW at, NEW n \in 1..Len(s), NEW a, Taken(a, s, at, n - 1)
  PROVE  Taken(IF n \in at THEN Append(a, s[n]) ELSE a, s, at, n)
  <1> DEFINE had == (1..(n - 1)) \cap at
             has == (1..n) \cap at
  <1>0. Len(s) \in Nat /\ n \in Nat /\ s[n] \in ToSet(s)
    BY DEF IsSequence, ToSet
  <1>1. IsFiniteSet(had) /\ Cardinality(had) \in Nat /\ n \notin had
    <2>1. IsFiniteSet(1..(n - 1))
      BY <1>0, FS_Interval
    <2>2. IsFiniteSet(had)
      BY <2>1, FS_Subset
    <2> QED BY <1>0, <2>2, FS_CardinalityType
  <1>2. CASE n \in at
    <2>1. has = had \cup {n}
      BY <1>0, <1>2
    <2>2. Cardinality(has) = Cardinality(had) + 1
      BY <1>1, <2>1, FS_AddElement
    <2>3. a \in Seq(ToSet(s)) /\ Len(a) = Cardinality(had) /\ \A k \in 1..Len(a) : \E i \in had : a[k] = s[i]
      BY DEF Taken
    <2>4. \A k \in 1..Len(a) : \E i \in has : a[k] = s[i]
      BY <2>1, <2>3
    <2>5. n \in has
      BY <2>1
    <2> HIDE DEF has, had
    <2> DEFINE b == Append(a, s[n])
    <2>6. /\ b \in Seq(ToSet(s)) /\ Len(b) = Len(a) + 1 /\ Len(a) \in Nat
          /\ b[Len(a) + 1] = s[n] /\ \A k \in 1..Len(a) : b[k] = a[k]
      BY <1>0, <2>3
    <2> HIDE DEF b
    <2>7. \A k \in 1..Len(b) : \E i \in has : b[k] = s[i]
      BY <2>4, <2>5, <2>6
    <2>8. Len(b) = Cardinality(has)
      BY <2>2, <2>3, <2>6
    <2> QED BY <1>2, <2>6, <2>7, <2>8 DEF Taken, b, has
  <1>3. CASE n \notin at
    <2>1. has = had
      BY <1>0, <1>3
    <2> QED BY <1>3, <2>1 DEF Taken
  <1> QED BY <1>2, <1>3

\* What At takes.
LEMMA AtIs ==
  ASSUME NEW s, IsSequence(s), NEW at
  PROVE  Taken(At(s, at), s, at, Len(s))
  <1> DEFINE last == Len(s)
             V == Seq(ToSet(s))
             go == [n \in 1..last |-> [q \in V |-> IF n \in at THEN Append(q, s[n]) ELSE q]]
             Upto(h) == h = [n \in 0..last |-> IF n = 0 THEN << >>
                               ELSE IF n \in at THEN Append(h[n - 1], s[n]) ELSE h[n - 1]]
  <1>0. last \in Nat /\ \A n \in 1..last : s[n] \in ToSet(s)
    BY DEF IsSequence, ToSet
  <1>1. go \in [1..last -> [V -> V]] /\ << >> \in V
    BY <1>0
  <1>2. PICK g \in [0..last -> V] : Stepped(g, << >>, last, go)
    <2> HIDE DEF go, V
    <2> QED BY <1>0, <1>1, StepByStep
  <1>3. Upto(g)
    <2>1. \A n \in 1..last : n - 1 \in 0..last /\ n \in 1..last
      BY <1>0
    <2>2. \A n \in 1..last : go[n][g[n - 1]] = IF n \in at THEN Append(g[n - 1], s[n]) ELSE g[n - 1]
      BY <1>2, <2>1
    <2>3. \A n \in 0..last : n = 0 \/ n \in 1..last
      BY <1>0
    <2> HIDE DEF go, last
    <2> QED BY <1>2, <2>2, <2>3 DEF Stepped
  <1>4. At(s, at) = LET upto == CHOOSE h : Upto(h) IN upto[last]
    BY DEF At
  <1>5. PICK h : Upto(h) /\ At(s, at) = h[last]
    <2> HIDE DEF last
    <2> QED BY <1>3, <1>4
  <1>6. h[0] = << >> /\ \A n \in 1..last : h[n] = IF n \in at THEN Append(h[n - 1], s[n]) ELSE h[n - 1]
    <2>1. 0 \in 0..last /\ \A n \in 1..last : n \in 0..last /\ n # 0
      BY <1>0
    <2> HIDE DEF last
    <2> QED BY <1>5, <2>1
  <1> DEFINE T == {n \in Nat : n <= last => Taken(h[n], s, at, n)}
  <1>7. 0 \in T
    <2>1. Taken(<< >>, s, at, 0)
      <3>1. (1..0) \cap at = {} /\ Cardinality({}) = 0
        BY FS_EmptySet
      <3> QED BY <3>1 DEF Taken
    <2> QED BY <1>6, <2>1
  <1>8. \A n \in T : n + 1 \in T
    <2> TAKE n \in T
    <2> SUFFICES ASSUME n + 1 <= last PROVE Taken(h[n + 1], s, at, n + 1)
      OBVIOUS
    <2>1. n \in Nat /\ n + 1 \in 1..Len(s) /\ (n + 1) - 1 = n /\ Taken(h[n], s, at, n)
      BY <1>0
    <2>2. h[n + 1] = IF n + 1 \in at THEN Append(h[n], s[n + 1]) ELSE h[n]
      BY <1>6, <2>1
    <2> QED BY <2>1, <2>2, OneMoreTaken
  <1>9. last \in T
    <2> HIDE DEF T
    <2>1. T = Nat
      <3>1. T \in SUBSET Nat
        BY DEF T
      <3> QED BY <1>7, <1>8, <3>1, Induction
    <2> QED BY <1>0, <2>1
  <1> QED BY <1>5, <1>9

\* What is taken has its elements, and their number, from what it is taken of.
LEMMA TakenIs ==
  ASSUME NEW s, IsSequence(s), NEW at
  PROVE  /\ IsSequence(At(s, at)) /\ ToSet(At(s, at)) \subseteq ToSet(s)
         /\ \A x \in ToSet(At(s, at)) : \E i \in DOMAIN s \cap at : x = s[i]
         /\ Len(At(s, at)) = Cardinality(DOMAIN s \cap at)
         /\ Len(At(s, at)) \in Nat /\ Len(At(s, at)) <= Len(s)
  <1> DEFINE a == At(s, at)
  <1>1. Taken(a, s, at, Len(s)) /\ DOMAIN s = 1..Len(s) /\ Len(s) \in Nat
    BY AtIs DEF IsSequence
  <1> HIDE DEF a
  <1>2. a \in Seq(ToSet(s)) /\ Len(a) \in Nat /\ DOMAIN a = 1..Len(a)
    BY <1>1 DEF Taken
  <1>3. \A x \in ToSet(a) : \E i \in DOMAIN s \cap at : x = s[i]
    BY <1>1, <1>2 DEF Taken, ToSet
  <1>4. ToSet(a) \subseteq ToSet(s)
    BY <1>3 DEF ToSet
  <1>5. IsSequence(a)
    <2>1. \A k \in 1..Len(a) : a[k] \in ToSet(a)
      BY <1>2 DEF ToSet
    <2> QED BY <1>2, <2>1, IsASeq DEF IsSequence
  <1>6. Len(a) = Cardinality(DOMAIN s \cap at)
    BY <1>1 DEF Taken
  <1>7. Cardinality(DOMAIN s \cap at) <= Len(s)
    <2>1. IsFiniteSet(1..Len(s)) /\ Cardinality(1..Len(s)) = Len(s)
      BY <1>1, HowMany
    <2> QED BY <1>1, <2>1, FS_Subset
  <1> QED BY <1>2, <1>3, <1>4, <1>5, <1>6, <1>7 DEF a

\* The empty sequence adds nothing before another.
LEMMA AfterNothing ==
  ASSUME NEW n \in Nat, NEW f, DOMAIN f = 1..n, f = [i \in 1..n |-> f[i]]
  PROVE  /\ << >> \o f = f
         /\ IsSequence(f) /\ Len(f) = n
  <1> DEFINE S == {f[i] : i \in 1..n}
  <1>1. f \in [1..n -> S]
    OBVIOUS
  <1>2. f \in Seq(S) /\ Len(f) = n /\ ToSet(f) = S
    <2>1. f \in Seq(S)
      BY <1>1
    <2>2. Len(f) = n
      BY <1>1, <2>1
    <2> QED BY <2>1, <2>2 DEF ToSet
  <1> HIDE DEF S
  <1>3. << >> \o f = f
    BY <1>2, ConcatEmptySeq
  <1> QED BY <1>2, <1>3 DEF IsSequence

\* Sequences put together.
LEMMA FlattenIs ==
  ASSUME NEW S, NEW seqs \in Seq(Seq(S))
  PROVE  FlattenSeq(seqs) \in Seq(S)
  <1> DEFINE last == Len(seqs)
             V == Seq(S)
             go == [n \in 1..last |-> [q \in V |-> q \o seqs[n]]]
             Upto(h) == h = [i \in 1..last |-> IF i = 1 THEN seqs[i] ELSE h[i - 1] \o seqs[i]]
  <1>0. last \in Nat /\ \A n \in 1..last : seqs[n] \in V
    OBVIOUS
  <1>1. CASE last = 0
    <2>1. FlattenSeq(seqs) = seqs /\ seqs = << >>
      BY <1>1, EmptySeq DEF FlattenSeq
    <2> QED BY <2>1
  <1>2. CASE last # 0
    <2>1. go \in [1..last -> [V -> V]] /\ << >> \in V
      BY <1>0
    <2>2. PICK g \in [0..last -> V] : Stepped(g, << >>, last, go)
      <3> HIDE DEF go, V
      <3> QED BY <1>0, <2>1, StepByStep
    <2>3. g[0] = << >> /\ \A n \in 1..last : g[n - 1] \in V /\ g[n] = g[n - 1] \o seqs[n]
      <3>1. 0 \in 0..last /\ \A n \in 1..last : n - 1 \in 0..last /\ n \in 0..last /\ n # 0
        BY <1>0
      <3>2. \A n \in 1..last : go[n][g[n - 1]] = g[n - 1] \o seqs[n]
        BY <3>1
      <3>3. \A n \in 0..last : g[n] = IF n = 0 THEN << >> ELSE go[n][g[n - 1]]
        <4> HIDE DEF go, last, V
        <4> QED BY <2>2 DEF Stepped
      <3> HIDE DEF go, last, V
      <3> QED BY <2>2, <3>1, <3>2, <3>3
    <2> DEFINE f == [i \in 1..last |-> g[i]]
    <2>4. \A i \in 1..last : f[i] = IF i = 1 THEN seqs[i] ELSE f[i - 1] \o seqs[i]
      <3> TAKE i \in 1..last
      <3>1. CASE i = 1
        <4>0. i - 1 = 0 /\ f[i] = g[i]
          BY <3>1
        <4>1. f[i] = << >> \o seqs[i]
          <5> HIDE DEF f, last
          <5> QED BY <2>3, <4>0
        <4>2. seqs[i] \in V
          BY <1>0
        <4> HIDE DEF f
        <4> QED BY <3>1, <4>1, <4>2
      <3>2. CASE i # 1
        <4>1. i - 1 \in 1..last
          BY <1>0, <3>2
        <4> QED BY <2>3, <3>2, <4>1
      <3> QED BY <3>1, <3>2
    <2>5. Upto(f)
      <3>1. f = [i \in 1..last |-> f[i]]
        OBVIOUS
      <3> HIDE DEF f, last
      <3> QED BY <2>4, <3>1
    <2>6. FlattenSeq(seqs) = LET flatten == CHOOSE h : Upto(h) IN flatten[last]
      BY <1>2 DEF FlattenSeq
    <2>7. PICK h : Upto(h) /\ FlattenSeq(seqs) = h[last]
      <3> HIDE DEF last, f
      <3> QED BY <2>5, <2>6
    <2>8. \A i \in 1..last : h[i] = IF i = 1 THEN seqs[i] ELSE h[i - 1] \o seqs[i]
      <3> HIDE DEF last
      <3> QED BY <2>7
    <2> DEFINE T == {n \in Nat : n + 1 <= last => h[n + 1] \in V}
    <2>9. 0 \in T
      <3>1. 1 \in 1..last /\ 0 + 1 = 1 /\ 0 \in Nat
        BY <1>0, <1>2
      <3>2. h[1] \in V
        BY <1>0, <2>8, <3>1
      <3> QED BY <3>1, <3>2
    <2>10. \A n \in T : n + 1 \in T
      <3> TAKE n \in T
      <3> SUFFICES ASSUME (n + 1) + 1 <= last PROVE h[(n + 1) + 1] \in V
        OBVIOUS
      <3>1. n \in Nat /\ h[n + 1] \in V
        BY <1>0
      <3>2. n + 2 \in 1..last /\ n + 2 # 1 /\ (n + 2) - 1 = n + 1
        BY <1>0, <3>1
      <3>3. h[n + 2] = h[n + 1] \o seqs[n + 2] /\ seqs[n + 2] \in V
        BY <1>0, <2>8, <3>2
      <3>4. h[n + 1] \o seqs[n + 2] \in V
        BY <3>1, <3>3, ConcatProperties
      <3>5. (n + 1) + 1 = n + 2
        BY <3>1
      <3> QED BY <3>3, <3>4, <3>5
    <2>11. last - 1 \in T /\ (last - 1) + 1 = last
      <3> HIDE DEF T
      <3>1. T = Nat
        <4>1. T \in SUBSET Nat
          BY DEF T
        <4> QED BY <2>9, <2>10, <4>1, Induction
      <3> QED BY <1>0, <1>2, <3>1
    <2> QED BY <1>0, <2>7, <2>11
  <1> QED BY <1>1, <1>2

\* A sequence of some elements, as one of its own.
LEMMA OfItsOwn ==
  ASSUME NEW S, NEW s \in Seq(S)
  PROVE  IsSequence(s) /\ ToSet(s) \subseteq S
  <1>1. (\A k \in 1..Len(s) : s[k] \in S) /\ DOMAIN s = 1..Len(s)
    OBVIOUS
  <1>2. \A k \in 1..Len(s) : s[k] \in ToSet(s)
    BY <1>1 DEF ToSet
  <1> QED BY <1>1, <1>2, IsASeq DEF IsSequence, ToSet

\* The first n of a sequence.
LEMMA FirstNIs ==
  ASSUME NEW s, IsSequence(s), NEW n \in Nat
  PROVE  /\ IsSequence(FirstN(s, n)) /\ ToSet(FirstN(s, n)) \subseteq ToSet(s)
         /\ Len(FirstN(s, n)) \in Nat /\ Len(FirstN(s, n)) <= n /\ Len(FirstN(s, n)) <= Len(s)
         /\ n # 0 /\ FirstN(s, n) = << >> => s = << >>
  <1> DEFINE m == IF Len(s) < n THEN Len(s) ELSE n
             a == SubSeq(s, 1, m)
             S == ToSet(s)
  <1>0. s \in Seq(S)
    BY DEF IsSequence
  <1>1. Len(s) \in Nat /\ m \in Nat /\ m <= n /\ m <= Len(s) /\ \A i \in 1..m : s[i] \in S
    BY <1>0
  <1>2. n # 0 /\ m = 0 => Len(s) = 0
    BY <1>1
  <1> HIDE DEF m, S
  <1>3. a \in Seq(S) /\ Len(a) = m
    <2>1. a \in Seq(S) /\ Len(a) = IF 1 <= m THEN m - 1 + 1 ELSE 0
      BY <1>1, SubSeqProperties
    <2> QED BY <1>1, <2>1
  <1> HIDE DEF a
  <1>4. IsSequence(a) /\ ToSet(a) \subseteq S
    BY <1>3, OfItsOwn
  <1>5. a = << >> => m = 0
    BY <1>3
  <1>6. Len(s) = 0 => s = << >>
    BY <1>0
  <1>7. FirstN(s, n) = a
    BY DEF FirstN, a, m
  <1> QED BY <1>1, <1>2, <1>3, <1>4, <1>5, <1>6, <1>7 DEF S

\* Two sequences, one after the other.
LEMMA AfterIs ==
  ASSUME NEW s, IsSequence(s), NEW q, IsSequence(q)
  PROVE  /\ IsSequence(s \o q) /\ ToSet(s \o q) \subseteq ToSet(s) \cup ToSet(q)
         /\ Len(s \o q) = Len(s) + Len(q)
  <1> DEFINE S == ToSet(s) \cup ToSet(q)
             a == s \o q
  <1>1. s \in Seq(S) /\ q \in Seq(S)
    <2>1. s \in Seq(ToSet(s)) /\ q \in Seq(ToSet(q))
      BY DEF IsSequence
    <2> QED BY <2>1
  <1> HIDE DEF S
  <1>2. a \in Seq(S) /\ Len(a) = Len(s) + Len(q)
    BY <1>1
  <1> HIDE DEF a
  <1>3. IsSequence(a) /\ ToSet(a) \subseteq S
    BY <1>2, OfItsOwn
  <1> QED BY <1>2, <1>3 DEF a, S

-----------------------------------------------------------------------------
(* What is new of what was found. *)

Apart(S) == \A u, v \in S : Key(u) = Key(v) => u = v

\* Of the links that one source lists, those that are new.
LEMMA NewOfIs ==
  ASSUME NEW urls, IsSequence(urls), NEW known
  PROVE  /\ IsSequence(NewOf(urls, known)) /\ ToSet(NewOf(urls, known)) \subseteq ToSet(urls)
         /\ \A u \in ToSet(NewOf(urls, known)) : Key(u) \notin known
         /\ Apart(ToSet(NewOf(urls, known)))
         /\ Len(NewOf(urls, known)) \in Nat /\ Len(NewOf(urls, known)) <= Len(urls)
  <1> DEFINE firsts == FirstsOf(urls, Key)
             at == {i \in firsts : Key(urls[i]) \notin known}
  <1>1. NewOf(urls, known) = At(urls, at)
    BY DEF NewOf
  <1>2. DOMAIN urls = 1..Len(urls) /\ Len(urls) \in Nat
    BY DEF IsSequence
  <1>3. \A i, j \in DOMAIN urls \cap at : Key(urls[i]) = Key(urls[j]) => i = j
    <2>1. ASSUME NEW i \in DOMAIN urls \cap at, NEW j \in DOMAIN urls \cap at, i < j
          PROVE  Key(urls[i]) # Key(urls[j])
      <3>1. i \in 1..(j - 1)
        BY <1>2, <2>1
      <3> QED BY <3>1 DEF FirstsOf
    <2>2. \A i, j \in DOMAIN urls : i < j \/ j < i \/ i = j
      BY <1>2
    <2> HIDE DEF at
    <2> QED BY <2>1, <2>2
  <1>4. \A i \in DOMAIN urls \cap at : Key(urls[i]) \notin known
    OBVIOUS
  <1> HIDE DEF at
  <1>5. \A x \in ToSet(At(urls, at)) : \E i \in DOMAIN urls \cap at : x = urls[i]
    BY TakenIs
  <1>6. Apart(ToSet(At(urls, at)))
    BY <1>3, <1>5 DEF Apart
  <1>7. \A u \in ToSet(At(urls, at)) : Key(u) \notin known
    BY <1>4, <1>5
  <1>8. /\ IsSequence(At(urls, at)) /\ ToSet(At(urls, at)) \subseteq ToSet(urls)
        /\ Len(At(urls, at)) \in Nat /\ Len(At(urls, at)) <= Len(urls)
    BY TakenIs
  <1> QED BY <1>1, <1>6, <1>7, <1>8

\* What is new of each source's links.
LEMMA NewOfEachIs ==
  ASSUME NEW lists, IsSequence(lists), \A i \in DOMAIN lists : lists[i] \in Seq(Links), NEW known
  PROVE  LET fresh == NewOfEach(lists, known) IN
         /\ IsSequence(fresh) /\ DOMAIN fresh = DOMAIN lists
         /\ \A i \in DOMAIN lists : /\ IsSequence(fresh[i]) /\ ToSet(fresh[i]) \subseteq Links
                                    /\ Len(fresh[i]) \in Nat /\ Len(fresh[i]) <= Len(lists[i])
         /\ \A i, j \in DOMAIN lists : Apart(ToSet(fresh[i]) \cup ToSet(fresh[j]))
         /\ \A i \in DOMAIN lists : \A u \in ToSet(fresh[i]) : Key(u) \notin known
  <1> DEFINE before(i) == known \cup UNION {{Key(u) : u \in ToSet(lists[j])} : j \in 1..(i - 1)}
             fresh == [i \in DOMAIN lists |-> NewOf(lists[i], before(i))]
  <1>0. DOMAIN lists = 1..Len(lists) /\ Len(lists) \in Nat
    BY DEF IsSequence
  <1>1. NewOfEach(lists, known) = << >> \o fresh
    BY DEF NewOfEach, Each
  <1>2. << >> \o fresh = fresh /\ IsSequence(fresh) /\ DOMAIN fresh = DOMAIN lists
    <2>1. DOMAIN fresh = 1..Len(lists) /\ fresh = [i \in 1..Len(lists) |-> fresh[i]]
      BY <1>0
    <2> HIDE DEF fresh
    <2> QED BY <1>0, <2>1, AfterNothing
  <1>3. \A i \in DOMAIN lists : fresh[i] = NewOf(lists[i], before(i))
    OBVIOUS
  <1>4. \A i \in DOMAIN lists : \A j \in 1..(i - 1) : \A u \in ToSet(lists[j]) : Key(u) \in before(i)
    OBVIOUS
  <1>5. \A i \in DOMAIN lists : known \subseteq before(i)
    OBVIOUS
  <1> HIDE DEF fresh, before
  <1>6. \A i \in DOMAIN lists : /\ IsSequence(fresh[i]) /\ ToSet(fresh[i]) \subseteq ToSet(lists[i])
                                /\ \A u \in ToSet(fresh[i]) : Key(u) \notin before(i)
                                /\ Apart(ToSet(fresh[i]))
                                /\ Len(fresh[i]) \in Nat /\ Len(fresh[i]) <= Len(lists[i])
    <2> TAKE i \in DOMAIN lists
    <2>1. IsSequence(lists[i])
      BY OfItsOwn
    <2> QED BY <1>3, <2>1, NewOfIs
  <1>7. \A i \in DOMAIN lists : ToSet(lists[i]) \subseteq Links
    BY OfItsOwn
  <1>8. ASSUME NEW i \in DOMAIN lists, NEW j \in DOMAIN lists, i < j
        PROVE  \A u \in ToSet(fresh[i]) : \A v \in ToSet(fresh[j]) : Key(u) # Key(v)
    <2>1. i \in 1..(j - 1)
      BY <1>0, <1>8
    <2> QED BY <1>4, <1>6, <2>1
  <1>9. \A i, j \in DOMAIN lists : Apart(ToSet(fresh[i]) \cup ToSet(fresh[j]))
    <2> TAKE i, j \in DOMAIN lists
    <2>1. i < j \/ j < i \/ i = j
      BY <1>0
    <2>2. Apart(ToSet(fresh[i])) /\ Apart(ToSet(fresh[j]))
      BY <1>6
    <2>3. CASE i # j
      <3>1. \A u \in ToSet(fresh[i]) : \A v \in ToSet(fresh[j]) : Key(u) # Key(v)
        BY <1>8, <2>1, <2>3
      <3> QED BY <2>2, <3>1 DEF Apart
    <2> QED BY <2>2, <2>3
  <1>10. \A i \in DOMAIN lists : \A u \in ToSet(fresh[i]) : Key(u) \notin known
    BY <1>5, <1>6
  <1> QED BY <1>1, <1>2, <1>6, <1>7, <1>9, <1>10

\* What a trend's article is, the more is known: never new again.
LEMMA PlaceIs ==
  ASSUME NEW item, NEW req, NEW known, NEW more, known \subseteq more
  PROVE  /\ Place(item, req, more) = "new" => Place(item, req, known) = "new" /\ Key(item.url) \notin more
         /\ Place(item, req, known) \in {"not_article", "stale", "already", "new"}
         /\ Place(item, req, {}) # "already"
  BY DEF Place

\* The positions of what is so placed.
Placed(items, req, known, place) == {i \in DOMAIN items : Place(items[i], req, known) = place}

\* Of the articles behind a signal's trends, those that may be offered.
LEMMA OfferedIs ==
  ASSUME NEW items, IsSequence(items), NEW req, NEW known
  PROVE  LET fresh == Offered(items, req, known) IN
         /\ IsSequence(fresh) /\ ToSet(fresh) \subseteq ToSet(items)
         /\ \A item \in ToSet(fresh) : Place(item, req, known) = "new"
         /\ \A x, y \in ToSet(fresh) : Key(x.url) = Key(y.url) => x = y
         /\ Len(fresh) \in Nat /\ Len(fresh) <= Cardinality(Placed(items, req, known, "new"))
  <1> DEFINE places == Placed(items, req, known, "new")
             new == At(items, places)
             firsts == {i \in DOMAIN new : \A j \in 1..(i - 1) : Key(new[j].url) # Key(new[i].url)}
             fresh == At(new, firsts)
  <1>1. Offered(items, req, known) = fresh
    BY DEF Offered, Where, FirstsOf, Placed
  <1>2. places \subseteq DOMAIN items /\ \A i \in places : Place(items[i], req, known) = "new"
    BY DEF Placed
  <1> HIDE DEF places
  <1>3. /\ IsSequence(new) /\ ToSet(new) \subseteq ToSet(items) /\ Len(new) \in Nat
        /\ \A x \in ToSet(new) : \E i \in DOMAIN items \cap places : x = items[i]
        /\ Len(new) = Cardinality(DOMAIN items \cap places)
    BY TakenIs
  <1>4. DOMAIN items \cap places = places
    BY <1>2
  <1> HIDE DEF new
  <1>5. DOMAIN new = 1..Len(new)
    BY <1>3 DEF IsSequence
  <1>6. \A i, j \in DOMAIN new \cap firsts : Key(new[i].url) = Key(new[j].url) => i = j
    <2>1. ASSUME NEW i \in DOMAIN new \cap firsts, NEW j \in DOMAIN new \cap firsts, i < j
          PROVE  Key(new[i].url) # Key(new[j].url)
      <3>1. i \in 1..(j - 1)
        BY <1>3, <1>5, <2>1
      <3> QED BY <3>1
    <2>2. \A i, j \in DOMAIN new : i < j \/ j < i \/ i = j
      BY <1>3, <1>5
    <2> HIDE DEF firsts
    <2> QED BY <2>1, <2>2
  <1> HIDE DEF firsts
  <1>7. /\ IsSequence(fresh) /\ ToSet(fresh) \subseteq ToSet(new) /\ Len(fresh) \in Nat /\ Len(fresh) <= Len(new)
        /\ \A x \in ToSet(fresh) : \E i \in DOMAIN new \cap firsts : x = new[i]
    <2>1. IsSequence(new)
      BY <1>3
    <2> QED BY <2>1, TakenIs
  <1>8. \A x, y \in ToSet(fresh) : Key(x.url) = Key(y.url) => x = y
    BY <1>6, <1>7
  <1>9. \A x \in ToSet(fresh) : Place(x, req, known) = "new"
    BY <1>2, <1>3, <1>7
  <1>10. ToSet(fresh) \subseteq ToSet(items) /\ Len(fresh) <= Cardinality(places)
    BY <1>3, <1>4, <1>7
  <1> HIDE DEF fresh
  <1> QED BY <1>1, <1>7, <1>8, <1>9, <1>10 DEF places

\* The links of some articles.
UrlsOf(items) == {item.url : item \in ToSet(items)}

\* What each signal adds is not what one before it offered.
LEMMA OfferedByEachIs ==
  ASSUME NEW lists, IsSequence(lists), NEW req, NEW known,
         \A i \in DOMAIN lists : IsSequence(lists[i]) /\ UrlsOf(lists[i]) \subseteq Links
  PROVE  LET fresh == OfferedByEach(lists, req, known) IN
         /\ IsSequence(fresh) /\ DOMAIN fresh = DOMAIN lists
         /\ \A i \in DOMAIN lists :
              /\ IsSequence(fresh[i]) /\ UrlsOf(fresh[i]) \subseteq Links
              /\ Len(fresh[i]) \in Nat /\ Len(fresh[i]) <= Cardinality(Placed(lists[i], req, {}, "new"))
         /\ \A i, j \in DOMAIN lists : Apart(UrlsOf(fresh[i]) \cup UrlsOf(fresh[j]))
         /\ \A i \in DOMAIN lists : \A u \in UrlsOf(fresh[i]) : Key(u) \notin known
  <1> DEFINE earlier(i) == {item \in UNION {ToSet(lists[j]) : j \in 1..(i - 1)} : Place(item, req, known) = "new"}
             before(i) == known \cup {Key(item.url) : item \in earlier(i)}
             fresh == [i \in DOMAIN lists |-> Offered(lists[i], req, before(i))]
  <1>0. DOMAIN lists = 1..Len(lists) /\ Len(lists) \in Nat
    BY DEF IsSequence
  <1>1. OfferedByEach(lists, req, known) = << >> \o fresh
    BY DEF OfferedByEach, Each
  <1>2. << >> \o fresh = fresh /\ IsSequence(fresh) /\ DOMAIN fresh = DOMAIN lists
    <2>1. DOMAIN fresh = 1..Len(lists) /\ fresh = [i \in 1..Len(lists) |-> fresh[i]]
      BY <1>0
    <2> HIDE DEF fresh
    <2> QED BY <1>0, <2>1, AfterNothing
  <1>3. \A i \in DOMAIN lists : fresh[i] = Offered(lists[i], req, before(i))
    OBVIOUS
  <1>4. \A i \in DOMAIN lists : \A j \in 1..(i - 1) : \A item \in ToSet(lists[j]) :
          Place(item, req, known) = "new" => Key(item.url) \in before(i)
    OBVIOUS
  <1>5. \A i \in DOMAIN lists : known \subseteq before(i)
    OBVIOUS
  <1> HIDE DEF fresh, before, earlier
  <1>6. \A i \in DOMAIN lists :
          /\ IsSequence(fresh[i]) /\ ToSet(fresh[i]) \subseteq ToSet(lists[i])
          /\ \A item \in ToSet(fresh[i]) : Place(item, req, before(i)) = "new"
          /\ \A x, y \in ToSet(fresh[i]) : Key(x.url) = Key(y.url) => x = y
          /\ Len(fresh[i]) \in Nat /\ Len(fresh[i]) <= Cardinality(Placed(lists[i], req, before(i), "new"))
    <2> TAKE i \in DOMAIN lists
    <2> QED BY <1>3, OfferedIs
  <1>7. \A i \in DOMAIN lists : UrlsOf(fresh[i]) \subseteq Links
    BY <1>6 DEF UrlsOf
  <1>8. \A i \in DOMAIN lists : \A item \in ToSet(fresh[i]) :
          Place(item, req, known) = "new" /\ Key(item.url) \notin before(i)
    BY <1>5, <1>6, PlaceIs
  <1>9. \A i \in DOMAIN lists : Len(fresh[i]) <= Cardinality(Placed(lists[i], req, {}, "new"))
    <2> TAKE i \in DOMAIN lists
    <2>1. Placed(lists[i], req, before(i), "new") \subseteq Placed(lists[i], req, {}, "new")
      BY PlaceIs DEF Placed
    <2>2. Placed(lists[i], req, {}, "new") \subseteq 1..Len(lists[i]) /\ Len(lists[i]) \in Nat
      BY DEF Placed, IsSequence
    <2>3. IsFiniteSet(Placed(lists[i], req, {}, "new"))
      BY <2>2, HowMany, FS_Subset
    <2>4. /\ Cardinality(Placed(lists[i], req, before(i), "new")) <= Cardinality(Placed(lists[i], req, {}, "new"))
          /\ Cardinality(Placed(lists[i], req, before(i), "new")) \in Nat
          /\ Cardinality(Placed(lists[i], req, {}, "new")) \in Nat
      BY <2>1, <2>3, FS_Subset, FS_CardinalityType
    <2> QED BY <1>6, <2>4
  <1>10. ASSUME NEW i \in DOMAIN lists, NEW j \in DOMAIN lists, i < j
         PROVE  \A x \in ToSet(fresh[i]) : \A y \in ToSet(fresh[j]) : Key(x.url) # Key(y.url)
    <2>1. i \in 1..(j - 1)
      BY <1>0, <1>10
    <2> QED BY <1>4, <1>6, <1>8, <2>1
  <1>11. \A i, j \in DOMAIN lists : Apart(UrlsOf(fresh[i]) \cup UrlsOf(fresh[j]))
    <2> TAKE i, j \in DOMAIN lists
    <2>1. i < j \/ j < i \/ i = j
      BY <1>0
    <2>2. Apart(UrlsOf(fresh[i])) /\ Apart(UrlsOf(fresh[j]))
      BY <1>6 DEF Apart, UrlsOf
    <2>3. CASE i # j
      <3>1. \A u \in UrlsOf(fresh[i]) : \A v \in UrlsOf(fresh[j]) : Key(u) # Key(v)
        BY <1>10, <2>1, <2>3 DEF UrlsOf
      <3> QED BY <2>2, <3>1 DEF Apart
    <2> QED BY <2>2, <2>3
  <1>12. \A i \in DOMAIN lists : \A u \in UrlsOf(fresh[i]) : Key(u) \notin known
    BY <1>5, <1>8 DEF UrlsOf
  <1> QED BY <1>1, <1>2, <1>6, <1>7, <1>9, <1>11, <1>12

-----------------------------------------------------------------------------
(* What the sources and the signals give. *)

\* A sequence of its own elements, as one of a larger set.
LEMMA OfMore ==
  ASSUME NEW S, NEW s, IsSequence(s), ToSet(s) \subseteq S
  PROVE  s \in Seq(S)
  <1>1. s \in Seq(ToSet(s))
    BY DEF IsSequence
  <1> QED BY <1>1

\* What is taken of a sequence of links, or of anything, is one of them.
LEMMA TakenFrom ==
  ASSUME NEW S, NEW s \in Seq(S), NEW at
  PROVE  At(s, at) \in Seq(S) /\ Len(At(s, at)) \in Nat /\ Len(At(s, at)) <= Len(s) /\ Len(s) \in Nat
  <1>1. IsSequence(s) /\ ToSet(s) \subseteq S
    BY OfItsOwn
  <1>2. /\ IsSequence(At(s, at)) /\ ToSet(At(s, at)) \subseteq ToSet(s)
        /\ Len(At(s, at)) \in Nat /\ Len(At(s, at)) <= Len(s)
    BY <1>1, TakenIs
  <1>3. At(s, at) \in Seq(S)
    BY <1>1, <1>2, OfMore
  <1> QED BY <1>2, <1>3

\* The links of a source's section pages.
LEMMA SectionLinksAre ==
  ASSUME NEW s \in DOMAIN Source, NEW req, NEW down
  PROVE  SectionLinks(s, req, down) \in Seq(Links)
  <1> DEFINE Section == [topic : Topics, links : Seq(Links)]
             sections == Source[s].sections
             asked == At(sections, {i \in DOMAIN sections : sections[i].topic \in Wanted(req)})
             some == FirstN(asked, MaxSections)
             read == At(some, {i \in DOMAIN some : <<"page", s, some[i].topic>> \notin down})
             of(i) == At(read[i].links, {k \in DOMAIN read[i].links : SectionKeeps(read[i].links[k])})
             links == FlattenSeq([i \in DOMAIN read |-> of(i)])
  <1>1. SectionLinks(s, req, down) = At(links, FirstsOf(links, LAMBDA u : u))
    BY DEF SectionLinks, Where
  <1>2. sections \in Seq(Section)
    BY DiscoveryAssumption
  <1> HIDE DEF sections
  <1>3. asked \in Seq(Section)
    BY <1>2, TakenFrom
  <1> HIDE DEF asked
  <1>4. some \in Seq(Section)
    <2>1. IsSequence(asked) /\ ToSet(asked) \subseteq Section
      BY <1>3, OfItsOwn
    <2>2. MaxSections \in Nat
      BY DiscoveryAssumption
    <2>3. IsSequence(some) /\ ToSet(some) \subseteq Section
      BY <2>1, <2>2, FirstNIs
    <2> QED BY <2>3, OfMore
  <1> HIDE DEF some
  <1>5. read \in Seq(Section)
    BY <1>4, TakenFrom
  <1> HIDE DEF read
  <1>6. \A i \in DOMAIN read : of(i) \in Seq(Links)
    <2> TAKE i \in DOMAIN read
    <2>1. read[i] \in Section
      <3> HIDE DEF Section
      <3> QED BY <1>5
    <2>2. read[i].links \in Seq(Links)
      BY <2>1
    <2> QED BY <2>2, TakenFrom
  <1> HIDE DEF of
  <1>7. [i \in DOMAIN read |-> of(i)] \in Seq(Seq(Links))
    <2>1. DOMAIN read = 1..Len(read) /\ Len(read) \in Nat
      BY <1>5
    <2> QED BY <1>6, <2>1
  <1>8. links \in Seq(Links)
    BY <1>7, FlattenIs
  <1> HIDE DEF links
  <1> QED BY <1>1, <1>8, TakenFrom

\* What a step of a source gives is links, and of those recent ones.
LEMMA DiscoveredIs ==
  ASSUME NEW s \in DOMAIN Source, NEW req, NEW down
  PROVE  /\ Discovered(s, req, down).urls \in Seq(Links)
         /\ Discovered(s, req, down).stale \in Nat
  <1> DEFINE Answers(k) == /\ Steps[k] \in Source[s].steps /\ <<"step", s, Steps[k]>> \notin down
                           /\ Recent(Found(Steps[k], s, req, down)) # << >>
             first == CHOOSE k \in DOMAIN Steps : Answers(k) /\ \A j \in 1..(k - 1) : ~Answers(j)
             found == Found(Steps[first], s, req, down)
  <1>1. Discovered(s, req, down) =
          IF \A k \in DOMAIN Steps : ~Answers(k) THEN NoResult
          ELSE [urls |-> Recent(found), step |-> Steps[first],
                stale |-> Len(found) - Len(Recent(found))]
    BY DEF Discovered
  <1>2. DOMAIN Steps = 1..5
        /\ \A k \in DOMAIN Steps : Steps[k] \in {"feed", "json", "sitemap", "sections", "lenient"}
    BY DEF Steps
  <1>3. ASSUME NEW step \in {"feed", "json", "sitemap", "sections", "lenient"}
        PROVE  Found(step, s, req, down) \in Seq(Links)
    <2>1. CASE step = "sections"
      BY <2>1, SectionLinksAre DEF Found
    <2>2. CASE step # "sections"
      <3>1. step \in {"feed", "json", "sitemap", "lenient"}
        BY <2>2
      <3>2. Source[s].lists \in [{"feed", "json", "sitemap", "lenient"} -> Seq(Links)]
        BY DiscoveryAssumption
      <3>3. Source[s].lists[step] \in Seq(Links)
        BY <3>1, <3>2
      <3>4. PICK at : Found(step, s, req, down) = At(Source[s].lists[step], at)
        BY <2>2, <3>1 DEF Found, Where
      <3> QED BY <3>3, <3>4, TakenFrom
    <2> QED BY <2>1, <2>2
  <1>4. CASE \A k \in DOMAIN Steps : ~Answers(k)
    <2>1. Discovered(s, req, down) = [urls |-> << >>, step |-> "none", stale |-> 0]
      BY <1>1, <1>4 DEF NoResult
    <2> QED BY <2>1
  <1>5. CASE \E k \in DOMAIN Steps : Answers(k)
    <2>1. PICK k \in 1..5 : Answers(k)
      BY <1>2, <1>5
    <2>2. \E m \in 1..5 : Answers(m) /\ \A j \in 1..(m - 1) : ~Answers(j)
      <3> DEFINE S == {m \in Nat : m \in 1..5 /\ Answers(m)}
      <3> HIDE DEF Answers
      <3>1. k \in S
        BY <2>1
      <3>2. PICK m \in S : \A j \in S : m <= j
        BY <3>1, Least
      <3>3. m \in 1..5 /\ Answers(m)
        BY <3>2
      <3>4. \A j \in 1..(m - 1) : j \in Nat /\ j \in 1..5 /\ ~(m <= j)
        BY <3>3
      <3>5. \A j \in 1..(m - 1) : ~Answers(j)
        BY <3>2, <3>4
      <3> QED BY <3>3, <3>5
    <2>3. first \in DOMAIN Steps
      <3> HIDE DEF Answers
      <3> QED BY <1>2, <2>2
    <2>4. Steps[first] \in {"feed", "json", "sitemap", "sections", "lenient"}
      BY <1>2, <2>3
    <2> HIDE DEF first
    <2>5. found \in Seq(Links)
      BY <1>3, <2>4
    <2> HIDE DEF found
    <2>6. Recent(found) = At(found, {i \in DOMAIN found : ~TooOld(found[i])})
      BY DEF Recent, Where
    <2>7. /\ Recent(found) \in Seq(Links) /\ Len(Recent(found)) \in Nat
          /\ Len(Recent(found)) <= Len(found) /\ Len(found) \in Nat
      BY <2>5, <2>6, TakenFrom
    <2>8. Discovered(s, req, down) = [urls |-> Recent(found), step |-> Steps[first],
                                      stale |-> Len(found) - Len(Recent(found))]
      BY <1>1, <1>5
    <2> QED BY <2>7, <2>8
  <1> HIDE DEF Answers
  <1> QED BY <1>4, <1>5

\* A trend's articles, and those that a search for it adds.
LEMMA SearchedIs ==
  ASSUME NEW trend, trend.articles \in Seq(Links), trend.search \in Seq(Links), NEW req \in Request, NEW down
  PROVE  Searched(trend, req, down) \in Seq(Links)
  <1> DEFINE some == FirstN(trend.search, req.per)
             known == {Key(u) : u \in ToSet(trend.articles)}
  <1>1. req.per \in Nat
    BY DEF Request
  <1>2. IsSequence(trend.search) /\ ToSet(trend.search) \subseteq Links
    BY OfItsOwn
  <1>3. IsSequence(some) /\ ToSet(some) \subseteq Links
    BY <1>1, <1>2, FirstNIs
  <1> HIDE DEF some, known
  <1>4. IsSequence(NewOf(some, known)) /\ ToSet(NewOf(some, known)) \subseteq Links
    BY <1>3, NewOfIs
  <1>5. NewOf(some, known) \in Seq(Links)
    BY <1>4, OfMore
  <1>6. trend.articles \o NewOf(some, known) \in Seq(Links)
    BY <1>5
  <1>7. \/ Searched(trend, req, down) = trend.articles
        \/ Searched(trend, req, down) = trend.articles \o NewOf(some, known)
    BY DEF Searched, some, known
  <1> QED BY <1>6, <1>7

\* The articles behind a signal's trends are links, each with its trend.
LEMMA BehindIs ==
  ASSUME NEW g \in DOMAIN Signal, NEW req \in Request, NEW down
  PROVE  IsSequence(Behind(g, req, down)) /\ UrlsOf(Behind(g, req, down)) \subseteq Links
  <1> DEFINE trends == Signal[g].trends
             Item == [url : Links, trend : {trend.name : trend \in ToSet(trends)},
                      old : {trend.old : trend \in ToSet(trends)}]
             all(i) == Searched(trends[i], req, down)
             items(i) == [k \in DOMAIN all(i) |-> [url |-> all(i)[k], trend |-> trends[i].name, old |-> trends[i].old]]
  <1>1. /\ trends \in Seq(ToSet(trends))
        /\ \A trend \in ToSet(trends) : trend.articles \in Seq(Links) /\ trend.search \in Seq(Links)
    BY DiscoveryAssumption
  <1>2. Behind(g, req, down) = FlattenSeq([i \in DOMAIN trends |-> items(i)])
    BY DEF Behind, Trends
  <1> HIDE DEF trends
  <1>3. DOMAIN trends = 1..Len(trends) /\ Len(trends) \in Nat /\ \A i \in DOMAIN trends : trends[i] \in ToSet(trends)
    BY <1>1
  <1>4. \A i \in DOMAIN trends : items(i) \in Seq(Item)
    <2> TAKE i \in DOMAIN trends
    <2>1. all(i) \in Seq(Links)
      BY <1>1, <1>3, SearchedIs
    <2>2. DOMAIN all(i) = 1..Len(all(i)) /\ Len(all(i)) \in Nat /\ \A k \in DOMAIN all(i) : all(i)[k] \in Links
      BY <2>1
    <2>3. trends[i].name \in {trend.name : trend \in ToSet(trends)} /\ trends[i].old \in {trend.old : trend \in ToSet(trends)}
      BY <1>3
    <2>4. \A k \in DOMAIN all(i) : [url |-> all(i)[k], trend |-> trends[i].name, old |-> trends[i].old] \in Item
      BY <2>2, <2>3
    <2> HIDE DEF all, Item
    <2> QED BY <2>2, <2>4
  <1> HIDE DEF items
  <1>5. [i \in DOMAIN trends |-> items(i)] \in Seq(Seq(Item))
    <2> HIDE DEF Item
    <2> QED BY <1>3, <1>4
  <1>6. Behind(g, req, down) \in Seq(Item)
    <2> HIDE DEF Item
    <2> QED BY <1>2, <1>5, FlattenIs
  <1>7. IsSequence(Behind(g, req, down)) /\ ToSet(Behind(g, req, down)) \subseteq Item
    <2> HIDE DEF Item
    <2> QED BY <1>6, OfItsOwn
  <1>8. \A item \in Item : item.url \in Links
    OBVIOUS
  <1> HIDE DEF Item
  <1> QED BY <1>7, <1>8 DEF UrlsOf

\* What one source, or signal, gave, of the links or of the articles of its lens.
OneFound(one, lens) ==
  /\ one.stale \in Nat /\ Len(one.all) \in Nat /\ Len(one.fresh) \in Nat /\ IsSequence(one.fresh)
  /\ lens = "topics" => Len(one.fresh) <= Len(one.all) /\ ToSet(one.fresh) = one.urls

\* Those of a signal have the request that placed them.
OneBehind(one, req) ==
  req.lens = "trending" =>
    /\ IsSequence(one.all) /\ UrlsOf(one.fresh) = one.urls
    /\ Len(one.fresh) <= Cardinality(Placed(one.all, req, {}, "new"))

\* What was found for a round: of each, what is new is a link of its own, and none
\* that was known.
FoundWell(found, req, known) ==
  /\ IsSequence(found)
  /\ \A i \in DOMAIN found : /\ OneFound(found[i], req.lens) /\ OneBehind(found[i], req)
                             /\ found[i].urls \subseteq Links
                             /\ \A u \in found[i].urls : Key(u) \notin known
  /\ \A i, j \in DOMAIN found : Apart(found[i].urls \cup found[j].urls)

\* One thing made for each of a sequence.
LEMMA EachIs ==
  ASSUME NEW s, IsSequence(s), NEW f, f = [i \in DOMAIN s |-> f[i]]
  PROVE  << >> \o f = f /\ IsSequence(f) /\ DOMAIN f = DOMAIN s
  <1>1. DOMAIN s = 1..Len(s) /\ Len(s) \in Nat
    BY DEF IsSequence
  <1>2. DOMAIN f = 1..Len(s) /\ f = [i \in 1..Len(s) |-> f[i]]
    BY <1>1
  <1> QED BY <1>1, <1>2, AfterNothing

\* What is found in the sources for a round of topics.
LEMMA TopicsFound ==
  ASSUME NEW req \in Request, req.lens = "topics", NEW known, NEW down
  PROVE  FoundWell(FoundIn(req, known, down), req, known)
  <1> DEFINE read == SourcesFor(req)
             results == [i \in DOMAIN read |-> Discovered(read[i], req, down)]
             links == [i \in DOMAIN read |-> results[i].urls]
             fresh == NewOfEach(links, known)
             published(i) == {u \in ToSet(fresh[i]) : results[i].step \in Dated /\ Fact[u].dated}
             found == [i \in DOMAIN read |->
                         [from |-> read[i], all |-> links[i], stale |-> results[i].stale, fresh |-> fresh[i],
                          urls |-> ToSet(fresh[i]), published |-> published(i)]]
  <1>1. read \in Seq(DOMAIN Source)
    <2>1. PICK at : read = At(Sources, at)
      BY DEF SourcesFor, Where
    <2>2. Sources \in Seq(DOMAIN Source)
      BY DiscoveryAssumption
    <2> HIDE DEF read
    <2> QED BY <2>1, <2>2, TakenFrom
  <1>2. IsSequence(read) /\ \A i \in DOMAIN read : read[i] \in DOMAIN Source
    <2> HIDE DEF read
    <2> QED BY <1>1, OfItsOwn
  <1> HIDE DEF read
  <1>3. << >> \o results = results /\ IsSequence(results) /\ DOMAIN results = DOMAIN read
        /\ \A i \in DOMAIN read : results[i] = Discovered(read[i], req, down)
    <2>1. results = [i \in DOMAIN read |-> results[i]] /\ \A i \in DOMAIN read : results[i] = Discovered(read[i], req, down)
      OBVIOUS
    <2> HIDE DEF results
    <2> QED BY <1>2, <2>1, EachIs
  <1> HIDE DEF results
  <1>4. << >> \o links = links /\ IsSequence(links) /\ DOMAIN links = DOMAIN read
        /\ \A i \in DOMAIN read : links[i] = results[i].urls
    <2>1. links = [i \in DOMAIN read |-> links[i]] /\ \A i \in DOMAIN read : links[i] = results[i].urls
      OBVIOUS
    <2> HIDE DEF links
    <2> QED BY <1>2, <2>1, EachIs
  <1>5. \A i \in DOMAIN links : links[i] \in Seq(Links) /\ Len(links[i]) \in Nat
    <2> TAKE i \in DOMAIN links
    <2>1. i \in DOMAIN read /\ read[i] \in DOMAIN Source
      BY <1>2, <1>4
    <2>2. results[i].urls \in Seq(Links)
      BY <1>3, <2>1, DiscoveredIs
    <2>3. links[i] \in Seq(Links)
      BY <1>4, <2>1, <2>2
    <2> HIDE DEF links
    <2> QED BY <2>3
  <1> HIDE DEF links
  <1>6. /\ IsSequence(fresh) /\ DOMAIN fresh = DOMAIN read
        /\ \A i \in DOMAIN read : /\ IsSequence(fresh[i]) /\ ToSet(fresh[i]) \subseteq Links
                                  /\ Len(fresh[i]) \in Nat /\ Len(fresh[i]) <= Len(links[i])
        /\ \A i, j \in DOMAIN read : Apart(ToSet(fresh[i]) \cup ToSet(fresh[j]))
        /\ \A i \in DOMAIN read : \A u \in ToSet(fresh[i]) : Key(u) \notin known
    BY <1>4, <1>5, NewOfEachIs
  <1> HIDE DEF fresh, published
  <1>7. << >> \o found = found /\ IsSequence(found) /\ DOMAIN found = DOMAIN read
    <2>1. found = [i \in DOMAIN read |-> found[i]]
      OBVIOUS
    <2> HIDE DEF found
    <2> QED BY <1>2, <2>1, EachIs
  <1>8. FoundIn(req, known, down) = << >> \o found
    <2>1. << >> \o [i \in DOMAIN read |-> Discovered(read[i], req, down)] = results
      BY <1>3 DEF results
    <2>2. << >> \o [i \in DOMAIN read |-> results[i].urls] = links
      BY <1>4 DEF links
    <2>3. FoundIn(req, known, down) =
            LET rs == << >> \o [i \in DOMAIN read |-> Discovered(read[i], req, down)]
                ls == << >> \o [i \in DOMAIN read |-> rs[i].urls]
                new == NewOfEach(ls, known)
            IN << >> \o [i \in DOMAIN read |->
                 [from |-> read[i], all |-> ls[i], stale |-> rs[i].stale, fresh |-> new[i],
                  urls |-> ToSet(new[i]),
                  published |-> {u \in ToSet(new[i]) : rs[i].step \in Dated /\ Fact[u].dated}]]
      BY Zenon DEF FoundIn, Each, read
    <2> QED BY <2>1, <2>2, <2>3, Zenon DEF fresh, published
  <1>9. \A i \in DOMAIN read : /\ found[i].all = links[i] /\ found[i].stale = results[i].stale
                               /\ found[i].fresh = fresh[i] /\ found[i].urls = ToSet(fresh[i])
    OBVIOUS
  <1>10. \A i \in DOMAIN read : results[i].stale \in Nat
    BY <1>2, <1>3, DiscoveredIs
  <1> HIDE DEF found
  <1>11. \A i \in DOMAIN read : OneFound(found[i], req.lens) /\ OneBehind(found[i], req)
    BY <1>4, <1>5, <1>6, <1>9, <1>10 DEF OneFound, OneBehind
  <1> QED BY <1>6, <1>7, <1>8, <1>9, <1>11 DEF FoundWell

\* What is found behind the trends for a round of what is trending.
LEMMA TrendsFound ==
  ASSUME NEW req \in Request, req.lens = "trending", NEW known, NEW down
  PROVE  FoundWell(FoundIn(req, known, down), req, known)
  <1> DEFINE read == Where(SignalsFor(req), LAMBDA g : g \notin down)
             items == [i \in DOMAIN read |-> Behind(read[i], req, down)]
             fresh == OfferedByEach(items, req, known)
             published(i) == {u \in UrlsOf(fresh[i]) : Fact[u].dated}
             found == [i \in DOMAIN read |->
                         [from |-> read[i], all |-> items[i], stale |-> 0, fresh |-> fresh[i],
                          urls |-> UrlsOf(fresh[i]), published |-> published(i)]]
  <1>1. read \in Seq(DOMAIN Signal)
    <2>1. PICK at : SignalsFor(req) = At(Signals, at)
      BY DEF SignalsFor, Where
    <2>2. Signals \in Seq(DOMAIN Signal)
      BY DiscoveryAssumption
    <2>3. SignalsFor(req) \in Seq(DOMAIN Signal)
      BY <2>1, <2>2, TakenFrom
    <2>4. PICK up : read = At(SignalsFor(req), up)
      BY DEF Where
    <2> HIDE DEF read
    <2> QED BY <2>3, <2>4, TakenFrom
  <1>2. IsSequence(read) /\ \A i \in DOMAIN read : read[i] \in DOMAIN Signal
    <2> HIDE DEF read
    <2> QED BY <1>1, OfItsOwn
  <1> HIDE DEF read
  <1>3. << >> \o items = items /\ IsSequence(items) /\ DOMAIN items = DOMAIN read
        /\ \A i \in DOMAIN read : items[i] = Behind(read[i], req, down)
    <2>1. items = [i \in DOMAIN read |-> items[i]] /\ \A i \in DOMAIN read : items[i] = Behind(read[i], req, down)
      OBVIOUS
    <2> HIDE DEF items
    <2> QED BY <1>2, <2>1, EachIs
  <1> HIDE DEF items
  <1>4. \A i \in DOMAIN items : IsSequence(items[i]) /\ UrlsOf(items[i]) \subseteq Links /\ Len(items[i]) \in Nat
    <2>1. ASSUME NEW i \in DOMAIN items PROVE IsSequence(items[i]) /\ UrlsOf(items[i]) \subseteq Links
      BY <1>2, <1>3, BehindIs
    <2>2. \A i \in DOMAIN items : IsSequence(items[i]) => Len(items[i]) \in Nat
      BY DEF IsSequence
    <2> QED BY <2>1, <2>2
  <1>5. /\ IsSequence(fresh) /\ DOMAIN fresh = DOMAIN read
        /\ \A i \in DOMAIN read : /\ IsSequence(fresh[i]) /\ UrlsOf(fresh[i]) \subseteq Links
                                  /\ Len(fresh[i]) \in Nat
                                  /\ Len(fresh[i]) <= Cardinality(Placed(items[i], req, {}, "new"))
        /\ \A i, j \in DOMAIN read : Apart(UrlsOf(fresh[i]) \cup UrlsOf(fresh[j]))
        /\ \A i \in DOMAIN read : \A u \in UrlsOf(fresh[i]) : Key(u) \notin known
    BY <1>3, <1>4, OfferedByEachIs
  <1> HIDE DEF fresh, published
  <1>6. << >> \o found = found /\ IsSequence(found) /\ DOMAIN found = DOMAIN read
    <2>1. found = [i \in DOMAIN read |-> found[i]]
      OBVIOUS
    <2> HIDE DEF found
    <2> QED BY <1>2, <2>1, EachIs
  <1>7. FoundIn(req, known, down) = << >> \o found
    <2>1. << >> \o [i \in DOMAIN read |-> Behind(read[i], req, down)] = items
      BY <1>3 DEF items
    <2>2. FoundIn(req, known, down) =
            LET all == << >> \o [i \in DOMAIN read |-> Behind(read[i], req, down)]
                new == OfferedByEach(all, req, known)
            IN << >> \o [i \in DOMAIN read |->
                 [from |-> read[i], all |-> all[i], stale |-> 0, fresh |-> new[i],
                  urls |-> {item.url : item \in ToSet(new[i])},
                  published |-> {u \in {item.url : item \in ToSet(new[i])} : TRUE /\ Fact[u].dated}]]
      <3>1. req.lens # "topics"
        OBVIOUS
      <3> QED BY <3>1, Zenon DEF FoundIn, Each, read
    <2>3. \A S : {u \in S : TRUE /\ Fact[u].dated} = {u \in S : Fact[u].dated}
      OBVIOUS
    <2> QED BY <2>1, <2>2, <2>3, Zenon DEF fresh, published, UrlsOf
  <1>8. \A i \in DOMAIN read : /\ found[i].all = items[i] /\ found[i].stale = 0
                               /\ found[i].fresh = fresh[i] /\ found[i].urls = UrlsOf(fresh[i])
    OBVIOUS
  <1> HIDE DEF found
  <1>9. \A i \in DOMAIN read : OneFound(found[i], req.lens) /\ OneBehind(found[i], req)
    BY <1>3, <1>4, <1>5, <1>8 DEF OneFound, OneBehind
  <1> QED BY <1>5, <1>6, <1>7, <1>8, <1>9 DEF FoundWell

-----------------------------------------------------------------------------
(* Every article of a row is accounted for, and what is picked is new. *)

\* What a row of a round must be.
RowWell(row, lens) ==
  /\ {row.already, row.screened, row.deferred, row.notArticles, row.stale} \subseteq Nat
  /\ row.discovered = row.already + Len(row.picked) + row.screened + row.deferred +
                      (IF lens = "trending" THEN row.notArticles + row.stale ELSE 0)

\* What a row picks, of the links that are new, and of those that the screen leaves in,
\* which spares a positive outlet's in a round of topics.
PicksWell(row, urls, req, screen) ==
  /\ ToSet(row.picked) \subseteq urls
  /\ screen = "ok" => \A u \in ToSet(row.picked) : ~LeftOut(u, req.edition, Exempt(req, row))

\* The numbers of two parts of a finite set, when they are all of it and share nothing.
LEMMA Halves ==
  ASSUME NEW S, IsFiniteSet(S), NEW A, NEW B, A \cup B = S, A \cap B = {}
  PROVE  /\ Cardinality(A) \in Nat /\ Cardinality(B) \in Nat /\ Cardinality(S) \in Nat
         /\ Cardinality(A) + Cardinality(B) = Cardinality(S)
  <1>1. IsFiniteSet(A) /\ IsFiniteSet(B)
    BY FS_Subset
  <1>2. Cardinality(A \cup B) = Cardinality(A) + Cardinality(B) - Cardinality(A \cap B)
    BY <1>1, FS_Union
  <1>3. Cardinality(A \cap B) = 0
    BY FS_EmptySet
  <1>4. Cardinality(A) \in Nat /\ Cardinality(B) \in Nat /\ Cardinality(S) \in Nat
    BY <1>1, FS_CardinalityType
  <1> QED BY <1>2, <1>3, <1>4

\* A sequence taken apart, by what is so and what is not.
LEMMA TakenApart ==
  ASSUME NEW s, IsSequence(s), NEW at, NEW rest, DOMAIN s \subseteq at \cup rest, at \cap rest = {}
  PROVE  Len(At(s, at)) + Len(At(s, rest)) = Len(s)
  <1>1. DOMAIN s = 1..Len(s) /\ Len(s) \in Nat
    BY DEF IsSequence
  <1>2. IsFiniteSet(DOMAIN s) /\ Cardinality(DOMAIN s) = Len(s)
    BY <1>1, HowMany
  <1>3. (DOMAIN s \cap at) \cup (DOMAIN s \cap rest) = DOMAIN s
        /\ (DOMAIN s \cap at) \cap (DOMAIN s \cap rest) = {}
    OBVIOUS
  <1>4. Cardinality(DOMAIN s \cap at) + Cardinality(DOMAIN s \cap rest) = Cardinality(DOMAIN s)
    BY <1>2, <1>3, Halves
  <1>5. Len(At(s, at)) = Cardinality(DOMAIN s \cap at) /\ Len(At(s, rest)) = Cardinality(DOMAIN s \cap rest)
    BY TakenIs
  <1> QED BY <1>2, <1>4, <1>5

\* At least one link is screened, if there is one.
LEMMA SomeScreened == ASSUME NEW req \in Request PROVE req.per * ScreenDepth \in Nat \ {0}
  <1>1. PICK per \in Nat \ {0} : per = req.per
    BY DEF Request
  <1>2. PICK depth \in Nat \ {0} : depth = ScreenDepth
    BY DiscoveryAssumption
  <1>3. per * depth \in Nat /\ per * depth # 0
    BY <1>1, <1>2, Z3
  <1> QED BY <1>1, <1>2, <1>3

\* The row of a source.
LEMMA PickedIs ==
  ASSUME NEW req \in Request, req.lens = "topics", NEW one, OneFound(one, "topics"), NEW screen
  PROVE  RowWell(Picked(one, req, screen), "topics")
         /\ PicksWell(Picked(one, req, screen), one.urls, req, screen)
  <1> DEFINE fresh == one.fresh
             exempt == Source[one.from].positive
             depth == req.per * ScreenDepth
             pool == IF screen = "ok" THEN FirstN(fresh, depth) ELSE << >>
             lo == {i \in DOMAIN pool : LeftOut(pool[i], req.edition, exempt)}
             hi == {i \in DOMAIN pool : ~LeftOut(pool[i], req.edition, exempt)}
             out == At(pool, lo)
             stays == At(pool, hi)
             near == {i \in DOMAIN stays : Fits(stays[i], req)}
             far == {i \in DOMAIN stays : ~Fits(stays[i], req)}
             fitting == At(stays, near) \o At(stays, far)
             from == IF pool = << >> THEN fresh ELSE fitting
             urls == FirstN(from, req.per)
  <1>0. /\ req.per \in Nat \ {0} /\ depth \in Nat /\ depth # 0
        /\ IsSequence(fresh) /\ Len(fresh) \in Nat /\ Len(one.all) \in Nat /\ Len(fresh) <= Len(one.all)
        /\ one.stale \in Nat /\ ToSet(fresh) = one.urls
    BY SomeScreened DEF Request, OneFound
  <1>1. Picked(one, req, screen)
          = [from |-> one.from, discovered |-> Len(one.all), notArticles |-> 0, stale |-> one.stale,
             already |-> Len(one.all) - Len(fresh), picked |-> urls, screened |-> Len(out),
             deferred |-> Len(fresh) - Len(urls) - Len(out)]
    BY Zenon DEF Picked, Row, Where
  <1> HIDE DEF depth, exempt
  <1>2. /\ IsSequence(pool) /\ ToSet(pool) \subseteq ToSet(fresh) /\ Len(pool) \in Nat /\ Len(pool) <= Len(fresh)
        /\ screen = "ok" /\ pool = << >> => fresh = << >>
    <2>1. CASE screen = "ok"
      <3> HIDE DEF fresh
      <3> QED BY <1>0, <2>1, FirstNIs
    <2>2. CASE screen # "ok"
      <3>1. IsSequence(<< >>) /\ ToSet(<< >>) = {} /\ Len(<< >>) = 0
        BY DEF IsSequence, ToSet
      <3> QED BY <1>0, <2>2, <3>1
    <2> QED BY <2>1, <2>2
  <1> HIDE DEF pool, fresh
  <1>3. Len(out) + Len(stays) = Len(pool)
    BY <1>2, TakenApart
  <1>4. IsSequence(stays) /\ Len(stays) \in Nat /\ Len(out) \in Nat /\ ToSet(stays) \subseteq ToSet(pool)
        /\ \A u \in ToSet(stays) : \E i \in DOMAIN pool \cap hi : u = pool[i]
    <2>1. IsSequence(pool)
      BY <1>2
    <2> HIDE DEF lo, hi
    <2> QED BY ONLY <2>1, TakenIs
  <1>5. \A u \in ToSet(stays) : ~LeftOut(u, req.edition, exempt)
    BY <1>4
  <1> HIDE DEF out, stays
  <1>6. Len(At(stays, near)) + Len(At(stays, far)) = Len(stays)
    BY <1>4, TakenApart
  <1>7. /\ IsSequence(At(stays, near)) /\ ToSet(At(stays, near)) \subseteq ToSet(stays)
        /\ IsSequence(At(stays, far)) /\ ToSet(At(stays, far)) \subseteq ToSet(stays)
    BY <1>4, TakenIs
  <1> HIDE DEF near, far
  <1>8. IsSequence(fitting) /\ ToSet(fitting) \subseteq ToSet(stays) /\ Len(fitting) = Len(stays)
    BY <1>6, <1>7, AfterIs
  <1> HIDE DEF fitting
  <1>9. /\ IsSequence(from) /\ ToSet(from) \subseteq ToSet(fresh) /\ Len(from) \in Nat
        /\ Len(from) + Len(out) <= Len(fresh)
        /\ screen = "ok" => ToSet(from) \subseteq ToSet(stays)
    <2>1. CASE pool = << >>
      <3>1. Len(pool) = 0 /\ from = fresh
        BY <2>1
      <3>2. Len(out) = 0
        BY <1>2, <1>3, <1>4, <3>1
      <3>3. screen = "ok" => ToSet(fresh) = {}
        BY <1>2, <2>1 DEF ToSet
      <3> QED BY <1>0, <3>1, <3>2, <3>3
    <2>2. CASE pool # << >>
      BY <1>2, <1>3, <1>4, <1>8, <2>2
    <2> QED BY <2>1, <2>2
  <1> HIDE DEF from
  <1>10. Len(urls) \in Nat /\ Len(urls) <= Len(from) /\ ToSet(urls) \subseteq ToSet(from)
    <2>1. IsSequence(from) /\ req.per \in Nat
      BY <1>0, <1>9
    <2> QED BY <2>1, FirstNIs
  <1> HIDE DEF urls
  <1> DEFINE row == Picked(one, req, screen)
  <1>11. /\ row.from = one.from /\ row.discovered = Len(one.all) /\ row.notArticles = 0 /\ row.stale = one.stale
         /\ row.already = Len(one.all) - Len(fresh) /\ row.picked = urls
         /\ row.screened = Len(out) /\ row.deferred = Len(fresh) - Len(urls) - Len(out)
    BY <1>1
  <1> HIDE DEF row
  <1>12. RowWell(row, "topics")
    <2>1. PICK all, new, picked, left \in Nat :
            all = Len(one.all) /\ new = Len(fresh) /\ picked = Len(urls) /\ left = Len(out)
      BY <1>0, <1>4, <1>10
    <2>2. new <= all /\ picked + left <= new
      BY <1>0, <1>9, <1>10, <2>1
    <2>3. /\ row.discovered = all /\ row.notArticles = 0 /\ row.stale \in Nat
          /\ row.already = all - new /\ Len(row.picked) = picked
          /\ row.screened = left /\ row.deferred = new - picked - left
      BY <1>0, <1>11, <2>1
    <2> QED BY <2>2, <2>3 DEF RowWell
  <1>13. PicksWell(row, one.urls, req, screen)
    <2>1. ToSet(row.picked) \subseteq ToSet(from) /\ ToSet(from) \subseteq one.urls
      BY <1>0, <1>9, <1>10, <1>11
    <2>2. screen = "ok" => \A u \in ToSet(from) : ~LeftOut(u, req.edition, exempt)
      BY <1>5, <1>9
    <2>3. \A u : LeftOut(u, req.edition, Exempt(req, row)) <=> LeftOut(u, req.edition, exempt)
      BY <1>11 DEF Exempt, exempt, LeftOut
    <2> QED BY <2>1, <2>2, <2>3 DEF PicksWell
  <1> QED BY <1>12, <1>13 DEF row

\* Each article behind the trends is in one of its places.
LEMMA PlacesAreAll ==
  ASSUME NEW items, IsSequence(items), NEW req
  PROVE  LET Of(place) == Cardinality(Placed(items, req, {}, place)) IN
         /\ Of("not_article") \in Nat /\ Of("stale") \in Nat /\ Of("new") \in Nat
         /\ Of("not_article") + Of("stale") + Of("new") = Len(items)
  <1> DEFINE A == Placed(items, req, {}, "not_article")
             B == Placed(items, req, {}, "stale")
             C == Placed(items, req, {}, "new")
             S == DOMAIN items
  <1>1. S = 1..Len(items) /\ Len(items) \in Nat
    BY DEF IsSequence
  <1>2. IsFiniteSet(S) /\ Cardinality(S) = Len(items)
    BY <1>1, HowMany
  <1>3. (A \cup B) \cup C = S
    <2>1. \A i \in S : Place(items[i], req, {}) \in {"not_article", "stale", "new"}
      BY PlaceIs
    <2> QED BY <2>1 DEF Placed
  <1>4. A \cap B = {} /\ (A \cup B) \cap C = {}
    BY DEF Placed
  <1> HIDE DEF A, B, C, S
  <1>5. Cardinality(A \cup B) + Cardinality(C) = Cardinality(S) /\ Cardinality(A \cup B) \in Nat
        /\ Cardinality(C) \in Nat
    BY <1>2, <1>3, <1>4, Halves
  <1>6. IsFiniteSet(A \cup B)
    BY <1>2, <1>3, FS_Subset
  <1>7. Cardinality(A) + Cardinality(B) = Cardinality(A \cup B) /\ Cardinality(A) \in Nat
        /\ Cardinality(B) \in Nat
    BY <1>4, <1>6, Halves
  <1>8. Cardinality(A) + Cardinality(B) + Cardinality(C) = Len(items)
    BY <1>2, <1>5, <1>7
  <1> QED BY <1>5, <1>7, <1>8 DEF A, B, C

\* The row of a signal.
LEMMA SharedIs ==
  ASSUME NEW req \in Request, req.lens = "trending", NEW one, OneFound(one, "trending"),
         OneBehind(one, req), NEW screen
  PROVE  RowWell(Shared(one, req, screen), "trending")
         /\ PicksWell(Shared(one, req, screen), one.urls, req, screen)
  <1> DEFINE items == one.all
             fresh == one.fresh
             As(place) == Cardinality(Placed(items, req, {}, place))
             ins == {i \in DOMAIN fresh : screen = "ok" => ~LeftOut(fresh[i].url, req.edition, FALSE)}
             stays == At(fresh, ins)
             share == {i \in DOMAIN stays :
                         Cardinality({j \in 1..(i - 1) : stays[j].trend = stays[i].trend}) < req.per}
             took == At(stays, share)
             urls == [i \in DOMAIN took |-> took[i].url]
             row == Shared(one, req, screen)
  <1>0. /\ IsSequence(fresh) /\ Len(fresh) \in Nat /\ IsSequence(items) /\ UrlsOf(fresh) = one.urls
        /\ Len(fresh) <= As("new")
    BY DEF OneFound, OneBehind
  <1>1. row = [from |-> one.from, discovered |-> Len(items), notArticles |-> As("not_article"), stale |-> As("stale"),
               already |-> As("new") - Len(fresh), picked |-> urls, screened |-> Len(fresh) - Len(stays),
               deferred |-> Len(stays) - Len(took)]
    BY Zenon DEF Shared, Row, TrendScreen, Where, Placed
  <1>2. /\ As("not_article") \in Nat /\ As("stale") \in Nat /\ As("new") \in Nat
        /\ As("not_article") + As("stale") + As("new") = Len(items)
    BY <1>0, PlacesAreAll
  <1> HIDE DEF As, items, ins
  <1>3. /\ IsSequence(stays) /\ ToSet(stays) \subseteq ToSet(fresh) /\ Len(stays) \in Nat /\ Len(stays) <= Len(fresh)
        /\ \A x \in ToSet(stays) : \E i \in DOMAIN fresh \cap ins : x = fresh[i]
    <2>1. IsSequence(fresh)
      BY <1>0
    <2> HIDE DEF fresh
    <2> QED BY ONLY <2>1, TakenIs
  <1>4. screen = "ok" => \A x \in ToSet(stays) : ~LeftOut(x.url, req.edition, FALSE)
    <2>1. screen = "ok" => \A i \in ins : ~LeftOut(fresh[i].url, req.edition, FALSE)
      BY DEF ins
    <2> QED BY <1>3, <2>1
  <1> HIDE DEF stays, share, fresh
  <1>5. IsSequence(took) /\ ToSet(took) \subseteq ToSet(stays) /\ Len(took) \in Nat /\ Len(took) <= Len(stays)
    <2>1. IsSequence(stays)
      BY <1>3
    <2> QED BY <2>1, TakenIs
  <1> HIDE DEF took
  <1>6. Len(urls) = Len(took) /\ ToSet(urls) \subseteq UrlsOf(took)
    <2>1. DOMAIN took = 1..Len(took) /\ \A i \in DOMAIN took : took[i] \in ToSet(took)
      BY <1>5 DEF IsSequence, ToSet
    <2>2. DOMAIN urls = 1..Len(took) /\ urls = [i \in 1..Len(took) |-> urls[i]]
          /\ \A i \in DOMAIN urls : urls[i] \in UrlsOf(took)
      BY <2>1 DEF UrlsOf
    <2> HIDE DEF urls
    <2>3. Len(urls) = Len(took)
      BY <1>5, <2>2, AfterNothing
    <2> QED BY <2>2, <2>3 DEF ToSet
  <1> HIDE DEF urls
  <1>7. UrlsOf(took) \subseteq one.urls
    BY <1>0, <1>3, <1>5 DEF UrlsOf
  <1>8. screen = "ok" => \A u \in UrlsOf(took) : ~LeftOut(u, req.edition, FALSE)
    BY <1>4, <1>5 DEF UrlsOf
  <1>9. /\ row.discovered = Len(items) /\ row.notArticles = As("not_article") /\ row.stale = As("stale")
        /\ row.already = As("new") - Len(fresh) /\ row.picked = urls
        /\ row.screened = Len(fresh) - Len(stays) /\ row.deferred = Len(stays) - Len(took)
    BY <1>1
  <1> HIDE DEF row
  <1>10. RowWell(row, "trending")
    <2>1. PICK others, old, new, offered, left, shared \in Nat :
            /\ others = As("not_article") /\ old = As("stale") /\ new = As("new")
            /\ offered = Len(fresh) /\ left = Len(stays) /\ shared = Len(took)
      BY <1>0, <1>2, <1>3, <1>5
    <2>2. offered <= new /\ left <= offered /\ shared <= left
      BY <1>0, <1>3, <1>5, <2>1
    <2>3. /\ row.discovered = others + old + new /\ row.notArticles = others /\ row.stale = old
          /\ row.already = new - offered /\ Len(row.picked) = shared
          /\ row.screened = offered - left /\ row.deferred = left - shared
      BY <1>2, <1>6, <1>9, <2>1
    <2> QED BY <2>2, <2>3 DEF RowWell
  <1>11. PicksWell(row, one.urls, req, screen)
    <2>1. ToSet(row.picked) \subseteq UrlsOf(took)
      BY <1>6, <1>9
    <2>2. \A u : LeftOut(u, req.edition, Exempt(req, row)) <=> LeftOut(u, req.edition, FALSE)
      BY DEF Exempt, LeftOut
    <2> QED BY <1>7, <1>8, <2>1, <2>2 DEF PicksWell
  <1> QED BY <1>10, <1>11 DEF row

\* The rows of a round.
LEMMA RowsAre ==
  ASSUME NEW req \in Request, NEW known, NEW found, FoundWell(found, req, known), NEW screen
  PROVE  LET rows == RowsOf(found, req, screen) IN
         /\ IsSequence(rows) /\ DOMAIN rows = DOMAIN found
         /\ \A i \in DOMAIN rows : RowWell(rows[i], req.lens) /\ PicksWell(rows[i], found[i].urls, req, screen)
  <1> DEFINE rows == [i \in DOMAIN found |-> IF req.lens = "topics" THEN Picked(found[i], req, screen)
                                             ELSE Shared(found[i], req, screen)]
  <1>0. req.lens \in {"topics", "trending"}
    BY DEF Request
  <1>1. << >> \o rows = rows /\ IsSequence(rows) /\ DOMAIN rows = DOMAIN found
    <2>1. rows = [i \in DOMAIN found |-> rows[i]] /\ IsSequence(found)
      BY DEF FoundWell
    <2> HIDE DEF rows
    <2> QED BY <2>1, EachIs
  <1>2. RowsOf(found, req, screen) = << >> \o rows
    BY Zenon DEF RowsOf, Each
  <1>3. ASSUME NEW i \in DOMAIN found
        PROVE  RowWell(rows[i], req.lens) /\ PicksWell(rows[i], found[i].urls, req, screen)
    <2>1. OneFound(found[i], req.lens) /\ OneBehind(found[i], req)
      BY DEF FoundWell
    <2>2. CASE req.lens = "topics"
      <3>1. rows[i] = Picked(found[i], req, screen)
        BY <2>2
      <3> HIDE DEF rows
      <3> QED BY <2>1, <2>2, <3>1, PickedIs
    <2>3. CASE req.lens = "trending"
      <3>1. rows[i] = Shared(found[i], req, screen)
        BY <2>3
      <3> HIDE DEF rows
      <3> QED BY <2>1, <2>3, <3>1, SharedIs
    <2> QED BY <1>0, <2>2, <2>3
  <1> HIDE DEF rows
  <1> QED BY <1>1, <1>2, <1>3

\* What an order lists: each candidate once.
LEMMA OrderIs ==
  ASSUME NEW rows, NEW all \in Orders(rows)
  PROVE  /\ Len(all) = Cardinality(Candidates(rows)) /\ DOMAIN all = 1..Len(all) /\ Len(all) \in Nat
         /\ \A i \in DOMAIN all : all[i] \in Candidates(rows)
         /\ \A i, j \in DOMAIN all : all[i] = all[j] => i = j
  <1> DEFINE S == Candidates(rows)
             D == 1..Cardinality(S)
  <1>1. S \subseteq Links
    BY DEF Candidates
  <1>2. Cardinality(S) \in Nat
    BY <1>1, DiscoveryAssumption, FS_Subset, FS_CardinalityType
  <1>3. all \in [D -> S] /\ \A i, j \in D : i # j => all[i] # all[j]
    BY DEF Orders, SetToSeqs
  <1> HIDE DEF S
  <1>4. Len(all) = Cardinality(S)
    <2>1. all \in Seq(S)
      BY <1>2, <1>3
    <2>2. DOMAIN all = 1..Cardinality(S) /\ DOMAIN all = 1..Len(all) /\ Len(all) \in Nat
      BY <1>3, <2>1
    <2> QED BY <1>2, <2>2
  <1> QED BY <1>2, <1>3, <1>4 DEF S

\* The first n of a sequence and the others are the sequence.
LEMMA FirstAndRest ==
  ASSUME NEW S, NEW s \in Seq(S), NEW n \in Nat
  PROVE  /\ FirstN(s, n) \o SubSeq(s, n + 1, Len(s)) = s
         /\ FirstN(s, n) \in Seq(S) /\ SubSeq(s, n + 1, Len(s)) \in Seq(S)
  <1>0. Len(s) \in Nat /\ \A i \in 1..Len(s) : s[i] \in S
    OBVIOUS
  <1>1. SubSeq(s, n + 1, Len(s)) \in Seq(S)
    <2>1. \A i \in (n + 1)..Len(s) : s[i] \in S
      BY <1>0
    <2> QED BY <1>0, <2>1, SubSeqProperties
  <1>2. FirstN(s, n) \in Seq(S)
    <2>1. IsSequence(s) /\ ToSet(s) \subseteq S
      BY OfItsOwn
    <2>2. IsSequence(FirstN(s, n)) /\ ToSet(FirstN(s, n)) \subseteq S
      BY <2>1, FirstNIs
    <2> QED BY <2>2, OfMore
  <1>3. SubSeq(s, 1, Len(s)) = s
    BY <1>0
  <1>4. CASE Len(s) < n
    <2>1. FirstN(s, n) = s
      BY <1>3, <1>4 DEF FirstN
    <2>2. Len(SubSeq(s, n + 1, Len(s))) = 0
      <3>1. \A i \in (n + 1)..Len(s) : s[i] \in S
        BY <1>0
      <3>2. Len(SubSeq(s, n + 1, Len(s))) = IF n + 1 <= Len(s) THEN Len(s) - (n + 1) + 1 ELSE 0
        BY <1>0, <3>1, SubSeqProperties
      <3> QED BY <1>0, <1>4, <3>2
    <2>3. SubSeq(s, n + 1, Len(s)) = << >>
      BY <1>1, <2>2, EmptySeq
    <2> QED BY <1>1, <1>2, <2>1, <2>3, ConcatEmptySeq
  <1>5. CASE ~(Len(s) < n)
    <2>1. FirstN(s, n) = SubSeq(s, 1, n)
      BY <1>5 DEF FirstN
    <2>2. 1 \in 1..Len(s) + 1 /\ n \in (1 - 1)..Len(s) /\ Len(s) \in n..Len(s)
      BY <1>0, <1>5
    <2>3. SubSeq(s, 1, n) \o SubSeq(s, n + 1, Len(s)) = SubSeq(s, 1, Len(s))
      BY <2>2, ConcatAdjacentSubSeq
    <2> QED BY <1>1, <1>2, <1>3, <2>1, <2>3
  <1> QED BY <1>4, <1>5

-----------------------------------------------------------------------------
(* Each article that a round met keeps its place. *)

\* What the screen left in, where it was reached.
LeftIn(rows, req, u) ==
  \E k \in DOMAIN rows : /\ u \in ToSet(rows[k].picked)
                         /\ ~LeftOut(u, req.edition, Exempt(req, rows[k]))

\* What a round offers, of what it met: `all` is what is in view and in reserve.
OfferWell(rows, req, known, screen, all) ==
  /\ \A i \in DOMAIN rows : RowWell(rows[i], req.lens)
  /\ Len(all) = Cardinality(UNION {ToSet(rows[i].picked) : i \in DOMAIN rows})
  /\ \A i, j \in DOMAIN all : Key(all[i]) = Key(all[j]) => i = j
  /\ \A i \in DOMAIN all : /\ Key(all[i]) \notin known
                           /\ screen = "ok" => LeftIn(rows, req, all[i])
PlaceWell(r) ==
  /\ {"rows", "req", "known", "screen"} \subseteq DOMAIN r
  /\ OfferWell(r.rows, r.req, r.known, r.screen, r.shown \o r.reserve)

\* Every round, in memory, in hand or on disk.
PlacesInv == \A r \in AllRounds : PlaceWell(r)

\* What a thread that makes a round, or ingests, has found.
ReadWell(th) ==
  /\ {"at", "req", "known", "found"} \subseteq DOMAIN th
  /\ th.at \in {"reading", "read"} => th.req \in Request
  /\ th.at = "read" => FoundWell(th.found, th.req, th.known)
ReadInv == \A t \in Threads : ReadWell(threads[t])

\* A round is made of what is new, and only ever moved from the reserve into view.
PlaceInv == ShownInv /\ PlacesInv /\ ReadInv

\* What the invariant is for.
LEMMA PlaceImplies == PlaceInv => EveryArticleHasItsPlace
  <1> SUFFICES ASSUME PlacesInv PROVE EveryArticleHasItsPlace
    BY DEF PlaceInv
  <1>1. EveryArticleIsAccountedFor
    BY DEF PlacesInv, PlaceWell, OfferWell, RowWell, EveryArticleIsAccountedFor
  <1>2. OffersOnlyWhatIsNew
    BY DEF PlacesInv, PlaceWell, OfferWell, LeftIn, OffersOnlyWhatIsNew
  <1> QED BY <1>1, <1>2 DEF EveryArticleHasItsPlace

\* There is no round.
LEMMA PlaceInit == Init => PlaceInv
  <1> SUFFICES ASSUME Init PROVE PlaceInv
    OBVIOUS
  <1>1. objects = << >> /\ disk = [i \in Ids |-> NoRound] /\ threads = [t \in Threads |-> Idle]
    BY DEF Init
  <1>2. AllRounds = {}
    BY <1>1 DEF AllRounds
  <1>3. ReadInv
    BY <1>1 DEF ReadInv, ReadWell, Idle
  <1> QED BY <1>2, <1>3, ShownInit DEF PlaceInv, PlacesInv

\* What is offered, of the rows of what was found, in an order.
LEMMA NewOffer ==
  ASSUME NEW req \in Request, NEW known, NEW found, FoundWell(found, req, known), NEW screen,
         NEW all \in Orders(RowsOf(found, req, screen))
  PROVE  OfferWell(RowsOf(found, req, screen), req, known, screen, all)
  <1> DEFINE rows == RowsOf(found, req, screen)
  <1>1. /\ DOMAIN rows = DOMAIN found
        /\ \A i \in DOMAIN rows : RowWell(rows[i], req.lens) /\ PicksWell(rows[i], found[i].urls, req, screen)
    BY RowsAre
  <1>2. /\ Len(all) = Cardinality(Candidates(rows))
        /\ \A i \in DOMAIN all : all[i] \in Candidates(rows)
        /\ \A i, j \in DOMAIN all : all[i] = all[j] => i = j
    BY OrderIs
  <1> HIDE DEF rows
  <1>3. \A i \in DOMAIN rows : /\ ToSet(rows[i].picked) \subseteq found[i].urls
                               /\ found[i].urls \subseteq Links
                               /\ \A u \in found[i].urls : Key(u) \notin known
    BY <1>1 DEF PicksWell, FoundWell
  <1>4. Candidates(rows) = UNION {ToSet(rows[i].picked) : i \in DOMAIN rows}
    BY <1>3 DEF Candidates
  <1>5. ASSUME NEW u \in Candidates(rows), NEW v \in Candidates(rows), Key(u) = Key(v)
        PROVE  u = v
    <2>1. PICK i, j \in DOMAIN rows : u \in found[i].urls /\ v \in found[j].urls
      BY <1>3, <1>5 DEF Candidates
    <2>2. Apart(found[i].urls \cup found[j].urls)
      BY <1>1, <2>1 DEF FoundWell
    <2> QED BY <1>5, <2>1, <2>2 DEF Apart
  <1>6. \A u \in Candidates(rows) : /\ Key(u) \notin known
                                    /\ screen = "ok" => LeftIn(rows, req, u)
    BY <1>1, <1>3 DEF Candidates, PicksWell, LeftIn
  <1>7. \A i, j \in DOMAIN all : Key(all[i]) = Key(all[j]) => i = j
    BY <1>2, <1>5
  <1>8. OfferWell(rows, req, known, screen, all)
    BY <1>1, <1>2, <1>4, <1>6, <1>7 DEF OfferWell
  <1> QED BY <1>8 DEF rows

\* No round but one is new, when one is saved.
LEMMA SaveAdds ==
  ASSUME KeptInv, PlacesInv, NEW obj, NEW round, Save(obj, round), PlaceWell(round),
         obj \in DOMAIN objects \/ obj = Len(objects) + 1
  PROVE  PlacesInv'
  <1>0. IsSequence(objects) /\ Len(objects) \in Nat /\ DOMAIN objects = 1..Len(objects)
    BY AppendIs DEF KeptInv
  <1>1. \A i \in DOMAIN objects' : objects'[i] = round \/ (i \in DOMAIN objects /\ objects'[i] = objects[i])
    <2>1. CASE obj \in DOMAIN objects
      <3>1. objects' = [objects EXCEPT ![obj] = round]
        BY <2>1 DEF Save
      <3> QED BY <1>0, <2>1, <3>1, ExceptIs
    <2>2. CASE obj \notin DOMAIN objects
      <3>1. objects' = Append(objects, round)
        BY <2>2 DEF Save
      <3>2. /\ DOMAIN objects' = 1..(Len(objects) + 1) /\ objects'[Len(objects) + 1] = round
            /\ \A i \in DOMAIN objects : objects'[i] = objects[i]
        BY <1>0, <3>1, AppendIs
      <3> QED BY <1>0, <3>2
    <2> QED BY <2>1, <2>2
  <1>2. \A i \in Ids : disk'[i] = round \/ disk'[i] = disk[i]
    <2>1. disk' = [disk EXCEPT ![round.id] = round] \/ UNCHANGED disk
      BY DEF Save
    <2> QED BY <2>1 DEF KeptInv
  <1>3. AllRounds' \subseteq AllRounds \cup {round}
    BY <1>1, <1>2 DEF AllRounds
  <1> QED BY <1>3 DEF PlacesInv

\* No round is new when one is looked up.
LEMMA GotAdds ==
  ASSUME KeptInv, PlacesInv, NEW id \in Ids, objects' = Got(id).all, UNCHANGED disk
  PROVE  PlacesInv'
  <1>0. IsSequence(objects) /\ Len(objects) \in Nat /\ DOMAIN objects = 1..Len(objects)
    BY AppendIs DEF KeptInv
  <1>1. objects' = objects \/ objects' = Append(objects, disk[id])
    BY DEF Got
  <1>2. \A i \in DOMAIN objects' : objects'[i] = disk[id] \/ (i \in DOMAIN objects /\ objects'[i] = objects[i])
    <2>1. CASE objects' = Append(objects, disk[id])
      <3>1. /\ DOMAIN objects' = 1..(Len(objects) + 1) /\ objects'[Len(objects) + 1] = disk[id]
            /\ \A i \in DOMAIN objects : objects'[i] = objects[i]
        BY <1>0, <2>1, AppendIs
      <3> QED BY <1>0, <3>1
    <2> QED BY <1>1, <2>1
  <1>3. AllRounds' \subseteq AllRounds
    BY <1>2 DEF AllRounds
  <1> QED BY <1>3 DEF PlacesInv

\* Nothing that is kept changes.
LEMMA KeptSame == ASSUME PlacesInv, UNCHANGED kept PROVE PlacesInv'
  BY DEF PlacesInv, AllRounds, kept

\* A round in hand is well made and its articles have their places.
LEMMA InHandIs ==
  ASSUME PlaceInv, NEW obj \in DOMAIN objects
  PROVE  WellMade(objects[obj]) /\ PlaceWell(objects[obj])
  <1>1. WellMade(objects[obj])
    BY DEF PlaceInv, ShownInv, KeptInv
  <1>2. objects[obj] # NoRound
    <2>1. objects[obj].id # 0
      BY <1>1, RoundsAssumption DEF WellMade, Ids
    <2> QED BY <2>1 DEF NoRound
  <1>3. objects[obj] \in AllRounds
    BY <1>2 DEF AllRounds
  <1> QED BY <1>1, <1>3 DEF PlaceInv, PlacesInv

\* A request thread goes on.
LEMMA ThreadReads ==
  ASSUME PlaceInv, NEW t \in Threads, NEW th, Go(t, th), ReadWell(th)
  PROVE  ReadInv'
  <1>1. DOMAIN threads = Threads /\ threads' = [threads EXCEPT ![t] = th]
    BY DEF PlaceInv, ShownInv, HandsInv, Go
  <1> QED BY <1>1 DEF ReadInv, PlaceInv

\* It goes on to what has to do with a round that is made, or to nothing.
LEMMA NotReading ==
  ASSUME NEW th, {"at", "req", "known", "found"} \subseteq DOMAIN th, th.at \notin {"reading", "read"}
  PROVE  ReadWell(th)
  BY DEF ReadWell

\* A round is asked for.
LEMMA StartPlaces == ASSUME PlaceInv, NEW t \in Threads, Start(t) PROVE PlacesInv' /\ ReadInv'
  <1>1. PICK r \in Requests : \E no, known, obj :
          Go(t, [Idle EXCEPT !.at = "reading", !.no = no, !.what = r.what, !.req = r.req,
                             !.known = known, !.obj = obj])
    BY DEF Start
  <1>2. PICK no, known, obj :
          Go(t, [Idle EXCEPT !.at = "reading", !.no = no, !.what = r.what, !.req = r.req,
                             !.known = known, !.obj = obj])
    BY <1>1
  <1> DEFINE th == [Idle EXCEPT !.at = "reading", !.no = no, !.what = r.what, !.req = r.req,
                                !.known = known, !.obj = obj]
  <1>3. r.req \in Request
    BY RoundsAssumption
  <1>4. ReadWell(th)
    BY <1>3 DEF ReadWell, Idle
  <1> HIDE DEF th
  <1>5. ReadInv'
    BY <1>2, <1>4, ThreadReads DEF th
  <1>6. UNCHANGED kept
    BY DEF Start
  <1> QED BY <1>5, <1>6, KeptSame DEF PlaceInv

\* Its sources or signals are read: whatever is down, what they gave is well found.
LEMMA ReadPlaces == ASSUME PlaceInv, NEW t \in Threads, Read(t) PROVE PlacesInv' /\ ReadInv'
  <1>1. threads[t].req \in Request /\ {"at", "req", "known", "found"} \subseteq DOMAIN threads[t]
    BY DEF Read, PlaceInv, ReadInv, ReadWell
  <1>2. PICK known, down : Go(t, [threads[t] EXCEPT !.at = "read", !.known = known,
                                    !.found = FoundIn(threads[t].req, known, down)])
    BY DEF Read
  <1>3. PICK found : found = FoundIn(threads[t].req, known, down)
    OBVIOUS
  <1> DEFINE th == [threads[t] EXCEPT !.at = "read", !.known = known, !.found = found]
  <1>4. FoundWell(found, threads[t].req, known)
    <2>1. threads[t].req.lens \in {"topics", "trending"}
      BY <1>1 DEF Request
    <2> QED BY <1>1, <1>3, <2>1, TopicsFound, TrendsFound
  <1>5. /\ {"at", "req", "known", "found"} \subseteq DOMAIN th /\ th.at = "read"
        /\ th.req = threads[t].req /\ th.known = known /\ th.found = found
    BY <1>1
  <1>6. Go(t, th)
    BY <1>2, <1>3
  <1> HIDE DEF th
  <1>7. ReadWell(th)
    BY <1>1, <1>4, <1>5 DEF ReadWell
  <1>8. ReadInv'
    BY <1>6, <1>7, ThreadReads
  <1>9. UNCHANGED kept
    BY DEF Read
  <1> QED BY <1>8, <1>9, KeptSame DEF PlaceInv

\* The round is made of what was found.
LEMMA OfferPlaces == ASSUME PlaceInv, NEW t \in Threads, Offer(t) PROVE PlacesInv' /\ ReadInv'
  <1>1. threads[t].req \in Request /\ FoundWell(threads[t].found, threads[t].req, threads[t].known)
    BY DEF Offer, PlaceInv, ReadInv, ReadWell
  <1>2. CASE threads[t].what = "ingest"
    <2>1. UNCHANGED kept /\ \E no, left :
            Go(t, [Idle EXCEPT !.at = "queueing", !.no = no, !.left = left])
      BY <1>2 DEF Offer
    <2>2. PICK no, left : Go(t, [Idle EXCEPT !.at = "queueing", !.no = no, !.left = left])
      BY <2>1
    <2>3. ReadWell([Idle EXCEPT !.at = "queueing", !.no = no, !.left = left])
      BY DEF ReadWell, Idle
    <2>4. ReadInv'
      BY <2>2, <2>3, ThreadReads
    <2> QED BY <2>1, <2>4, KeptSame DEF PlaceInv
  <1>3. CASE threads[t].what # "ingest"
    <2>1. PICK screen \in {"ok", "unavailable"} :
            LET rows == RowsOf(threads[t].found, threads[t].req, screen)
            IN \E all \in Orders(rows) :
                 /\ Go(t, Idle)
                 /\ Save(Len(objects) + 1,
                      [id |-> threads[t].obj, req |-> threads[t].req, rows |-> rows,
                       known |-> threads[t].known, screen |-> screen, shown |-> FirstN(all, Listed),
                       reserve |-> SubSeq(all, Listed + 1, Len(all)),
                       ai |-> NotChosen, queued |-> NotQueued])
      BY <1>3, Zenon DEF Offer
    <2> DEFINE rows == RowsOf(threads[t].found, threads[t].req, screen)
    <2>2. PICK all \in Orders(rows) :
                 /\ Go(t, Idle)
                 /\ Save(Len(objects) + 1,
                      [id |-> threads[t].obj, req |-> threads[t].req, rows |-> rows,
                       known |-> threads[t].known, screen |-> screen, shown |-> FirstN(all, Listed),
                       reserve |-> SubSeq(all, Listed + 1, Len(all)),
                       ai |-> NotChosen, queued |-> NotQueued])
      BY <2>1
    <2>3. OfferWell(rows, threads[t].req, threads[t].known, screen, all)
      BY <1>1, NewOffer
    <2>4. FirstN(all, Listed) \o SubSeq(all, Listed + 1, Len(all)) = all
      <3>1. all \in Seq(Links) /\ Listed \in Nat
        BY OrderIsSequence, RoundsAssumption
      <3> HIDE DEF rows
      <3> QED BY <3>1, FirstAndRest
    <2> DEFINE first == FirstN(all, Listed)
               rest == SubSeq(all, Listed + 1, Len(all))
               round == [id |-> threads[t].obj, req |-> threads[t].req, rows |-> rows,
                         known |-> threads[t].known, screen |-> screen, shown |-> first,
                         reserve |-> rest, ai |-> NotChosen, queued |-> NotQueued]
    <2>5. Save(Len(objects) + 1, round) /\ Go(t, Idle)
      BY <2>2
    <2>6. first \o rest = all
      BY <2>4
    <2> HIDE DEF rows, first, rest
    <2>7. PlaceWell(round)
      BY <2>3, <2>6 DEF PlaceWell
    <2> HIDE DEF round
    <2>8. PlacesInv'
      BY <2>5, <2>7, SaveAdds DEF PlaceInv, ShownInv
    <2>9. ReadWell(Idle)
      BY DEF ReadWell, Idle
    <2> QED BY <2>5, <2>8, <2>9, ThreadReads
  <1> QED BY <1>2, <1>3

\* A round is looked up, to see more of it, for the AI, or to send some of it.
LEMMA AskPlaces ==
  ASSUME PlaceInv, NEW t \in Threads, AskMore(t) \/ AskAI(t) \/ AskQueue(t)
  PROVE  PlacesInv' /\ ReadInv'
  <1>1. PICK id \in Ids : objects' = Got(id).all /\ UNCHANGED disk
    BY DEF AskMore, AskAI, AskQueue, OnRound
  <1>2. PlacesInv'
    BY <1>1, GotAdds DEF PlaceInv, ShownInv
  <1>3. \/ UNCHANGED threads
        \/ \E obj : \/ Go(t, [Idle EXCEPT !.at = "more", !.obj = obj])
                    \/ Go(t, [Idle EXCEPT !.at = "starting", !.obj = obj])
        \/ \E obj, no, urls, left : Go(t, [Idle EXCEPT !.at = "queueing", !.obj = obj, !.no = no,
                                                       !.urls = urls, !.left = left])
    <2>1. CASE AskMore(t)
      <3>1. \/ UNCHANGED threads
            \/ \E i : Go(t, [Idle EXCEPT !.at = "more", !.obj = Got(i).obj])
        BY <2>1, Zenon DEF AskMore
      <3> QED BY <3>1
    <2>2. CASE AskAI(t)
      <3>1. \/ UNCHANGED threads
            \/ \E i : Go(t, [Idle EXCEPT !.at = "starting", !.obj = Got(i).obj])
        BY <2>2, Zenon DEF AskAI
      <3> QED BY <3>1
    <2>3. CASE AskQueue(t)
      <3>1. \/ UNCHANGED threads
            \/ \E i, no, urls : Go(t, [Idle EXCEPT !.at = "queueing", !.obj = Got(i).obj, !.no = no,
                                                  !.urls = urls, !.left = SetToSeq(urls)])
        BY <2>3, Zenon DEF AskQueue
      <3> QED BY <3>1
    <2> QED BY <2>1, <2>2, <2>3
  <1>4. CASE UNCHANGED threads
    BY <1>2, <1>4 DEF PlaceInv, ReadInv
  <1>5. CASE \E obj : \/ Go(t, [Idle EXCEPT !.at = "more", !.obj = obj])
                      \/ Go(t, [Idle EXCEPT !.at = "starting", !.obj = obj])
    <2>1. PICK obj : \/ Go(t, [Idle EXCEPT !.at = "more", !.obj = obj])
                     \/ Go(t, [Idle EXCEPT !.at = "starting", !.obj = obj])
      BY <1>5
    <2>2. /\ ReadWell([Idle EXCEPT !.at = "more", !.obj = obj])
          /\ ReadWell([Idle EXCEPT !.at = "starting", !.obj = obj])
      BY DEF ReadWell, Idle
    <2> QED BY <1>2, <2>1, <2>2, ThreadReads
  <1>6. CASE \E obj, no, urls, left : Go(t, [Idle EXCEPT !.at = "queueing", !.obj = obj, !.no = no,
                                                         !.urls = urls, !.left = left])
    <2>1. PICK obj, no, urls, left : Go(t, [Idle EXCEPT !.at = "queueing", !.obj = obj, !.no = no,
                                                        !.urls = urls, !.left = left])
      BY <1>6
    <2>2. ReadWell([Idle EXCEPT !.at = "queueing", !.obj = obj, !.no = no, !.urls = urls, !.left = left])
      BY DEF ReadWell, Idle
    <2> QED BY <1>2, <2>1, <2>2, ThreadReads
  <1> QED BY <1>3, <1>4, <1>5, <1>6

\* Three sequences of links one after the other.
LEMMA PutTogether ==
  \A first, more, rest \in Seq(Links) : (first \o more) \o rest = first \o (more \o rest)
  BY ConcatAssociative

\* What comes into view was in reserve: the round offers what it did.
LEMMA ShowMorePlaces == ASSUME PlaceInv, NEW t \in Threads, ShowMore(t) PROVE PlacesInv' /\ ReadInv'
  <1> DEFINE obj == threads[t].obj
             round == objects[obj]
             room == MaxListed - Len(round.shown)
             new == [round EXCEPT !.shown = @ \o FirstN(round.reserve, room),
                                  !.reserve = SubSeq(@, room + 1, Len(@))]
  <1>1. Go(t, Idle) /\ threads[t].at = "more" /\ (UNCHANGED kept \/ (room > 0 /\ Save(obj, new)))
    BY DEF ShowMore
  <1>2. ReadInv'
    BY <1>1, ThreadReads DEF ReadWell, Idle
  <1>3. obj \in DOMAIN objects
    BY <1>1 DEF PlaceInv, ShownInv, HandsInv, InHand
  <1>4. WellMade(round) /\ PlaceWell(round)
    BY <1>3, InHandIs
  <1>5. CASE UNCHANGED kept
    BY <1>2, <1>5, KeptSame DEF PlaceInv
  <1>6. CASE room > 0 /\ Save(obj, new)
    <2>1. round.shown \in Seq(Links) /\ round.reserve \in Seq(Links)
          /\ {"shown", "reserve", "rows", "req", "known", "screen"} \subseteq DOMAIN round
      BY <1>4 DEF WellMade, PlaceWell
    <2>2. room \in Nat
      BY <1>6, <2>1, RoundsAssumption
    <2> DEFINE more == FirstN(round.reserve, room)
               rest == SubSeq(round.reserve, room + 1, Len(round.reserve))
    <2> HIDE DEF room, round
    <2>3. more \o rest = round.reserve /\ more \in Seq(Links) /\ rest \in Seq(Links)
      BY <2>1, <2>2, FirstAndRest
    <2>4. new = [round EXCEPT !.shown = round.shown \o more, !.reserve = rest]
      BY <2>1
    <2> HIDE DEF more, rest, new
    <2>5. /\ {"rows", "req", "known", "screen"} \subseteq DOMAIN new /\ new.rows = round.rows
          /\ new.req = round.req /\ new.known = round.known /\ new.screen = round.screen
          /\ new.shown = round.shown \o more /\ new.reserve = rest
      BY <2>1, <2>4
    <2>6. new.shown \o new.reserve = round.shown \o round.reserve
      <3>1. (round.shown \o more) \o rest = round.shown \o (more \o rest)
        BY <2>1, <2>3, PutTogether
      <3> QED BY <2>3, <2>5, <3>1
    <2>7. PlaceWell(new)
      BY <1>4, <2>5, <2>6 DEF PlaceWell
    <2> QED BY <1>2, <1>3, <1>6, <2>7, SaveAdds DEF PlaceInv, ShownInv
  <1> QED BY <1>1, <1>5, <1>6

\* What is written of who chose changes nothing of what is offered.
LEMMA ChosenPlaces ==
  ASSUME NEW r, PlaceWell(r), NEW x
  PROVE  PlaceWell([r EXCEPT !.ai = x]) /\ PlaceWell([r EXCEPT !.queued = x])
  BY DEF PlaceWell

\* An AI selection starts, or a choice was sent and is written.
LEMMA WritePlaces ==
  ASSUME PlaceInv, NEW t \in Threads, StartAI(t) \/ Sent(t)
  PROVE  PlacesInv' /\ ReadInv'
  <1> DEFINE obj == threads[t].obj
  <1>1. \/ UNCHANGED kept
        \/ /\ obj \in DOMAIN objects
           /\ \E x : Save(obj, [objects[obj] EXCEPT !.ai = x]) \/ Save(obj, [objects[obj] EXCEPT !.queued = x])
    <2>1. CASE StartAI(t)
      <3>1. obj \in DOMAIN objects
        BY <2>1 DEF StartAI, PlaceInv, ShownInv, HandsInv, InHand
      <3> QED BY <2>1, <3>1 DEF StartAI
    <2>2. CASE Sent(t) /\ obj # 0
      <3>1. obj \in DOMAIN objects
        BY <2>2 DEF Sent, PlaceInv, ShownInv, HandsInv, InHand, Choice
      <3> QED BY <2>2, <3>1 DEF Sent
    <2>3. CASE Sent(t) /\ obj = 0
      BY <2>3 DEF Sent
    <2> QED BY <2>1, <2>2, <2>3
  <1>2. PlacesInv'
    <2>1. CASE UNCHANGED kept
      BY <2>1, KeptSame DEF PlaceInv
    <2>2. CASE ~UNCHANGED kept
      <3>1. obj \in DOMAIN objects
        BY <1>1, <2>2
      <3>2. PICK new : Save(obj, new) /\ PlaceWell(new)
        BY <1>1, <2>2, <3>1, InHandIs, ChosenPlaces
      <3> HIDE DEF obj
      <3> QED BY <3>1, <3>2, SaveAdds DEF PlaceInv, ShownInv
    <2> QED BY <2>1, <2>2
  <1>3. Go(t, Idle) \/ (threads[t].at = "queueing" /\ Go(t, [threads[t] EXCEPT !.at = "noting"]))
    BY DEF StartAI, Sent
  <1>4. ReadWell(Idle) /\ ReadWell([threads[t] EXCEPT !.at = "noting"])
    <2>1. {"at", "req", "known", "found"} \subseteq DOMAIN threads[t]
      BY DEF PlaceInv, ReadInv, ReadWell
    <2> QED BY <2>1 DEF ReadWell, Idle
  <1> QED BY <1>2, <1>3, <1>4, ThreadReads

\* An article is sent, or the trends are remembered: no round changes.
LEMMA SendPlaces ==
  ASSUME PlaceInv, NEW t \in Threads, Send(t) \/ Note(t)
  PROVE  PlacesInv' /\ ReadInv'
  <1>1. UNCHANGED kept
    BY DEF Send, Note
  <1>2. \E left, started : \/ threads[t].at = "queueing" /\ Go(t, [threads[t] EXCEPT !.left = left, !.started = started])
                           \/ threads[t].at = "queueing" /\ Go(t, [threads[t] EXCEPT !.left = left])
                           \/ Go(t, Idle)
    BY DEF Send, Note
  <1>3. PICK left, started : \/ threads[t].at = "queueing" /\ Go(t, [threads[t] EXCEPT !.left = left, !.started = started])
                             \/ threads[t].at = "queueing" /\ Go(t, [threads[t] EXCEPT !.left = left])
                             \/ Go(t, Idle)
    BY <1>2
  <1>4. {"at", "req", "known", "found"} \subseteq DOMAIN threads[t]
    BY DEF PlaceInv, ReadInv, ReadWell
  <1>5. threads[t].at = "queueing" =>
          /\ ReadWell([threads[t] EXCEPT !.left = left, !.started = started])
          /\ ReadWell([threads[t] EXCEPT !.left = left])
    BY <1>4 DEF ReadWell
  <1>6. ReadWell(Idle)
    BY DEF ReadWell, Idle
  <1> QED BY <1>1, <1>3, <1>5, <1>6, ThreadReads, KeptSame DEF PlaceInv

\* The AI's thread looks a round up, and writes its choice in it.
LEMMA OfSelectionPlaces == ASSUME PlaceInv, OfSelection PROVE PlacesInv' /\ ReadInv'
  <1>1. UNCHANGED threads
    BY DEF OfSelection, OpenAI, Choose, Record, EndAI
  <1>2. ReadInv'
    BY <1>1 DEF PlaceInv, ReadInv
  <1>3. CASE EndAI \/ Choose
    <2>1. UNCHANGED kept
      BY <1>3 DEF EndAI, Choose
    <2> QED BY <1>2, <2>1, KeptSame DEF PlaceInv
  <1>4. CASE OpenAI
    <2>1. ai.obj \in Ids /\ objects' = Got(ai.obj).all /\ UNCHANGED disk
      BY <1>4 DEF OpenAI, PlaceInv, ShownInv, HandsInv, Chosen
    <2> QED BY <1>2, <2>1, GotAdds DEF PlaceInv, ShownInv
  <1>5. CASE Record
    <2>1. ai.obj \in DOMAIN objects
      BY <1>5 DEF Record, PlaceInv, ShownInv, HandsInv, Chosen, Choice
    <2>2. PICK x : Save(ai.obj, [objects[ai.obj] EXCEPT !.ai = x])
      BY <1>5 DEF Record
    <2>3. PlaceWell([objects[ai.obj] EXCEPT !.ai = x])
      BY <2>1, InHandIs, ChosenPlaces
    <2> QED BY <1>2, <2>1, <2>2, <2>3, SaveAdds DEF PlaceInv, ShownInv
  <1> QED BY <1>3, <1>4, <1>5 DEF OfSelection

\* Every step keeps it.
LEMMA PlaceNext == PlaceInv /\ [Next]_vars => PlaceInv'
  <1> SUFFICES ASSUME PlaceInv, [Next]_vars PROVE PlaceInv'
    OBVIOUS
  <1>1. ShownInv'
    BY ShownNext DEF PlaceInv
  <1>2. ASSUME NEW t \in Threads, OfRequest(t) PROVE PlacesInv' /\ ReadInv'
    BY <1>2, StartPlaces, ReadPlaces, OfferPlaces, AskPlaces, ShowMorePlaces, WritePlaces, SendPlaces
       DEF OfRequest
  <1>3. CASE OfSelection
    BY <1>1, <1>3, OfSelectionPlaces DEF PlaceInv
  <1>4. CASE Analysed \/ UNCHANGED vars
    <2>1. UNCHANGED kept /\ UNCHANGED threads
      BY <1>4 DEF Analysed, vars, kept
    <2> QED BY <1>1, <2>1, KeptSame DEF PlaceInv, ReadInv
  <1>5. CASE Crash
    <2>1. objects' = << >> /\ UNCHANGED disk /\ threads' = [t \in Threads |-> Idle]
      BY <1>5 DEF Crash
    <2>2. AllRounds' \subseteq AllRounds
      BY <2>1 DEF AllRounds
    <2>3. ReadWell(Idle)
      BY DEF ReadWell, Idle
    <2> QED BY <1>1, <2>1, <2>2, <2>3 DEF PlaceInv, PlacesInv, ReadInv
  <1> QED BY <1>1, <1>2, <1>3, <1>4, <1>5 DEF Next, PlaceInv

\* Each article that a round met has one place, whatever the sources and signals list
\* and whichever of them are down: the numbers of a row are all there is of them, none
\* is fewer than none, and the list has each candidate once, new when the round was
\* made, and, where the screen was reached, none that its edition leaves out: a positive
\* outlet's are spared in a round of topics, and nobody's in a round of trends.
THEOREM PlacesHold == Spec => []EveryArticleHasItsPlace
  BY PlaceInit, PlaceNext, PlaceImplies, PTL DEF Spec
=============================================================================
