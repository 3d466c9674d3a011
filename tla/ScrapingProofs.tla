-------------------------- MODULE ScrapingProofs ---------------------------
(***************************************************************************)
(* What reads the web keeps its promises.  Claims share the fetch of a      *)
(* page, for any number of calls and pages, any limits and any size of the  *)
(* cache; the counts of the requests survive, and a probe's report says     *)
(* what its requests came to, for any number of sources, pages, runs,       *)
(* failed writes and restarts.                                              *)
(***************************************************************************)
EXTENDS Pages, Probes, FiniteSetTheorems, SequenceTheorems, TLAPS

-----------------------------------------------------------------------------
(* The page cache and its leaders. *)

\* The variables, with as much of their types as is needed: a thread has a place,
\* and a call its pages.
ThreadLike(x) == DOMAIN x = DOMAIN Idle

Shape ==
  /\ DOMAIN call = Calls /\ DOMAIN thread = Threads
  /\ \A t \in Threads : ThreadLike(thread[t])
  /\ \A c \in Calls : "at" \in DOMAIN call[c] /\ "got" \in DOMAIN call[c]

\* Where a thread has the fetch of its page to itself, if it is for evidence.
Leading == Cascading \cup {"toScrape", "landing"}

\* A following thread waits for the thread that fetches its page, or that has still
\* to say what it found.
Followed(t) ==
  thread[t].at = "following" =>
    LET l == thread[t].leader
    IN /\ l \in Threads
       /\ Leads(l, UrlOf(t)) \/ (thread[l].at = "announcing" /\ UrlOf(l) = UrlOf(t))

\* A page has one leader, who waits for nobody, and a call that is not made has no
\* thread.
FetchInv ==
  /\ Shape
  /\ \A c \in Calls : call[c].at = "idle" => \A t \in Threads : t[1] = c => thread[t].at = "idle"
  /\ \A t, k \in Threads : Leads(t, UrlOf(t)) /\ Leads(k, UrlOf(t)) => t = k
  /\ \A t \in Threads : Followed(t)

\* What the invariant is for.
LEMMA FetchImplies == FetchInv => OneFetchPerPage
  BY DEF FetchInv, OneFetchPerPage, Followed

\* Nobody reads anything.
LEMMA FetchInit == Init => FetchInv
  <1> SUFFICES ASSUME Init PROVE FetchInv
    OBVIOUS
  <1>1. \A t \in Threads : thread[t] = Idle /\ Idle.at = "idle"
    BY DEF Init, Idle
  <1>2. \A t \in Threads : thread[t].at \notin Leading /\ thread[t].at # "following"
    BY <1>1 DEF Leading, Cascading
  <1>3. Shape
    BY <1>1 DEF Init, Shape, ThreadLike
  <1>4. \A t \in Threads : \A u : ~Leads(t, u)
    BY <1>2 DEF Leads, Leading
  <1> QED BY <1>1, <1>2, <1>3, <1>4 DEF FetchInv, Followed

\* One thread goes on, and no call changes.
Moves(t) ==
  /\ UNCHANGED call
  /\ DOMAIN thread' = Threads /\ ThreadLike(thread'[t])
  /\ \A k \in Threads \ {t} : thread'[k] = thread[k]
  /\ thread[t].at # "idle"

\* What one thread's move leaves of the rest.
LEMMA MovesOne ==
  ASSUME FetchInv, NEW t \in Threads, Moves(t)
  PROVE  /\ Shape'
         /\ \A c \in Calls : call'[c].at = "idle" =>
              \A k \in Threads : k[1] = c => thread'[k].at = "idle"
         /\ \A k \in Threads : UrlOf(k)' = UrlOf(k)
         /\ \A k \in Threads \ {t} : \A u : Leads(k, u)' <=> Leads(k, u)
  <1>1. Shape'
    BY DEF FetchInv, Shape, Moves
  <1>2. \A c \in Calls : call'[c].at = "idle" =>
          \A k \in Threads : k[1] = c => thread'[k].at = "idle"
    BY DEF FetchInv, Moves
  <1>3. \A k \in Threads : UrlOf(k)' = UrlOf(k)
    BY DEF Moves, UrlOf
  <1>4. \A k \in Threads \ {t} : \A u : Leads(k, u)' <=> Leads(k, u)
    BY <1>3 DEF Moves, Leads, Purpose
  <1> QED BY <1>1, <1>2, <1>3, <1>4

\* A thread that takes no fetch, and leaves its own only to announce it.
LEMMA StepsAside ==
  ASSUME FetchInv, NEW t \in Threads, Moves(t),
         thread[t].at # "announcing", thread'[t].at # "following",
         thread'[t].at \in Leading => thread[t].at \in Leading \/ Purpose(t) # "evidence",
         thread[t].at \in Leading /\ Purpose(t) = "evidence" =>
           thread'[t].at \in Leading \cup {"announcing"}
  PROVE  FetchInv'
  <1>1. \A k \in Threads : UrlOf(k)' = UrlOf(k)
    BY MovesOne
  <1>2. \A k \in Threads : \A u : Leads(k, u)' => Leads(k, u)
    <2>1. \A u : Leads(t, u)' => Leads(t, u)
      BY <1>1 DEF Leads, Leading, Moves, Purpose
    <2> QED BY <2>1, MovesOne
  <1>3. \A k \in Threads : \A u : Leads(k, u) =>
          Leads(k, u)' \/ (thread'[k].at = "announcing" /\ UrlOf(k)' = u)
    <2>1. \A u : Leads(t, u) => Leads(t, u)' \/ (thread'[t].at = "announcing" /\ UrlOf(t)' = u)
      BY <1>1 DEF Leads, Leading, Moves, Purpose
    <2> QED BY <2>1, MovesOne
  <1>4. \A k \in Threads : thread[k].at = "announcing" => thread'[k].at = "announcing"
    BY DEF Moves
  <1>5. ASSUME NEW k \in Threads PROVE Followed(k)'
    <2>1. SUFFICES ASSUME thread'[k].at = "following" PROVE Followed(k)'
      BY DEF Followed
    <2>2. k # t /\ thread'[k] = thread[k] /\ Followed(k)
      BY <2>1 DEF Moves, FetchInv
    <2> QED BY <1>1, <1>3, <1>4, <2>1, <2>2 DEF Followed
  <1> QED BY <1>1, <1>2, <1>5, MovesOne DEF FetchInv

\* A page is led by a thread that found nobody leading it.
LEMMA LeadKeeps == ASSUME FetchInv, NEW t \in Threads, Lead(t) PROVE FetchInv'
  <1>1. Moves(t) /\ thread[t].at = "queued" /\ thread'[t].at = "toScrape"
    BY DEF Lead, Begins, Moves, FetchInv, Shape, ThreadLike, Idle
  <1>2. \A k \in Threads : ~Leads(k, UrlOf(t))
    BY DEF Lead, Pending
  <1>3. \A k \in Threads : UrlOf(k)' = UrlOf(k)
    BY <1>1, MovesOne
  <1>4. \A k \in Threads : \A u : Leads(k, u)' => Leads(k, u) \/ (k = t /\ u = UrlOf(t))
    <2>1. \A u : Leads(t, u)' => u = UrlOf(t)
      BY <1>3 DEF Leads
    <2> QED BY <1>1, <2>1, MovesOne
  <1>5. \A k \in Threads, j \in Threads : Leads(k, UrlOf(k))' /\ Leads(j, UrlOf(k))' => k = j
    BY <1>2, <1>3, <1>4 DEF FetchInv, Leads
  <1>6. ASSUME NEW k \in Threads PROVE Followed(k)'
    <2>1. SUFFICES ASSUME thread'[k].at = "following" PROVE Followed(k)'
      BY DEF Followed
    <2>2. k # t /\ thread'[k] = thread[k] /\ Followed(k)
      BY <1>1, <2>1 DEF Moves, FetchInv
    <2>3. thread[k].leader # t
      BY <1>1, <2>1, <2>2 DEF Followed, Leads, Cascading
    <2>4. thread'[thread[k].leader] = thread[thread[k].leader]
          /\ \A u : Leads(thread[k].leader, u) => Leads(thread[k].leader, u)'
      BY <1>1, <2>1, <2>2, <2>3, MovesOne DEF Moves, Followed
    <2> QED BY <1>3, <2>1, <2>2, <2>4 DEF Followed
  <1> QED BY <1>1, <1>5, <1>6, MovesOne DEF FetchInv

\* Who finds a leader follows it.
LEMMA FollowKeeps == ASSUME FetchInv, NEW t \in Threads, Follow(t) PROVE FetchInv'
  <1>1. PICK l \in Threads : Leads(l, UrlOf(t))
          /\ thread' = [thread EXCEPT ![t].at = "following", ![t].leader = l, ![t].cached = TRUE]
    BY DEF Follow
  <1>2. Moves(t) /\ thread[t].at = "queued" /\ thread'[t].at = "following"
        /\ thread'[t].leader = l
    BY <1>1 DEF Follow, Begins, Moves, FetchInv, Shape, ThreadLike, Idle
  <1>3. \A k \in Threads : UrlOf(k)' = UrlOf(k)
    BY <1>2, MovesOne
  <1>4. \A k \in Threads : \A u : Leads(k, u)' <=> Leads(k, u)
    <2>1. \A u : ~Leads(t, u) /\ ~Leads(t, u)'
      BY <1>2 DEF Leads, Cascading
    <2> QED BY <1>2, <2>1, MovesOne
  <1>5. ASSUME NEW k \in Threads PROVE Followed(k)'
    <2>1. SUFFICES ASSUME thread'[k].at = "following" PROVE Followed(k)'
      BY DEF Followed
    <2>2. CASE k = t
      BY <1>1, <1>2, <1>3, <1>4, <2>2 DEF Followed
    <2>3. CASE k # t
      <3>1. thread'[k] = thread[k] /\ Followed(k)
        BY <1>2, <2>3 DEF Moves, FetchInv
      <3>2. \A j \in Threads : thread[j].at = "announcing" => thread'[j].at = "announcing"
        BY <1>2 DEF Moves
      <3> QED BY <1>3, <1>4, <2>1, <3>1, <3>2 DEF Followed
    <2> QED BY <2>2, <2>3
  <1> QED BY <1>2, <1>3, <1>4, <1>5, MovesOne DEF FetchInv

\* A leader that says what it found leaves nobody waiting for it.
LEMMA AnnounceKeeps == ASSUME FetchInv, NEW t \in Threads, Announce(t) PROVE FetchInv'
  <1> DEFINE waits(k) == thread[k].at = "following" /\ thread[k].leader = t
  <1>1. /\ thread[t].at = "announcing" /\ UNCHANGED call /\ DOMAIN thread' = Threads
        /\ thread'[t] = Over(thread[t].news, FALSE)
        /\ \A k \in Threads \ {t} : waits(k) => thread'[k] = Over(thread[t].news, TRUE)
        /\ \A k \in Threads \ {t} : ~waits(k) => thread'[k] = thread[k]
    BY DEF Announce
  <1>2. \A n, b : ThreadLike(Over(n, b)) /\ Over(n, b).at = "over"
    BY DEF ThreadLike, Over, Idle
  <1>3. \A k \in Threads : UrlOf(k)' = UrlOf(k) /\ Purpose(k)' = Purpose(k)
    BY <1>1 DEF UrlOf, Purpose
  <1>4. ASSUME NEW k \in Threads
        PROVE  thread'[k] = thread[k] \/ (ThreadLike(thread'[k]) /\ thread'[k].at = "over")
    <2>1. thread'[k] = thread[k] \/ \E n, b : thread'[k] = Over(n, b)
      BY <1>1
    <2> QED BY <1>2, <2>1
  <1>5. Shape'
    BY <1>1, <1>4 DEF FetchInv, Shape
  <1>6. \A k \in Threads : \A u : Leads(k, u)' <=> Leads(k, u)
    <2>1. \A k \in Threads : thread'[k] = thread[k] \/
            (thread'[k].at \notin Leading /\ thread[k].at \notin Leading)
      BY <1>1, <1>4 DEF Leading, Cascading
    <2> QED BY <1>3, <2>1 DEF Leads, Leading
  <1>7. ASSUME NEW c \in Calls, call'[c].at = "idle", NEW k \in Threads, k[1] = c
        PROVE  thread'[k].at = "idle"
    <2>1. thread[k].at = "idle"
      BY <1>1, <1>7 DEF FetchInv
    <2>2. k # t /\ thread[k].at # "following"
      BY <1>1, <2>1
    <2> QED BY <1>1, <2>1, <2>2
  <1>8. ASSUME NEW k \in Threads PROVE Followed(k)'
    <2>1. SUFFICES ASSUME thread'[k].at = "following" PROVE Followed(k)'
      BY DEF Followed
    <2>2. thread'[k] = thread[k] /\ Followed(k)
      <3>1. thread'[k].at # "over"
        BY <2>1
      <3> QED BY <1>4, <3>1 DEF FetchInv
    <2>3. thread[k].leader # t /\ thread[k].leader \in Threads
      BY <1>1, <1>2, <2>1, <2>2 DEF Followed
    <2>4. thread[thread[k].leader].at = "announcing" =>
            thread'[thread[k].leader].at = "announcing"
      BY <1>1, <2>3
    <2> QED BY <1>3, <1>6, <2>1, <2>2, <2>3, <2>4 DEF Followed
  <1> QED BY <1>3, <1>5, <1>6, <1>7, <1>8 DEF FetchInv

\* Once begun, a thread is where its fetch is, or its call is not for evidence.
LEMMA CascadeKeeps ==
  ASSUME FetchInv, NEW t \in Threads, UNCHANGED call, thread[t].at \in Leading,
         NEW x, ThreadLike(x), thread' = [thread EXCEPT ![t] = x],
         x.at \in Leading \/ (Purpose(t) # "evidence" /\ x.at = "over")
  PROVE  FetchInv'
  <1>1. Moves(t) /\ thread'[t] = x
    <2>1. thread[t].at # "idle"
      BY DEF Leading, Cascading
    <2> QED BY <2>1 DEF Moves, FetchInv, Shape
  <1>2. thread[t].at # "announcing" /\ x.at # "following"
    BY DEF Leading, Cascading
  <1> QED BY <1>1, <1>2, StepsAside

\* A thread that goes from one place of the cascade to another.
LEMMA GoesKeeps ==
  ASSUME FetchInv, NEW t \in Threads, NEW from \in Leading, NEW to \in Leading, Goes(t, from, to)
  PROVE  FetchInv'
  <1>1. thread' = [thread EXCEPT ![t] = [thread[t] EXCEPT !.at = to]]
    BY DEF Goes, FetchInv, Shape
  <1>2. ThreadLike([thread[t] EXCEPT !.at = to]) /\ [thread[t] EXCEPT !.at = to].at = to
    BY DEF FetchInv, Shape, ThreadLike, Idle
  <1> QED BY <1>1, <1>2, CascadeKeeps DEF Goes

\* A page that is read or given up.
LEMMA EndsKeeps ==
  ASSUME FetchInv, NEW t \in Threads, NEW from \in Leading, NEW news, Ends(t, from, news)
  PROVE  FetchInv'
  <1>1. ThreadLike(Ended(t, news))
        /\ Ended(t, news).at = IF Purpose(t) = "evidence" THEN "landing" ELSE "over"
    BY DEF Ended, Over, ThreadLike, Idle
  <1>2. "landing" \in Leading
    BY DEF Leading
  <1> QED BY <1>1, <1>2, CascadeKeeps DEF Ends

\* A strategy that found no article.
LEMMA AttemptedKeeps ==
  ASSUME FetchInv, NEW t \in Threads, NEW from \in Leading, NEW outcomes, NEW html,
         Attempted(t, from, outcomes, html)
  PROVE  FetchInv'
  <1>1. PICK o \in outcomes : thread' = [thread EXCEPT ![t] = AfterFailure(thread[t], o, html)]
    <2>1. PICK o \in outcomes : thread' = [thread EXCEPT ![t] = AfterFailure(@, o, html)]
      BY DEF Attempted
    <2> QED BY <2>1
  <1>2. ThreadLike(AfterFailure(thread[t], o, html)) /\ AfterFailure(thread[t], o, html).at = "trying"
    <2>1. ThreadLike(thread[t])
      BY DEF FetchInv, Shape
    <2> QED BY <2>1 DEF AfterFailure, ThreadLike, Idle
  <1>3. "trying" \in Leading
    BY DEF Leading, Cascading
  <1> QED BY <1>1, <1>2, <1>3, CascadeKeeps DEF Attempted

\* The steps of a page's thread that take no fetch: its turn in the pool, the cascade,
\* and the second look at the cache.
LEMMA CascadeSteps ==
  ASSUME FetchInv, NEW t \in Threads, GoesOn(t), ~Lead(t), ~Follow(t), ~Announce(t)
  PROVE  FetchInv'
  <1>1. ThreadLike(thread[t])
    BY DEF FetchInv, Shape
  <1>2. {"trying", "fetching", "toParse", "parsing", "toRender", "rendering", "toReread",
         "rereading", "toFill", "filling", "toScrape", "landing"} = Leading
    BY DEF Leading, Cascading
  <1>3. CASE Serve(t)
    <2>1. Moves(t) /\ thread[t].at = "queued" /\ thread'[t].at = "over"
      BY <1>3 DEF Serve, Begins, Moves, FetchInv, Shape, ThreadLike, Over, Idle
    <2> QED BY <1>2, <2>1, StepsAside
  <1>4. CASE ReadUncached(t)
    <2>1. Moves(t) /\ thread[t].at = "queued" /\ thread'[t].at \in {"toScrape", "trying"}
          /\ Purpose(t) # "evidence"
      BY <1>4 DEF ReadUncached, Begins, Moves, FetchInv, Shape, ThreadLike, Idle
    <2> QED BY <2>1, StepsAside
  <1>5. CASE Land(t)
    <2>1. Moves(t) /\ thread[t].at = "landing" /\ thread'[t].at = "announcing"
      BY <1>5 DEF Land, Moves, FetchInv, Shape, ThreadLike, Idle
    <2> QED BY <1>2, <2>1, StepsAside
  <1>6. CASE Skip(t)
    <2> DEFINE x == [thread[t] EXCEPT !.left = Tail(@)]
    <2>1. thread' = [thread EXCEPT ![t] = x]
      BY <1>6 DEF Skip, FetchInv, Shape
    <2>2. thread[t].at = "trying" /\ x.at = "trying" /\ ThreadLike(x) /\ UNCHANGED call
      BY <1>1, <1>6 DEF Skip, ThreadLike, Idle
    <2> HIDE DEF x
    <2> QED BY <1>2, <2>1, <2>2, CascadeKeeps
  <1>7. CASE TryHtml(t)
    <2> DEFINE a == IF thread[t].page THEN "toParse" ELSE "fetching"
               b == IF thread[t].page THEN thread[t].gets ELSE thread[t].gets + 1
               x == [thread[t] EXCEPT !.at = a, !.gets = b]
    <2>1. a \in {"toParse", "fetching"}
      OBVIOUS
    <2>2. thread' = [thread EXCEPT ![t] = x]
      BY <1>7 DEF TryHtml, FetchInv, Shape
    <2> HIDE DEF a, b
    <2>3. thread[t].at = "trying" /\ x.at = a /\ ThreadLike(x) /\ UNCHANGED call
      BY <1>1, <1>7 DEF TryHtml, Trying, ThreadLike, Idle
    <2> HIDE DEF x
    <2> QED BY <1>2, <2>1, <2>2, <2>3, CascadeKeeps
  <1>8. CASE Fetched(t)
    <2>1. CASE Attempted(t, "fetching", {"no_article", "refused", "gone"}, TRUE)
      BY <1>2, <2>1, AttemptedKeeps
    <2>2. CASE /\ thread[t].at = "fetching"
               /\ thread' = [thread EXCEPT ![t].page = TRUE, ![t].at = "toParse"]
               /\ UNCHANGED <<call, done>>
      <3> DEFINE x == [thread[t] EXCEPT !.page = TRUE, !.at = "toParse"]
      <3>1. thread' = [thread EXCEPT ![t] = x]
        BY <2>2 DEF FetchInv, Shape
      <3>2. x.at = "toParse" /\ ThreadLike(x)
        BY <1>1 DEF ThreadLike, Idle
      <3> HIDE DEF x
      <3> QED BY <1>2, <2>2, <3>1, <3>2, CascadeKeeps
    <2> QED BY <1>8, <2>1, <2>2 DEF Fetched
  <1>9. CASE Render(t)
    <2> DEFINE x == [thread[t] EXCEPT !.at = "rendering", !.renders = @ + 1]
    <2>1. thread' = [thread EXCEPT ![t] = x]
      BY <1>9 DEF Render, FetchInv, Shape
    <2>2. x.at = "rendering" /\ ThreadLike(x) /\ UNCHANGED call /\ thread[t].at = "toRender"
      BY <1>1, <1>9 DEF Render, ThreadLike, Idle
    <2> HIDE DEF x
    <2> QED BY <1>2, <2>1, <2>2, CascadeKeeps
  <1>10. CASE AcquireScrape(t) \/ Parse(t) \/ Reread(t) \/ Fill(t)
    BY <1>2, <1>10, GoesKeeps DEF AcquireScrape, Parse, Reread, Fill
  <1>11. CASE Exhausted(t) \/ Filled(t)
    BY <1>2, <1>11, EndsKeeps DEF Exhausted, Filled
  <1>12. CASE Parsed(t) \/ Rereads(t)
    BY <1>2, <1>12, GoesKeeps, EndsKeeps, AttemptedKeeps DEF Parsed, Rereads, Found
  <1>13. CASE TryBrowser(t) \/ Rendered(t)
    BY <1>2, <1>13, GoesKeeps, AttemptedKeeps DEF TryBrowser, Rendered
  <1> QED BY <1>3, <1>4, <1>5, <1>6, <1>7, <1>8, <1>9, <1>10, <1>11, <1>12, <1>13 DEF GoesOn

\* Steps of a call: threads that had no page, or had not begun, and neither lead nor
\* follow; a page that somebody reads stays the same.
LEMMA CallKeeps ==
  ASSUME FetchInv, Shape',
         \A t \in Threads : \/ /\ thread'[t] = thread[t]
                               /\ thread[t].at = "idle" \/ (UrlOf(t)' = UrlOf(t)
                                                            /\ Purpose(t)' = Purpose(t))
                            \/ /\ thread[t].at \in {"idle", "queued"}
                               /\ thread'[t].at \in {"queued", "over"},
         \A c \in Calls : call'[c].at = "idle" =>
           \A t \in Threads : t[1] = c => thread'[t].at = "idle"
  PROVE  FetchInv'
  <1>1. "idle" \notin Leading /\ "queued" \notin Leading /\ "over" \notin Leading
    BY DEF Leading, Cascading
  <1>2. \A t \in Threads : \A u : Leads(t, u)' <=> Leads(t, u)
    BY <1>1 DEF Leads, Leading
  <1>3. \A t \in Threads : \A u : Leads(t, u) => UrlOf(t)' = UrlOf(t)
    BY <1>1 DEF Leads, Leading
  <1>4. ASSUME NEW t \in Threads, NEW k \in Threads, Leads(t, UrlOf(t))', Leads(k, UrlOf(t))'
        PROVE  t = k
    <2>1. Leads(t, UrlOf(t)')
      BY <1>2, <1>4
    <2>2. Leads(t, UrlOf(t)) /\ Leads(k, UrlOf(t))
      BY <1>2, <1>3, <1>4, <2>1
    <2> QED BY <2>2 DEF FetchInv
  <1>5. ASSUME NEW t \in Threads PROVE Followed(t)'
    <2>1. SUFFICES ASSUME thread'[t].at = "following" PROVE Followed(t)'
      BY DEF Followed
    <2>2. thread'[t] = thread[t] /\ UrlOf(t)' = UrlOf(t) /\ Followed(t)
      BY <2>1 DEF FetchInv
    <2>3. \A l \in Threads : thread[l].at = "announcing" =>
            thread'[l].at = "announcing" /\ UrlOf(l)' = UrlOf(l)
      OBVIOUS
    <2> QED BY <1>2, <2>1, <2>2, <2>3 DEF Followed
  <1> QED BY <1>4, <1>5 DEF FetchInv

\* A call is made: its pages wait for their threads.
LEMMA BeginKeeps ==
  ASSUME FetchInv, NEW c \in Calls, NEW plan \in Plans[c], Begin(c, plan)
  PROVE  FetchInv'
  <1> DEFINE queued == [Idle EXCEPT !.at = "queued"]
             begun == [at |-> "waiting", purpose |-> plan.purpose, timed |-> plan.timed,
                       items |-> plan.items, got |-> << >>]
  <1>1. call[c].at = "idle" /\ call' = [call EXCEPT ![c] = begun]
    BY DEF Begin
  <1>2. \A t \in Threads : t[1] = c => thread[t].at = "idle"
    BY <1>1 DEF FetchInv
  <1>3. ThreadLike(queued) /\ queued.at = "queued"
    BY DEF ThreadLike, Idle
  <1>4. DOMAIN thread' = Threads /\ \A t \in Threads :
          thread'[t] = thread[t] \/ (t[1] = c /\ thread'[t] = queued)
    BY DEF Begin
  <1>5. begun.at = "waiting" /\ "at" \in DOMAIN begun /\ "got" \in DOMAIN begun
    OBVIOUS
  <1> HIDE DEF queued, begun
  <1>6. Shape'
    BY <1>1, <1>3, <1>4, <1>5 DEF FetchInv, Shape
  <1>7. ASSUME NEW t \in Threads
        PROVE  \/ /\ thread'[t] = thread[t]
                  /\ thread[t].at = "idle" \/ (UrlOf(t)' = UrlOf(t) /\ Purpose(t)' = Purpose(t))
               \/ thread[t].at \in {"idle", "queued"} /\ thread'[t].at \in {"queued", "over"}
    <2>1. CASE t[1] = c
      BY <1>2, <1>3, <1>4, <2>1
    <2>2. CASE t[1] # c
      <3>1. t[1] \in Calls
        BY DEF Threads
      <3>2. call'[t[1]] = call[t[1]]
        BY <1>1, <2>2, <3>1 DEF FetchInv, Shape
      <3> QED BY <1>4, <2>2, <3>2 DEF UrlOf, Purpose
    <2> QED BY <2>1, <2>2
  <1>8. ASSUME NEW d \in Calls, call'[d].at = "idle", NEW t \in Threads, t[1] = d
        PROVE  thread'[t].at = "idle"
    <2>1. d # c
      BY <1>1, <1>5, <1>8 DEF FetchInv, Shape
    <2>2. call'[d] = call[d] /\ thread'[t] = thread[t]
      BY <1>1, <1>4, <1>8, <2>1 DEF FetchInv, Shape
    <2> QED BY <1>8, <2>2 DEF FetchInv
  <1> QED BY <1>6, <1>7, <1>8, CallKeeps

\* A call ends, with its pages or without: only threads that have not begun end with it.
LEMMA ReturnKeeps ==
  ASSUME FetchInv, NEW c \in Calls, Return(c) \/ TimesUp(c)
  PROVE  FetchInv'
  <1>1. PICK got : call' = [call EXCEPT ![c].at = "done", ![c].got = got]
    BY DEF Return, TimesUp
  <1>2. /\ DOMAIN call' = Calls
        /\ \A d \in Calls : "at" \in DOMAIN call'[d] /\ "got" \in DOMAIN call'[d]
        /\ \A d \in Calls : call'[d].at = "idle" => call[d].at = "idle" /\ d # c
        /\ \A d \in Calls : call'[d].items = call[d].items /\ call'[d].purpose = call[d].purpose
    BY <1>1 DEF FetchInv, Shape
  <1>3. DOMAIN thread' = Threads /\ \A t \in Threads :
          thread'[t] = thread[t] \/ (t[1] = c /\ thread[t].at = "queued"
                                     /\ thread'[t] = [thread[t] EXCEPT !.at = "over"])
    BY DEF Return, TimesUp, FetchInv, Shape
  <1>4. \A t \in Threads : ThreadLike([thread[t] EXCEPT !.at = "over"])
                           /\ [thread[t] EXCEPT !.at = "over"].at = "over"
    BY DEF FetchInv, Shape, ThreadLike, Idle
  <1>5. Shape'
    BY <1>2, <1>3, <1>4 DEF FetchInv, Shape
  <1>6. \A t \in Threads : UrlOf(t)' = UrlOf(t) /\ Purpose(t)' = Purpose(t)
    BY <1>2 DEF UrlOf, Purpose, Threads
  <1>7. ASSUME NEW t \in Threads
        PROVE  thread'[t] = thread[t] \/ (thread[t].at = "queued" /\ thread'[t].at = "over")
    BY <1>3, <1>4
  <1>8. \A d \in Calls : call'[d].at = "idle" =>
          \A t \in Threads : t[1] = d => thread'[t].at = "idle"
    BY <1>2, <1>3 DEF FetchInv
  <1> QED BY <1>5, <1>6, <1>7, <1>8, CallKeeps

\* Every step keeps it.
LEMMA FetchNext == FetchInv /\ [Next]_vars => FetchInv'
  <1> SUFFICES ASSUME FetchInv, [Next]_vars PROVE FetchInv'
    OBVIOUS
  <1>1. ASSUME NEW t \in Threads, GoesOn(t) PROVE FetchInv'
    BY <1>1, LeadKeeps, FollowKeeps, AnnounceKeeps, CascadeSteps
  <1>2. CASE Tick \/ UNCHANGED vars
    <2>1. UNCHANGED <<call, thread>>
      BY <1>2 DEF Tick, vars
    <2> QED BY <2>1 DEF FetchInv, Shape, Followed, Leads, UrlOf, Purpose
  <1> QED BY <1>1, <1>2, BeginKeeps, ReturnKeeps DEF Next

\* No two threads fetch a page for evidence at once, and whoever waits for a page waits
\* for the thread that fetches it or has still to say what it found, also when the
\* calls they belong to have given up.
THEOREM OneFetchHolds == Spec => []OneFetchPerPage
  BY FetchInit, FetchNext, FetchImplies, PTL DEF Spec

-----------------------------------------------------------------------------
(* The counts of the requests. *)

\* Counts, in memory or on disk.
Kept == [since : Nat, counts : [RequestOutcomes -> Nat]]

\* A thread between its record and the end of its write.
Counting(t) == task[t].at \in {"found", "saving"}

\* Some counts are not behind others of the same beginning.
NotBehind(new, old) ==
  new.since = old.since => \A o \in RequestOutcomes : new.counts[o] >= old.counts[o]

\* What makes it so: whoever writes holds the lock since it took its snapshot, which
\* is therefore what memory holds, and memory is never behind the file.
CountInv ==
  /\ store \in Kept /\ file \in Kept
  /\ crashes \in Nat /\ store.since <= crashes /\ file.since <= crashes
  /\ DOMAIN task = SourceThreads /\ DOMAIN snapshot = SourceThreads
  /\ \A t \in SourceThreads : "at" \in DOMAIN task[t]
  /\ \A t \in SourceThreads : Counting(t) => writer = t /\ snapshot[t] = store
  /\ NotBehind(store, file)

\* No thread is nobody.
LEMMA SomebodyIsNotNobody == \A t \in SourceThreads : t # Nobody
  BY DEF SourceThreads, Nobody

\* No thread counts at the start.
LEMMA CountInit == ProbesInit => CountInv
  <1> SUFFICES ASSUME ProbesInit PROVE CountInv
    OBVIOUS
  <1>1. NoStore \in Kept /\ NoStore.since = 0
    BY DEF NoStore, Kept, NoCounts
  <1>2. \A t \in SourceThreads : task[t].at = "idle" /\ "at" \in DOMAIN task[t]
    BY DEF ProbesInit, NoTask
  <1>3. NotBehind(NoStore, NoStore)
    BY <1>1 DEF NotBehind, Kept
  <1> QED BY <1>1, <1>2, <1>3 DEF ProbesInit, CountInv, Counting

\* A record is counted under the lock, so that no other thread is writing.
LEMMA CountedKeeps ==
  ASSUME CountInv, NEW t \in SourceThreads, NEW o \in RequestOutcomes, Counted(t, o), UNCHANGED <<file, crashes>>,
         DOMAIN task' = SourceThreads, "at" \in DOMAIN task'[t],
         \A k \in SourceThreads \ {t} : task'[k] = task[k]
  PROVE  CountInv'
  <1>1. \A k \in SourceThreads : ~Counting(k)
    BY SomebodyIsNotNobody DEF CountInv, Counted
  <1>2. store' \in Kept /\ store'.since = store.since
        /\ \A p \in RequestOutcomes : store'.counts[p] >= store.counts[p]
    BY DEF CountInv, Counted, Kept
  <1>3. writer' = t /\ DOMAIN snapshot' = SourceThreads /\ snapshot'[t] = store'
    BY DEF CountInv, Counted, HeldWhileSaving
  <1>4. \A k \in SourceThreads : Counting(k)' => k = t
    BY <1>1 DEF Counting
  <1>5. NotBehind(store', file)
    BY <1>2 DEF CountInv, NotBehind, Kept
  <1> QED BY <1>2, <1>3, <1>4, <1>5 DEF CountInv

\* Steps that leave the counts alone and put no thread into a write.
LEMMA ElseKeeps ==
  ASSUME CountInv, UNCHANGED <<store, file, writer, snapshot, crashes>>, DOMAIN task' = SourceThreads,
         \A t \in SourceThreads : "at" \in DOMAIN task'[t] /\ (Counting(t)' => Counting(t))
  PROVE  CountInv'
  BY DEF CountInv, NotBehind

\* The first record of a source.
LEMMA DiscoverKeeps == ASSUME CountInv, NEW t \in SourceThreads, Discover(t) PROVE CountInv'
  <1>1. \E o \in RequestOutcomes : Counted(t, o)
    BY DEF Discover, RequestOutcomes
  <1>2. UNCHANGED <<file, crashes>>
    BY DEF Discover
  <1>3. PICK feed, sections, left :
          task' = [task EXCEPT ![t] = [NoTask EXCEPT !.at = "found", !.feed = feed,
                                                   !.sections = sections, !.left = left]]
    BY DEF Discover
  <1>4. DOMAIN task' = SourceThreads /\ "at" \in DOMAIN task'[t]
        /\ \A s \in SourceThreads \ {t} : task'[s] = task[s]
    BY <1>3 DEF CountInv, NoTask
  <1> QED BY <1>1, <1>2, <1>4, CountedKeeps

\* The record of a page.
LEMMA ExtractKeeps == ASSUME CountInv, NEW t \in SourceThreads, Extract(t) PROVE CountInv'
  <1>1. PICK x \in Extractions :
          /\ task' = [task EXCEPT ![t].saw = Append(@, x),
                                  ![t].at = IF x.outcome = NoOutcome THEN "read" ELSE "saving"]
          /\ IF x.outcome = NoOutcome
             THEN UNCHANGED <<recorded, store, writer, snapshot>>
             ELSE Counted(t, x.outcome)
    BY DEF Extract
  <1>2. DOMAIN task' = SourceThreads /\ "at" \in DOMAIN task'[t]
        /\ (\A s \in SourceThreads \ {t} : task'[s] = task[s])
        /\ (x.outcome = NoOutcome => task'[t].at = "read")
    BY <1>1 DEF CountInv
  <1>3. UNCHANGED <<file, crashes>>
    BY DEF Extract
  <1>4. CASE x.outcome = NoOutcome
    <2>1. \A s \in SourceThreads : "at" \in DOMAIN task'[s] /\ (Counting(s)' => Counting(s))
      BY <1>2, <1>4 DEF CountInv, Counting
    <2> QED BY <1>1, <1>2, <1>3, <1>4, <2>1, ElseKeeps
  <1>5. CASE x.outcome # NoOutcome
    <2>1. x.outcome \in RequestOutcomes
      BY <1>5 DEF Extractions, RequestOutcomes, NoOutcome
    <2> QED BY <1>1, <1>2, <1>3, <1>5, <2>1, CountedKeeps
  <1> QED BY <1>4, <1>5

\* A write puts on disk what memory holds.
LEMMA StoreSaves ==
  ASSUME CountInv, NEW t \in SourceThreads, Store(t)
  PROVE  CountInv' /\ NotBehind(file', file)
  <1>1. Counting(t) /\ writer = t /\ snapshot[t] = store
    BY DEF Store, Counting, CountInv
  <1>2. file' \in {file, store} /\ UNCHANGED <<store, crashes>>
    BY <1>1 DEF Store, Save
  <1>3. DOMAIN snapshot' = SourceThreads
    BY DEF Store, Save, CountInv
  <1>4. DOMAIN task' = SourceThreads /\ "at" \in DOMAIN task'[t] /\ ~Counting(t)'
        /\ \A s \in SourceThreads \ {t} : task'[s] = task[s]
    BY DEF Store, CountInv, Counting
  <1>5. \A s \in SourceThreads \ {t} : ~Counting(s)
    BY <1>1 DEF CountInv
  <1>6. \A s \in SourceThreads : ~Counting(s)' /\ "at" \in DOMAIN task'[s]
    BY <1>4, <1>5 DEF Counting, CountInv
  <1>7. NotBehind(store, file') /\ NotBehind(file', file)
    BY <1>2 DEF CountInv, NotBehind, Kept
  <1> QED BY <1>2, <1>3, <1>4, <1>6, <1>7 DEF CountInv, NotBehind

\* A restart begins with the file, or with nothing and a beginning of its own.
LEMMA RestartKeeps == ASSUME CountInv, Restart PROVE CountInv'
  <1>1. crashes' = crashes + 1 /\ UNCHANGED file
    BY DEF Restart
  <1>2. \A t \in SourceThreads : ~Counting(t)' /\ "at" \in DOMAIN task'[t]
    BY DEF Restart, Counting, NoTask
  <1>3. DOMAIN task' = SourceThreads /\ DOMAIN snapshot' = SourceThreads
    BY DEF Restart
  <1>4. CASE store' = file
    BY <1>1, <1>2, <1>3, <1>4 DEF CountInv, NotBehind, Kept
  <1>5. CASE store' = [since |-> crashes + 1, counts |-> NoCounts]
    <2>1. store' \in Kept /\ store'.since <= crashes' /\ file.since # store'.since
      BY <1>1, <1>5 DEF CountInv, Kept, NoCounts
    <2> QED BY <1>1, <1>2, <1>3, <2>1 DEF CountInv, NotBehind, Kept
  <1> QED BY <1>4, <1>5 DEF Restart

\* The start of a run, and its end, put threads to their start or to rest.
LEMMA RunsKeep ==
  ASSUME CountInv, UNCHANGED <<store, file, writer, snapshot, crashes>>,
         NEW r, (\E S \in SUBSET Sources : Launch(r, S)) \/ RunEnded(r)
  PROVE  CountInv'
  <1>1. DOMAIN task' = SourceThreads
    BY DEF Launch, RunEnded
  <1>2. ASSUME NEW t \in SourceThreads
        PROVE  "at" \in DOMAIN task'[t] /\ (Counting(t)' => Counting(t))
    <2>1. NoTask.at = "idle" /\ "at" \in DOMAIN NoTask
          /\ [NoTask EXCEPT !.at = "discover"].at = "discover"
          /\ "at" \in DOMAIN [NoTask EXCEPT !.at = "discover"]
      BY DEF NoTask
    <2>2. task'[t] \in {task[t], NoTask, [NoTask EXCEPT !.at = "discover"]}
      BY DEF Launch, RunEnded
    <2>3. "at" \in DOMAIN task[t]
      BY DEF CountInv
    <2> QED BY <2>1, <2>2, <2>3 DEF Counting
  <1> QED BY <1>1, <1>2, ElseKeeps

\* Every step keeps it.
LEMMA CountNext == CountInv /\ [ProbesNext]_probeVars => CountInv'
  <1> SUFFICES ASSUME CountInv, [ProbesNext]_probeVars PROVE CountInv'
    OBVIOUS
  <1>1. CASE StartProbe
    BY <1>1, RunsKeep DEF StartProbe
  <1>2. CASE StartCheck
    BY <1>2, RunsKeep DEF StartCheck
  <1>3. CASE \E r \in Probes : FinishProbe(r) \/ FailProbe(r)
    BY <1>3, RunsKeep DEF FinishProbe, FailProbe
  <1>4. CASE \E r \in Checks : FinishCheck(r)
    BY <1>4, RunsKeep DEF FinishCheck
  <1>5. ASSUME NEW t \in SourceThreads, Read(t) PROVE CountInv'
    <2>1. DOMAIN task' = SourceThreads /\ "at" \in DOMAIN task'[t] /\ task'[t].at = "sample"
          /\ \A s \in SourceThreads \ {t} : task'[s] = task[s]
      BY <1>5 DEF Read, CountInv
    <2>2. \A s \in SourceThreads : "at" \in DOMAIN task'[s] /\ (Counting(s)' => Counting(s))
      BY <2>1 DEF CountInv, Counting
    <2> QED BY <1>5, <2>1, <2>2, ElseKeeps DEF Read
  <1>6. CASE UNCHANGED probeVars
    BY <1>6 DEF probeVars, CountInv, Counting, NotBehind
  <1> QED BY <1>1, <1>2, <1>3, <1>4, <1>5, <1>6, DiscoverKeeps, ExtractKeeps, StoreSaves, RestartKeeps
      DEF ProbesNext

\* A step that writes the file writes what memory holds.
LEMMA CountStep ==
  CountInv /\ [ProbesNext]_probeVars
  => [file'.since = file.since => \A o \in RequestOutcomes : file'.counts[o] >= file.counts[o]]_probeVars
  <1> SUFFICES ASSUME CountInv, ProbesNext PROVE NotBehind(file', file)
    BY DEF NotBehind, probeVars
  <1>1. CASE \E t \in SourceThreads : Store(t)
    BY <1>1, StoreSaves
  <1>2. CASE UNCHANGED file
    BY <1>2 DEF NotBehind, CountInv, Kept
  <1> QED BY <1>1, <1>2 DEF ProbesNext, StartProbe, StartCheck, Restart, Discover, Extract, Read,
          FinishProbe, FailProbe, FinishCheck

\* Whatever the threads' interleaving, the writes that fail and the restarts, the file
\* of the counts is never replaced by older counts of the same beginning.
THEOREM CountsHold == ProbesSpec => CountsNeverGoBack
  <1>1. ProbesInit => CountInv
    BY CountInit
  <1>2. CountInv /\ [ProbesNext]_probeVars => CountInv'
    BY CountNext
  <1>3. CountInv /\ [ProbesNext]_probeVars
        => [file'.since = file.since => \A o \in RequestOutcomes : file'.counts[o] >= file.counts[o]]_probeVars
    BY CountStep
  <1> QED BY <1>1, <1>2, <1>3, PTL DEF ProbesSpec, CountsNeverGoBack

-----------------------------------------------------------------------------
(* A report says what its run saw. *)

\* A line of a sample.
Line == [news : BOOLEAN, complete : BOOLEAN, outcome : RequestOutcomes]

\* Between its extraction and its line.
Reading(k) == k.at \in {"saving", "read"}

\* A source's thread: one line for each page extracted, but for the one it is reading.
Sampled(k) ==
  /\ {"at", "feed", "sections", "left", "saw", "sample"} \subseteq DOMAIN k
  /\ k.at \in {"idle", "discover", "found", "sample", "saving", "read"}
  /\ k.saw \in Seq(Extractions) /\ k.sample \in Seq(Line)
  /\ k.at \in {"idle", "discover", "found"} => k.saw = << >> /\ k.sample = << >>
  /\ k.at = "sample" => Len(k.saw) = Len(k.sample)
  /\ Reading(k) => Len(k.saw) = Len(k.sample) + 1
  /\ \A i \in 1..Len(k.sample) : k.sample[i].complete = k.saw[i].complete

\* A probe's thread: each line has what was recorded, and the recorder, its own, has it
\* from the extraction on.
Told(k, known) ==
  /\ \A i \in 1..Len(k.sample) : k.saw[i].outcome \in {NoOutcome, k.sample[i].outcome}
  /\ Reading(k) /\ k.saw[Len(k.saw)].outcome # NoOutcome =>
       Head(k.left) \in DOMAIN known /\ known[Head(k.left)] = k.saw[Len(k.saw)].outcome

\* Every recorder has outcomes.
RecorderInv ==
  /\ DOMAIN recorded = RecordersIn
  /\ \A x \in RecordersIn : \A u \in DOMAIN recorded[x] : recorded[x][u] \in RequestOutcomes

TaskInv ==
  /\ DOMAIN task = SourceThreads
  /\ \A t \in SourceThreads : Sampled(task[t]) /\ (IsProbe(t) => Told(task[t], recorded[t]))

\* The flag is that of the one probe that runs, and no thread works for a run that does not.
RunInv ==
  /\ run \in [Runs -> {"idle", "reading"}]
  /\ {"running", "error", "report"} \subseteq DOMAIN probe
  /\ probe.running \in BOOLEAN
  /\ probe.running <=> \E r \in Probes : run[r] # "idle"
  /\ \A r, q \in Probes : run[r] # "idle" /\ run[q] # "idle" => r = q
  /\ \A t \in SourceThreads : run[t[1]] = "idle" => task[t].at = "idle"

ReportInv == RecorderInv /\ TaskInv /\ RunInv /\ OkMeansWhole

\* Probes and checks have numbers of their own.
LEMMA ProbesAreNotChecks == Probes \cap Checks = {}
  BY ProbesAssumption DEF Probes, Checks

\* A thread is of a run and a source, and a probe's has its recorder.
LEMMA ThreadIs ==
  ASSUME NEW t \in SourceThreads
  PROVE  /\ t[1] \in Runs /\ t[2] \in Sources /\ t = <<t[1], t[2]>>
         /\ IsProbe(t) => Recorder(t) = t /\ t \in RecordersIn
         /\ Recorder(t) \in RecordersIn
         /\ ~IsProbe(t) => Recorder(t) = OfChecks
         /\ t # OfChecks
  BY DEF SourceThreads, Recorder, RecordersIn, OfChecks

\* What the invariant is for.
LEMMA ReportImplies == ReportInv => ProbesAreTrue
  <1> SUFFICES ASSUME ReportInv PROVE ProbesAreTrue
    OBVIOUS
  <1>1. ASSUME NEW t \in Probes \X Sources, NEW i \in DOMAIN task[t].sample
        PROVE  task[t].saw[i].outcome \in {NoOutcome, task[t].sample[i].outcome}
    <2>1. t \in SourceThreads /\ IsProbe(t)
      BY DEF SourceThreads, Runs, IsProbe
    <2>2. Sampled(task[t]) /\ Told(task[t], recorded[t])
      BY <2>1 DEF ReportInv, TaskInv
    <2>3. i \in 1..Len(task[t].sample)
      BY <2>2 DEF Sampled
    <2> QED BY <2>2, <2>3 DEF Told
  <1>2. OneProbeShown
    <2> DEFINE on == {r \in Probes : run[r] # "idle"}
    <2>1. Cardinality(on) <= 1
      <3>1. CASE on = {}
        BY <3>1, FS_EmptySet
      <3>2. CASE on # {}
        <4>1. PICK r : r \in on
          BY <3>2
        <4>2. on = {r}
          BY <4>1 DEF ReportInv, RunInv
        <4>3. Cardinality({r}) = 1
          BY FS_Singleton
        <4> QED BY <4>2, <4>3
      <3> QED BY <3>1, <3>2
    <2> QED BY <2>1 DEF OneProbeShown, ReportInv, RunInv
  <1> QED BY <1>1, <1>2 DEF ProbesAreTrue, ProbesSayWhatTheySaw, ReportInv

\* A thread at rest, or at its start.
LEMMA RestIsSampled ==
  /\ Sampled(NoTask) /\ \A known : Told(NoTask, known)
  /\ Sampled([NoTask EXCEPT !.at = "discover"])
  /\ \A known : Told([NoTask EXCEPT !.at = "discover"], known)
  <1>1. << >> \in Seq(Extractions) /\ << >> \in Seq(Line) /\ Len(<< >>) = 0
    OBVIOUS
  <1>2. 1..0 = {}
    OBVIOUS
  <1> QED BY <1>1, <1>2 DEF Sampled, Told, Reading, NoTask

\* Nothing runs.
LEMMA ReportInit == ProbesInit => ReportInv
  <1> SUFFICES ASSUME ProbesInit PROVE ReportInv
    OBVIOUS
  <1>1. RecorderInv
    BY DEF ProbesInit, RecorderInv
  <1>2. TaskInv
    BY RestIsSampled DEF ProbesInit, TaskInv
  <1>3. RunInv
    <2>1. Probes \subseteq Runs
      BY DEF Runs
    <2>2. \A t \in SourceThreads : task[t].at = "idle"
      BY DEF ProbesInit, NoTask
    <2> QED BY <2>1, <2>2 DEF ProbesInit, RunInv
  <1>4. OkMeansWhole
    BY DEF ProbesInit, OkMeansWhole, NoReport
  <1> QED BY <1>1, <1>2, <1>3, <1>4 DEF ReportInv

\* One source's thread goes on; the runs stay as they are.
LEMMA TaskGoes ==
  ASSUME ReportInv, NEW t \in SourceThreads, UNCHANGED <<run, probe, checked>>,
         DOMAIN task' = SourceThreads, \A k \in SourceThreads \ {t} : task'[k] = task[k],
         task[t].at # "idle", Sampled(task'[t]),
         RecorderInv', \A k \in SourceThreads \ {t} : IsProbe(k) => recorded'[k] = recorded[k],
         IsProbe(t) => Told(task'[t], recorded'[t])
  PROVE  ReportInv'
  <1>1. TaskInv'
    BY DEF ReportInv, TaskInv
  <1>2. run[t[1]] # "idle"
    BY DEF ReportInv, RunInv
  <1>3. RunInv'
    BY <1>2 DEF ReportInv, RunInv
  <1>4. OkMeansWhole'
    BY DEF ReportInv, OkMeansWhole
  <1> QED BY <1>1, <1>3, <1>4 DEF ReportInv

\* Its links are found.
LEMMA DiscoverTold == ASSUME ReportInv, NEW t \in SourceThreads, Discover(t) PROVE ReportInv'
  <1>1. PICK feed, sections, left :
          task' = [task EXCEPT ![t] = [NoTask EXCEPT !.at = "found", !.feed = feed,
                                                   !.sections = sections, !.left = left]]
    BY DEF Discover
  <1> DEFINE k == [NoTask EXCEPT !.at = "found", !.feed = feed, !.sections = sections, !.left = left]
  <1>2. /\ k.at = "found" /\ k.saw = << >> /\ k.sample = << >>
        /\ {"at", "feed", "sections", "left", "saw", "sample"} \subseteq DOMAIN k
    BY DEF NoTask
  <1> HIDE DEF k
  <1>3. << >> \in Seq(Extractions) /\ << >> \in Seq(Line) /\ Len(<< >>) = 0 /\ 1..0 = {}
    OBVIOUS
  <1>4. Sampled(k) /\ Told(k, recorded[t])
    BY <1>2, <1>3 DEF Sampled, Told, Reading
  <1>5. DOMAIN task = SourceThreads /\ task' = [task EXCEPT ![t] = k]
    BY <1>1 DEF ReportInv, TaskInv, k
  <1>6. DOMAIN task' = SourceThreads /\ task'[t] = k /\ \A s \in SourceThreads \ {t} : task'[s] = task[s]
    BY <1>5
  <1>7. UNCHANGED <<run, probe, checked, recorded>> /\ task[t].at # "idle"
    BY DEF Discover
  <1>8. RecorderInv'
    BY <1>7 DEF ReportInv, RecorderInv
  <1> QED BY <1>4, <1>6, <1>7, <1>8, TaskGoes

\* What an extraction gives.
LEMMA ExtractionIs ==
  \A x \in Extractions : x.news \in BOOLEAN /\ x.complete \in BOOLEAN
  <1>1. Extractions \subseteq [news : BOOLEAN, complete : BOOLEAN, outcome : RequestOutcomes \cup {NoOutcome}]
    BY DEF Extractions, RequestOutcomes, NoOutcome
  <1> QED BY <1>1

\* A page is extracted, and recorded unless that raised.
LEMMA ExtractTold == ASSUME ReportInv, NEW t \in SourceThreads, Extract(t) PROVE ReportInv'
  <1>1. PICK x \in Extractions :
          /\ task' = [task EXCEPT ![t].saw = Append(@, x),
                                  ![t].at = IF x.outcome = NoOutcome THEN "read" ELSE "saving"]
          /\ IF x.outcome = NoOutcome THEN UNCHANGED recorded
             ELSE recorded' = [recorded EXCEPT ![Recorder(t)] = With(@, Head(task[t].left), x.outcome)]
    BY DEF Extract
  <1> DEFINE old == task[t]
             new == task'[t]
             rec == Recorder(t)
             url == Head(old.left)
  <1>2. Sampled(old) /\ old.at = "sample" /\ (IsProbe(t) => Told(old, recorded[t]))
        /\ DOMAIN task = SourceThreads /\ RecorderInv
    BY DEF ReportInv, TaskInv, Extract
  <1>3. /\ DOMAIN task' = SourceThreads /\ \A s \in SourceThreads \ {t} : task'[s] = task[s]
        /\ new.saw = Append(old.saw, x) /\ new.sample = old.sample /\ new.left = old.left
        /\ new.at \in {"saving", "read"}
        /\ {"at", "feed", "sections", "left", "saw", "sample"} \subseteq DOMAIN new
    BY <1>1, <1>2 DEF Sampled
  <1>4. /\ old.saw \in Seq(Extractions) /\ old.sample \in Seq(Line) /\ Len(old.saw) = Len(old.sample)
        /\ Len(old.saw) \in Nat
        /\ \A i \in 1..Len(old.sample) : old.sample[i].complete = old.saw[i].complete
    BY <1>2 DEF Sampled
  <1> HIDE DEF new, old
  <1>5. /\ new.saw \in Seq(Extractions) /\ Len(new.saw) = Len(old.saw) + 1
        /\ new.saw[Len(new.saw)] = x
        /\ \A i \in 1..Len(old.saw) : new.saw[i] = old.saw[i]
    BY <1>3, <1>4, AppendProperties
  <1>6. Sampled(new)
    BY <1>3, <1>4, <1>5 DEF Sampled, Reading
  <1>7. rec \in RecordersIn /\ (IsProbe(t) => rec = t)
    BY ThreadIs
  <1>8. \A k \in SourceThreads \ {t} : IsProbe(k) => k # rec /\ k \in RecordersIn
    BY ThreadIs
  <1> HIDE DEF rec
  <1>9. /\ RecorderInv'
        /\ \A k \in SourceThreads \ {t} : IsProbe(k) => recorded'[k] = recorded[k]
        /\ x.outcome # NoOutcome => url \in DOMAIN recorded'[rec] /\ recorded'[rec][url] = x.outcome
    <2>1. CASE x.outcome = NoOutcome
      BY <1>1, <1>2, <2>1 DEF RecorderInv
    <2>2. CASE x.outcome # NoOutcome
      <3> DEFINE known == With(recorded[rec], url, x.outcome)
      <3>1. recorded' = [recorded EXCEPT ![rec] = known]
        BY <1>1, <2>2 DEF rec, old
      <3>2. x.outcome \in RequestOutcomes
        BY <2>2 DEF Extractions, RequestOutcomes, NoOutcome
      <3>3. /\ DOMAIN known = {url} \cup DOMAIN recorded[rec]
            /\ known[url] = x.outcome
            /\ \A u \in DOMAIN recorded[rec] \ {url} : known[u] = recorded[rec][u]
        BY DEF With
      <3> HIDE DEF known
      <3>4. \A u \in DOMAIN known : known[u] \in RequestOutcomes
        BY <1>2, <1>7, <3>2, <3>3 DEF RecorderInv
      <3> QED BY <1>2, <1>7, <1>8, <3>1, <3>3, <3>4 DEF RecorderInv
    <2> QED BY <2>1, <2>2
  <1>10. IsProbe(t) => Told(new, recorded'[t])
    BY <1>2, <1>3, <1>4, <1>5, <1>7, <1>9 DEF Told, Reading
  <1>11. UNCHANGED <<run, probe, checked>> /\ old.at # "idle"
    BY <1>2 DEF Extract
  <1> QED BY <1>3, <1>6, <1>9, <1>10, <1>11, TaskGoes DEF new, old

\* The counts are written, while the page's line waits.
LEMMA StoreTold == ASSUME ReportInv, NEW t \in SourceThreads, Store(t) PROVE ReportInv'
  <1> DEFINE old == task[t]
             new == task'[t]
  <1>1. Sampled(old) /\ old.at \in {"found", "saving"} /\ (IsProbe(t) => Told(old, recorded[t]))
        /\ DOMAIN task = SourceThreads /\ RecorderInv
    BY DEF ReportInv, TaskInv, Store
  <1>2. /\ DOMAIN task' = SourceThreads /\ \A s \in SourceThreads \ {t} : task'[s] = task[s]
        /\ new.saw = old.saw /\ new.sample = old.sample /\ new.left = old.left
        /\ new.at = IF old.at = "found" THEN "sample" ELSE "read"
        /\ {"at", "feed", "sections", "left", "saw", "sample"} \subseteq DOMAIN new
    BY <1>1 DEF Store, Sampled
  <1>3. UNCHANGED <<run, probe, checked, recorded>>
    BY DEF Store
  <1>4. RecorderInv'
    BY <1>1, <1>3 DEF RecorderInv
  <1> HIDE DEF old, new
  <1>5. Sampled(new) /\ (IsProbe(t) => Told(new, recorded[t]))
    BY <1>1, <1>2 DEF Sampled, Told, Reading
  <1> QED BY <1>1, <1>2, <1>3, <1>4, <1>5, TaskGoes DEF old, new

\* The page has its line, of what its recorder holds.
LEMMA ReadTold == ASSUME ReportInv, NEW t \in SourceThreads, Read(t) PROVE ReportInv'
  <1> DEFINE old == task[t]
             new == task'[t]
             x == Last(old.saw)
             known == Seen(t)
             raised == ~x.news /\ x.outcome # "failed"
             outcome == IF raised /\ (~IsProbe(t) \/ known = NoOutcome) THEN "failed"
                        ELSE IF known # NoOutcome THEN known
                        ELSE IF x.news THEN "ok" ELSE "failed"
             line == [news |-> x.news, complete |-> x.complete, outcome |-> outcome]
  <1>1. Sampled(old) /\ old.at = "read" /\ (IsProbe(t) => Told(old, recorded[t]))
        /\ DOMAIN task = SourceThreads /\ RecorderInv
    BY DEF ReportInv, TaskInv, Read
  <1>2. task' = [task EXCEPT ![t].sample = Append(@, line), ![t].left = Tail(@), ![t].at = "sample"]
    BY DEF Read
  <1>3. x \in Extractions /\ x = old.saw[Len(old.saw)] /\ Len(old.saw) = Len(old.sample) + 1
        /\ old.saw \in Seq(Extractions) /\ old.sample \in Seq(Line) /\ Len(old.sample) \in Nat
    BY <1>1 DEF Sampled, Reading, Last
  <1>4. known \in RequestOutcomes \cup {NoOutcome}
        /\ (IsProbe(t) /\ x.outcome # NoOutcome => known = x.outcome)
    <2>1. known \in RequestOutcomes \cup {NoOutcome}
      BY <1>1, ThreadIs DEF Seen, RecorderInv
    <2>2. ASSUME IsProbe(t), x.outcome # NoOutcome PROVE known = x.outcome
      BY <1>1, <1>3, <2>2, ThreadIs DEF Told, Reading, Seen
    <2> QED BY <2>1, <2>2
  <1> HIDE DEF known
  <1>5. x.complete \in BOOLEAN /\ x.news \in BOOLEAN
    BY <1>3, ExtractionIs
  <1>6. outcome \in RequestOutcomes /\ (IsProbe(t) /\ x.outcome # NoOutcome => outcome = x.outcome)
    BY <1>4, <1>5 DEF RequestOutcomes, NoOutcome
  <1> HIDE DEF outcome
  <1>7. line \in Line /\ line.complete = x.complete /\ line.outcome = outcome
    BY <1>5, <1>6 DEF Line
  <1> HIDE DEF line, x
  <1>8. /\ DOMAIN task' = SourceThreads /\ \A s \in SourceThreads \ {t} : task'[s] = task[s]
        /\ new.saw = old.saw /\ new.sample = Append(old.sample, line) /\ new.at = "sample"
        /\ {"at", "feed", "sections", "left", "saw", "sample"} \subseteq DOMAIN new
    BY <1>1, <1>2 DEF Sampled
  <1>9. UNCHANGED <<run, probe, checked, recorded>>
    BY DEF Read
  <1>10. RecorderInv'
    BY <1>1, <1>9 DEF RecorderInv
  <1>11. \A i \in 1..Len(old.sample) : old.sample[i].complete = old.saw[i].complete
    BY <1>1 DEF Sampled
  <1>12. IsProbe(t) => \A i \in 1..Len(old.sample) : old.saw[i].outcome \in {NoOutcome, old.sample[i].outcome}
    BY <1>1 DEF Told
  <1> HIDE DEF old, new
  <1>13. /\ new.sample \in Seq(Line) /\ Len(new.sample) = Len(old.sample) + 1
         /\ new.sample[Len(new.sample)] = line
         /\ \A i \in 1..Len(old.sample) : new.sample[i] = old.sample[i]
    BY <1>3, <1>7, <1>8, AppendProperties
  <1>14. ASSUME NEW i \in 1..Len(new.sample)
         PROVE  /\ new.sample[i].complete = new.saw[i].complete
                /\ IsProbe(t) => new.saw[i].outcome \in {NoOutcome, new.sample[i].outcome}
    <2>1. CASE i = Len(new.sample)
      BY <1>3, <1>6, <1>7, <1>8, <1>13, <2>1
    <2>2. CASE i \in 1..Len(old.sample)
      BY <1>8, <1>11, <1>12, <1>13, <2>2
    <2> QED BY <1>3, <1>13, <2>1, <2>2
  <1>15. Sampled(new)
    BY <1>3, <1>8, <1>13, <1>14 DEF Sampled, Reading
  <1>16. IsProbe(t) => Told(new, recorded[t])
    BY <1>8, <1>14 DEF Told, Reading
  <1> QED BY <1>1, <1>8, <1>9, <1>10, <1>15, <1>16, TaskGoes DEF old, new
\* A thread at rest has told nothing.
LEMMA RestTells ==
  ASSUME NEW k, Sampled(k), k.at \in {"idle", "discover"}
  PROVE  \A known : Told(k, known)
  <1>1. k.sample = << >> /\ 1..Len(k.sample) = {}
    BY DEF Sampled
  <1> QED BY <1>1 DEF Sampled, Told, Reading

\* A run's threads are put to their start.
LEMMA LaunchIs ==
  ASSUME ReportInv, NEW r \in Runs, NEW S, Launch(r, S)
  PROVE  /\ run' \in [Runs -> {"idle", "reading"}] /\ DOMAIN task' = SourceThreads
         /\ run'[r] = "reading" /\ \A q \in Runs \ {r} : run'[q] = run[q]
         /\ \A t \in SourceThreads : t[1] # r => task'[t] = task[t]
         /\ \A t \in SourceThreads : t[1] = r => Sampled(task'[t]) /\ \A known : Told(task'[t], known)
  <1>1. \A t \in SourceThreads : t[1] = r => task'[t] \in {NoTask, [NoTask EXCEPT !.at = "discover"]}
    BY DEF Launch
  <1> QED BY <1>1, RestIsSampled DEF Launch, ReportInv, RunInv

\* A run's threads are put to rest.
LEMMA EndedIs ==
  ASSUME ReportInv, NEW r \in Runs, RunEnded(r)
  PROVE  /\ run' \in [Runs -> {"idle", "reading"}] /\ DOMAIN task' = SourceThreads
         /\ run'[r] = "idle" /\ \A q \in Runs \ {r} : run'[q] = run[q]
         /\ \A t \in SourceThreads : t[1] # r => task'[t] = task[t]
         /\ \A t \in SourceThreads : t[1] = r => /\ Sampled(task'[t]) /\ task'[t].at = "idle"
                                           /\ \A known : Told(task'[t], known)
  <1>1. \A t \in SourceThreads : t[1] = r => task'[t] = NoTask
    BY DEF RunEnded
  <1>2. NoTask.at = "idle"
    BY DEF NoTask
  <1> QED BY <1>1, <1>2, RestIsSampled DEF RunEnded, ReportInv, RunInv

\* A probe starts, when none runs: the recorders it replaces are nobody's.
LEMMA StartProbeTold == ASSUME ReportInv, StartProbe PROVE ReportInv'
  <1>1. PICK r \in Probes, S \in SUBSET Sources : Launch(r, S)
    BY DEF StartProbe
  <1>2. Probes \subseteq Runs /\ \A q \in Probes : run[q] = "idle"
    BY DEF Runs, StartProbe, MayProbe, ReportInv, RunInv
  <1>3. RecorderInv'
    <2>1. recorded' = [x \in RecordersIn |-> IF x = OfChecks THEN recorded[x] ELSE << >>]
      BY DEF StartProbe
    <2> QED BY <2>1 DEF ReportInv, RecorderInv
  <1>4. TaskInv'
    <2>1. ASSUME NEW t \in SourceThreads, IsProbe(t), t[1] # r PROVE Told(task'[t], recorded'[t])
      <3>1. task'[t] = task[t] /\ task[t].at = "idle" /\ Sampled(task[t])
        BY <1>1, <1>2, <2>1, LaunchIs DEF IsProbe, ReportInv, RunInv, TaskInv
      <3> QED BY <3>1, RestTells
    <2> QED BY <1>1, <1>2, <2>1, LaunchIs DEF ReportInv, TaskInv
  <1>5. RunInv'
    <2>1. {"running", "error", "report"} \subseteq DOMAIN probe' /\ probe'.running = TRUE
      BY DEF StartProbe, ReportInv, RunInv
    <2>2. run'[r] = "reading" /\ \A q \in Probes \ {r} : run'[q] = "idle"
      BY <1>1, <1>2, LaunchIs
    <2>3. \A t \in SourceThreads : run'[t[1]] = "idle" => task'[t].at = "idle"
      BY <1>1, <1>2, LaunchIs, ThreadIs DEF ReportInv, RunInv
    <2> QED BY <1>1, <1>2, <2>1, <2>2, <2>3, LaunchIs DEF RunInv
  <1>6. OkMeansWhole'
    BY DEF StartProbe, ReportInv, OkMeansWhole
  <1> QED BY <1>3, <1>4, <1>5, <1>6 DEF ReportInv

\* A check starts, beside a probe or other checks.
LEMMA StartCheckTold == ASSUME ReportInv, StartCheck PROVE ReportInv'
  <1>1. PICK r \in Checks, S \in SUBSET Sources : Launch(r, S)
    BY DEF StartCheck
  <1>2. r \in Runs /\ Probes \subseteq Runs /\ r \notin Probes
    BY ProbesAreNotChecks DEF Runs
  <1>3. UNCHANGED <<recorded, probe, checked>>
    BY DEF StartCheck
  <1>4. RecorderInv' /\ TaskInv'
    BY <1>1, <1>2, <1>3, LaunchIs DEF ReportInv, RecorderInv, TaskInv
  <1>5. RunInv'
    <2>1. \A q \in Probes : run'[q] = run[q]
      BY <1>1, <1>2, LaunchIs
    <2>2. \A t \in SourceThreads : run'[t[1]] = "idle" => task'[t].at = "idle"
      BY <1>1, <1>2, LaunchIs, ThreadIs DEF ReportInv, RunInv
    <2> QED BY <1>1, <1>2, <1>3, <2>1, <2>2, LaunchIs DEF ReportInv, RunInv
  <1>6. OkMeansWhole'
    BY <1>3 DEF ReportInv, OkMeansWhole
  <1> QED BY <1>4, <1>5, <1>6 DEF ReportInv

\* The one probe that runs ends, with a report or without.
LEMMA EndProbeTold ==
  ASSUME ReportInv, NEW r \in Probes, FinishProbe(r) \/ FailProbe(r)
  PROVE  ReportInv'
  <1>1. r \in Runs /\ Probes \subseteq Runs /\ RunEnded(r) /\ run[r] = "reading"
    BY DEF Runs, FinishProbe, FailProbe, Done
  <1>2. UNCHANGED <<recorded, checked>>
    BY DEF FinishProbe, FailProbe
  <1>3. RecorderInv' /\ TaskInv'
    BY <1>1, <1>2, EndedIs DEF ReportInv, RecorderInv, TaskInv
  <1>4. RunInv'
    <2>1. {"running", "error", "report"} \subseteq DOMAIN probe' /\ probe'.running = FALSE
      BY DEF FinishProbe, FailProbe, ErrorShown, ReportInv, RunInv
    <2>2. \A q \in Probes : run'[q] = "idle"
      BY <1>1, EndedIs DEF ReportInv, RunInv
    <2>3. \A t \in SourceThreads : run'[t[1]] = "idle" => task'[t].at = "idle"
      BY <1>1, EndedIs, ThreadIs DEF ReportInv, RunInv
    <2> QED BY <1>1, <2>1, <2>2, <2>3, EndedIs DEF RunInv
  <1>5. OkMeansWhole'
    BY <1>2 DEF ReportInv, OkMeansWhole
  <1> QED BY <1>3, <1>4, <1>5 DEF ReportInv

\* A source is called ok when each page of its sample gave a whole article.
LEMMA OkIsWhole ==
  ASSUME NEW k, Sampled(k), k.at = "sample", Verdict(k) = "ok"
  PROVE  \A i \in DOMAIN k.saw : k.saw[i].complete
  <1>1. /\ Len(k.saw) = Len(k.sample) /\ DOMAIN k.saw = 1..Len(k.saw) /\ DOMAIN k.sample = 1..Len(k.sample)
        /\ \A i \in 1..Len(k.sample) : k.sample[i].complete = k.saw[i].complete
    BY DEF Sampled
  <1>2. \A i \in DOMAIN k.sample : ~Missing(k.sample[i])
    BY DEF Verdict
  <1> QED BY <1>1, <1>2 DEF Missing

\* A check ends: what it calls ok was whole.
LEMMA FinishCheckTold == ASSUME ReportInv, NEW r \in Checks, FinishCheck(r) PROVE ReportInv'
  <1>1. r \in Runs /\ Probes \subseteq Runs /\ r \notin Probes /\ RunEnded(r)
    BY ProbesAreNotChecks DEF Runs, FinishCheck
  <1>2. UNCHANGED <<recorded, probe>>
    BY DEF FinishCheck
  <1>3. RecorderInv' /\ TaskInv'
    BY <1>1, <1>2, EndedIs DEF ReportInv, RecorderInv, TaskInv
  <1>4. RunInv'
    <2>1. \A q \in Probes : run'[q] = run[q]
      BY <1>1, EndedIs
    <2>2. \A t \in SourceThreads : run'[t[1]] = "idle" => task'[t].at = "idle"
      BY <1>1, EndedIs, ThreadIs DEF ReportInv, RunInv
    <2> QED BY <1>1, <1>2, <2>1, <2>2, EndedIs DEF ReportInv, RunInv
  <1>5. OkMeansWhole'
    <2> DEFINE whole == {s \in SourcesOf(r) : \A i \in DOMAIN task[<<r, s>>].saw :
                                                  task[<<r, s>>].saw[i].complete}
               status == [s \in SourcesOf(r) |-> Verdict(task[<<r, s>>])]
    <2>1. checked'.report.status = status /\ checked'.whole = whole
      BY DEF FinishCheck, Report
    <2>2. ASSUME NEW s \in SourcesOf(r), Verdict(task[<<r, s>>]) = "ok" PROVE s \in whole
      <3>1. <<r, s>> \in SourceThreads
        BY <1>1 DEF SourcesOf, SourceThreads
      <3>2. Sampled(task[<<r, s>>])
        BY <3>1 DEF ReportInv, TaskInv
      <3>3. task[<<r, s>>].at = "sample"
        BY DEF FinishCheck, Done, SampleRead
      <3> QED BY <2>2, <3>2, <3>3, OkIsWhole
    <2> HIDE DEF whole
    <2> QED BY <2>1, <2>2 DEF OkMeansWhole
  <1> QED BY <1>3, <1>4, <1>5 DEF ReportInv

\* After a restart nothing runs, and no check has reported.
LEMMA RestartTold == ASSUME ReportInv, Restart PROVE ReportInv'
  <1>1. RecorderInv'
    BY DEF Restart, RecorderInv
  <1>2. TaskInv'
    BY RestIsSampled DEF Restart, TaskInv
  <1>3. RunInv'
    <2>1. Probes \subseteq Runs /\ \A t \in SourceThreads : task'[t].at = "idle"
      BY DEF Runs, Restart, NoTask
    <2> QED BY <2>1 DEF Restart, RunInv
  <1>4. OkMeansWhole'
    BY DEF Restart, OkMeansWhole, NoReport
  <1> QED BY <1>1, <1>2, <1>3, <1>4 DEF ReportInv

\* Every step keeps it.
LEMMA ReportNext == ReportInv /\ [ProbesNext]_probeVars => ReportInv'
  <1> SUFFICES ASSUME ReportInv, [ProbesNext]_probeVars PROVE ReportInv'
    OBVIOUS
  <1>1. CASE UNCHANGED probeVars
    BY <1>1 DEF probeVars, ReportInv, RecorderInv, TaskInv, RunInv, OkMeansWhole, Sampled, Told
  <1> QED BY <1>1, StartProbeTold, StartCheckTold, EndProbeTold, FinishCheckTold, RestartTold,
             DiscoverTold, ExtractTold, StoreTold, ReadTold DEF ProbesNext

\* For any number of sources, pages and runs that overlap: each line of a probe's sample
\* has what its own extraction recorded; a source that a check calls ok gave a whole article
\* for each page of its sample; and the page is shown the one probe that runs.
THEOREM ProbesHold == ProbesSpec => []ProbesAreTrue
  <1>1. ProbesInit => ReportInv
    BY ReportInit
  <1>2. ReportInv /\ [ProbesNext]_probeVars => ReportInv'
    BY ReportNext
  <1>3. ReportInv => ProbesAreTrue
    BY ReportImplies
  <1> QED BY <1>1, <1>2, <1>3, PTL DEF ProbesSpec
=============================================================================
