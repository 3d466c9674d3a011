-------------------------------- MODULE Pages --------------------------------
(***************************************************************************)
(* The pages a claim reads as evidence: the page cache that all claims     *)
(* share (services/fact_checker/retrieval/scraper.py), the pools that read  *)
(* a claim's pages at once and may stop waiting for them (concurrency.py),  *)
(* and the cascade of strategies that reads one page (services/scraper/).   *)
(*                                                                         *)
(* A call reads a list of pages, one thread for each.  What it is for       *)
(* decides how: "evidence" goes through the cache and SCRAPE's permit,      *)
(* "writing" (related_news.py) takes the permit only, an "article" neither, *)
(* and only an article is worth a browser.                                  *)
(***************************************************************************)
EXTENDS Integers, Sequences, FiniteSets

CONSTANTS
  Calls,        \* calls that read pages; each is made once
  Urls,         \* pages
  MaxItems,     \* bound: pages of a call
  Plans,        \* bound: what each call may be: [purpose, timed, items]
  Scripted,     \* pages of sources that say they need a browser
  ScrapeLimit,  \* permits of SCRAPE, and threads of a call's pool
  BrowserLimit, \* permits of BROWSER
  MaxEntries,   \* MAX_ENTRIES of the cache
  Quarter,      \* entries a full cache drops (MAX_ENTRIES // 4)
  Ttl,          \* ticks a page is kept (TTL_SECONDS)
  FailureTtl    \* ticks a failure is kept (FAILURE_TTL_SECONDS)

Purposes == {"evidence", "writing", "article"}

ItemLists == UNION {[1..n -> Urls] : n \in 1..MaxItems}

\* What is assumed of the constants.
ASSUME PagesAssumption ==
  /\ IsFiniteSet(Calls)
  /\ Scripted \subseteq Urls
  /\ Plans \in [Calls -> SUBSET [purpose : Purposes, timed : BOOLEAN, items : ItemLists]]
  /\ \A c \in Calls : \A p \in Plans[c] : p.timed => p.purpose = "evidence"
  /\ {MaxItems, ScrapeLimit, BrowserLimit, Ttl, FailureTtl} \subseteq Nat \ {0}
  /\ MaxEntries \in Nat /\ Quarter \in 1..MaxEntries

VARIABLES
  call,    \* each call: a bounded_map over its pages
  thread,  \* what the thread of each page of a call does
  done     \* _done, in the order of the dict

vars == <<call, thread, done>>

Threads == Calls \X (1..MaxItems)

\* Where a page's thread is; it belongs to a call's pool, waits for another
\* thread's fetch, or goes through the cascade itself.
Cascading == {"trying", "fetching", "toParse", "parsing", "toRender", "rendering",
              "toReread", "rereading", "toFill", "filling"}
Places == {"idle", "queued", "following", "toScrape", "landing", "announcing", "over"}
          \cup Cascading

\* What an attempt comes to, as far as the cascade tells it apart: no article
\* found in the page (NO_CONTENT, TOO_SHORT, ERROR), a refusal a browser may
\* get past (401, 403, 429), a page that is not there for anybody (another
\* status, a timeout, no such host, the URL guard), no browser installed.
Outcomes == {"ok", "no_article", "refused", "gone", "unavailable"}

Strategies == {"trafilatura", "beautifulsoup", "playwright"}

\* left: strategies still to try. page: HTML at hand. unfetchable: the plain
\* request failed (html_unavailable). browserOnly: as the code's. gets,
\* renders: requests sent. leader: whose fetch a following thread waits for.
\* news: whether there is an article. cached: it fetched nothing itself.
Thread == [at : Places, left : Seq(Strategies), page : BOOLEAN,
           unfetchable : BOOLEAN, browserOnly : BOOLEAN,
           gets : Nat, renders : Nat, leader : Threads \cup {<< >>},
           news : BOOLEAN, cached : BOOLEAN]

Idle == [at |-> "idle", left |-> << >>, page |-> FALSE, unfetchable |-> FALSE,
         browserOnly |-> FALSE, gets |-> 0, renders |-> 0, leader |-> << >>,
         news |-> FALSE, cached |-> FALSE]

\* A thread that has its outcome.
Over(news, cached) == [Idle EXCEPT !.at = "over", !.news = news, !.cached = cached]

Results == {"page", "snippet", "cached", "late"}

Call == [at : {"idle", "waiting", "done"}, purpose : Purposes, timed : BOOLEAN,
         items : Seq(Urls), got : Seq(Results)]

\* left: ticks until the entry expires.
Entry == [url : Urls, news : BOOLEAN, left : 0..Ttl]

Init ==
  /\ call = [c \in Calls |-> [at |-> "idle", purpose |-> "evidence", timed |-> FALSE,
                              items |-> << >>, got |-> << >>]]
  /\ thread = [t \in Threads |-> Idle]
  /\ done = << >>

-----------------------------------------------------------------------------
(* A call: the threads of its pool, the answer in the order of its pages. *)

Items(c) == DOMAIN call[c].items
UrlOf(t) == call[t[1]].items[t[2]]
Purpose(t) == call[t[1]].purpose

\* Threads of pages are submitted together; they wait for a place in the pool.
\* Only a claim's evidence has a deadline.
Begin(c, plan) ==
  /\ call[c].at = "idle"
  /\ call' = [call EXCEPT ![c] = [at |-> "waiting", purpose |-> plan.purpose,
                                  timed |-> plan.timed, items |-> plan.items, got |-> << >>]]
  /\ thread' = [t \in Threads |-> IF t[1] = c /\ t[2] \in DOMAIN plan.items
                                  THEN [Idle EXCEPT !.at = "queued"] ELSE thread[t]]
  /\ UNCHANGED done

Outcome(t) == IF thread[t].cached THEN "cached" ELSE IF thread[t].news THEN "page" ELSE "snippet"

\* The results, in the order of the pages.
Got(c, Late(_)) == [i \in Items(c) |-> IF Late(i) THEN "late" ELSE Outcome(<<c, i>>)]

Finished(c) == \A i \in Items(c) : thread[<<c, i>>].at = "over"

\* Every page's thread is over.
Return(c) ==
  LET Late(i) == FALSE
  IN /\ call[c].at = "waiting"
     /\ Finished(c)
     /\ call' = [call EXCEPT ![c].at = "done", ![c].got = Got(c, Late)]
     /\ UNCHANGED <<thread, done>>

\* The timeout: unfinished pages are late, threads that have not begun never
\* do (cancel_futures), the others go on with what they hold.
TimesUp(c) ==
  LET Late(i) == thread[<<c, i>>].at # "over"
  IN /\ call[c].at = "waiting"
     /\ call[c].timed
     /\ ~Finished(c)
     /\ call' = [call EXCEPT ![c].at = "done", ![c].got = Got(c, Late)]
     /\ thread' = [t \in Threads |-> IF t[1] = c /\ thread[t].at = "queued"
                                     THEN [thread[t] EXCEPT !.at = "over"] ELSE thread[t]]
     /\ UNCHANGED done

-----------------------------------------------------------------------------
(* The page cache. *)

At(places) == {t \in Threads : thread[t].at \in places}

\* A thread that leads the fetch of its page, from the look under the lock to
\* the other look under the lock (_pending).
Leads(t, u) ==
  /\ thread[t].at \in Cascading \cup {"toScrape", "landing"}
  /\ Purpose(t) = "evidence"
  /\ UrlOf(t) = u

Pending(u) == \E t \in Threads : Leads(t, u)

Fresh(u) == {i \in DOMAIN done : done[i].url = u /\ done[i].left > 0}

\* A place in the pool: the threads of a call's pages take turns.
Begins(t) ==
  /\ thread[t].at = "queued"
  /\ Cardinality({i \in Items(t[1]) : thread[<<t[1], i>>].at \notin {"queued", "over"}})
       < ScrapeLimit

Without(u) == SelectSeq(done, LAMBDA e : e.url # u)

Cascade(t) == IF UrlOf(t) \in Scripted /\ Purpose(t) = "article"
              THEN <<"playwright", "trafilatura", "beautifulsoup">>
              ELSE <<"trafilatura", "beautifulsoup", "playwright">>

Serve(t) ==
  /\ Begins(t)
  /\ Purpose(t) = "evidence"
  /\ \E i \in Fresh(UrlOf(t)) :
       thread' = [thread EXCEPT ![t] = Over(done[i].news, TRUE)]
  /\ UNCHANGED <<call, done>>

Follow(t) ==
  /\ Begins(t)
  /\ Purpose(t) = "evidence"
  /\ Fresh(UrlOf(t)) = {}
  /\ \E k \in Threads :
       /\ Leads(k, UrlOf(t))
       /\ thread' = [thread EXCEPT ![t].at = "following", ![t].leader = k, ![t].cached = TRUE]
  /\ done' = Without(UrlOf(t))
  /\ UNCHANGED call

\* Fault: whether somebody fetches the page already is not looked at.
LeadAnyway(t) ==
  /\ Begins(t)
  /\ Purpose(t) = "evidence"
  /\ Fresh(UrlOf(t)) = {}
  /\ thread' = [thread EXCEPT ![t].at = "toScrape", ![t].left = Cascade(t)]
  /\ done' = Without(UrlOf(t))
  /\ UNCHANGED call

\* An expired entry is deleted by whoever finds it.
Lead(t) ==
  /\ Begins(t)
  /\ Purpose(t) = "evidence"
  /\ Fresh(UrlOf(t)) = {}
  /\ ~Pending(UrlOf(t))
  /\ thread' = [thread EXCEPT ![t].at = "toScrape", ![t].left = Cascade(t)]
  /\ done' = Without(UrlOf(t))
  /\ UNCHANGED call

\* A page that is not evidence is not cached; an article takes no permit.
ReadUncached(t) ==
  /\ Begins(t)
  /\ Purpose(t) # "evidence"
  /\ thread' = [thread EXCEPT ![t].at = IF Purpose(t) = "writing" THEN "toScrape" ELSE "trying",
                              ![t].left = Cascade(t)]
  /\ UNCHANGED <<call, done>>

\* A full cache drops its oldest quarter first.
Stored(u, news) ==
  LET kept == IF Len(done) >= MaxEntries
              THEN SubSeq(done, Quarter + 1, Len(done)) ELSE done
  IN Append(kept, [url |-> u, news |-> news,
                   left |-> IF news THEN Ttl ELSE FailureTtl])

\* The leader's second look at the cache: the outcome is stored, a failure too.
Land(t) ==
  /\ thread[t].at = "landing"
  /\ thread' = [thread EXCEPT ![t].at = "announcing"]
  /\ done' = Stored(UrlOf(t), thread[t].news)
  /\ UNCHANGED call

\* Fault: only an article is announced.
AnnounceArticles(t) ==
  /\ thread[t].at = "announcing"
  /\ thread' = [k \in Threads |->
       IF k = t THEN Over(thread[t].news, FALSE)
       ELSE IF thread[k].at = "following" /\ thread[k].leader = t /\ thread[t].news
       THEN Over(TRUE, TRUE)
       ELSE thread[k]]
  /\ UNCHANGED <<call, done>>

\* set_result: whoever waits has what the leader has.
Announce(t) ==
  /\ thread[t].at = "announcing"
  /\ thread' = [k \in Threads |->
       IF k = t THEN Over(thread[t].news, FALSE)
       ELSE IF thread[k].at = "following" /\ thread[k].leader = t
       THEN Over(thread[t].news, TRUE)
       ELSE thread[k]]
  /\ UNCHANGED <<call, done>>

-----------------------------------------------------------------------------
(* One page through the cascade (ExtractorService.extract). *)

Goes(t, from, to) ==
  /\ thread[t].at = from
  /\ thread' = [thread EXCEPT ![t].at = to]
  /\ UNCHANGED <<call, done>>

\* SCRAPE is held while the page is read, whichever strategy reads it.
Scraping == {t \in At(Cascading) : Purpose(t) # "article"}

AcquireScrape(t) ==
  /\ Cardinality(Scraping) < ScrapeLimit
  /\ Goes(t, "toScrape", "trying")

\* PARSE has one permit.
ParseIsFree == At({"parsing", "rereading", "filling"}) = {}

\* A page is read or given up: the permit is released, the extraction is
\* counted, and only evidence goes back to the cache.
Ended(t, news) ==
  IF Purpose(t) = "evidence" THEN [Idle EXCEPT !.at = "landing", !.news = news]
  ELSE Over(news, FALSE)

\* Strategies that another parser's failure, or what the page is for, rules out.
Skipped(t, s) ==
  IF s = "playwright" THEN Purpose(t) # "article"
  ELSE thread[t].unfetchable \/ thread[t].browserOnly

Skip(t) ==
  /\ thread[t].at = "trying"
  /\ thread[t].left # << >>
  /\ Skipped(t, Head(thread[t].left))
  /\ thread' = [thread EXCEPT ![t].left = Tail(@)]
  /\ UNCHANGED <<call, done>>

Ends(t, from, news) ==
  /\ thread[t].at = from
  /\ thread' = [thread EXCEPT ![t] = Ended(t, news)]
  /\ UNCHANGED <<call, done>>

Exhausted(t) == thread[t].left = << >> /\ Ends(t, "trying", FALSE)

Trying(t, S) ==
  /\ thread[t].at = "trying"
  /\ thread[t].left # << >>
  /\ Head(thread[t].left) \in S
  /\ ~Skipped(t, Head(thread[t].left))

\* A parser reads the page another parser fetched, or fetches it.
TryHtml(t) ==
  /\ Trying(t, {"trafilatura", "beautifulsoup"})
  /\ thread' = [thread EXCEPT ![t].at = IF thread[t].page THEN "toParse" ELSE "fetching",
                              ![t].gets = IF thread[t].page THEN @ ELSE @ + 1]
  /\ UNCHANGED <<call, done>>

\* What follows an attempt that found no article: the next strategy, only a
\* browser, or nothing, because the page is not there for anybody.
AfterFailure(x, outcome, html) ==
  [x EXCEPT !.unfetchable = IF html THEN ~x.page ELSE @,
            !.browserOnly = @ \/ outcome = "refused",
            !.left = IF outcome = "gone" THEN << >> ELSE Tail(@),
            !.at = "trying"]

Attempted(t, from, outcomes, html) ==
  /\ thread[t].at = from
  /\ \E o \in outcomes : thread' = [thread EXCEPT ![t] = AfterFailure(@, o, html)]
  /\ UNCHANGED <<call, done>>

\* The plain request: a page, or a failure that classify() names.
Fetched(t) ==
  \/ /\ thread[t].at = "fetching"
     /\ thread' = [thread EXCEPT ![t].page = TRUE, ![t].at = "toParse"]
     /\ UNCHANGED <<call, done>>
  \/ Attempted(t, "fetching", {"no_article", "refused", "gone"}, TRUE)

Parse(t) == ParseIsFree /\ Goes(t, "toParse", "parsing")

\* An article that is long enough; what its parser missed is read from the
\* page once more (_fill_metadata), under PARSE again.
Found(t, from) == Goes(t, from, "toFill") \/ Ends(t, from, TRUE)

Parsed(t) == Found(t, "parsing") \/ Attempted(t, "parsing", {"no_article"}, TRUE)

Fill(t) == ParseIsFree /\ Goes(t, "toFill", "filling")

Filled(t) == Ends(t, "filling", TRUE)

\* No playwright, or an address the guard refuses: nothing is sent.
TryBrowser(t) ==
  /\ Trying(t, {"playwright"})
  /\ \/ Goes(t, "trying", "toRender")
     \/ Attempted(t, "trying", {"unavailable", "gone"}, FALSE)

Render(t) ==
  /\ thread[t].at = "toRender"
  /\ Cardinality(At({"rendering"})) < BrowserLimit
  /\ thread' = [thread EXCEPT ![t].at = "rendering", ![t].renders = @ + 1]
  /\ UNCHANGED <<call, done>>

\* BROWSER is released before the rendered page waits for PARSE.
Rendered(t) ==
  \/ Goes(t, "rendering", "toReread")
  \/ Attempted(t, "rendering", Outcomes \ {"ok"}, FALSE)

Reread(t) == ParseIsFree /\ Goes(t, "toReread", "rereading")

\* Both parsers, one after the other.
Rereads(t) == Found(t, "rereading") \/ Attempted(t, "rereading", {"no_article"}, FALSE)

-----------------------------------------------------------------------------

\* Time passes for what is kept.
Tick ==
  /\ \E i \in DOMAIN done : done[i].left > 0
  /\ done' = [i \in DOMAIN done |->
       [done[i] EXCEPT !.left = IF @ > 0 THEN @ - 1 ELSE 0]]
  /\ UNCHANGED <<call, thread>>

\* What a page's thread goes on with.
GoesOn(t) ==
  \/ Serve(t) \/ Follow(t) \/ Lead(t) \/ ReadUncached(t)
  \/ AcquireScrape(t)
  \/ Skip(t) \/ Exhausted(t)
  \/ TryHtml(t) \/ Fetched(t) \/ Parse(t) \/ Parsed(t)
  \/ TryBrowser(t) \/ Render(t) \/ Rendered(t) \/ Reread(t) \/ Rereads(t)
  \/ Fill(t) \/ Filled(t)
  \/ Land(t) \/ Announce(t)

Next ==
  \/ \E c \in Calls :
       \/ \E plan \in Plans[c] : Begin(c, plan)
       \/ Return(c)
       \/ TimesUp(c)
  \/ \E t \in Threads : GoesOn(t)
  \/ Tick

Spec == Init /\ [][Next]_vars

\* Fetches and renders have timeouts, parsers end, and a call that waits for
\* its pages wakes up; nothing is assumed of deadlines or of time.
Fairness ==
  /\ \A t \in Threads : WF_vars(GoesOn(t))
  /\ \A c \in Calls : WF_vars(Return(c))

FairSpec == Spec /\ Fairness

-----------------------------------------------------------------------------
(* What must hold. *)

\* Types of every variable.
TypeOK ==
  /\ call \in [Calls -> Call]
  /\ thread \in [Threads -> Thread]
  /\ done \in Seq(Entry)

\* Claims that find the same page share one fetch: no two threads fetch a page
\* for evidence at the same time, and whoever waits, waits for the thread that
\* does, or that has still to say what it found.
OneFetchPerPage ==
  /\ \A t, k \in Threads :
       Leads(t, UrlOf(t)) /\ Leads(k, UrlOf(t)) => t = k
  /\ \A t \in Threads : thread[t].at = "following" =>
       LET l == thread[t].leader
       IN /\ l \in Threads
          /\ Leads(l, UrlOf(t)) \/ (thread[l].at = "announcing" /\ UrlOf(l) = UrlOf(t))

\* A page is asked for once and rendered once, however many strategies read it,
\* and a page that is not an article is never rendered.
AskedOnce ==
  \A t \in Threads :
    /\ thread[t].gets <= 1
    /\ thread[t].renders <= 1
    /\ Purpose(t) # "article" => thread[t].renders = 0

\* Every page's thread ends, also one whose call stopped waiting for it, and
\* with it whatever it holds; every call has its answer.
ReadingEnds ==
  /\ \A t \in Threads : thread[t].at # "idle" ~> thread[t].at = "over"
  /\ \A c \in Calls : call[c].at = "waiting" ~> call[c].at = "done"
=============================================================================
