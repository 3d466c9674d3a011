----------------------------- MODULE Discovery -----------------------------
(***************************************************************************)
(* From the configured sources, or from what is trending, to a round of     *)
(* candidates: the steps that read a source (services/scraper/discovery.py  *)
(* and strategies/), the links each keeps, what the lake has already, the   *)
(* mission screen, each source's share, and the order                       *)
(* (services/ingestion_service.py, services/selection/, services/trends/).  *)
(*                                                                         *)
(* What a link says of itself, and what a model reads in it, is a fact of   *)
(* the link. Scores are left to chance: any order may be the best first.    *)
(***************************************************************************)
EXTENDS Integers, Sequences, FiniteSets, SequencesExt

CONSTANTS
  Topics,       \* the topics of both editions
  TopicsOf,     \* those of each edition
  Links,        \* the links that a feed, a page or a signal may carry
  Fact,         \* what each link is
  Sources,      \* the enabled sources, in order
  Source,       \* what each source is and lists
  Signals,      \* the enabled trend signals, in order
  Signal,       \* what each signal is and lists
  MaxSections,  \* max_sections
  ScreenDepth   \* SCREEN_DEPTH

Editions == {"positive", "devastating"}
Steps == <<"feed", "json", "sitemap", "sections", "lenient">>

ASSUME DiscoveryAssumption ==
  /\ IsFiniteSet(Links)
  /\ TopicsOf \in [Editions -> SUBSET Topics]
  /\ MaxSections \in Nat /\ ScreenDepth \in Nat \ {0}
  /\ \A u \in Links : Fact[u].filed \cup Fact[u].says \cup Fact[u].close \subseteq Topics
  /\ Sources \in Seq(DOMAIN Source) /\ Signals \in Seq(DOMAIN Signal)
  /\ \A s \in DOMAIN Source :
       /\ Source[s].groups \subseteq Topics
       /\ Source[s].lists \in [{"feed", "json", "sitemap", "lenient"} -> Seq(Links)]
       /\ Source[s].sections \in Seq([topic : Topics, links : Seq(Links)])
  /\ \A g \in DOMAIN Signal :
       LET trends == Signal[g].trends
       IN /\ trends \in Seq(ToSet(trends))
          /\ \A trend \in ToSet(trends) : {trend.articles, trend.search} \subseteq Seq(Links)

\* A request for a round. asked: the topics of its groups, none for all of them.
Request == [lens : {"topics", "trending"}, edition : Editions, asked : SUBSET Topics,
            per : Nat \ {0}, search : BOOLEAN]

Key(u) == Fact[u].key

FirstN(s, n) == SubSeq(s, 1, IF Len(s) < n THEN Len(s) ELSE n)

\* (With \o the result is computed once, not at every use.)
Each(s, Op(_)) == << >> \o [i \in DOMAIN s |-> Op(i)]

\* The elements of s at the positions `at`, those that are so, and the first of each kind.
At(s, at) ==
  LET upto[n \in 0..Len(s)] ==
        IF n = 0 THEN << >>
        ELSE IF n \in at THEN Append(upto[n - 1], s[n]) ELSE upto[n - 1]
  IN upto[Len(s)]
Where(s, Is(_)) == At(s, {i \in DOMAIN s : Is(s[i])})
FirstsOf(s, Of(_)) == {i \in DOMAIN s : \A j \in 1..(i - 1) : Of(s[j]) # Of(s[i])}

-----------------------------------------------------------------------------
(* What is read in a link, and of it. *)

\* By its path: an article's (_is_article), or shaped like one wherever it is.
LooksLikeArticle(u) == Fact[u].article
Shaped(u) == Fact[u].shaped

\* Older than MAX_CANDIDATE_AGE, by its feed, or by the date in its link.
TooOld(u) == Fact[u].old

\* By its headline: a podcast, a roundup, a gallery...; a death.
NotAnArticle(u) == Fact[u].format
ReportsDeath(u) == Fact[u].death

\* By its embedding: nearer what the edition never covers than what it does.
OffSubject(u, edition) == edition \in Fact[u].offIn

SameStory(u, v) == Fact[u].story = Fact[v].story

\* The trends a signal lists, with the articles behind each.
Trends(signal) == Signal[signal].trends

-----------------------------------------------------------------------------
(* What a step keeps of the links it reads. *)

\* topics_for
Wanted(req) == IF req.asked = {} THEN TopicsOf[req.edition] ELSE req.asked

Narrowed(req) == ~(TopicsOf["positive"] \subseteq Wanted(req))

\* covers_only: everything the source publishes is on the topics asked for.
CoversOnly(s, req) ==
  /\ Source[s].groups \cap TopicsOf[req.edition] # {} /\ Narrowed(req)
  /\ Source[s].groups \cap TopicsOf[req.edition] \subseteq Wanted(req)

ByTopic(s, req) == Source[s].language = "en" /\ ~CoversOnly(s, req)
Spanish(s, req) == Source[s].language = "es" /\ Narrowed(req)

Says(u, req) == Fact[u].says \cap Wanted(req) # {}
InSection(u, req) == Fact[u].filed \cap Wanted(req) # {}

\* Filed under a section the edition never covers. Crime is one edition's subject.
OffMission(u, edition) ==
  Fact[u].section = "never" \/ (Fact[u].section = "crime" /\ edition # "devastating")

\* RSSDiscoveryStrategy.discover_items
FeedKeeps(u, s, req) ==
  LET said == (ByTopic(s, req) \/ Spanish(s, req)) /\ Says(u, req)
  IN /\ LooksLikeArticle(u) /\ ~OffMission(u, req.edition)
     /\ Fact[u].filed # {} => InSection(u, req) \/ said
     /\ ByTopic(s, req) => InSection(u, req) \/ said
     /\ Spanish(s, req) => InSection(u, req) \/ said

\* TrafilaturaFeedDiscoveryStrategy.discover: from the link alone.
LenientKeeps(u, s, req) ==
  /\ LooksLikeArticle(u) /\ ~OffMission(u, req.edition)
  /\ ByTopic(s, req) \/ Spanish(s, req) => InSection(u, req) \/ Says(u, req)

\* A section page's links are held to the positive edition's sections in both.
SectionKeeps(u) == Shaped(u) /\ ~OffMission(u, "positive")

\* TopicPageDiscoveryStrategy.crawl. down: the parts that do not answer.
SectionLinks(s, req, down) ==
  LET asked == Where(Source[s].sections, LAMBDA p : p.topic \in Wanted(req))
      read == Where(FirstN(asked, MaxSections), LAMBDA p : <<"page", s, p.topic>> \notin down)
      links == FlattenSeq([i \in DOMAIN read |-> Where(read[i].links, SectionKeeps)])
  IN At(links, FirstsOf(links, LAMBDA u : u))

Found(step, s, req, down) ==
  CASE step = "sections" -> SectionLinks(s, req, down)
    [] step = "lenient" -> Where(Source[s].lists[step], LAMBDA u : LenientKeeps(u, s, req))
    [] OTHER -> Where(Source[s].lists[step], LAMBDA u : FeedKeeps(u, s, req))

\* DiscoveryService._recent, by the feed's time or the link's own date.
Recent(s) == Where(s, LAMBDA u : ~TooOld(u))

NoResult == [urls |-> << >>, step |-> "none", stale |-> 0]

\* The steps that tell when a link was published.
Dated == {"feed", "json", "sitemap"}

\* DiscoveryService.run: the first step configured that answers with something
\* new enough. down: the steps of a source that fail.
Discovered(s, req, down) ==
  LET Answers(k) == /\ Steps[k] \in Source[s].steps /\ <<"step", s, Steps[k]>> \notin down
                    /\ Recent(Found(Steps[k], s, req, down)) # << >>
      first == CHOOSE k \in DOMAIN Steps : Answers(k) /\ \A j \in 1..(k - 1) : ~Answers(j)
      found == Found(Steps[first], s, req, down)
  IN IF \A k \in DOMAIN Steps : ~Answers(k) THEN NoResult
     ELSE [urls |-> Recent(found), step |-> Steps[first],
           stale |-> Len(found) - Len(Recent(found))]

\* IngestionService.sources_for
SourcesFor(req) ==
  Where(Sources, LAMBDA s :
    LET groups == Source[s].groups \cap TopicsOf[req.edition]
    IN /\ IF req.edition = "devastating" THEN groups # {}
          ELSE groups # {} \/ Source[s].groups \cap TopicsOf["devastating"] = {}
       /\ req.asked = {} \/ groups \cap req.asked # {})

-----------------------------------------------------------------------------
(* What is new, what is screened, and each source's share. *)

\* The links whose article is not known, each once.
NewOf(urls, known) ==
  At(urls, {i \in FirstsOf(urls, Key) : Key(urls[i]) \notin known})

\* Fault: the sources are not held against one another.
NewOfEachAlone(lists, known) == Each(lists, LAMBDA i : NewOf(lists[i], known))

\* The same over several sources: one that syndicates another's article adds nothing.
NewOfEach(lists, known) ==
  Each(lists, LAMBDA i :
    NewOf(lists[i], known \cup UNION {{Key(u) : u \in ToSet(lists[j])} : j \in 1..(i - 1)}))

\* MissionScreen.assess: not an article, for anyone; a death or a subject the
\* edition never covers, unless the outlet's editors choose (exempt).
LeftOut(u, edition, exempt) ==
  \/ NotAnArticle(u)
  \/ ~exempt /\ ReportsDeath(u) /\ edition = "positive"
  \/ ~exempt /\ OffSubject(u, edition)

\* ranking.group_fit, against GROUP_FIT.
Fits(u, req) == req.asked = {} \/ Fact[u].close \cap req.asked # {}

\* Fault: what the screen left out is left for a later round, too.
RowDeferringAll(from, discovered, notArticles, stale, already, picked, screened, deferred) ==
  [from |-> from, discovered |-> discovered, notArticles |-> notArticles, stale |-> stale,
   already |-> already, picked |-> picked, screened |-> screened, deferred |-> deferred + screened]

\* One source's, or signal's, row of a round.
Row(from, discovered, notArticles, stale, already, picked, screened, deferred) ==
  [from |-> from, discovered |-> discovered, notArticles |-> notArticles, stale |-> stale,
   already |-> already, picked |-> picked, screened |-> screened, deferred |-> deferred]

\* IngestionService._pick, one source's. screen: "ok", or "unavailable" when the
\* model could not be reached, and nothing is left out.
Picked(one, req, screen) ==
  LET fresh == one.fresh
      exempt == Source[one.from].positive
      pool == IF screen = "ok" THEN FirstN(fresh, req.per * ScreenDepth) ELSE << >>
      out == Where(pool, LAMBDA u : LeftOut(u, req.edition, exempt))
      kept == Where(pool, LAMBDA u : ~LeftOut(u, req.edition, exempt))
      fitting == Where(kept, LAMBDA u : Fits(u, req)) \o Where(kept, LAMBDA u : ~Fits(u, req))
      urls == FirstN(IF pool = << >> THEN fresh ELSE fitting, req.per)
  IN Row(one.from, Len(one.all), 0, one.stale, Len(one.all) - Len(fresh), urls, Len(out),
         Len(fresh) - Len(urls) - Len(out))

\* TrendService.search_articles: a few more articles for a trend, none twice.
Searched(trend, req, down) ==
  IF ~req.search \/ trend.name \in down THEN trend.articles
  ELSE trend.articles \o NewOf(FirstN(trend.search, req.per), {Key(u) : u \in ToSet(trend.articles)})

\* The articles of a signal's trends, each with its trend.
Behind(signal, req, down) ==
  LET Items(trend) == LET all == Searched(trend, req, down)
                      IN [i \in DOMAIN all |-> [url |-> all[i], trend |-> trend.name, old |-> trend.old]]
      trends == Trends(signal)
  IN FlattenSeq([i \in DOMAIN trends |-> Items(trends[i])])

SignalsFor(req) == Where(Signals, LAMBDA g : req.edition \in Signal[g].editions)

\* TrendingDiscovery.discover: what a trend's article is before it is screened.
Place(item, req, known) ==
  LET u == item.url IN
  IF ~(LooksLikeArticle(u) \/ Shaped(u)) \/ OffMission(u, req.edition) THEN "not_article"
  ELSE IF item.old \/ TooOld(u) THEN "stale"
  ELSE IF Key(u) \in known THEN "already" ELSE "new"

\* One signal's articles that may be offered: the first of each new one.
Offered(items, req, known) ==
  LET new == Where(items, LAMBDA item : Place(item, req, known) = "new")
  IN At(new, FirstsOf(new, LAMBDA item : Key(item.url)))

\* What each signal adds: not what one before it offered.
OfferedByEach(lists, req, known) ==
  Each(lists, LAMBDA i :
    LET before == {item \in UNION {ToSet(lists[j]) : j \in 1..(i - 1)} : Place(item, req, known) = "new"}
    IN Offered(lists[i], req, known \cup {Key(item.url) : item \in before}))

\* Fault: a positive outlet's may stay, as in a round of topics.
TrendScreenSparing(items, req, screen) ==
  Where(items, LAMBDA item : screen = "ok" => ~LeftOut(item.url, req.edition, TRUE))

\* TrendingDiscovery._screen: no outlet is exempt, and an unreachable model leaves
\* nothing out.
TrendScreen(items, req, screen) ==
  Where(items, LAMBDA item : screen = "ok" => ~LeftOut(item.url, req.edition, FALSE))

\* What the screen keeps, then at most `per` articles of each trend.
Shared(one, req, screen) ==
  LET items == one.all
      As(place) == Cardinality({i \in DOMAIN items : Place(items[i], req, {}) = place})
      kept == TrendScreen(one.fresh, req, screen)
      Earlier(i) == {j \in 1..(i - 1) : kept[j].trend = kept[i].trend}
      took == At(kept, {i \in DOMAIN kept : Cardinality(Earlier(i)) < req.per})
  IN Row(one.from, Len(items), As("not_article"), As("stale"), As("new") - Len(one.fresh),
         [i \in DOMAIN took |-> took[i].url], Len(one.fresh) - Len(kept), Len(kept) - Len(took))

-----------------------------------------------------------------------------
(* The order of a round. *)

Picks(rows) == FlattenSeq(Each(rows, LAMBDA i : rows[i].picked))

\* What the rows offer, each once, and its orders: any may be best first, as scores
\* are left to chance.
Candidates(rows) == {u \in Links : \E i \in DOMAIN rows : u \in ToSet(rows[i].picked)}
Orders(rows) == SetToSeqs(Candidates(rows))

\* ranking.ordered: each story once before any story twice, and in either part those
\* nearer another group's topic after the rest. Nothing is known of either when the
\* screen's model was not reached.
InOrder(all, req, screen) ==
  LET First(i) == \A j \in 1..(i - 1) : ~SameStory(all[j], all[i])
      Alike(i, j) == First(i) = First(j) \/ SameStory(all[i], all[j])
  IN screen = "ok" =>
       \A j \in DOMAIN all : \A i \in 1..(j - 1) :
         /\ First(j) => First(i)
         /\ Alike(i, j) /\ Fits(all[j], req) => Fits(all[i], req)

\* What each source, or signal, that is read gave: links, or articles with their
\* trend; which of them are new; and those whose time it told.
FoundIn(req, known, down) ==
  LET read == IF req.lens = "topics" THEN SourcesFor(req)
              ELSE Where(SignalsFor(req), LAMBDA g : g \notin down)
      results == Each(read, LAMBDA i : Discovered(read[i], req, down))
      links == Each(read, LAMBDA i : results[i].urls)
      items == Each(read, LAMBDA i : Behind(read[i], req, down))
      newLinks == NewOfEach(links, known)
      newItems == OfferedByEach(items, req, known)
      Of(i, all, stale, fresh, urls, dated) ==
        [from |-> read[i], all |-> all, stale |-> stale, fresh |-> fresh, urls |-> urls,
         published |-> {u \in urls : dated /\ Fact[u].dated}]
  IN Each(read, LAMBDA i :
       IF req.lens = "topics"
       THEN Of(i, links[i], results[i].stale, newLinks[i], ToSet(newLinks[i]), results[i].step \in Dated)
       ELSE Of(i, items[i], 0, newItems[i], {item.url : item \in ToSet(newItems[i])}, TRUE))

\* The rows of a round, one for each.
RowsOf(found, req, screen) ==
  Each(found, LAMBDA i : IF req.lens = "topics" THEN Picked(found[i], req, screen)
                         ELSE Shared(found[i], req, screen))

\* What may be down when a round is discovered: a step of a source, a section page,
\* a signal, or the search for a trend.
Parts(req) ==
  IF req.lens = "topics"
  THEN UNION {{<<"step", s, step>> : step \in Source[s].steps} \cup
              {<<"page", s, p.topic>> : p \in ToSet(Source[s].sections)} : s \in ToSet(Sources)}
  ELSE UNION {{g} \cup {trend.name : trend \in ToSet(Trends(g))} : g \in ToSet(Signals)}
=============================================================================
