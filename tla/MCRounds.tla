------------------------------ MODULE MCRounds ------------------------------
(* Rounds over a feed that both editions read, a positive outlet's section    *)
(* page, and one trend: an article that two of them carry, a roundup, an old  *)
(* one, and a death that only the positive outlet may offer.                  *)
EXTENDS Rounds

CONSTANTS a, b, c, d, e, feed, outlet, rising, trend

Article(key, story) ==
  [key |-> key, story |-> story, article |-> TRUE, shaped |-> TRUE, section |-> "no", filed |-> {},
   says |-> {}, close |-> {"health"}, old |-> FALSE, dated |-> TRUE, format |-> FALSE,
   death |-> FALSE, offIn |-> {}]

MCTopics == {"health", "war"}
MCTopicsOf == [positive |-> {"health"}, devastating |-> {"war"}]
MCLinks == {a, b, c, d, e}
MCFact ==
  (a :> [Article("a", "one") EXCEPT !.says = {"health"}]) @@
  (b :> [Article("b", "two") EXCEPT !.format = TRUE, !.says = {"health"}]) @@
  (c :> [Article("c", "one") EXCEPT !.death = TRUE, !.dated = FALSE, !.offIn = {"devastating"}]) @@
  (d :> [Article("a", "one") EXCEPT !.article = FALSE, !.close = {}]) @@
  (e :> [Article("e", "three") EXCEPT !.old = TRUE, !.says = {"health"}])

MCSources == <<feed, outlet>>
MCSource ==
  (feed :> [groups |-> {"health", "war"}, language |-> "en", positive |-> FALSE,
            steps |-> {"feed", "lenient"}, sections |-> << >>,
            lists |-> [feed |-> <<b, a, e>>, json |-> << >>, sitemap |-> << >>, lenient |-> <<a, c>>]]) @@
  (outlet :> [groups |-> {"health"}, language |-> "en", positive |-> TRUE,
              steps |-> {"sections"}, sections |-> <<[topic |-> "health", links |-> <<d, c>>]>>,
              lists |-> [feed |-> << >>, json |-> << >>, sitemap |-> << >>, lenient |-> << >>]])
MCSignals == <<rising>>
MCSignal ==
  rising :> [editions |-> {"positive", "devastating"},
             trends |-> <<[name |-> trend, old |-> FALSE, articles |-> <<d, e, c>>, search |-> <<a, b>>]>>]

Asking(lens, edition, asked, per, search) ==
  [lens |-> lens, edition |-> edition, asked |-> asked, per |-> per, search |-> search]
MCRequests ==
  {[what |-> "round", req |-> Asking("topics", "positive", {"health"}, 1, FALSE)],
   [what |-> "round", req |-> Asking("trending", "devastating", {}, 1, TRUE)],
   [what |-> "ingest", req |-> Asking("topics", "positive", {}, 1, FALSE)]}
MCSymmetry == Permutations(Threads)
=============================================================================
