--------------------------- MODULE MCCrawlSystem ----------------------------
(* Two small sites.  Of the first, the home page links to two pages, one of  *)
(* which links back; of the second, two pages are seeds and link to a third. *)
EXTENDS CrawlSystem, TLC

CONSTANTS home, news, about, w1, w2

MCUrls == {home, news, about}
MCWorkers == {w1, w2}
MCOneWorker == {w1}

MCSeeds == {home}
MCTwoSeeds == {home, news}
MCSameSite == {home, news}

\* The page about us is not HTML, and has moved.
MCHtml == {home, news}
MCFinalUrl == [u \in MCUrls |-> IF u = about THEN home ELSE NoUrl]
MCHrefs ==
    (home :> {"news", "/news?", "about", "mailto:us"}) @@ (news :> {".", "javascript:"})
 @@ (about :> {"news"})
MCTwoHrefs == (home :> {"about"}) @@ (news :> {".", "about"}) @@ (about :> {})
MCAbsolute ==
    [<<base, href>> \in MCUrls \X {"news", "/news?", "about", ".", "mailto:us", "javascript:"} |->
        CASE href \in {"news", "/news?"} -> news
          [] href = "about" -> about
          [] href = "." -> home
          [] OTHER -> NoUrl]
===========================================================================
