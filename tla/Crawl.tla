------------------------------- MODULE Crawl --------------------------------
(***************************************************************************)
(* What a crawl promises, whatever queue and workers carry it out: URLs     *)
(* become known, starting from the seeds and following links from pages in  *)
(* progress; each known URL is done once; and the crawl is declared over     *)
(* only when all that is known is done, after which nothing becomes known.  *)
(*                                                                         *)
(* The promise is void once the crawl is disturbed: `calm` is FALSE then.   *)
(***************************************************************************)
CONSTANTS Urls, Seeds, Links

VARIABLES known, done, over, calm

crawlVars == <<known, done, over, calm>>

Init == known = {} /\ done = {} /\ over = FALSE /\ calm = TRUE

Discover(urls) ==
    /\ ~over
    /\ known' = known \cup urls
    /\ UNCHANGED <<done, over>>

Finish(u) ==
    /\ u \in known \ done
    /\ done' = done \cup {u}
    /\ UNCHANGED <<known, over>>

DeclareOver ==
    /\ known # {} /\ known = done
    /\ over' = TRUE
    /\ UNCHANGED <<known, done>>

Next ==
    \/ ~calm'
    \/ /\ UNCHANGED calm
       /\ \/ Discover(Seeds)
          \/ \E u \in known \ done : Discover(Links[u])
          \/ \E u \in Urls : Finish(u)
          \/ DeclareOver

Spec == Init /\ [][Next]_crawlVars
===========================================================================
