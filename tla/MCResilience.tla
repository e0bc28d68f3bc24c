---------------------------- MODULE MCResilience ----------------------------
(***************************************************************************)
(* Three calls: of one domain, of two, or of the repository.                 *)
(***************************************************************************)
EXTENDS Resilience, TLC

CONSTANTS c1, c2, c3, shop, blog

Do(what, t) == [target |-> t, does |-> what]
Three(x, y, z) == c1 :> x @@ c2 :> y @@ c3 :> z
F(t) == Do("executeWithFallback", t)
R(t) == Do("resilientFetch", t)
Q(what) == Do(what, Database)

MCPlans ==
    { Three(F(shop), F(shop), R(shop)), Three(F(shop), R(shop), F(blog)),
      Three(R(shop), R(shop), Q("save")),
      Three(Q("save"), Q("save"), Q("findByHash")),
      Three(Q("saveBatch"), Q("save"), Q("updateStatus")) }
===========================================================================
