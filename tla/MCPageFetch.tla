---------------------------- MODULE MCPageFetch -----------------------------
(***************************************************************************)
(* Three calls, one of them fetching; two hosts, one of them with reserved   *)
(* addresses besides a public one; the borders of the reserved blocks.       *)
(***************************************************************************)
EXTENDS PageFetch

CONSTANTS c1, c2, c3, shop, blog

Mapped(a) == [i \in 1 .. 16 |-> IF i <= 10 THEN 0 ELSE IF i <= 12 THEN 255 ELSE a[i - 12]]

Named ==
    "public4" :> <<192, 0, 2, 1>> @@ "public6" :> V6(32, 1, 9)
 @@ "private4" :> <<10, 1, 2, 3>> @@ "private6" :> V6(253, 0, 1)
 @@ "mapped4" :> Mapped(<<10, 1, 2, 3>>)

Borders ==
    << <<9, 255, 255, 255>>, <<10, 0, 0, 0>>, <<10, 255, 255, 255>>, <<11, 0, 0, 0>>,
       <<172, 15, 255, 255>>, <<172, 16, 0, 0>>, <<172, 31, 255, 255>>, <<172, 32, 0, 0>>,
       <<192, 167, 255, 255>>, <<192, 168, 0, 0>>, <<192, 169, 0, 0>>,
       <<126, 255, 255, 255>>, <<127, 0, 0, 1>>, <<128, 0, 0, 0>>, <<169, 254, 169, 0>>,
       <<0, 0, 0, 0>>, <<1, 0, 0, 0>>, <<100, 63, 255, 255>>, <<100, 64, 0, 0>>,
       <<100, 127, 255, 255>>, <<100, 128, 0, 0>>, <<223, 255, 255, 255>>,
       <<224, 0, 0, 0>>, <<239, 255, 255, 255>>, <<240, 0, 0, 0>>,
       <<255, 255, 255, 254>>, <<255, 255, 255, 255>>,
       V6(0, 0, 0), V6(0, 0, 1), V6(0, 0, 2), Full(251, 255), V6(252, 0, 0),
       Full(253, 255), V6(254, 0, 0), Full(254, 127), V6(254, 128, 0),
       Full(254, 191), V6(254, 192, 0),
       Mapped(<<10, 0, 0, 0>>), Mapped(<<11, 0, 0, 0>>) >>

MCOctets ==
    Named @@ [name \in {ToString(i) : i \in DOMAIN Borders} |->
                 Borders[CHOOSE i \in DOMAIN Borders : ToString(i) = name]]

\* The mapped ones of the borders are as a resolver writes them.
MCDotted == {a \in DOMAIN MCOctets \ {"mapped4"} : Ipv4Mapped(MCOctets[a])}

MCAnswers4 ==
    "www.shop" :> {<<"public4">>, <<"public4", "private4">>} @@ "blog" :> {<<>>}
MCAnswers6 ==
    "www.shop" :> {<<>>} @@ "blog" :> {<<"public6">>}
MCWanted == c1 :> {shop} @@ c2 :> {shop} @@ c3 :> {shop, blog}
MCDomainOf == "www.shop" :> shop @@ "blog" :> blog
===========================================================================
