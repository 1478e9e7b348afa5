------------------------------ MODULE MCGateway ------------------------------
(* Constants of the gateway's runs: one or two connections of one tenant, two *)
(* mid-tier models, one model elsewhere or, around the limit, no strong one.  *)
(* With a limit of 20 the levels start at 14, 17, 19 and 20 units, and sums   *)
(* of these costs fall in each of them.                                       *)
EXTENDS Gateway, TLC

CONSTANTS f1, m1, m2, s1

TwoMid == [t \in Tier |-> CASE t = "fast" -> <<f1>>
                            [] t = "mid" -> <<m1, m2>>
                            [] t = "strong" -> <<s1>>]
NoStrong == [TwoMid EXCEPT !["strong"] = <<>>]
MCCost == [m \in Model |-> [n \in Usage |->
             CASE m = f1 -> 0 [] n = "short" \/ m = m2 -> 5 [] m = m1 -> 9 [] OTHER -> 14]]
MCPath == <<"fast", "mid", "strong">>
Sym == Permutations(Request)
=============================================================================
