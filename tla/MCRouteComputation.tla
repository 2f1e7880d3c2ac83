------------------------- MODULE MCRouteComputation -------------------------
(* An instance of RouteComputation: a square 0 - 1 - 2 - 3 with the diagonal  *)
(* 0 - 2; 1 and 3 are no neighbours.                                          *)
EXTENDS RouteComputation

Both(S) == S \cup {<<l[2], l[1]>> : l \in S}
Square == Both({<<0, 1>>, <<1, 2>>, <<2, 3>>, <<3, 0>>, <<0, 2>>})
SquareLatency == [l \in Square |-> IF l \in Both({<<0, 2>>}) THEN 3 ELSE 1]
=============================================================================
