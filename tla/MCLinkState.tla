----------------------------- MODULE MCLinkState -----------------------------
(* Instances of LinkState for TLC.                                          *)
EXTENDS LinkState

(* A path into a circle: an update is passed on twice, comes back to nodes  *)
(* that have it, and never reaches node 1, which no link leads to.          *)
Lasso == {<<1, 2>>, <<2, 3>>, <<3, 2>>}
LassoLatency == [l \in Lasso |-> 1]

(* A link that exists and one that may be added. *)
Pair == {<<1, 2>>, <<2, 1>>}
OneWay == {<<1, 2>>}
OneWayLatency == [l \in OneWay |-> 1]
=============================================================================
