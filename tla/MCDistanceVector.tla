-------------------------- MODULE MCDistanceVector --------------------------
(* An instance of DistanceVector: three nodes, each linked with each, where the *)
(* direct link between 1 and 3 is as long as the way over 2.                    *)
EXTENDS DistanceVector

Triangle == {<<1, 2>>, <<2, 1>>, <<2, 3>>, <<3, 2>>, <<1, 3>>, <<3, 1>>}
TriangleLatency == [l \in Triangle |-> IF l \in {<<1, 3>>, <<3, 1>>} THEN 2 ELSE 1]
=============================================================================
