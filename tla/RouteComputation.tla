-------------------------- MODULE RouteComputation --------------------------
(***************************************************************************)
(* The routes of the link-state build of routelab-w15: Table::Dijkstra and *)
(* Node::GetNextHop on the database that LinkState fills, and the walk of  *)
(* SimulationContext::CollectPathLinks along the next hops of one node     *)
(* after the other.                                                        *)
(*                                                                         *)
(* The predecessors that Dijkstra finds are kept in the row of the node    *)
(* itself, which also holds the latencies of its links.  A node that is no *)
(* neighbour gets an entry there without a latency, -1; the next run reads *)
(* it as the largest unsigned, which is more than the infinity of the run. *)
(*                                                                         *)
(* A walk is one event, so no database changes while it lasts.  Every node *)
(* has heard of every link, and every node can reach every other: Dijkstra *)
(* is undefined without that (it indexes its vectors with node numbers,    *)
(* and with -1 when nothing is left that it can reach).                    *)
(***************************************************************************)
EXTENDS Naturals, Sequences, FiniteSets, FiniteSetsExt

CONSTANTS
    NodeNum,      \* nodes are 0 .. NodeNum - 1
    Links,        \* pairs <<src, dest>>
    InitLatency,  \* latencies of the topology file, which every node knows
    Latencies,    \* the latencies an event may give a link
    Inf,          \* the largest int; the largest unsigned is 2 * Inf + 1
    MaxChanges,   \* bound on the CHANGE_LINK events
    MaxWalks      \* bound on the DRAW_PATH events

Nodes == 0 .. NodeNum - 1
MaxUnsigned == 2 * Inf + 1

\* The nodes that can be reached from n: with k links, and with as many as it takes.
Reached(n) ==
    LET within[k \in 0 .. NodeNum] ==
            IF k = 0 THEN {n} ELSE within[k - 1] \cup {l[2] : l \in {e \in Links : e[1] \in within[k - 1]}}
    IN  within
Reach(n) == Reached(n)[NodeNum]

\* Latencies are positive, and every path is shorter than Inf.
ASSUME RouteAssumption ==
    /\ NodeNum \in Nat \ {0} /\ Links \subseteq Nodes \X Nodes
    /\ \A l \in Links : l[1] # l[2]
    /\ InitLatency \in [Links -> Nat \ {0}] /\ Latencies \subseteq Nat \ {0}
    /\ MaxChanges \in Nat /\ MaxWalks \in Nat /\ Inf \in Nat
    /\ \A x \in Latencies \cup {InitLatency[l] : l \in Links} : x * NodeNum < Inf
ASSUME ReachAssumption == \A n \in Nodes : Reach(n) = Nodes

VARIABLES
    latency,  \* Topology::links
    lsvalue,  \* per node: the latencies of the links in its database
    prev,     \* per node: NodeInfo::prev in its own row, for the entries that are there
    walk,     \* CollectPathLinks, if it runs
    run,      \* Dijkstra at the node the walk has come to, if it runs
    changes, walks  \* numbers of events so far

vars == <<latency, lsvalue, prev, walk, run, changes, walks>>

None == [phase |-> "none"]

-----------------------------------------------------------------------------
\* ChangeLink at the source of the link, which sees it at once.
ChangeLink(l, lat) ==
    /\ walk = None /\ changes < MaxChanges /\ latency[l] # lat
    /\ changes' = changes + 1
    /\ latency' = [latency EXCEPT ![l] = lat]
    /\ lsvalue' = [lsvalue EXCEPT ![l[1]][l] = lat]
    /\ UNCHANGED <<prev, walk, run, walks>>

\* An update of l reaches n (LinkState says in which order they do).
AdjmatUpdate(n, l) ==
    /\ walk = None /\ lsvalue[n][l] # latency[l]
    /\ lsvalue' = [lsvalue EXCEPT ![n][l] = latency[l]]
    /\ UNCHANGED <<latency, prev, walk, run, changes, walks>>

\* CollectPathLinks begins, for DRAW_PATH, and for DRAW_TREE for every node.
DrawPath(src, dest) ==
    /\ walk = None /\ walks < MaxWalks
    /\ walks' = walks + 1
    /\ walk' = [phase |-> "walk", dest |-> dest, path |-> <<src>>]
    /\ UNCHANGED <<latency, lsvalue, prev, run, changes>>

At == walk.path[Len(walk.path)]

-----------------------------------------------------------------------------
(* Table::Dijkstra at the node At *)

\* A slip: the entry of a node that is no neighbour is as good as a link.
OwnLsValueNone(n, d) == IF <<n, d>> \in Links THEN lsvalue[n][<<n, d>>] ELSE 0

\* NodeInfo::GetLsValue of an entry of n's own row.
OwnLsValue(n, d) == IF <<n, d>> \in Links THEN lsvalue[n][<<n, d>>] ELSE MaxUnsigned

\* The vectors and the own row before the loop: the distance of n itself is
\* overwritten with that of the entry the constructor made, but n is visited.
StartDijkstra ==
    LET n == At
        row == DOMAIN prev[n]
    IN  /\ walk.phase = "walk" /\ n # walk.dest /\ run = None
        /\ run' = [phase |-> "dijkstra", visited |-> {n},
                   dx |-> [d \in Nodes |-> IF d \in row THEN OwnLsValue(n, d) ELSE Inf]]
        /\ prev' = [prev EXCEPT ![n] = [d \in row |-> n]]
        /\ UNCHANGED <<latency, lsvalue, walk, changes, walks>>

Candidates == {d \in Nodes \ run.visited : run.dx[d] < Inf}

\* A slip: the first node that can be reached, not the closest.
RelayFirst == Min(Candidates)

\* The first of the closest nodes that are not visited.
Relay == Min({d \in Candidates : \A e \in Candidates : run.dx[d] <= run.dx[e]})

\* In unsigned arithmetic; the distance of the relay is currentdist.
Offer(n, relay, d) == (lsvalue[n][<<relay, d>>] + run.dx[relay]) % (MaxUnsigned + 1)

\* One turn of the loop: the row of the relay.
VisitRelay ==
    LET n == At
        better == {d \in Nodes \ (run.visited \cup {Relay}) :
                     <<Relay, d>> \in Links /\ run.dx[d] > Offer(n, Relay, d)}
    IN  /\ run.phase = "dijkstra" /\ Candidates # {}
        /\ run' = [run EXCEPT !.visited = @ \cup {Relay},
                     !.dx = [d \in Nodes |-> IF d \in better THEN Offer(n, Relay, d) ELSE @[d]]]
        /\ prev' = [prev EXCEPT ![n] = [d \in DOMAIN @ \cup better |-> IF d \in better THEN Relay ELSE @[d]]]
        /\ UNCHANGED <<latency, lsvalue, walk, changes, walks>>

-----------------------------------------------------------------------------
(* The rest of Node::GetNextHop, and what CollectPathLinks does with it *)

\* The predecessors from the destination back to the node itself.
StartFollow ==
    /\ run.phase = "dijkstra" /\ run.visited = Nodes
    /\ run' = [phase |-> "follow", cur_dst |-> walk.dest]
    /\ UNCHANGED <<latency, lsvalue, prev, walk, changes, walks>>

\* A slip: the predecessor is returned, not the node it belongs to.
NextHopPrev(n, d) == prev[n][d]
NextHop(n, d) == d

FollowPrev ==
    /\ run.phase = "follow"
    /\ prev[At][run.cur_dst] # At
    /\ run' = [run EXCEPT !.cur_dst = prev[At][run.cur_dst]]
    /\ UNCHANGED <<latency, lsvalue, prev, walk, changes, walks>>

\* "terminating prematurely due to suspected routing loop!"
GivesUp == Len(walk.path) > NodeNum * 2

ReturnNextHop ==
    /\ run.phase = "follow"
    /\ prev[At][run.cur_dst] = At
    /\ run' = None
    /\ walk' = [walk EXCEPT !.phase = IF GivesUp THEN "loop" ELSE "walk",
                            !.path = Append(@, NextHop(At, run.cur_dst))]
    /\ UNCHANGED <<latency, lsvalue, prev, changes, walks>>

\* A slip: what is suspected ends nothing.
EndWalkAtDest ==
    /\ run = None
    /\ walk.phase = "walk" /\ At = walk.dest
    /\ walk' = None
    /\ UNCHANGED <<latency, lsvalue, prev, run, changes, walks>>

EndWalk ==
    /\ run = None
    /\ walk.phase = "loop" \/ (walk.phase = "walk" /\ At = walk.dest)
    /\ walk' = None
    /\ UNCHANGED <<latency, lsvalue, prev, run, changes, walks>>

-----------------------------------------------------------------------------
\* The databases agree with the topology; a row has an entry for the node
\* itself, from the constructor, and one for every neighbour, from LinkUpdate.
Init ==
    /\ latency = InitLatency
    /\ lsvalue = [n \in Nodes |-> InitLatency]
    /\ prev = [n \in Nodes |-> [d \in {n} \cup {l[2] : l \in {e \in Links : e[1] = n}} |-> MaxUnsigned]]
    /\ walk = None /\ run = None
    /\ changes = 0 /\ walks = 0

Walk == StartDijkstra \/ VisitRelay \/ StartFollow \/ FollowPrev \/ ReturnNextHop \/ EndWalk

Next ==
    \/ \E l \in Links, lat \in Latencies : ChangeLink(l, lat)
    \/ \E n \in Nodes, l \in Links : AdjmatUpdate(n, l)
    \/ \E src, dest \in Nodes : DrawPath(src, dest)
    \/ Walk

Spec == Init /\ [][Next]_vars

\* A handler runs to its end.
FairSpec == Spec /\ WF_vars(Walk)

-----------------------------------------------------------------------------
(* Properties *)

\* The distances to a node, given those of paths with one link less.
Closer(lat, f) ==
    [m \in Nodes |-> Min({f[m]} \cup {lat[l] + f[l[2]] : l \in {e \in Links : e[1] = m}})]

\* The distances to d of paths with at most k links, for the latencies lat.
Within(lat, d) ==
    LET within[k \in 0 .. NodeNum] ==
            IF k = 0 THEN [m \in Nodes |-> IF m = d THEN 0 ELSE Inf] ELSE Closer(lat, within[k - 1])
    IN  within

\* Length of the shortest path from n to d.
Distance(lat, n, d) == Within(lat, d)[NodeNum - 1][n]

\* While Dijkstra runs, every node it has visited has its final distance and a
\* predecessor on a shortest path, whatever earlier runs have left in the row;
\* and as long as one is left there is a relay, so no vector is indexed with -1.
VisitedAreFinal ==
    run.phase = "dijkstra" =>
        /\ \A d \in run.visited \ {At} :
              LET p == prev[At][d]
                  ls == lsvalue[At]
              IN  /\ run.dx[d] = Distance(ls, At, d)
                  /\ <<p, d>> \in Links /\ Distance(ls, At, p) + ls[<<p, d>>] = run.dx[d]
        /\ run.visited # Nodes => Candidates # {}

\* A node sends to a neighbour through which, for all it knows, a shortest path
\* leads.
NextHopShortest ==
    [][\A n, m \in Nodes :
         walk # None /\ walk' # None /\ walk'.path # walk.path /\ At = n /\ m = walk'.path[Len(walk'.path)] =>
            /\ <<n, m>> \in Links
            /\ lsvalue[n][<<n, m>>] + Distance(lsvalue[n], m, walk.dest) = Distance(lsvalue[n], n, walk.dest)]_walk

\* The nodes break ties each in its own way, and each in its own database; when
\* all databases are right, the walk is a shortest path, and no loop is suspected.
Upto(lat, path) ==
    LET upto[i \in 1 .. Len(path)] == IF i = 1 THEN 0 ELSE upto[i - 1] + lat[<<path[i - 1], path[i]>>]
    IN  upto
LengthOf(lat, path) == Upto(lat, path)[Len(path)]
PathIsShortest ==
    walk # None /\ (\A n \in Nodes : lsvalue[n] = latency) =>
        /\ walk.phase # "loop"
        /\ LengthOf(latency, walk.path) + Distance(latency, At, walk.dest) = Distance(latency, walk.path[1], walk.dest)

\* Every walk ends, also one that is sent round in circles by nodes whose
\* databases differ.
WalkEnds == walk # None ~> walk = None
=============================================================================
