--------------------------- MODULE DistanceVector ---------------------------
(***************************************************************************)
(* Distance-vector routing of routelab-w15 (built with DISTANCEVECTOR):    *)
(* the table of every node and the routing messages waiting in the event   *)
(* queue.                                                                  *)
(*                                                                         *)
(* A Table holds the latencies of the outgoing links the node was told of, *)
(* its distance vector dvTable, and in dvTable_nb the last copy it took of *)
(* the vector of each neighbour.  A destination a node has heard of without *)
(* being able to compute a route has the entry next -1, dvValue -1.        *)
(*                                                                         *)
(* A RoutingMessage carries a pointer to the vector of its sender, not a   *)
(* copy: what the receiver reads is the vector at the time of delivery.    *)
(* So a message in flight is no more than a link with something to read at *)
(* its end.  A second message on the link brings nothing that the later of *)
(* the two does not bring: a vector that changes is sent again.            *)
(***************************************************************************)
EXTENDS Integers, FiniteSets, FiniteSetsExt, Functions

CONSTANTS
    Nodes,        \* node numbers
    Links,        \* links of the topology file: pairs <<src, dest>>
    InitLatency,  \* their latencies
    Latencies,    \* the latencies an event may give a link
    MaxChanges    \* bound on the CHANGE_LINK events of the event file

None == -1        \* next and dvValue of an entry without a route

ASSUME DVAssumption ==
    /\ IsFiniteSet(Nodes) /\ Nodes \subseteq Nat /\ Links \subseteq Nodes \X Nodes
    /\ InitLatency \in [Links -> Nat \ {0}] /\ Latencies \subseteq Nat \ {0}
    /\ MaxChanges \in Nat

VARIABLES
    latency,     \* Topology::links
    outgoing,    \* per node: latencies of the links it was told of, by neighbour
    dvTable,     \* per node: next hop and distance, by destination
    dvTable_nb,  \* per node: copies of dvTable of its neighbours, by neighbour
    posted,      \* links whose CHANGE_LINK event of Init is queued
    inflight,    \* links with a queued ROUTING_MESSAGE_ARRIVAL event
    changes      \* CHANGE_LINK events of the event file so far

vars == <<latency, outgoing, dvTable, dvTable_nb, posted, inflight, changes>>

Path(next, dvValue) == [next |-> next, dvValue |-> dvValue]

\* f with one more pair, or with another value for its argument.
With(f, x, y) == [a \in DOMAIN f \cup {x} |-> IF a = x THEN y ELSE f[a]]

\* Table::AddDv for the destinations that FindPath does not find.
AddDv(dvt, dests) ==
    [d \in DOMAIN dvt \cup dests |-> IF d \in DOMAIN dvt THEN dvt[d] ELSE Path(None, None)]

\* The distances the neighbours offer for d; an entry without a route counts as
\* the distance -1.
Via(nb, d) == {j \in DOMAIN nb : d \in DOMAIN nb[j]}
Offer(nb, out, j, d) == nb[j][d].dvValue + out[j]

\* A slip: the distance only ever gets smaller.
BellmanFordOnlyBetter(n, dvt, nb, out) ==
    [d \in DOMAIN dvt |->
        LET via == Via(nb, d)
            min == Min({Offer(nb, out, j, d) : j \in via})
        IN  IF d = n \/ via = {} THEN dvt[d]
            ELSE IF dvt[d].next # None /\ min >= dvt[d].dvValue THEN dvt[d]
            ELSE Path(Min({j \in via : Offer(nb, out, j, d) = min}), min)]

\* A slip: the first entry, the node itself, is not skipped.
BellmanFordSelfToo(n, dvt, nb, out) ==
    [d \in DOMAIN dvt |->
        LET via == Via(nb, d)
            min == Min({Offer(nb, out, j, d) : j \in via})
        IN  IF via = {} THEN dvt[d]
            ELSE IF min = dvt[d].dvValue THEN dvt[d]
            ELSE Path(Min({j \in via : Offer(nb, out, j, d) = min}), min)]

\* The loop over dvTable that both handlers end with: the entry of every other
\* node becomes the smallest offer, made by the first neighbour that makes it.
\* The next hop is written only where the distance changes.
BellmanFord(n, dvt, nb, out) ==
    [d \in DOMAIN dvt |->
        LET via == Via(nb, d)
            min == Min({Offer(nb, out, j, d) : j \in via})
        IN  IF d = n \/ via = {} THEN dvt[d]
            ELSE IF min = dvt[d].dvValue THEN dvt[d]
            ELSE Path(Min({j \in via : Offer(nb, out, j, d) = min}), min)]

SendToNeighbors(n) == {l \in Links : l[1] = n}

-----------------------------------------------------------------------------
\* After LoadTopology and Init: the nodes were added before their links, so a
\* table holds its own node only.
Init ==
    /\ latency = InitLatency
    /\ outgoing = [n \in Nodes |-> << >>]
    /\ dvTable = [n \in Nodes |-> [d \in {n} |-> Path(n, 0)]]
    /\ dvTable_nb = [n \in Nodes |-> << >>]
    /\ posted = Links
    /\ inflight = {}
    /\ changes = 0

\* Node::LinkHasBeenUpdated at the source of a link.  For a link it was not told
\* of, the node reads the neighbour's vector directly.
LinkHasBeenUpdated(l, lat) ==
    LET n == l[1]
        dest == l[2]
        added == dest \notin DOMAIN outgoing[n]
        out == With(outgoing[n], dest, lat)
        nb == IF added THEN With(dvTable_nb[n], dest, dvTable[dest]) ELSE dvTable_nb[n]
        known == IF added THEN AddDv(dvTable[n], {dest}) ELSE dvTable[n]
        dvt == BellmanFord(n, known, nb, out)
    IN  IF added \/ outgoing[n][dest] # lat
        THEN /\ outgoing' = [outgoing EXCEPT ![n] = out]
             /\ dvTable_nb' = [dvTable_nb EXCEPT ![n] = nb]
             /\ dvTable' = [dvTable EXCEPT ![n] = dvt]
             /\ inflight' = inflight \cup IF dvt # known THEN SendToNeighbors(n) ELSE {}
        ELSE UNCHANGED <<outgoing, dvTable_nb, dvTable, inflight>>

\* The CHANGE_LINK event that Init posted for l, at time -100.
Announce(l) ==
    /\ l \in posted
    /\ posted' = posted \ {l}
    /\ LinkHasBeenUpdated(l, latency[l])
    /\ UNCHANGED <<latency, changes>>

\* Topology::ChangeLink, for a CHANGE_LINK event of the event file: at time 0 or
\* later.
ChangeLink(l, lat) ==
    /\ posted = {} /\ changes < MaxChanges
    /\ changes' = changes + 1
    /\ latency' = [latency EXCEPT ![l] = lat]
    /\ LinkHasBeenUpdated(l, lat)
    /\ UNCHANGED posted

\* A slip: SetDvTable_nb with map::insert, which keeps the copy that is there.
ProcessIncomingInserts(l) ==
    LET n == l[2]
        known == AddDv(dvTable[n], DOMAIN dvTable[l[1]])
        dvt == BellmanFord(n, known, dvTable_nb[n], outgoing[n])
    IN  /\ posted = {} /\ l \in inflight
        /\ dvTable' = [dvTable EXCEPT ![n] = dvt]
        /\ inflight' = (inflight \ {l}) \cup IF dvt # known THEN SendToNeighbors(n) ELSE {}
        /\ UNCHANGED <<latency, outgoing, dvTable_nb, posted, changes>>

\* A slip: every message is answered, whether it changed the vector or not.
ProcessIncomingAlwaysSends(l) ==
    LET nn == l[1]
        n == l[2]
        nb == With(dvTable_nb[n], nn, dvTable[nn])
        known == AddDv(dvTable[n], DOMAIN dvTable[nn])
    IN  /\ posted = {} /\ l \in inflight /\ nn \in DOMAIN dvTable_nb[n]
        /\ dvTable_nb' = [dvTable_nb EXCEPT ![n] = nb]
        /\ dvTable' = [dvTable EXCEPT ![n] = BellmanFord(n, known, nb, outgoing[n])]
        /\ inflight' = (inflight \ {l}) \cup SendToNeighbors(n)
        /\ UNCHANGED <<latency, outgoing, posted, changes>>

\* Node::ProcessIncomingRoutingMessage, later than -100 by the latency of a link.
\* The vector of a node that is not known as a neighbour only adds destinations,
\* without routes.
ProcessIncomingRoutingMessage(l) ==
    LET nn == l[1]
        n == l[2]
        changed == nn \in DOMAIN dvTable_nb[n]
        nb == IF changed THEN With(dvTable_nb[n], nn, dvTable[nn]) ELSE dvTable_nb[n]
        known == AddDv(dvTable[n], DOMAIN dvTable[nn])
        dvt == IF changed THEN BellmanFord(n, known, nb, outgoing[n]) ELSE known
    IN  /\ posted = {} /\ l \in inflight
        /\ dvTable_nb' = [dvTable_nb EXCEPT ![n] = nb]
        /\ dvTable' = [dvTable EXCEPT ![n] = dvt]
        /\ inflight' = (inflight \ {l}) \cup IF dvt # known THEN SendToNeighbors(n) ELSE {}
        /\ UNCHANGED <<latency, outgoing, posted, changes>>

Next ==
    \/ \E l \in Links : Announce(l) \/ ProcessIncomingRoutingMessage(l)
    \/ \E l \in Links, lat \in Latencies : ChangeLink(l, lat)

Spec == Init /\ [][Next]_vars

\* routesim dispatches events until the queue is empty.
FairSpec == Spec /\ WF_vars(\E l \in Links : Announce(l) \/ ProcessIncomingRoutingMessage(l))

-----------------------------------------------------------------------------
(* What the program prints: Node::GetNextHop and the walk along next hops of *)
(* SimulationContext::CollectPathLinks.                                      *)

GetNextHop(n, d) == IF d \in DOMAIN dvTable[n] THEN dvTable[n][d].next ELSE None

\* The node where the walk from n to d is after k steps; it ends at d, and where
\* there is no next hop.
CollectPathLinks(n, d) ==
    LET walk[k \in Nat] ==
            IF k = 0 THEN n
            ELSE IF walk[k - 1] \in {d, None} THEN walk[k - 1]
            ELSE GetNextHop(walk[k - 1], d)
    IN  walk[Cardinality(Nodes) * 2 + 1]

-----------------------------------------------------------------------------
(* Properties *)

\* Every table is about nodes and neighbours of the topology, every node is at
\* distance 0 of itself, and a next hop is a neighbour.
TypeOK ==
    /\ latency \in [Links -> Nat \ {0}]
    /\ posted \subseteq Links /\ inflight \subseteq Links /\ changes \in 0 .. MaxChanges
    /\ \A n \in Nodes :
          /\ DOMAIN outgoing[n] = {d \in Nodes : <<n, d>> \in Links \ posted}
          /\ DOMAIN dvTable_nb[n] = DOMAIN outgoing[n]
          /\ n \in DOMAIN dvTable[n] /\ dvTable[n][n] = Path(n, 0)
          /\ \A d \in DOMAIN dvTable[n] \ {n} :
                \/ dvTable[n][d] = Path(None, None)
                \/ dvTable[n][d].next \in DOMAIN outgoing[n] /\ dvTable[n][d].dvValue \in Nat

Settled == posted = {} /\ inflight = {}

\* The lengths of the paths from each node to d: with one link more, and along
\* at most k links.
Extended(lat, lengths) ==
    [m \in Nodes |-> lengths[m] \cup UNION {{lat[l] + x : x \in lengths[l[2]]} : l \in SendToNeighbors(m)}]
PathLengths(lat, d) ==
    LET within[k \in 0 .. Cardinality(Nodes) - 1] ==
            IF k = 0 THEN [m \in Nodes |-> IF m = d THEN {0} ELSE {}] ELSE Extended(lat, within[k - 1])
    IN  within

\* A shortest path meets no node twice.
Distance(n, d) == Min(PathLengths(latency, d)[Cardinality(Nodes) - 1][n])

\* When no event is left, every node knows the length of the shortest path to
\* every other, whatever the order of the announcements, of the changes and of
\* the messages was, and though messages were read later than they were sent and
\* entries without a route were taken for distances on the way.
Converged ==
    Settled => \A n, d \in Nodes : d \in DOMAIN dvTable[n] /\ dvTable[n][d].dvValue = Distance(n, d)

\* A node that knows a neighbour has, unless a message of that neighbour is on
\* its way, the distances which the neighbour has.
CopiesCurrent ==
    \A l \in Links : l[1] \in DOMAIN dvTable_nb[l[2]] /\ l \notin inflight =>
        \A d \in DOMAIN dvTable[l[1]] :
            dvTable[l[1]][d].next # None =>
                /\ d \in DOMAIN dvTable_nb[l[2]][l[1]]
                /\ dvTable_nb[l[2]][l[1]][d].dvValue = dvTable[l[1]][d].dvValue

\* The exchange ends: nodes that count up after a link got worse stop counting.
ExchangeEnds == <>[]Settled

\* When no event is left, the walk along next hops reaches its destination.
\* CollectPathLinks gives a walk up, as a "suspected routing loop", after twice
\* as many steps as there are nodes.
NoRoutingLoop == Settled => \A n, d \in Nodes : CollectPathLinks(n, d) = d
=============================================================================
