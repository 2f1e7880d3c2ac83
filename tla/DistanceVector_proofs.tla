------------------------ MODULE DistanceVector_proofs ------------------------
(* Theorems about DistanceVector, for every topology and all latencies.     *)
EXTENDS DistanceVector, DataLemmas, FiniteSetTheorems

(* A set of naturals that is not empty has a smallest member.               *)
LEMMA MinOfNaturals ==
  ASSUME NEW S, S \subseteq Nat, S # {}
  PROVE  Min(S) \in S /\ \A y \in S : Min(S) =< y
<1>1. PICK x \in S : \A y \in S : ~ (<<y, x>> \in OpToRel(<, Nat))
  BY NatLessThanWellFounded, WFMin
<1>2. \A y \in S : x =< y
  <2> SUFFICES ASSUME NEW y \in S PROVE x =< y
    OBVIOUS
  <2>1. x \in Nat /\ y \in Nat
    OBVIOUS
  <2>2. ~ (y < x)
    BY <1>1, <2>1 DEF OpToRel
  <2> QED
    BY <2>1, <2>2
<1> QED
  BY <1>2 DEF Min

(* The source and the end of a link are nodes, and they determine it.       *)
LEMMA LinkEnds ==
  ASSUME NEW l \in Links
  PROVE  l[1] \in Nodes /\ l[2] \in Nodes /\ l = <<l[1], l[2]>>
BY DVAssumption

-----------------------------------------------------------------------------
(* A row of dvTable at node n, whose neighbours are D.                      *)
RowOK(dvt, n, D) ==
  /\ n \in DOMAIN dvt /\ dvt[n] = Path(n, 0)
  /\ \A d \in DOMAIN dvt \ {n} :
       dvt[d] = Path(None, None) \/ (dvt[d].next \in D /\ dvt[d].dvValue \in Nat)

(* Copies and latencies from which offers are made: no offer is negative,   *)
(* since a latency is at least 1 and an entry without a route has -1.       *)
OffersOK(nb, out, D) ==
  /\ DOMAIN nb = D /\ DOMAIN out = D
  /\ \A j \in D : out[j] \in Nat \ {0} /\ \A d \in DOMAIN nb[j] : nb[j][d].dvValue \in Nat \cup {None}

(* TypeOK is inductive with: the copies and latencies make sound offers.    *)
Tables ==
  /\ DOMAIN outgoing = Nodes /\ DOMAIN dvTable = Nodes /\ DOMAIN dvTable_nb = Nodes
  /\ \A n \in Nodes : OffersOK(dvTable_nb[n], outgoing[n], DOMAIN outgoing[n])

TypeInv == TypeOK /\ Tables

(* The loop of both handlers keeps a row a row: the next hop it writes is a *)
(* neighbour, the distance is a natural, and the own entry stays.           *)
LEMMA BellmanFordRow ==
  ASSUME NEW n, NEW D, D \subseteq Nodes, NEW dvt, NEW nb, NEW out,
         RowOK(dvt, n, D), OffersOK(nb, out, D)
  PROVE  RowOK(BellmanFord(n, dvt, nb, out), n, D)
<1> DEFINE bf == BellmanFord(n, dvt, nb, out)
<1>1. DOMAIN bf = DOMAIN dvt /\ bf[n] = dvt[n]
  BY DEF BellmanFord, RowOK
<1>2. ASSUME NEW d \in DOMAIN dvt \ {n}
      PROVE  bf[d] = Path(None, None) \/ (bf[d].next \in D /\ bf[d].dvValue \in Nat)
  <2> DEFINE via == Via(nb, d)
             offers == {Offer(nb, out, j, d) : j \in via}
             min == Min(offers)
             best == {j \in via : Offer(nb, out, j, d) = min}
  <2>1. CASE bf[d] = dvt[d]
    BY <2>1 DEF RowOK
  <2>2. CASE bf[d] = Path(Min(best), min) /\ via # {}
    <3>1. via \subseteq D
      BY DEF Via, OffersOK
    <3>2. ASSUME NEW j \in via PROVE Offer(nb, out, j, d) \in Nat
      <4>1. /\ out[j] \in Nat \ {0}
            /\ nb[j][d].dvValue \in Nat \cup {None}
        BY <3>1 DEF Via, OffersOK
      <4> QED
        BY <4>1 DEF Offer, None
    <3>3. offers \subseteq Nat /\ offers # {}
      BY <3>2, <2>2
    <3>4. min \in offers
      BY <3>3, MinOfNaturals
    <3>5. best \subseteq Nat /\ best # {}
      BY <3>1, <3>4, DVAssumption
    <3>6. Min(best) \in best
      BY <3>5, MinOfNaturals
    <3>7. Min(best) \in D /\ min \in Nat
      BY <3>1, <3>3, <3>4, <3>6
    <3> HIDE DEF min, best
    <3> QED
      BY <2>2, <3>7 DEF Path
  <2> HIDE DEF bf
  <2>3. bf[d] = dvt[d] \/ (bf[d] = Path(Min(best), min) /\ via # {})
    BY DEF bf, BellmanFord
  <2> QED
    BY <2>1, <2>2, <2>3
<1> QED
  BY <1>1, <1>2 DEF RowOK

(* Every row has the distances that offers are made from.                   *)
LEMMA RowValues ==
  ASSUME NEW n, NEW D, NEW dvt, RowOK(dvt, n, D)
  PROVE  \A d \in DOMAIN dvt : dvt[d].dvValue \in Nat \cup {None}
BY DEF RowOK, Path

(* Destinations without routes leave a row a row.                           *)
LEMMA AddDvRow ==
  ASSUME NEW n, NEW D, NEW dvt, NEW dests, RowOK(dvt, n, D)
  PROVE  RowOK(AddDv(dvt, dests), n, D)
BY DEF RowOK, AddDv

LEMMA TypeInvRows ==
  ASSUME TypeInv, NEW n \in Nodes
  PROVE  /\ RowOK(dvTable[n], n, DOMAIN outgoing[n])
         /\ DOMAIN outgoing[n] \subseteq Nodes
BY DEF TypeInv, TypeOK, RowOK

(* A step that changes the row, the copies and the latencies of one node to *)
(* sound ones keeps TypeInv.                                                *)
LEMMA OneNode ==
  ASSUME TypeInv, NEW n \in Nodes, NEW dvt, NEW nb, NEW out,
         dvTable' = [dvTable EXCEPT ![n] = dvt],
         dvTable_nb' = [dvTable_nb EXCEPT ![n] = nb],
         DOMAIN outgoing' = Nodes, outgoing'[n] = out,
         \A m \in Nodes \ {n} : outgoing'[m] = outgoing[m],
         latency' \in [Links -> Nat \ {0}], posted' \subseteq posted, inflight' \subseteq Links,
         changes' \in 0 .. MaxChanges,
         DOMAIN out = {d \in Nodes : <<n, d>> \in Links \ posted'},
         \A m \in Nodes \ {n}, d \in Nodes : <<m, d>> \in posted => <<m, d>> \in posted',
         RowOK(dvt, n, DOMAIN out), OffersOK(nb, out, DOMAIN out)
  PROVE  TypeInv'
<1>1. DOMAIN dvTable = Nodes /\ DOMAIN dvTable_nb = Nodes /\ DOMAIN outgoing = Nodes
  BY DEF TypeInv, Tables
<1>2. ASSUME NEW m \in Nodes
      PROVE  /\ DOMAIN outgoing'[m] = {d \in Nodes : <<m, d>> \in Links \ posted'}
             /\ RowOK(dvTable'[m], m, DOMAIN outgoing'[m])
             /\ OffersOK(dvTable_nb'[m], outgoing'[m], DOMAIN outgoing'[m])
  <2>1. CASE m = n
    BY <1>1, <2>1
  <2>2. CASE m # n
    <3>1. outgoing'[m] = outgoing[m] /\ dvTable'[m] = dvTable[m] /\ dvTable_nb'[m] = dvTable_nb[m]
      BY <1>1, <2>2
    <3>2. RowOK(dvTable[m], m, DOMAIN outgoing[m]) /\ OffersOK(dvTable_nb[m], outgoing[m], DOMAIN outgoing[m])
      BY TypeInvRows DEF TypeInv, Tables
    <3>3. DOMAIN outgoing[m] = {d \in Nodes : <<m, d>> \in Links \ posted}
      BY DEF TypeInv, TypeOK
    <3> QED
      BY <2>2, <3>1, <3>2, <3>3
  <2> QED
    BY <2>1, <2>2
<1>3. Tables'
  BY <1>1, <1>2 DEF Tables
<1>4. TypeOK'
  BY <1>2 DEF TypeOK, RowOK, OffersOK, TypeInv
<1> QED
  BY <1>3, <1>4 DEF TypeInv

(* LinkHasBeenUpdated makes sound offers and rows of them.                  *)
LEMMA UpdateTypeInv ==
  ASSUME TypeInv, NEW l \in Links, NEW lat \in Nat \ {0}, LinkHasBeenUpdated(l, lat),
         latency' \in [Links -> Nat \ {0}], changes' \in 0 .. MaxChanges,
         posted' = posted \ {l}
  PROVE  TypeInv'
<1> DEFINE n == l[1]
           dest == l[2]
           added == dest \notin DOMAIN outgoing[n]
           out == With(outgoing[n], dest, lat)
           nb == IF added THEN With(dvTable_nb[n], dest, dvTable[dest]) ELSE dvTable_nb[n]
           known == IF added THEN AddDv(dvTable[n], {dest}) ELSE dvTable[n]
           dvt == BellmanFord(n, known, nb, out)
<1>1. n \in Nodes /\ dest \in Nodes /\ l = <<n, dest>>
  BY LinkEnds
<1>2. DOMAIN outgoing[n] = {d \in Nodes : <<n, d>> \in Links \ posted}
  BY <1>1 DEF TypeInv, TypeOK
<1>3. CASE UNCHANGED <<outgoing, dvTable_nb, dvTable, inflight>> /\ ~added
  <2>1. posted' = posted
    BY <1>1, <1>2, <1>3
  <2> QED
    BY <1>3, <2>1 DEF TypeInv, TypeOK, Tables, OffersOK
<1>4. CASE /\ outgoing' = [outgoing EXCEPT ![n] = out]
           /\ dvTable_nb' = [dvTable_nb EXCEPT ![n] = nb]
           /\ dvTable' = [dvTable EXCEPT ![n] = dvt]
           /\ inflight' = inflight \cup IF dvt # known THEN SendToNeighbors(n) ELSE {}
  <2>1. inflight' \subseteq Links
    BY <1>4 DEF TypeInv, TypeOK, SendToNeighbors
  <2>2. DOMAIN out = {d \in Nodes : <<n, d>> \in Links \ posted'}
    BY <1>1, <1>2 DEF With
  <2>3. RowOK(known, n, DOMAIN out)
    <3>1. RowOK(dvTable[n], n, DOMAIN outgoing[n])
      BY <1>1, TypeInvRows
    <3>2. RowOK(dvTable[n], n, DOMAIN out)
      BY <3>1 DEF RowOK, With
    <3> HIDE DEF out
    <3> QED
      BY <3>2, AddDvRow
  <2>4. OffersOK(nb, out, DOMAIN out)
    <3>1. OffersOK(dvTable_nb[n], outgoing[n], DOMAIN outgoing[n])
      BY <1>1 DEF TypeInv, Tables
    <3>2. \A d \in DOMAIN dvTable[dest] : dvTable[dest][d].dvValue \in Nat \cup {None}
      BY <1>1, TypeInvRows, RowValues
    <3> QED
      BY <3>1, <3>2 DEF OffersOK, With
  <2>5. RowOK(dvt, n, DOMAIN out)
    <3> HIDE DEF out, known, nb
    <3>1. DOMAIN out \subseteq Nodes
      BY <2>2
    <3> QED
      BY <2>3, <2>4, <3>1, BellmanFordRow
  <2> HIDE DEF dvt, out, nb, n
  <2>6. /\ DOMAIN outgoing' = Nodes /\ outgoing'[n] = out
        /\ \A m \in Nodes \ {n} : outgoing'[m] = outgoing[m]
    BY <1>1, <1>4 DEF TypeInv, Tables
  <2>7. \A m \in Nodes \ {n}, d \in Nodes : <<m, d>> \in posted => <<m, d>> \in posted'
    BY <1>1
  <2> QED
    BY <1>1, <1>4, <2>1, <2>2, <2>4, <2>5, <2>6, <2>7, OneNode
<1> QED
  BY <1>3, <1>4 DEF LinkHasBeenUpdated

(* A message brings a copy of a row, whenever it is read.                   *)
LEMMA MessageTypeInv ==
  ASSUME TypeInv, NEW l \in Links, ProcessIncomingRoutingMessage(l)
  PROVE  TypeInv'
<1> DEFINE nn == l[1]
           n == l[2]
           changed == nn \in DOMAIN dvTable_nb[n]
           nb == IF changed THEN With(dvTable_nb[n], nn, dvTable[nn]) ELSE dvTable_nb[n]
           known == AddDv(dvTable[n], DOMAIN dvTable[nn])
           dvt == IF changed THEN BellmanFord(n, known, nb, outgoing[n]) ELSE known
           out == outgoing[n]
<1>1. n \in Nodes /\ nn \in Nodes
  BY LinkEnds
<1>2. /\ dvTable_nb' = [dvTable_nb EXCEPT ![n] = nb]
      /\ dvTable' = [dvTable EXCEPT ![n] = dvt]
      /\ inflight' = (inflight \ {l}) \cup IF dvt # known THEN SendToNeighbors(n) ELSE {}
      /\ UNCHANGED <<latency, outgoing, posted, changes>>
  BY DEF ProcessIncomingRoutingMessage
<1>3. inflight' \subseteq Links
  BY <1>2 DEF TypeInv, TypeOK, SendToNeighbors
<1>4. /\ DOMAIN outgoing' = Nodes /\ outgoing'[n] = out
      /\ \A m \in Nodes \ {n} : outgoing'[m] = outgoing[m]
  BY <1>2 DEF TypeInv, Tables
<1>5. /\ DOMAIN out = {d \in Nodes : <<n, d>> \in Links \ posted'}
      /\ DOMAIN out \subseteq Nodes
  BY <1>1, <1>2 DEF TypeInv, TypeOK
<1>6. RowOK(known, n, DOMAIN out)
  BY <1>1, TypeInvRows, AddDvRow
<1>7. OffersOK(nb, out, DOMAIN out)
  <2>1. OffersOK(dvTable_nb[n], outgoing[n], DOMAIN outgoing[n])
    BY <1>1 DEF TypeInv, Tables
  <2>2. \A d \in DOMAIN dvTable[nn] : dvTable[nn][d].dvValue \in Nat \cup {None}
    BY <1>1, TypeInvRows, RowValues
  <2> QED
    BY <2>1, <2>2 DEF OffersOK, With
<1>8. RowOK(dvt, n, DOMAIN out)
  <2> HIDE DEF known, nb
  <2> QED
    BY <1>5, <1>6, <1>7, BellmanFordRow
<1>9. /\ latency' \in [Links -> Nat \ {0}] /\ changes' \in 0 .. MaxChanges
      /\ posted' = posted
  BY <1>2 DEF TypeInv, TypeOK
<1> HIDE DEF dvt, out, nb, n
<1> QED
  BY <1>1, <1>2, <1>3, <1>4, <1>5, <1>7, <1>8, <1>9, OneNode

(* The invariant of TypeCorrect, also used by what follows.                 *)
LEMMA TypeInvAlways == Spec => []TypeInv
<1>1. Init => TypeInv
  <2> SUFFICES ASSUME Init PROVE TypeInv
    OBVIOUS
  <2>1. TypeOK
    BY LinkEnds, DVAssumption DEF Init, TypeOK
  <2>2. Tables
    BY DEF Init, Tables, OffersOK
  <2> QED
    BY <2>1, <2>2 DEF TypeInv
<1>2. TypeInv /\ [Next]_vars => TypeInv'
  <2> SUFFICES ASSUME TypeInv, [Next]_vars PROVE TypeInv'
    OBVIOUS
  <2>1. ASSUME NEW l \in Links, Announce(l) PROVE TypeInv'
    <3>1. /\ latency[l] \in Nat \ {0} /\ latency' \in [Links -> Nat \ {0}]
          /\ changes' \in 0 .. MaxChanges
      BY <2>1 DEF Announce, TypeInv, TypeOK
    <3> QED
      BY <2>1, <3>1, UpdateTypeInv DEF Announce
  <2>2. ASSUME NEW l \in Links, ProcessIncomingRoutingMessage(l) PROVE TypeInv'
    BY <2>2, MessageTypeInv
  <2>3. ASSUME NEW l \in Links, NEW lat \in Latencies, ChangeLink(l, lat) PROVE TypeInv'
    <3>1. /\ lat \in Nat \ {0} /\ latency' \in [Links -> Nat \ {0}]
          /\ changes' \in 0 .. MaxChanges /\ posted' = posted \ {l}
      BY <2>3, DVAssumption DEF ChangeLink, TypeInv, TypeOK
    <3> QED
      BY <2>3, <3>1, UpdateTypeInv DEF ChangeLink
  <2>4. CASE UNCHANGED vars
    BY <2>4 DEF vars, TypeInv, TypeOK, Tables, OffersOK
  <2> QED
    BY <2>1, <2>2, <2>3, <2>4 DEF Next
<1> QED
  BY <1>1, <1>2, PTL DEF Spec

(* Every node is at distance 0 of itself, every other distance is a natural *)
(* and every next hop a neighbour, although entries without a route count   *)
(* as the distance -1 when offers are compared.                             *)
THEOREM TypeCorrect == Spec => []TypeOK
<1>1. TypeInv => TypeOK
  BY DEF TypeInv
<1> QED
  BY <1>1, TypeInvAlways, PTL

-----------------------------------------------------------------------------
(* The tables are functions on the nodes: what CopiesCurrent needs of types. *)
Shape ==
  /\ DOMAIN dvTable = Nodes
  /\ DOMAIN dvTable_nb = Nodes
  /\ inflight \subseteq Links

(* One step at node n that may copy the vector of nn into its table, adds   *)
(* entries without a route, and sends its vector to all neighbours whenever *)
(* more than that changed, keeps the copies current: the argument is the    *)
(* same for a message as for a link.                                        *)
LEMMA CopiesStep ==
  ASSUME Shape, CopiesCurrent,
         NEW n \in Nodes, NEW nn \in Nodes, NEW nb, NEW known, NEW dvt, NEW dests,
         known = AddDv(dvTable[n], dests) \/ known = dvTable[n],
         dvTable' = [dvTable EXCEPT ![n] = dvt],
         dvTable_nb' = [dvTable_nb EXCEPT ![n] = nb],
         inflight \ {<<nn, n>>} \subseteq inflight',
         dvt # known => SendToNeighbors(n) \subseteq inflight',
         \/ nb = With(dvTable_nb[n], nn, dvTable[nn])
         \/ nb = dvTable_nb[n] /\ (inflight \subseteq inflight' \/ nn \notin DOMAIN dvTable_nb[n])
  PROVE  CopiesCurrent'
<1> SUFFICES ASSUME NEW l \in Links, l[1] \in DOMAIN dvTable_nb'[l[2]], l \notin inflight',
                    NEW d \in DOMAIN dvTable'[l[1]], dvTable'[l[1]][d].next # None
             PROVE  /\ d \in DOMAIN dvTable_nb'[l[2]][l[1]]
                    /\ dvTable_nb'[l[2]][l[1]][d].dvValue = dvTable'[l[1]][d].dvValue
  BY DEF CopiesCurrent
<1>1. l[1] \in Nodes /\ l[2] \in Nodes /\ l = <<l[1], l[2]>>
  BY LinkEnds
\* What the source of l has told before is what it tells now.
<1>2. /\ d \in DOMAIN dvTable[l[1]]
      /\ dvTable[l[1]][d] = dvTable'[l[1]][d]
  <2>1. CASE l[1] # n
    BY <2>1, <1>1 DEF Shape
  <2>2. CASE l[1] = n
    <3>1. dvt = known
      BY <2>2 DEF SendToNeighbors
    <3>2. dvTable'[l[1]] = known
      BY <3>1, <2>2 DEF Shape
    <3> QED
      BY <3>2, <2>2 DEF AddDv, Path, None
  <2> QED
    BY <2>1, <2>2
<1>3. CASE l = <<nn, n>> /\ nb = With(dvTable_nb[n], nn, dvTable[nn])
  <2>1. dvTable_nb'[l[2]][l[1]] = dvTable[l[1]]
    BY <1>3 DEF Shape, With
  <2> QED
    BY <2>1, <1>2
<1>4. CASE ~(l = <<nn, n>> /\ nb = With(dvTable_nb[n], nn, dvTable[nn]))
  <2>1. l[1] \in DOMAIN dvTable_nb[l[2]] /\ dvTable_nb'[l[2]][l[1]] = dvTable_nb[l[2]][l[1]]
    <3>1. CASE l[2] # n
      BY <3>1, <1>1 DEF Shape
    <3>2. CASE l[2] = n /\ nb = dvTable_nb[n]
      BY <3>2 DEF Shape
    <3>3. CASE l[2] = n /\ nb = With(dvTable_nb[n], nn, dvTable[nn]) /\ l[1] # nn
      BY <3>3 DEF Shape, With
    <3> QED
      BY <3>1, <3>2, <3>3, <1>4, <1>1
  <2>2. l \notin inflight
    BY <2>1, <1>4
  <2> QED
    BY <2>1, <2>2, <1>2 DEF CopiesCurrent
<1> QED
  BY <1>3, <1>4

(* LinkHasBeenUpdated is such a step, or changes nothing.                   *)
LEMMA UpdateCopies ==
  ASSUME Shape, CopiesCurrent, NEW l \in Links, NEW lat, LinkHasBeenUpdated(l, lat)
  PROVE  Shape' /\ CopiesCurrent'
<1> DEFINE n == l[1]
           dest == l[2]
           added == dest \notin DOMAIN outgoing[n]
           out == With(outgoing[n], dest, lat)
           nb == IF added THEN With(dvTable_nb[n], dest, dvTable[dest]) ELSE dvTable_nb[n]
           known == IF added THEN AddDv(dvTable[n], {dest}) ELSE dvTable[n]
           dvt == BellmanFord(n, known, nb, out)
<1>1. n \in Nodes /\ dest \in Nodes
  BY LinkEnds
<1>2. CASE UNCHANGED <<outgoing, dvTable_nb, dvTable, inflight>>
  BY <1>2 DEF Shape, CopiesCurrent
<1>3. CASE /\ dvTable_nb' = [dvTable_nb EXCEPT ![n] = nb]
           /\ dvTable' = [dvTable EXCEPT ![n] = dvt]
           /\ inflight' = inflight \cup IF dvt # known THEN SendToNeighbors(n) ELSE {}
  <2>1. Shape'
    BY <1>3 DEF Shape, SendToNeighbors
  <2>2. inflight \subseteq inflight' /\ (dvt # known => SendToNeighbors(n) \subseteq inflight')
    BY <1>3
  <2>3. CASE added
    <3> HIDE DEF dvt
    <3>1. CopiesCurrent'
      BY <2>2, <2>3, <1>1, <1>3, CopiesStep
    <3> QED
      BY <3>1, <2>1
  <2>4. CASE ~added
    <3> HIDE DEF dvt
    <3>1. CopiesCurrent'
      BY <2>2, <2>4, <1>1, <1>3, CopiesStep
    <3> QED
      BY <3>1, <2>1
  <2> QED
    BY <2>3, <2>4
<1> QED
  BY <1>2, <1>3 DEF LinkHasBeenUpdated

(* So is the delivery of a message.                                         *)
LEMMA MessageCopies ==
  ASSUME Shape, CopiesCurrent, NEW l \in Links, ProcessIncomingRoutingMessage(l)
  PROVE  Shape' /\ CopiesCurrent'
<1> DEFINE nn == l[1]
           n == l[2]
           changed == nn \in DOMAIN dvTable_nb[n]
           nb == IF changed THEN With(dvTable_nb[n], nn, dvTable[nn]) ELSE dvTable_nb[n]
           known == AddDv(dvTable[n], DOMAIN dvTable[nn])
           dvt == IF changed THEN BellmanFord(n, known, nb, outgoing[n]) ELSE known
<1>1. n \in Nodes /\ nn \in Nodes /\ l = <<nn, n>>
  BY LinkEnds
<1>2. /\ dvTable_nb' = [dvTable_nb EXCEPT ![n] = nb]
      /\ dvTable' = [dvTable EXCEPT ![n] = dvt]
      /\ inflight' = (inflight \ {l}) \cup IF dvt # known THEN SendToNeighbors(n) ELSE {}
  BY DEF ProcessIncomingRoutingMessage
<1>3. Shape'
  BY <1>2 DEF Shape, SendToNeighbors
<1>4. /\ inflight \ {<<nn, n>>} \subseteq inflight'
      /\ dvt # known => SendToNeighbors(n) \subseteq inflight'
  BY <1>1, <1>2
<1>5. nb = With(dvTable_nb[n], nn, dvTable[nn]) \/ (nb = dvTable_nb[n] /\ nn \notin DOMAIN dvTable_nb[n])
  OBVIOUS
<1> HIDE DEF dvt, nb
<1>6. CopiesCurrent'
  BY <1>1, <1>2, <1>4, <1>5, CopiesStep
<1> QED
  BY <1>3, <1>6

(* A node that knows a neighbour has the distances which the neighbour has,  *)
(* unless a message of that neighbour is on its way: although the message is *)
(* a pointer to a table that goes on changing, no change is ever missed.     *)
THEOREM CopiesAreCurrent == Spec => []CopiesCurrent
<1>1. Init => Shape /\ CopiesCurrent
  <2> SUFFICES ASSUME Init PROVE Shape /\ CopiesCurrent
    OBVIOUS
  <2>1. Shape
    BY DEF Init, Shape
  <2>2. \A l \in Links : l[1] \notin DOMAIN dvTable_nb[l[2]]
    BY LinkEnds DEF Init
  <2> QED
    BY <2>1, <2>2 DEF CopiesCurrent
<1>2. Shape /\ CopiesCurrent /\ [Next]_vars => (Shape /\ CopiesCurrent)'
  <2> SUFFICES ASSUME Shape, CopiesCurrent, [Next]_vars PROVE Shape' /\ CopiesCurrent'
    OBVIOUS
  <2>1. ASSUME NEW l \in Links, Announce(l) PROVE Shape' /\ CopiesCurrent'
    BY <2>1, UpdateCopies DEF Announce
  <2>2. ASSUME NEW l \in Links, ProcessIncomingRoutingMessage(l) PROVE Shape' /\ CopiesCurrent'
    BY <2>2, MessageCopies
  <2>3. ASSUME NEW l \in Links, NEW lat \in Latencies, ChangeLink(l, lat)
        PROVE  Shape' /\ CopiesCurrent'
    BY <2>3, UpdateCopies DEF ChangeLink
  <2>4. CASE UNCHANGED vars
    BY <2>4 DEF vars, Shape, CopiesCurrent
  <2> QED
    BY <2>1, <2>2, <2>3, <2>4 DEF Next
<1> QED
  BY <1>1, <1>2, PTL DEF Spec

-----------------------------------------------------------------------------
(* What a solution of the equations that the tables satisfy is: the lengths *)
(* of the shortest paths.                                                   *)
LatencyMaps == [Links -> Nat \ {0}]
LengthMaps == [Nodes -> SUBSET Nat]

LEMMA NodesFinite ==
  /\ IsFiniteSet(Nodes) /\ Cardinality(Nodes) \in Nat
  /\ Nodes # {} => Cardinality(Nodes) \in Nat \ {0}
BY FS_CardinalityType, FS_EmptySet, DVAssumption

(* A path with one link more: its first link, then a path.                  *)
LEMMA ExtendedFacts ==
  ASSUME NEW lat \in LatencyMaps, NEW f \in LengthMaps
  PROVE  /\ Extended(lat, f) \in LengthMaps
         /\ \A m \in Nodes : f[m] \subseteq Extended(lat, f)[m]
         /\ \A l \in Links : \A x \in f[l[2]] : lat[l] + x \in Extended(lat, f)[l[1]]
         /\ \A m \in Nodes : \A y \in Extended(lat, f)[m] :
              y \in f[m] \/ \E l \in Links : l[1] = m /\ \E x \in f[l[2]] : y = lat[l] + x
<1>1. ASSUME NEW l \in Links, NEW x \in f[l[2]] PROVE lat[l] + x \in Nat
  BY LinkEnds DEF LatencyMaps, LengthMaps
<1>2. ASSUME NEW m \in Nodes
      PROVE  Extended(lat, f)[m] = f[m] \cup UNION {{lat[l] + x : x \in f[l[2]]} : l \in SendToNeighbors(m)}
  BY DEF Extended
<1>3. ASSUME NEW m \in Nodes, NEW y \in Extended(lat, f)[m]
      PROVE  y \in f[m] \/ \E l \in Links : l[1] = m /\ \E x \in f[l[2]] : y = lat[l] + x
  BY <1>2, <1>3 DEF SendToNeighbors
<1>4. \A l \in Links : \A x \in f[l[2]] : lat[l] + x \in Extended(lat, f)[l[1]]
  BY <1>2, LinkEnds DEF SendToNeighbors
<1>5. \A m \in Nodes : f[m] \subseteq Extended(lat, f)[m]
  BY <1>2
<1>6. \A m \in Nodes : Extended(lat, f)[m] \subseteq Nat
  BY <1>1, <1>3 DEF LengthMaps
<1>7. Extended(lat, f) \in LengthMaps
  BY <1>6 DEF Extended, LengthMaps
<1> QED
  BY <1>3, <1>4, <1>5, <1>7

(* The recursive definition of the lengths defines them.                    *)
LEMMA PathLengthsFacts ==
  ASSUME NEW lat \in LatencyMaps, NEW d \in Nodes
  PROVE  LET w == PathLengths(lat, d)
             N == Cardinality(Nodes) - 1
         IN  /\ w \in [0 .. N -> LengthMaps]
             /\ w[0] = [m \in Nodes |-> IF m = d THEN {0} ELSE {}]
             /\ \A k \in 1 .. N : w[k] = Extended(lat, w[k - 1])
<1> DEFINE zero == [m \in Nodes |-> IF m = d THEN {0} ELSE {}]
           longer == [k \in Nat |-> [f \in LengthMaps |-> Extended(lat, f)]]
           within == PathLengths(lat, d)
<1>1. PICK N \in Nat : N = Cardinality(Nodes) - 1
  BY NodesFinite
<1>2. zero \in LengthMaps
  BY DEF LengthMaps
<1>3. longer \in [Nat -> [LengthMaps -> LengthMaps]]
  BY ExtendedFacts
<1>4. PICK f \in [0 .. N -> LengthMaps] : Iterates(f, zero, longer, N)
  <2> HIDE DEF zero, longer
  <2> QED
    BY <1>2, <1>3, Iteration
<1>5. ASSUME NEW k \in 1 .. N PROVE k # 0 /\ f[k] = Extended(lat, f[k - 1])
  <2>1. k - 1 \in 0 .. N /\ k \in Nat /\ k # 0
    OBVIOUS
  <2>2. f[k] = longer[k][f[k - 1]] /\ f[k - 1] \in LengthMaps
    BY <2>1, <1>4 DEF Iterates
  <2> QED
    BY <2>1, <2>2
<1>6. f[0] = zero
  BY <1>4 DEF Iterates
<1>7. \A k \in 0 .. N : k = 0 \/ k \in 1 .. N
  OBVIOUS
<1> HIDE DEF zero
<1>8. f = [k \in 0 .. N |-> IF k = 0 THEN zero ELSE Extended(lat, f[k - 1])]
  BY <1>5, <1>6, <1>7
<1>9. within = CHOOSE g : g = [k \in 0 .. N |-> IF k = 0 THEN zero ELSE Extended(lat, g[k - 1])]
  BY <1>1 DEF PathLengths, zero
<1>10. within = [k \in 0 .. N |-> IF k = 0 THEN zero ELSE Extended(lat, within[k - 1])]
  <2> HIDE DEF within
  <2> QED
    BY <1>8, <1>9
<1> HIDE DEF within
<1>11. within[0] = zero /\ \A k \in 1 .. N : within[k] = Extended(lat, within[k - 1])
  BY <1>5, <1>10
<1>12. DOMAIN within = 0 .. N /\ within = [k \in DOMAIN within |-> within[k]]
  BY <1>10
<1> DEFINE Out == {k \in 0 .. N : within[k] \notin LengthMaps}
<1>13. Out = {}
  <2> SUFFICES ASSUME Out # {} PROVE FALSE
    OBVIOUS
  <2>1. PICK k \in Out : \A j \in Out : k <= j
    <3>1. Out \subseteq Nat
      OBVIOUS
    <3> QED
      BY <3>1, Least
  <2>2. k # 0
    BY <1>2, <1>11
  <2>3. k - 1 \in 0 .. N /\ ~ (k <= k - 1) /\ k \in 1 .. N
    BY <2>2
  <2>4. within[k - 1] \in LengthMaps
    BY <2>1, <2>3
  <2> QED
    BY <2>1, <2>3, <2>4, <1>11, ExtendedFacts
<1> QED
  BY <1>1, <1>11, <1>12, <1>13 DEF within, zero

(* A solution v of the equations for the destination d.                     *)
Solves(v, lat, d) ==
  /\ v \in [Nodes -> Nat] /\ v[d] = 0
  /\ \A l \in Links : v[l[1]] <= lat[l] + v[l[2]]
  /\ \A m \in Nodes \ {d} : \E l \in Links : l[1] = m /\ v[m] = lat[l] + v[l[2]]

(* No path is shorter than a solution says.                                 *)
LEMMA NoneShorter ==
  ASSUME NEW lat \in LatencyMaps, NEW d \in Nodes, NEW v, Solves(v, lat, d),
         NEW k \in 0 .. Cardinality(Nodes) - 1
  PROVE  \A m \in Nodes : \A x \in PathLengths(lat, d)[k][m] : v[m] <= x
<1> DEFINE w == PathLengths(lat, d)
           Good(i) == \A m \in Nodes : \A x \in w[i][m] : v[m] <= x
<1>1. PICK N \in Nat : N = Cardinality(Nodes) - 1
  BY NodesFinite
<1>2. /\ w \in [0 .. N -> LengthMaps]
      /\ w[0] = [m \in Nodes |-> IF m = d THEN {0} ELSE {}]
      /\ \A i \in 1 .. N : w[i] = Extended(lat, w[i - 1])
  BY <1>1, PathLengthsFacts
<1> HIDE DEF w
<1>3. Good(0)
  BY <1>2 DEF Solves
<1>4. ASSUME NEW i \in 1 .. N, Good(i - 1) PROVE Good(i)
  <2>1. w[i] = Extended(lat, w[i - 1]) /\ w[i - 1] \in LengthMaps
    BY <1>2
  <2> SUFFICES ASSUME NEW m \in Nodes, NEW x \in w[i][m] PROVE v[m] <= x
    OBVIOUS
  <2>2. CASE x \in w[i - 1][m]
    BY <1>4, <2>2
  <2>3. CASE x \notin w[i - 1][m]
    <3>1. PICK l \in Links : l[1] = m /\ \E y \in w[i - 1][l[2]] : x = lat[l] + y
      BY <2>1, <2>3, ExtendedFacts
    <3>2. PICK y \in w[i - 1][l[2]] : x = lat[l] + y
      BY <3>1
    <3>3. v[l[2]] <= y /\ y \in Nat /\ v[l[2]] \in Nat /\ v[m] \in Nat /\ lat[l] \in Nat
      BY <1>4, <2>1, LinkEnds DEF Solves, LengthMaps, LatencyMaps
    <3>4. v[m] <= lat[l] + v[l[2]]
      BY <3>1 DEF Solves
    <3> QED
      BY <3>2, <3>3, <3>4
  <2> QED
    BY <2>2, <2>3
<1> DEFINE Bad == {i \in 0 .. N : ~ Good(i)}
<1> HIDE DEF Good
<1>5. ASSUME Bad # {} PROVE FALSE
  <2>1. PICK i \in Bad : \A j \in Bad : i <= j
    <3>1. Bad \subseteq Nat
      OBVIOUS
    <3> QED
      BY <1>5, <3>1, Least
  <2>2. i # 0
    BY <1>3
  <2>3. i \in 1 .. N /\ i - 1 \in 0 .. N /\ ~ (i <= i - 1)
    BY <2>2
  <2> QED
    BY <1>4, <2>1, <2>3
<1>6. Good(k)
  BY <1>1, <1>5
<1> QED
  BY <1>6 DEF Good, w

(* With each link more, the paths of one more node are as short as the      *)
(* solution says: of the nodes that are left, the one where it is smallest. *)
LEMMA OneMore ==
  ASSUME NEW lat \in LatencyMaps, NEW d \in Nodes, NEW v, Solves(v, lat, d), NEW f \in LengthMaps,
         NEW S, S = {m \in Nodes : v[m] \in f[m]}, d \in S, S # Nodes
  PROVE  \E m \in Nodes \ S : v[m] \in Extended(lat, f)[m]
<1> DEFINE left == {v[m] : m \in Nodes \ S}
<1>1. left \subseteq Nat /\ left # {}
  BY DEF Solves
<1>2. PICK least \in left : \A y \in left : least <= y
  <2> HIDE DEF left
  <2> QED
    BY <1>1, Least
<1>3. PICK m \in Nodes \ S : v[m] = least
  BY <1>2
<1>4. PICK l \in Links : l[1] = m /\ v[m] = lat[l] + v[l[2]]
  BY <1>3 DEF Solves
<1>5. PICK x, y, z \in Nat : x = v[m] /\ y = v[l[2]] /\ z = lat[l] /\ z > 0
  BY <1>4, LinkEnds DEF Solves, LatencyMaps
<1>6. y < x
  BY <1>4, <1>5
<1>7. l[2] \in S
  <2>1. l[2] \in Nodes
    BY LinkEnds
  <2>2. ASSUME l[2] \notin S PROVE FALSE
    <3>1. v[l[2]] \in left
      BY <2>1, <2>2
    <3>2. x <= y
      BY <1>2, <1>3, <1>5, <3>1
    <3> QED
      BY <1>5, <1>6, <3>2
  <2> QED
    BY <2>2
<1>8. lat[l] + v[l[2]] \in Extended(lat, f)[m]
  BY <1>4, <1>7, ExtendedFacts
<1> QED
  BY <1>3, <1>4, <1>8

LEMMA ShortestAlongPaths ==
  ASSUME NEW lat \in LatencyMaps, NEW d \in Nodes, NEW v, Solves(v, lat, d), NEW n \in Nodes
  PROVE  v[n] = Min(PathLengths(lat, d)[Cardinality(Nodes) - 1][n])
<1> DEFINE w == PathLengths(lat, d)
           T(i) == {m \in Nodes : v[m] \in w[i][m]}
           Good(i) == d \in T(i) /\ (T(i) = Nodes \/ Cardinality(T(i)) >= i + 1)
<1>1. PICK N \in Nat : N = Cardinality(Nodes) - 1
  BY NodesFinite
<1>2. /\ w \in [0 .. N -> LengthMaps]
      /\ w[0] = [m \in Nodes |-> IF m = d THEN {0} ELSE {}]
      /\ \A i \in 1 .. N : w[i] = Extended(lat, w[i - 1])
  BY <1>1, PathLengthsFacts
<1> HIDE DEF w
<1>3. \A i : T(i) \in SUBSET Nodes /\ IsFiniteSet(T(i)) /\ Cardinality(T(i)) \in Nat
  BY NodesFinite, FS_Subset, FS_CardinalityType
<1>4. Good(0)
  <2>1. d \in T(0)
    BY <1>2 DEF Solves
  <2>2. Cardinality(T(0)) # 0
    BY <1>3, <2>1, FS_EmptySet
  <2>3. Cardinality(T(0)) >= 0 + 1
    BY <1>3, <2>2
  <2> QED
    BY <2>1, <2>3
<1>5. ASSUME NEW i \in 1 .. N, Good(i - 1) PROVE Good(i)
  <2>1. PICK f, S : f = w[i - 1] /\ S = T(i - 1)
    OBVIOUS
  <2>2. /\ f \in LengthMaps /\ w[i] = Extended(lat, f)
    BY <1>2, <2>1
  <2>3. S \subseteq T(i)
    BY <2>1, <2>2, ExtendedFacts
  <2>4. CASE S = Nodes
    BY <2>3, <2>4
  <2>5. CASE S # Nodes
    <3>1. S = {m \in Nodes : v[m] \in f[m]} /\ d \in S /\ Cardinality(S) >= i
      BY <1>5, <2>1, <2>5
    <3>2. PICK m \in Nodes \ S : v[m] \in Extended(lat, f)[m]
      BY <2>2, <2>5, <3>1, OneMore
    <3>3. S \cup {m} \in SUBSET T(i)
      BY <2>2, <2>3, <3>2
    <3>4. Cardinality(S \cup {m}) = Cardinality(S) + 1 /\ Cardinality(S) \in Nat
      <4>1. IsFiniteSet(T(i - 1)) /\ Cardinality(T(i - 1)) \in Nat
        BY <1>3
      <4>2. IsFiniteSet(S) /\ Cardinality(S) \in Nat
        BY <2>1, <4>1
      <4> HIDE DEF T
      <4> QED
        BY <3>2, <4>2, FS_AddElement
    <3>5. Cardinality(S \cup {m}) <= Cardinality(T(i))
      BY <1>3, <3>3, FS_Subset
    <3>6. PICK a, b \in Nat : a = Cardinality(S) /\ b = Cardinality(T(i))
      BY <1>3, <3>4
    <3>7. b >= i + 1
      BY <3>1, <3>4, <3>5, <3>6
    <3> QED
      BY <2>3, <3>1, <3>6, <3>7
  <2> QED
    BY <2>4, <2>5
<1> DEFINE Bad == {i \in 0 .. N : ~ Good(i)}
<1> HIDE DEF Good
<1>6. ASSUME Bad # {} PROVE FALSE
  <2>1. PICK i \in Bad : \A j \in Bad : i <= j
    <3>1. Bad \subseteq Nat
      OBVIOUS
    <3> QED
      BY <1>6, <3>1, Least
  <2>2. i # 0
    BY <1>4
  <2>3. i \in 1 .. N /\ i - 1 \in 0 .. N /\ ~ (i <= i - 1)
    BY <2>2
  <2> QED
    BY <1>5, <2>1, <2>3
<1>7. Good(N)
  BY <1>6
<1>8. T(N) = Nodes
  <2>1. T(N) \in SUBSET Nodes /\ Cardinality(T(N)) \in Nat
    BY <1>3
  <2>2. Cardinality(T(N)) <= Cardinality(Nodes) /\ (Cardinality(Nodes) = Cardinality(T(N)) => Nodes = T(N))
    BY <2>1, NodesFinite, FS_Subset
  <2>3. T(N) = Nodes \/ Cardinality(T(N)) >= N + 1
    BY <1>7 DEF Good
  <2> HIDE DEF T
  <2>4. Cardinality(T(N)) >= N + 1 => Cardinality(T(N)) = Cardinality(Nodes)
    BY <1>1, <2>1, <2>2, NodesFinite
  <2> QED
    BY <2>2, <2>3, <2>4
<1>9. v[n] \in w[N][n]
  BY <1>8
<1>10. \A x \in w[N][n] : v[n] <= x
  BY <1>1, NoneShorter DEF w
<1>11. w[N][n] \subseteq Nat
  BY <1>2 DEF LengthMaps
<1>12. PICK W : W = w[N][n]
  OBVIOUS
<1>13. Min(W) \in W /\ \A y \in W : Min(W) <= y
  BY <1>9, <1>11, <1>12, MinOfNaturals
<1>14. Min(W) <= v[n] /\ v[n] <= Min(W) /\ Min(W) \in Nat /\ v[n] \in Nat
  BY <1>9, <1>10, <1>11, <1>12, <1>13
<1>15. v[n] = Min(W)
  BY <1>14
<1> QED
  BY <1>1, <1>12, <1>15 DEF w

-----------------------------------------------------------------------------
(* Why the tables satisfy these equations when no event is left: the row of *)
(* a node is always what BellmanFord makes of the copies it has.            *)
Computed(n, dvt, nb, out) ==
  \A d \in DOMAIN dvt \ {n} :
    IF Via(nb, d) = {} THEN dvt[d] = Path(None, None)
    ELSE dvt[d].dvValue = Min({Offer(nb, out, j, d) : j \in Via(nb, d)})

(* Latencies are the ones a node was told; entries are never given up, and  *)
(* those of a neighbour are known, or a message will bring them.  Before    *)
(* the first message is read every vector that has grown is on its way.     *)
Computing ==
  /\ \A l \in Links \ posted : outgoing[l[1]][l[2]] = latency[l]
  /\ \A n \in Nodes : Computed(n, dvTable[n], dvTable_nb[n], outgoing[n])
  /\ \A n \in Nodes : \A j \in DOMAIN dvTable_nb[n] : DOMAIN dvTable_nb[n][j] \subseteq DOMAIN dvTable[j]
  /\ \A l \in Links : l[1] \in DOMAIN dvTable_nb[l[2]] /\ l \notin inflight =>
                        DOMAIN dvTable_nb[l[2]][l[1]] \subseteq DOMAIN dvTable[l[2]]
  /\ posted # {} => \A n \in Nodes : DOMAIN dvTable[n] = {n} \/ SendToNeighbors(n) \subseteq inflight

LEMMA BellmanFordComputed ==
  ASSUME NEW n, NEW known, NEW nb, NEW out,
         \A d \in DOMAIN known \ {n} : Via(nb, d) = {} => known[d] = Path(None, None)
  PROVE  /\ DOMAIN BellmanFord(n, known, nb, out) = DOMAIN known
         /\ Computed(n, BellmanFord(n, known, nb, out), nb, out)
<1>1. DOMAIN BellmanFord(n, known, nb, out) = DOMAIN known
  BY DEF BellmanFord
<1>2. ASSUME NEW d \in DOMAIN known \ {n}
      PROVE  IF Via(nb, d) = {} THEN BellmanFord(n, known, nb, out)[d] = Path(None, None)
             ELSE BellmanFord(n, known, nb, out)[d].dvValue = Min({Offer(nb, out, j, d) : j \in Via(nb, d)})
  <2> DEFINE min == Min({Offer(nb, out, j, d) : j \in Via(nb, d)})
             best == Min({j \in Via(nb, d) : Offer(nb, out, j, d) = min})
  <2>1. BellmanFord(n, known, nb, out)[d] =
          IF d = n \/ Via(nb, d) = {} THEN known[d]
          ELSE IF min = known[d].dvValue THEN known[d] ELSE Path(best, min)
    BY DEF BellmanFord
  <2> HIDE DEF min, best
  <2>2. BellmanFord(n, known, nb, out)[d].dvValue = min \/ Via(nb, d) = {}
    BY <2>1 DEF Path
  <2> QED
    BY <2>1, <2>2 DEF min
<1> QED
  BY <1>1, <1>2 DEF Computed

(* The value of an entry that some neighbour offers.                        *)
LEMMA ComputedValue ==
  ASSUME NEW n, NEW D, NEW dvt, NEW nb, NEW out, OffersOK(nb, out, D), Computed(n, dvt, nb, out),
         NEW d \in DOMAIN dvt \ {n}, Via(nb, d) # {}
  PROVE  /\ dvt[d].dvValue \in Nat
         /\ \E j \in Via(nb, d) : dvt[d].dvValue = Offer(nb, out, j, d)
         /\ \A j \in Via(nb, d) : dvt[d].dvValue <= Offer(nb, out, j, d)
<1> DEFINE offers == {Offer(nb, out, j, d) : j \in Via(nb, d)}
<1>1. ASSUME NEW j \in Via(nb, d) PROVE Offer(nb, out, j, d) \in Nat
  <2>1. out[j] \in Nat \ {0} /\ nb[j][d].dvValue \in Nat \cup {None}
    BY DEF Via, OffersOK
  <2> QED
    BY <2>1 DEF Offer, None
<1>2. offers \subseteq Nat /\ offers # {}
  BY <1>1
<1>3. Min(offers) \in offers /\ \A y \in offers : Min(offers) <= y
  BY <1>2, MinOfNaturals
<1>4. dvt[d].dvValue = Min(offers)
  BY DEF Computed
<1> QED
  BY <1>2, <1>3, <1>4

(* A step of node n, which may copy the vector of nn.                       *)
NodeStep(n, nn, nb, known, dvt, out, dests) ==
  /\ known = AddDv(dvTable[n], dests) \/ known = dvTable[n]
  /\ dvt = BellmanFord(n, known, nb, out)
  /\ dvTable' = [dvTable EXCEPT ![n] = dvt]
  /\ dvTable_nb' = [dvTable_nb EXCEPT ![n] = nb]
  /\ outgoing'[n] = out /\ \A m \in Nodes \ {n} : outgoing'[m] = outgoing[m]
  /\ \A l \in Links \ posted' : outgoing'[l[1]][l[2]] = latency'[l]
  /\ inflight \ {<<nn, n>>} \subseteq inflight'
  /\ \/ nb = With(dvTable_nb[n], nn, dvTable[nn]) /\ (DOMAIN dvTable[nn] \subseteq DOMAIN known \/ <<nn, n>> \in inflight')
     \/ nb = dvTable_nb[n] /\ inflight \subseteq inflight'
  /\ posted' # {} => posted # {} /\ inflight \subseteq inflight'
  /\ posted' # {} => DOMAIN known = DOMAIN dvTable[n] \/ SendToNeighbors(n) \subseteq inflight'

LEMMA ComputingStep ==
  ASSUME TypeInv, Computing, NEW n \in Nodes, NEW nn \in Nodes,
         NEW nb, NEW known, NEW dvt, NEW out, NEW dests, NodeStep(n, nn, nb, known, dvt, out, dests)
  PROVE  Computing'
<1> USE DEF NodeStep
<1>1. DOMAIN dvTable = Nodes /\ DOMAIN dvTable_nb = Nodes
  BY DEF TypeInv, Tables
<1>2. /\ dvTable'[n] = dvt /\ dvTable_nb'[n] = nb
      /\ \A m \in Nodes \ {n} : dvTable'[m] = dvTable[m] /\ dvTable_nb'[m] = dvTable_nb[m]
  BY <1>1
<1>3. PICK r, nb0 : r = dvTable[n] /\ nb0 = dvTable_nb[n]
  OBVIOUS
<1>4. DOMAIN r \subseteq DOMAIN known /\ \A d \in DOMAIN known : known[d] = Path(None, None) \/ (d \in DOMAIN r /\ known[d] = r[d])
  BY <1>3 DEF AddDv
<1>5. /\ DOMAIN nb0 \subseteq DOMAIN nb
      /\ \A j \in DOMAIN nb0 : DOMAIN nb0[j] \subseteq DOMAIN nb[j]
      /\ \A j \in DOMAIN nb : DOMAIN nb[j] \subseteq DOMAIN dvTable[j]
  BY <1>3 DEF With, Computing
<1>6. DOMAIN dvt = DOMAIN known /\ Computed(n, dvt, nb, out)
  <2>1. ASSUME NEW d \in DOMAIN known \ {n}, Via(nb, d) = {}
        PROVE  known[d] = Path(None, None)
    <3>1. Via(nb0, d) = {}
      BY <1>5, <2>1 DEF Via
    <3>2. Computed(n, r, nb0, outgoing[n])
      BY <1>3 DEF Computing
    <3> QED
      BY <1>4, <3>1, <3>2 DEF Computed
  <2> QED
    BY <2>1, BellmanFordComputed
<1>7. \A m \in Nodes : DOMAIN dvTable[m] \subseteq DOMAIN dvTable'[m]
  BY <1>2, <1>3, <1>4, <1>6
<1>8. ASSUME NEW m \in Nodes PROVE Computed(m, dvTable'[m], dvTable_nb'[m], outgoing'[m])
  BY <1>2, <1>6 DEF Computing
<1>9. ASSUME NEW m \in Nodes, NEW j \in DOMAIN dvTable_nb'[m]
      PROVE  DOMAIN dvTable_nb'[m][j] \subseteq DOMAIN dvTable'[j]
  <2>1. j \in Nodes
    <3>1. \A i \in Nodes : DOMAIN dvTable_nb[i] \subseteq Nodes
      BY DEF TypeInv, TypeOK
    <3>2. DOMAIN nb \subseteq Nodes
      BY <3>1 DEF With
    <3> QED
      BY <1>2, <3>1, <3>2
  <2>2. DOMAIN dvTable_nb'[m][j] \subseteq DOMAIN dvTable[j]
    BY <1>2, <1>5 DEF Computing
  <2> QED
    BY <1>7, <2>1, <2>2
<1>10. ASSUME NEW l \in Links, l[1] \in DOMAIN dvTable_nb'[l[2]], l \notin inflight'
       PROVE  DOMAIN dvTable_nb'[l[2]][l[1]] \subseteq DOMAIN dvTable'[l[2]]
  <2>1. l[1] \in Nodes /\ l[2] \in Nodes /\ l = <<l[1], l[2]>>
    BY LinkEnds
  <2>2. CASE l = <<nn, n>> /\ nb = With(dvTable_nb[n], nn, dvTable[nn])
    <3>1. DOMAIN dvTable[nn] \subseteq DOMAIN known \/ (nb = dvTable_nb[n] /\ inflight \subseteq inflight')
      <4>1. <<nn, n>> \notin inflight'
        BY <1>10, <2>2
      <4> QED
        BY <4>1
    <3>2. nb[nn] = dvTable[nn] /\ l[2] = n /\ l[1] = nn
      BY <2>2 DEF With
    <3>3. CASE DOMAIN dvTable[nn] \subseteq DOMAIN known
      BY <1>2, <1>6, <3>2, <3>3
    <3>4. CASE nb = dvTable_nb[n] /\ inflight \subseteq inflight'
      <4>1. DOMAIN dvTable_nb[l[2]][l[1]] \subseteq DOMAIN dvTable[l[2]]
        BY <1>2, <1>10, <3>2, <3>4 DEF Computing
      <4> QED
        BY <1>2, <1>7, <2>1, <3>2, <3>4, <4>1
    <3> QED
      BY <3>1, <3>3, <3>4
  <2>3. CASE ~ (l = <<nn, n>> /\ nb = With(dvTable_nb[n], nn, dvTable[nn]))
    <3>1. l \notin inflight
      BY <1>10, <2>3
    <3>2. l[1] \in DOMAIN dvTable_nb[l[2]] /\ dvTable_nb'[l[2]][l[1]] = dvTable_nb[l[2]][l[1]]
      <4>1. CASE l[2] # n
        BY <1>2, <1>10, <2>1, <4>1
      <4>2. CASE l[2] = n /\ nb = dvTable_nb[n]
        BY <1>2, <1>10, <4>2
      <4>3. CASE l[2] = n /\ nb = With(dvTable_nb[n], nn, dvTable[nn]) /\ l[1] # nn
        BY <1>2, <1>10, <4>3 DEF With
      <4> QED
        BY <2>1, <2>3, <4>1, <4>2, <4>3
    <3>3. DOMAIN dvTable_nb[l[2]][l[1]] \subseteq DOMAIN dvTable[l[2]]
      BY <3>1, <3>2 DEF Computing
    <3> QED
      BY <1>7, <2>1, <3>2, <3>3
  <2> QED
    BY <2>2, <2>3
<1>11. ASSUME posted' # {}, NEW m \in Nodes
       PROVE  DOMAIN dvTable'[m] = {m} \/ SendToNeighbors(m) \subseteq inflight'
  BY <1>2, <1>6, <1>11 DEF Computing
<1>12. ASSUME NEW m \in Nodes PROVE Computed(m, dvTable[m], dvTable_nb[m], outgoing[m])'
  BY <1>8
<1>13. \A m \in Nodes : SendToNeighbors(m)' = SendToNeighbors(m)
  BY DEF SendToNeighbors
<1> QED
  BY <1>9, <1>10, <1>11, <1>12, <1>13 DEF Computing

(* The topologies: a link both ways, and a path from every node to every    *)
(* other: who can reach a member of a set of nodes is in it only if all are. *)
BothWays == \A l \in Links : <<l[2], l[1]>> \in Links
Connected ==
  \A S \in SUBSET Nodes : S # {} /\ (\A l \in Links : l[2] \in S => l[1] \in S) => S = Nodes

(* An announced or changed link.                                            *)
LEMMA UpdateComputing ==
  ASSUME TypeInv, TypeInv', Computing, BothWays, NEW l \in Links, NEW lat \in Nat \ {0},
         LinkHasBeenUpdated(l, lat),
         posted' = posted \ {l}, posted = {} \/ l \in posted,
         latency' = [latency EXCEPT ![l] = lat]
  PROVE  Computing'
<1> DEFINE n == l[1]
           dest == l[2]
           added == dest \notin DOMAIN outgoing[n]
           out == With(outgoing[n], dest, lat)
           nb == IF added THEN With(dvTable_nb[n], dest, dvTable[dest]) ELSE dvTable_nb[n]
           known == IF added THEN AddDv(dvTable[n], {dest}) ELSE dvTable[n]
           dvt == BellmanFord(n, known, nb, out)
<1>1. n \in Nodes /\ dest \in Nodes /\ l = <<n, dest>> /\ <<dest, n>> \in Links
  BY LinkEnds DEF BothWays
<1>2. /\ DOMAIN outgoing[n] = {d \in Nodes : <<n, d>> \in Links \ posted}
      /\ added <=> l \in posted
  BY <1>1 DEF TypeInv, TypeOK
<1>3. latency \in [Links -> Nat \ {0}] /\ latency'[l] = lat /\ \A k \in Links \ {l} : latency'[k] = latency[k]
  BY DEF TypeInv, TypeOK
<1>4. CASE UNCHANGED <<outgoing, dvTable_nb, dvTable, inflight>> /\ ~ added /\ outgoing[n][dest] = lat
  <2>1. posted' = posted
    BY <1>2, <1>4
  <2>2. \A k \in Links \ posted' : outgoing'[k[1]][k[2]] = latency'[k]
    BY <1>3, <1>4, <2>1 DEF Computing
  <2>3. \A m \in Nodes : SendToNeighbors(m)' = SendToNeighbors(m)
    BY DEF SendToNeighbors
  <2>4. \A m \in Nodes : Computed(m, dvTable[m], dvTable_nb[m], outgoing[m])'
    BY <1>4 DEF Computing
  <2> QED
    BY <1>4, <2>1, <2>2, <2>3, <2>4 DEF Computing
<1>5. CASE /\ outgoing' = [outgoing EXCEPT ![n] = out]
           /\ dvTable_nb' = [dvTable_nb EXCEPT ![n] = nb]
           /\ dvTable' = [dvTable EXCEPT ![n] = dvt]
           /\ inflight' = inflight \cup IF dvt # known THEN SendToNeighbors(n) ELSE {}
  <2>1. /\ DOMAIN outgoing = Nodes /\ DOMAIN dvTable = Nodes /\ DOMAIN dvTable_nb = Nodes
    BY DEF TypeInv, Tables
  <2>2. PICK out1, nb1, known1, dvt1 : out1 = out /\ nb1 = nb /\ known1 = known /\ dvt1 = dvt
    OBVIOUS
  <2>3. outgoing'[n] = out1 /\ \A m \in Nodes \ {n} : outgoing'[m] = outgoing[m]
    BY <1>1, <1>5, <2>1, <2>2
  <2>4. dvTable' = [dvTable EXCEPT ![n] = dvt1] /\ dvTable_nb' = [dvTable_nb EXCEPT ![n] = nb1]
    BY <1>5, <2>2
  <2>5. inflight \subseteq inflight' /\ (dvt1 # known1 => SendToNeighbors(n) \subseteq inflight')
    BY <1>5, <2>2
  <2>6. ASSUME NEW k \in Links \ posted' PROVE outgoing'[k[1]][k[2]] = latency'[k]
    <3>1. k[1] \in Nodes /\ k[2] \in Nodes /\ k = <<k[1], k[2]>>
      BY LinkEnds
    <3>2. CASE k = l
      BY <1>1, <1>3, <2>2, <2>3, <3>2 DEF With
    <3>3. CASE k # l
      <4>1. k \in Links \ posted /\ outgoing[k[1]][k[2]] = latency[k] /\ latency'[k] = latency[k]
        BY <1>3, <3>3 DEF Computing
      <4>2. k[2] \in DOMAIN outgoing[k[1]]
        BY <3>1, <4>1 DEF TypeInv, TypeOK
      <4>3. outgoing'[k[1]][k[2]] = outgoing[k[1]][k[2]]
        BY <1>1, <2>2, <2>3, <3>1, <3>3, <4>2 DEF With
      <4> QED
        BY <4>1, <4>3
    <3> QED
      BY <3>2, <3>3
  <2>7. n \in DOMAIN dvTable[n] /\ dest \in DOMAIN dvTable[dest]
    BY <1>1 DEF TypeInv, TypeOK
  <2>8. known1 = AddDv(dvTable[n], {dest}) \/ known1 = dvTable[n]
    BY <2>2
  <2>9. dvt1 = BellmanFord(n, known1, nb1, out1)
    BY <2>2
  <2>10. \/ nb1 = With(dvTable_nb[n], dest, dvTable[dest]) /\ (DOMAIN dvTable[dest] \subseteq DOMAIN known1 \/ <<dest, n>> \in inflight')
         \/ nb1 = dvTable_nb[n] /\ inflight \subseteq inflight'
    <3>1. CASE added
      <4>1. posted # {} /\ nb1 = With(dvTable_nb[n], dest, dvTable[dest]) /\ known1 = AddDv(dvTable[n], {dest})
        BY <1>2, <2>2, <3>1
      <4>2. DOMAIN dvTable[dest] = {dest} \/ <<dest, n>> \in inflight
        <5>1. DOMAIN dvTable[dest] = {dest} \/ SendToNeighbors(dest) \subseteq inflight
          BY <1>1, <4>1 DEF Computing
        <5>2. <<dest, n>> \in SendToNeighbors(dest)
          BY <1>1 DEF SendToNeighbors
        <5> QED
          BY <5>1, <5>2
      <4> QED
        BY <2>5, <4>1, <4>2 DEF AddDv
    <3>2. CASE ~ added
      BY <2>2, <2>5, <3>2
    <3> QED
      BY <3>1, <3>2
  <2>11. ASSUME posted' # {}
         PROVE  DOMAIN known1 = DOMAIN dvTable[n] \/ SendToNeighbors(n) \subseteq inflight'
    <3>1. CASE ~ added \/ dest \in DOMAIN dvTable[n]
      BY <2>2, <2>5, <2>11, <3>1 DEF AddDv
    <3>2. CASE added /\ dest \notin DOMAIN dvTable[n]
      <4>1. known1[dest] = Path(None, None) /\ dest \in DOMAIN known1 \ {n}
        BY <2>2, <2>7, <3>2 DEF AddDv
      <4>2. dest \in Via(nb1, dest)
        BY <2>2, <2>7, <3>2 DEF Via, With
      <4>3. \A d \in DOMAIN known1 \ {n} : Via(nb1, d) = {} => known1[d] = Path(None, None)
        <5> SUFFICES ASSUME NEW d \in DOMAIN known1 \ {n}, Via(nb1, d) = {} PROVE known1[d] = Path(None, None)
          OBVIOUS
        <5>1. Via(dvTable_nb[n], d) = {}
          <6>1. \A j \in DOMAIN dvTable_nb[n] : j \in DOMAIN nb1 /\ DOMAIN dvTable_nb[n][j] \subseteq DOMAIN nb1[j]
            BY <1>1, <2>2, <3>2 DEF Computing, With
          <6> QED
            BY <6>1 DEF Via
        <5>2. Computed(n, dvTable[n], dvTable_nb[n], outgoing[n])
          BY <1>1 DEF Computing
        <5> QED
          BY <2>2, <3>2, <5>1, <5>2 DEF Computed, AddDv
      <4>4. Computed(n, dvt1, nb1, out1) /\ dest \in DOMAIN dvt1 \ {n}
        BY <2>9, <4>1, <4>3, BellmanFordComputed
      <4>5. OffersOK(nb1, out1, DOMAIN out1)
        <5>1. \A m \in Nodes : OffersOK(dvTable_nb'[m], outgoing'[m], DOMAIN outgoing'[m])
          BY DEF TypeInv, Tables
        <5> QED
          BY <1>1, <2>1, <2>3, <2>4, <5>1
      <4>6. dvt1[dest].dvValue \in Nat
        BY <4>2, <4>4, <4>5, ComputedValue
      <4>7. dvt1 # known1
        BY <4>1, <4>6 DEF Path, None
      <4> QED
        BY <2>5, <2>11, <4>7
    <3> QED
      BY <3>1, <3>2
  <2>12. /\ inflight \ {<<dest, n>>} \subseteq inflight'
         /\ posted' # {} => posted # {} /\ inflight \subseteq inflight'
         /\ posted' # {} => DOMAIN known1 = DOMAIN dvTable[n] \/ SendToNeighbors(n) \subseteq inflight'
    BY <2>5, <2>11
  <2>13. n \in Nodes /\ dest \in Nodes
    BY <1>1
  <2> HIDE DEF n, dest
  <2>14. NodeStep(n, dest, nb1, known1, dvt1, out1, {dest})
    BY <2>3, <2>4, <2>6, <2>8, <2>9, <2>10, <2>12 DEF NodeStep
  <2> QED
    BY <2>13, <2>14, ComputingStep
<1> QED
  BY <1>4, <1>5 DEF LinkHasBeenUpdated

(* A message.                                                               *)
LEMMA MessageComputing ==
  ASSUME TypeInv, Computing, BothWays, NEW l \in Links, ProcessIncomingRoutingMessage(l)
  PROVE  Computing'
<1> DEFINE nn == l[1]
           n == l[2]
<1>1. n \in Nodes /\ nn \in Nodes /\ l = <<nn, n>> /\ <<n, nn>> \in Links
  BY LinkEnds DEF BothWays
<1>2. posted = {} /\ nn \in DOMAIN dvTable_nb[n]
  BY <1>1 DEF ProcessIncomingRoutingMessage, TypeInv, TypeOK
<1>3. PICK nb, known, dvt, out :
        /\ nb = With(dvTable_nb[n], nn, dvTable[nn]) /\ known = AddDv(dvTable[n], DOMAIN dvTable[nn])
        /\ out = outgoing[n] /\ dvt = BellmanFord(n, known, nb, out)
  OBVIOUS
<1>4. /\ dvTable_nb' = [dvTable_nb EXCEPT ![n] = nb]
      /\ dvTable' = [dvTable EXCEPT ![n] = dvt]
      /\ inflight' = (inflight \ {l}) \cup IF dvt # known THEN SendToNeighbors(n) ELSE {}
      /\ UNCHANGED <<latency, outgoing, posted>>
  BY <1>2, <1>3 DEF ProcessIncomingRoutingMessage
<1>5. /\ outgoing'[n] = out /\ \A m \in Nodes \ {n} : outgoing'[m] = outgoing[m]
      /\ \A k \in Links \ posted' : outgoing'[k[1]][k[2]] = latency'[k]
      /\ posted' = {}
  BY <1>2, <1>3, <1>4 DEF Computing
<1>6. inflight \ {<<nn, n>>} \subseteq inflight' /\ DOMAIN dvTable[nn] \subseteq DOMAIN known
  BY <1>1, <1>3, <1>4 DEF AddDv
<1>7. /\ \/ nb = With(dvTable_nb[n], nn, dvTable[nn]) /\ (DOMAIN dvTable[nn] \subseteq DOMAIN known \/ <<nn, n>> \in inflight')
         \/ nb = dvTable_nb[n] /\ inflight \subseteq inflight'
      /\ posted' # {} => posted # {} /\ inflight \subseteq inflight'
      /\ posted' # {} => DOMAIN known = DOMAIN dvTable[n] \/ SendToNeighbors(n) \subseteq inflight'
  BY <1>3, <1>5, <1>6
<1>8. known = AddDv(dvTable[n], DOMAIN dvTable[nn]) \/ known = dvTable[n]
  BY <1>3
<1> HIDE DEF n, nn
<1>9. NodeStep(n, nn, nb, known, dvt, out, DOMAIN dvTable[nn])
  BY <1>3, <1>4, <1>5, <1>6, <1>7, <1>8 DEF NodeStep
<1> QED
  BY <1>1, <1>9, ComputingStep

-----------------------------------------------------------------------------
(* When no event is left, a neighbour's routes are offered to a node.       *)
LEMMA SettledRoutes ==
  ASSUME TypeInv, Computing, CopiesCurrent, BothWays, Settled, NEW l \in Links,
         NEW d \in DOMAIN dvTable[l[2]], dvTable[l[2]][d].next # None
  PROVE  /\ d \in DOMAIN dvTable[l[1]] /\ dvTable[l[1]][d].next # None
         /\ l[2] \in Via(dvTable_nb[l[1]], d)
         /\ Offer(dvTable_nb[l[1]], outgoing[l[1]], l[2], d) = latency[l] + dvTable[l[2]][d].dvValue
<1>1. PICK n \in Nodes, j \in Nodes : n = l[1] /\ j = l[2] /\ l = <<n, j>>
  BY LinkEnds
<1>2. <<j, n>> \in Links /\ <<j, n>> \notin inflight /\ posted = {}
  BY <1>1 DEF BothWays, Settled
<1>3. /\ DOMAIN outgoing[n] = {i \in Nodes : <<n, i>> \in Links}
      /\ DOMAIN dvTable_nb[n] = DOMAIN outgoing[n]
  BY <1>2 DEF TypeInv, TypeOK
<1>4. j \in DOMAIN dvTable_nb[n]
  BY <1>1, <1>3
<1>5. d \in DOMAIN dvTable_nb[n][j] /\ dvTable_nb[n][j][d].dvValue = dvTable[j][d].dvValue
  BY <1>1, <1>2, <1>4 DEF CopiesCurrent
<1>6. d \in DOMAIN dvTable[n]
  BY <1>2, <1>4, <1>5 DEF Computing
<1>7. outgoing[n][j] = latency[l]
  BY <1>1, <1>2 DEF Computing
<1>8. j \in Via(dvTable_nb[n], d)
  BY <1>4, <1>5 DEF Via
<1>9. /\ RowOK(dvTable[n], n, DOMAIN outgoing[n]) /\ RowOK(dvTable[j], j, DOMAIN outgoing[j])
      /\ DOMAIN outgoing[n] \subseteq Nodes
  BY TypeInvRows
<1>10. dvTable[j][d].dvValue \in Nat
  BY <1>1, <1>9 DEF RowOK, Path
<1>11. latency[l] \in Nat
  BY DEF TypeInv, TypeOK
<1>12. Offer(dvTable_nb[n], outgoing[n], j, d) = latency[l] + dvTable[j][d].dvValue
  BY <1>5, <1>7, <1>10, <1>11 DEF Offer
<1>13. dvTable[n][d].next # None
  <2>1. CASE d = n
    BY <1>9, <2>1, DVAssumption DEF RowOK, Path, None
  <2>2. CASE d # n
    <3>1. OffersOK(dvTable_nb[n], outgoing[n], DOMAIN outgoing[n]) /\ Computed(n, dvTable[n], dvTable_nb[n], outgoing[n])
      BY DEF TypeInv, Tables, Computing
    <3>2. dvTable[n][d].dvValue \in Nat
      BY <1>6, <1>8, <2>2, <3>1, ComputedValue
    <3>3. dvTable[n][d] # Path(None, None)
      BY <3>2 DEF Path, None
    <3>4. dvTable[n][d].next \in Nodes
      BY <1>6, <1>9, <2>2, <3>3 DEF RowOK
    <3> QED
      BY <3>4, DVAssumption DEF None
  <2> QED
    BY <2>1, <2>2
<1> QED
  BY <1>1, <1>6, <1>8, <1>12, <1>13

(* So every node has a route to every node,                                 *)
LEMMA AllRoutes ==
  ASSUME TypeInv, Computing, CopiesCurrent, BothWays, Connected, Settled, NEW n \in Nodes, NEW d \in Nodes
  PROVE  d \in DOMAIN dvTable[n] /\ dvTable[n][d].next # None
<1> DEFINE S == {m \in Nodes : d \in DOMAIN dvTable[m] /\ dvTable[m][d].next # None}
<1>1. d \in S
  <2>1. RowOK(dvTable[d], d, DOMAIN outgoing[d])
    BY TypeInvRows
  <2> QED
    BY <2>1, DVAssumption DEF RowOK, Path, None
<1>2. ASSUME NEW l \in Links, l[2] \in S PROVE l[1] \in S
  BY <1>2, LinkEnds, SettledRoutes
<1>3. S \in SUBSET Nodes
  OBVIOUS
<1> HIDE DEF S
<1>4. S = Nodes
  BY <1>1, <1>2, <1>3 DEF Connected
<1> QED
  BY <1>4 DEF S

(* and its distances are those of the shortest paths.                       *)
LEMMA SettledSolves ==
  ASSUME TypeInv, Computing, CopiesCurrent, BothWays, Connected, Settled, NEW d \in Nodes
  PROVE  Solves([m \in Nodes |-> dvTable[m][d].dvValue], latency, d)
<1>1. ASSUME NEW m \in Nodes PROVE d \in DOMAIN dvTable[m] /\ dvTable[m][d].next # None
  BY AllRoutes
<1>2. ASSUME NEW m \in Nodes PROVE RowOK(dvTable[m], m, DOMAIN outgoing[m])
  BY TypeInvRows
<1>3. ASSUME NEW m \in Nodes
      PROVE  dvTable[m][d].dvValue \in Nat /\ (m = d => dvTable[m][d].dvValue = 0)
  <2>1. CASE m = d
    <3>1. dvTable[d][d] = Path(d, 0)
      BY <1>2 DEF RowOK
    <3> QED
      BY <2>1, <3>1 DEF Path
  <2>2. CASE m # d
    <3>1. dvTable[m][d] # Path(None, None)
      BY <1>1 DEF Path
    <3> QED
      BY <1>1, <1>2, <2>2, <3>1 DEF RowOK
  <2> QED
    BY <2>1, <2>2
<1>4. ASSUME NEW l \in Links
      PROVE  /\ l[2] \in Via(dvTable_nb[l[1]], d)
             /\ Offer(dvTable_nb[l[1]], outgoing[l[1]], l[2], d) = latency[l] + dvTable[l[2]][d].dvValue
  BY <1>1, LinkEnds, SettledRoutes
<1>5. ASSUME NEW m \in Nodes
      PROVE  /\ OffersOK(dvTable_nb[m], outgoing[m], DOMAIN outgoing[m])
             /\ Computed(m, dvTable[m], dvTable_nb[m], outgoing[m])
  BY DEF TypeInv, Tables, Computing
<1>6. latency \in [Links -> Nat \ {0}]
  BY DEF TypeInv, TypeOK
<1>7. ASSUME NEW l \in Links
      PROVE  dvTable[l[1]][d].dvValue <= latency[l] + dvTable[l[2]][d].dvValue
  <2>1. l[1] \in Nodes /\ l[2] \in Nodes
    BY LinkEnds
  <2>2. CASE l[1] = d
    BY <1>3, <1>6, <2>1, <2>2
  <2>3. CASE l[1] # d
    <3>1. d \in DOMAIN dvTable[l[1]] \ {l[1]}
      BY <1>1, <2>1, <2>3
    <3>2. \A j \in Via(dvTable_nb[l[1]], d) :
            dvTable[l[1]][d].dvValue <= Offer(dvTable_nb[l[1]], outgoing[l[1]], j, d)
      BY <1>4, <1>5, <2>1, <3>1, ComputedValue
    <3> QED
      BY <1>4, <3>2
  <2> QED
    BY <2>2, <2>3
<1>8. ASSUME NEW m \in Nodes \ {d}
      PROVE  \E l \in Links : l[1] = m /\ dvTable[m][d].dvValue = latency[l] + dvTable[l[2]][d].dvValue
  <2>1. PICK k \in Links : k[1] = m
    <3> DEFINE S == Nodes \ {m}
    <3>1. S # {} /\ S # Nodes /\ S \in SUBSET Nodes
      OBVIOUS
    <3> HIDE DEF S
    <3>2. PICK k \in Links : k[2] \in S /\ k[1] \notin S
      BY <3>1 DEF Connected
    <3> QED
      BY <3>2, LinkEnds DEF S
  <2>2. Via(dvTable_nb[m], d) # {} /\ d \in DOMAIN dvTable[m] \ {m}
    BY <1>1, <1>4, <2>1
  <2>3. PICK j \in Via(dvTable_nb[m], d) : dvTable[m][d].dvValue = Offer(dvTable_nb[m], outgoing[m], j, d)
    BY <1>5, <2>2, ComputedValue
  <2>4. <<m, j>> \in Links
    <3>1. j \in DOMAIN dvTable_nb[m]
      BY DEF Via
    <3> QED
      BY <3>1 DEF TypeInv, TypeOK
  <2> QED
    <3>1. PICK l \in Links : l = <<m, j>>
      BY <2>4
    <3>2. l[1] = m /\ l[2] = j
      BY <3>1
    <3> QED
      BY <1>4, <2>3, <3>2
<1>9. PICK v : v = [m \in Nodes |-> dvTable[m][d].dvValue]
  OBVIOUS
<1>10. \A m \in Nodes : v[m] = dvTable[m][d].dvValue
  BY <1>9
<1>11. v \in [Nodes -> Nat] /\ v[d] = 0
  BY <1>3, <1>9
<1>12. \A l \in Links : v[l[1]] <= latency[l] + v[l[2]]
  BY <1>7, <1>10, LinkEnds
<1>13. \A m \in Nodes \ {d} : \E l \in Links : l[1] = m /\ v[m] = latency[l] + v[l[2]]
  <2> SUFFICES ASSUME NEW m \in Nodes \ {d} PROVE \E l \in Links : l[1] = m /\ v[m] = latency[l] + v[l[2]]
    OBVIOUS
  <2>1. PICK l \in Links : l[1] = m /\ dvTable[m][d].dvValue = latency[l] + dvTable[l[2]][d].dvValue
    BY <1>8
  <2> QED
    BY <1>10, <2>1, LinkEnds
<1> QED
  BY <1>9, <1>11, <1>12, <1>13 DEF Solves

-----------------------------------------------------------------------------
(* When no event is left, every node knows the length of the shortest path  *)
(* to every other, whatever the order of the announcements, of the changes  *)
(* and of the messages was, and though messages were read later than they   *)
(* were sent.  On the topology: a link both ways between neighbours, since  *)
(* Node::ProcessIncomingRoutingMessage computes nothing from the vector of  *)
(* a node to which the reader has no link; and a path between every two.    *)
THEOREM TablesConverge ==
  ASSUME BothWays, Connected
  PROVE  Spec => []Converged
<1>1. Init => Computing
  <2> SUFFICES ASSUME Init PROVE Computing
    OBVIOUS
  <2>1. \A n \in Nodes : dvTable[n] = [d \in {n} |-> Path(n, 0)] /\ dvTable_nb[n] = << >>
    BY DEF Init
  <2>2. \A n \in Nodes : Computed(n, dvTable[n], dvTable_nb[n], outgoing[n])
    BY <2>1 DEF Computed
  <2> QED
    BY <2>1, <2>2, LinkEnds DEF Init, Computing
<1>2. TypeInv /\ TypeInv' /\ Computing /\ [Next]_vars => Computing'
  <2> SUFFICES ASSUME TypeInv, TypeInv', Computing, [Next]_vars PROVE Computing'
    OBVIOUS
  <2>1. ASSUME NEW l \in Links, Announce(l) PROVE Computing'
    <3>1. latency \in [Links -> Nat \ {0}]
      BY DEF TypeInv, TypeOK
    <3>2. latency' = [latency EXCEPT ![l] = latency[l]] /\ latency[l] \in Nat \ {0}
      BY <2>1, <3>1 DEF Announce
    <3>3. LinkHasBeenUpdated(l, latency[l]) /\ l \in posted /\ posted' = posted \ {l}
      BY <2>1 DEF Announce
    <3>4. PICK lat \in Nat \ {0} : lat = latency[l]
      BY <3>2
    <3>5. LinkHasBeenUpdated(l, lat) /\ latency' = [latency EXCEPT ![l] = lat]
      BY <3>2, <3>3, <3>4
    <3> QED
      BY <3>3, <3>5, UpdateComputing
  <2>2. ASSUME NEW l \in Links, ProcessIncomingRoutingMessage(l) PROVE Computing'
    BY <2>2, MessageComputing
  <2>3. ASSUME NEW l \in Links, NEW lat \in Latencies, ChangeLink(l, lat) PROVE Computing'
    <3>1. lat \in Nat \ {0} /\ posted = {} /\ posted' = posted \ {l}
      BY <2>3, DVAssumption DEF ChangeLink
    <3> QED
      BY <2>3, <3>1, UpdateComputing DEF ChangeLink
  <2>4. CASE UNCHANGED vars
    <3>1. \A n \in Nodes : SendToNeighbors(n)' = SendToNeighbors(n)
      BY DEF SendToNeighbors
    <3>2. \A n \in Nodes : Computed(n, dvTable[n], dvTable_nb[n], outgoing[n])'
      BY <2>4 DEF vars, Computing
    <3> QED
      BY <2>4, <3>1, <3>2 DEF vars, Computing
  <2> QED
    BY <2>1, <2>2, <2>3, <2>4 DEF Next
<1>3. TypeInv /\ Computing /\ CopiesCurrent => Converged
  <2> SUFFICES ASSUME TypeInv, Computing, CopiesCurrent, Settled, NEW n \in Nodes, NEW d \in Nodes
               PROVE  d \in DOMAIN dvTable[n] /\ dvTable[n][d].dvValue = Distance(n, d)
    BY DEF Converged
  <2>1. d \in DOMAIN dvTable[n]
    BY AllRoutes
  <2>2. PICK v : v = [m \in Nodes |-> dvTable[m][d].dvValue]
    OBVIOUS
  <2>3. Solves(v, latency, d)
    BY <2>2, SettledSolves
  <2>4. latency \in LatencyMaps
    BY DEF TypeInv, TypeOK, LatencyMaps
  <2>5. v[n] = Distance(n, d)
    BY <2>3, <2>4, ShortestAlongPaths DEF Distance
  <2> QED
    BY <2>1, <2>2, <2>5
<1> QED
  BY <1>1, <1>2, <1>3, TypeInvAlways, CopiesAreCurrent, PTL DEF Spec
====
