--------------------------- MODULE LinkState_proofs ---------------------------
(* Theorems about LinkState, for every set of nodes, links and latencies.   *)
EXTENDS LinkState, TLAPS

USE DEF Unset, NoLink

(* The source of a link is a node. *)
LEMMA SourceIsNode == ASSUME NEW l \in Links PROVE Source(l) \in Nodes
  BY LinksAssumption DEF Source

(* Every arrival that SendToNeighbors posts is an arrival. *)
LEMMA SendToNeighborsType ==
  ASSUME NEW topology, NEW n \in Nodes, NEW l \in Links, NEW lat \in Latencies,
         NEW tm \in 1 .. MaxTm
  PROVE  SendToNeighbors(topology, n, l, lat, tm) \subseteq Arrivals
<1> SUFFICES ASSUME NEW a \in SendToNeighbors(topology, n, l, lat, tm) PROVE a \in Arrivals
  OBVIOUS
<1>1. PICK k \in Nodes : a = [to |-> k, link |-> l, lat |-> lat, tm |-> tm]
  BY DEF SendToNeighbors, Neighbors
<1> QED
  BY <1>1 DEF Arrivals

-----------------------------------------------------------------------------
(* Types hold once the topology is loaded and the databases are empty. *)
LEMMA InitTypeOK == Init => TypeOK
<1> SUFFICES ASSUME Init PROVE TypeOK
  OBVIOUS
<1>1. \A l \in InitLinks : InitLatency[l] \in Latencies
  BY InitLinksAssumption
<1>2. posted \subseteq {l \in Links : links[l] # NoLink}
  BY <1>1, InitLinksAssumption, LatenciesAssumption DEF Init
<1>3. links \in [Links -> Latencies \cup {NoLink}]
  BY <1>1 DEF Init
<1>4. /\ lsvalue \in [Nodes -> [Links -> Latencies \cup {Unset}]]
      /\ tmvalue \in [Nodes -> [Links -> 0 .. MaxTm]]
      /\ \A n \in Nodes, l \in Links : lsvalue[n][l] = Unset <=> tmvalue[n][l] = 0
  BY MaxTmAssumption DEF Init
<1>5. inflight \subseteq Arrivals
  BY DEF Init
<1> QED
  BY <1>2, <1>3, <1>4, <1>5 DEF TypeOK

(* An update at the source of a link keeps the types. *)
LEMMA UpdateLinkTypeOK ==
  ASSUME TypeOK, NEW l \in Links, NEW lat \in Latencies, UpdateLink(l, lat),
         posted' \subseteq posted
  PROVE  TypeOK'
<1> DEFINE n == Source(l)
<1>1. n \in Nodes
  BY SourceIsNode
<1>2. tmvalue[n][l] + 1 \in 1 .. MaxTm
  BY <1>1, MaxTmAssumption DEF TypeOK, UpdateLink, NextTm
<1>3. inflight' \subseteq Arrivals
  BY <1>1, <1>2, SendToNeighborsType DEF TypeOK, UpdateLink, NextTm
<1>4. links' \in [Links -> Latencies \cup {NoLink}]
  BY DEF TypeOK, UpdateLink
<1>5. /\ lsvalue' \in [Nodes -> [Links -> Latencies \cup {Unset}]]
      /\ tmvalue' \in [Nodes -> [Links -> 0 .. MaxTm]]
  BY <1>1, <1>2, MaxTmAssumption DEF TypeOK, UpdateLink, NextTm
<1>6. \A k \in Nodes, e \in Links : lsvalue'[k][e] = Unset <=> tmvalue'[k][e] = 0
  <2> SUFFICES ASSUME NEW k \in Nodes, NEW e \in Links
               PROVE  lsvalue'[k][e] = Unset <=> tmvalue'[k][e] = 0
    OBVIOUS
  <2>1. CASE k = n /\ e = l
    BY <2>1, <1>1, <1>2, LatenciesAssumption DEF TypeOK, UpdateLink, NextTm
  <2>2. CASE ~(k = n /\ e = l)
    BY <2>2, <1>1 DEF TypeOK, UpdateLink, NextTm
  <2> QED
    BY <2>1, <2>2
<1>7. posted' \subseteq {e \in Links : links'[e] # NoLink}
  BY <1>4, LatenciesAssumption DEF TypeOK, UpdateLink
<1> QED
  BY <1>3, <1>4, <1>5, <1>6, <1>7 DEF TypeOK

(* So does a message that changes a database and is sent on. *)
LEMMA AcceptTypeOK ==
  ASSUME TypeOK, NEW m \in inflight, AcceptMessage(m) \/ AcceptCopy(m)
  PROVE  TypeOK'
<1>1. /\ m.to \in Nodes
      /\ m.link \in Links
      /\ m.lat \in Latencies
      /\ m.tm \in 1 .. MaxTm
  BY DEF TypeOK, Arrivals
<1>2. /\ lsvalue' = [lsvalue EXCEPT ![m.to][m.link] = m.lat]
      /\ tmvalue' = [tmvalue EXCEPT ![m.to][m.link] = m.tm]
      /\ inflight' \subseteq inflight \cup SendToNeighbors(links, m.to, m.link, m.lat, m.tm)
      /\ UNCHANGED <<links, posted>>
  BY DEF AcceptMessage, AcceptCopy
<1>3. inflight' \subseteq Arrivals
  BY <1>1, <1>2, SendToNeighborsType DEF TypeOK
<1>4. /\ lsvalue' \in [Nodes -> [Links -> Latencies \cup {Unset}]]
      /\ tmvalue' \in [Nodes -> [Links -> 0 .. MaxTm]]
  BY <1>1, <1>2, MaxTmAssumption DEF TypeOK
<1>5. \A k \in Nodes, e \in Links : lsvalue'[k][e] = Unset <=> tmvalue'[k][e] = 0
  BY <1>1, <1>2, LatenciesAssumption DEF TypeOK
<1> QED
  BY <1>2, <1>3, <1>4, <1>5 DEF TypeOK

(* Types hold whatever the event file asks for. *)
THEOREM ChurnTypeCorrect == ChurnSpec => []TypeOK
<1>1. TypeOK /\ [ChurnNext]_vars => TypeOK'
  <2> SUFFICES ASSUME TypeOK, [ChurnNext]_vars PROVE TypeOK'
    OBVIOUS
  <2>1. ASSUME NEW l \in Links, Announce(l) PROVE TypeOK'
    <3>1. links[l] \in Latencies /\ posted' \subseteq posted
      BY <2>1 DEF Announce, TypeOK
    <3> QED
      BY <2>1, <3>1, UpdateLinkTypeOK DEF Announce
  <2>2. ASSUME NEW l \in Links, NEW lat \in Latencies, ChangeLink(l, lat) PROVE TypeOK'
    BY <2>2, UpdateLinkTypeOK DEF ChangeLink
  <2>3. ASSUME NEW l \in Links, DeleteLink(l) PROVE TypeOK'
    BY <2>3 DEF DeleteLink, TypeOK
  <2>4. ASSUME NEW m \in inflight, AcceptMessage(m) \/ AcceptCopy(m) PROVE TypeOK'
    BY <2>4, AcceptTypeOK
  <2>5. ASSUME NEW m \in inflight, IgnoreMessage(m) PROVE TypeOK'
    BY <2>5 DEF IgnoreMessage, TypeOK
  <2>6. ASSUME NEW l \in Links, NEW lat \in Latencies, AddLink(l, lat) PROVE TypeOK'
    BY <2>6 DEF AddLink, TypeOK
  <2>7. ASSUME NEW n \in Nodes, ChangeNode(n) PROVE TypeOK'
    BY <2>7, MaxTmAssumption DEF ChangeNode, TypeOK
  <2>8. CASE UNCHANGED vars
    BY <2>8 DEF vars, TypeOK
  <2> QED
    BY <2>1, <2>2, <2>3, <2>4, <2>5, <2>6, <2>7, <2>8 DEF ChurnNext, Next, Deliver
<1> QED
  BY <1>1, InitTypeOK, PTL DEF ChurnSpec

(* A run without churn is a run. *)
LEMMA SpecIsChurnSpec == Spec => ChurnSpec
<1>1. [Next]_vars => [ChurnNext]_vars
  BY DEF ChurnNext
<1> QED
  BY <1>1, PTL DEF Spec, ChurnSpec

(* Types hold in every run without churn. *)
THEOREM TypeCorrect == Spec => []TypeOK
  BY SpecIsChurnSpec, ChurnTypeCorrect, PTL

-----------------------------------------------------------------------------
(* A database entry is only ever replaced by a newer one, in any run, even  *)
(* through the branch of AdjmatUpdate that does not compare.                *)
LEMMA AcceptIsNewer ==
  ASSUME TypeOK, NEW m \in inflight, AcceptMessage(m) \/ AcceptCopy(m)
  PROVE  /\ m \in Arrivals
         /\ tmvalue[m.to][m.link] < m.tm
         /\ \A n \in Nodes, l \in Links :
              ~(n = m.to /\ l = m.link) => /\ tmvalue'[n][l] = tmvalue[n][l]
                                           /\ lsvalue'[n][l] = lsvalue[n][l]
         /\ tmvalue'[m.to][m.link] = m.tm
         /\ lsvalue'[m.to][m.link] = m.lat
<1> USE DEF AcceptCopy
<1>1. m \in Arrivals
  BY DEF TypeOK
<1>2. /\ m.to \in Nodes
      /\ m.link \in Links
      /\ m.tm \in 1 .. MaxTm
  BY <1>1 DEF Arrivals
<1>3. tmvalue[m.to][m.link] \in 0 .. MaxTm
  BY <1>2 DEF TypeOK
<1>4. tmvalue[m.to][m.link] < m.tm
  <2>1. CASE lsvalue[m.to][m.link] = Unset
    <3>1. tmvalue[m.to][m.link] = 0
      BY <2>1, <1>2 DEF TypeOK
    <3> QED
      BY <3>1, <1>2, MaxTmAssumption
  <2> QED
    BY <2>1 DEF AcceptMessage, IsNews
<1>5. \A n \in Nodes, l \in Links :
        ~(n = m.to /\ l = m.link) => /\ tmvalue'[n][l] = tmvalue[n][l]
                                     /\ lsvalue'[n][l] = lsvalue[n][l]
  BY <1>2 DEF AcceptMessage, TypeOK
<1>6. tmvalue'[m.to][m.link] = m.tm /\ lsvalue'[m.to][m.link] = m.lat
  BY <1>2 DEF AcceptMessage, TypeOK
<1> QED
  BY <1>1, <1>4, <1>5, <1>6

(* What UpdateLink does to the databases. *)
LEMMA UpdateLinkEffect ==
  ASSUME TypeOK, NEW e \in Links, NEW lat \in Latencies, UpdateLink(e, lat)
  PROVE  /\ Source(e) \in Nodes
         /\ NextTm(e) \in 1 .. MaxTm
         /\ NextTm(e) = tmvalue[Source(e)][e] + 1
         /\ \A n \in Nodes, l \in Links :
              ~(n = Source(e) /\ l = e) => /\ tmvalue'[n][l] = tmvalue[n][l]
                                           /\ lsvalue'[n][l] = lsvalue[n][l]
         /\ tmvalue'[Source(e)][e] = NextTm(e)
         /\ lsvalue'[Source(e)][e] = lat
         /\ \A n \in Nodes : Neighbors(links', n) = Neighbors(links, n)
<1>1. Source(e) \in Nodes
  BY SourceIsNode
<1>2. NextTm(e) = tmvalue[Source(e)][e] + 1 /\ NextTm(e) \in 1 .. MaxTm
  BY <1>1, MaxTmAssumption DEF TypeOK, UpdateLink, NextTm
<1>3. /\ \A n \in Nodes, l \in Links :
           ~(n = Source(e) /\ l = e) => /\ tmvalue'[n][l] = tmvalue[n][l]
                                        /\ lsvalue'[n][l] = lsvalue[n][l]
      /\ tmvalue'[Source(e)][e] = NextTm(e)
      /\ lsvalue'[Source(e)][e] = lat
  BY <1>1 DEF UpdateLink, TypeOK
<1>4. \A l \in Links : links'[l] = NoLink <=> links[l] = NoLink
  BY LatenciesAssumption DEF UpdateLink, TypeOK
<1>5. \A n \in Nodes : Neighbors(links', n) = Neighbors(links, n)
  BY <1>4 DEF Neighbors
<1> QED
  BY <1>1, <1>2, <1>3, <1>5

(* No run, churn included, ever replaces an entry by an older one. *)
THEOREM StaleNeverWins == ChurnSpec => NeverOlder
<1> DEFINE Newer == \A n \in Nodes :
       \/ \A l \in Links : tmvalue'[n][l] = 0
       \/ \A l \in Links : \/ tmvalue'[n][l] > tmvalue[n][l]
                           \/ /\ tmvalue'[n][l] = tmvalue[n][l]
                              /\ lsvalue'[n][l] = lsvalue[n][l]
<1>1. TypeOK /\ [ChurnNext]_vars => [Newer]_vars
  <2> SUFFICES ASSUME TypeOK, ChurnNext PROVE Newer
    OBVIOUS
  <2>1. ASSUME NEW e \in Links, NEW lat \in Latencies, UpdateLink(e, lat) PROVE Newer
    <3>1. tmvalue[Source(e)][e] \in 0 .. MaxTm
      BY SourceIsNode DEF TypeOK
    <3>2. NextTm(e) > tmvalue[Source(e)][e]
      BY <2>1, <3>1, UpdateLinkEffect, MaxTmAssumption
    <3> QED
      BY <2>1, <3>2, UpdateLinkEffect
  <2>2. ASSUME NEW l \in Links, Announce(l) PROVE Newer
    BY <2>1, <2>2 DEF Announce, TypeOK
  <2>3. ASSUME NEW l \in Links, NEW lat \in Latencies, ChangeLink(l, lat) PROVE Newer
    BY <2>1, <2>3 DEF ChangeLink
  <2>4. ASSUME NEW m \in inflight, AcceptMessage(m) \/ AcceptCopy(m) PROVE Newer
    <3>1. m.tm > tmvalue[m.to][m.link]
      <4>1. m.tm \in 1 .. MaxTm /\ tmvalue[m.to][m.link] \in 0 .. MaxTm
        BY <2>4, AcceptIsNewer DEF Arrivals, TypeOK
      <4> QED
        BY <4>1, <2>4, AcceptIsNewer, MaxTmAssumption
    <3> QED
      BY <2>4, <3>1, AcceptIsNewer
  <2>5. ASSUME NEW n \in Nodes, ChangeNode(n) PROVE Newer
    <3>1. \A l \in Links : tmvalue'[n][l] = 0
      BY <2>5 DEF ChangeNode, TypeOK
    <3>2. \A k \in Nodes \ {n} : tmvalue'[k] = tmvalue[k] /\ lsvalue'[k] = lsvalue[k]
      BY <2>5 DEF ChangeNode, TypeOK
    <3> QED
      BY <3>1, <3>2
  <2>6. CASE UNCHANGED <<lsvalue, tmvalue>>
    BY <2>6
  <2> QED
    BY <2>2, <2>3, <2>4, <2>5, <2>6
    DEF ChurnNext, Next, Deliver, DeleteLink, AddLink, IgnoreMessage
<1> QED
  BY <1>1, ChurnTypeCorrect, PTL DEF ChurnSpec, NeverOlder

-----------------------------------------------------------------------------
LEMMA SaysType ==
  ASSUME TypeOK, NEW l \in Links, NEW tm, NEW lat, Says(l, tm, lat)
  PROVE  tm \in 1 .. MaxTm /\ lat \in Latencies
<1>1. CASE \E n \in Nodes : tm > 0 /\ tmvalue[n][l] = tm /\ lsvalue[n][l] = lat
  BY <1>1, MaxTmAssumption DEF TypeOK
<1>2. CASE \E m \in inflight : m.link = l /\ m.tm = tm /\ m.lat = lat
  BY <1>2 DEF TypeOK, Arrivals
<1> QED
  BY <1>1, <1>2 DEF Says

(* The only new copy an update at the source makes is that of the update. *)
LEMMA UpdateLinkSays ==
  ASSUME TypeOK, NEW e \in Links, NEW x \in Latencies, UpdateLink(e, x),
         NEW l \in Links, NEW tm \in 1 .. MaxTm, NEW lat \in Latencies, Says(l, tm, lat)'
  PROVE  Says(l, tm, lat) \/ (l = e /\ tm = NextTm(e) /\ lat = x)
<1>1. CASE \E n \in Nodes : tm > 0 /\ tmvalue'[n][l] = tm /\ lsvalue'[n][l] = lat
  BY <1>1, UpdateLinkEffect DEF Says
<1>2. CASE \E m \in inflight' : m.link = l /\ m.tm = tm /\ m.lat = lat
  <2>1. PICK m \in inflight' : m.link = l /\ m.tm = tm /\ m.lat = lat
    BY <1>2
  <2>2. CASE m \in inflight
    BY <2>1, <2>2 DEF Says
  <2>3. CASE m \notin inflight
    <3>1. PICK k \in Nodes : m = [to |-> k, link |-> e, lat |-> x, tm |-> NextTm(e)]
      BY <2>3 DEF UpdateLink, SendToNeighbors, Neighbors
    <3> QED
      BY <2>1, <3>1
  <2> QED
    BY <2>2, <2>3
<1> QED
  BY <1>1, <1>2 DEF Says

(* Accepting a message makes no new copy: the entry and the messages sent   *)
(* on say what the message said.                                            *)
LEMMA AcceptSays ==
  ASSUME TypeOK, NEW m \in inflight, AcceptMessage(m),
         NEW l \in Links, NEW tm \in 1 .. MaxTm, NEW lat \in Latencies, Says(l, tm, lat)'
  PROVE  Says(l, tm, lat)
<1>1. CASE \E n \in Nodes : tm > 0 /\ tmvalue'[n][l] = tm /\ lsvalue'[n][l] = lat
  BY <1>1, AcceptIsNewer DEF Says
<1>2. CASE \E a \in inflight' : a.link = l /\ a.tm = tm /\ a.lat = lat
  <2>1. PICK a \in inflight' : a.link = l /\ a.tm = tm /\ a.lat = lat
    BY <1>2
  <2>2. CASE a \in inflight
    BY <2>1, <2>2 DEF Says
  <2>3. CASE a \notin inflight
    <3>1. PICK k \in Nodes : a = [to |-> k, link |-> m.link, lat |-> m.lat, tm |-> m.tm]
      BY <2>3 DEF AcceptMessage, SendToNeighbors, Neighbors
    <3> QED
      BY <2>1, <3>1 DEF Says
  <2> QED
    BY <2>2, <2>3
<1> QED
  BY <1>1, <1>2 DEF Says

(* The echo of its own update never moves the source's entry. *)
LEMMA SourceUnmoved ==
  ASSUME TypeOK, NoneNewerThanSource, NEW m \in inflight, AcceptMessage(m), NEW l \in Links
  PROVE  /\ tmvalue'[Source(l)][l] = tmvalue[Source(l)][l]
         /\ lsvalue'[Source(l)][l] = lsvalue[Source(l)][l]
<1>1. m \in Arrivals
  BY DEF TypeOK
<1>2. /\ m.link \in Links
      /\ m.tm \in 1 .. MaxTm
      /\ m.lat \in Latencies
  BY <1>1 DEF Arrivals
<1>3. Says(m.link, m.tm, m.lat)
  BY DEF Says
<1>4. m.tm <= tmvalue[Source(m.link)][m.link]
  BY <1>2, <1>3 DEF NoneNewerThanSource
<1>5. tmvalue[Source(m.link)][m.link] \in 0 .. MaxTm
  BY <1>2, SourceIsNode DEF TypeOK
<1>6. ~(Source(l) = m.to /\ l = m.link)
  BY <1>2, <1>4, <1>5, AcceptIsNewer, MaxTmAssumption
<1> QED
  BY <1>6, SourceIsNode, AcceptIsNewer

-----------------------------------------------------------------------------
(* Preservation, one lemma per step. *)

(* An update at the source: its number is new, and every neighbour is told. *)
LEMMA UpdateLinkPreserves ==
  ASSUME IInv, TypeOK', NEW e \in Links, NEW x \in Latencies, UpdateLink(e, x)
  PROVE  /\ NoneNewerThanSource'
         /\ UpdatesAgree'
         /\ FloodFrontier'
<1> USE DEF IInv
<1>1. \A l \in Links : /\ tmvalue[Source(l)][l] \in 0 .. MaxTm
                       /\ tmvalue[Source(l)][l] <= tmvalue'[Source(l)][l]
  <2>1. ASSUME NEW l \in Links
        PROVE  /\ tmvalue[Source(l)][l] \in 0 .. MaxTm
               /\ tmvalue[Source(l)][l] <= tmvalue'[Source(l)][l]
    <3>1. tmvalue[Source(l)][l] \in 0 .. MaxTm
      BY SourceIsNode DEF TypeOK
    <3>2. CASE l = e
      BY <3>1, <3>2, UpdateLinkEffect, MaxTmAssumption
    <3>3. CASE l # e
      BY <3>1, <3>3, UpdateLinkEffect, SourceIsNode
    <3> QED
      BY <3>1, <3>2, <3>3
  <2> QED
    BY <2>1
<1>2. NoneNewerThanSource'
  <2> SUFFICES ASSUME NEW l \in Links, NEW tm \in 1 .. MaxTm, NEW lat \in Latencies,
                      Says(l, tm, lat)'
               PROVE  tm <= tmvalue'[Source(l)][l]
    BY DEF NoneNewerThanSource
  <2>1. CASE Says(l, tm, lat)
    <3>1. tm <= tmvalue[Source(l)][l]
      BY <2>1 DEF NoneNewerThanSource
    <3>2. tmvalue'[Source(l)][l] \in 0 .. MaxTm
      BY SourceIsNode DEF TypeOK
    <3> QED
      BY <3>1, <3>2, <1>1, MaxTmAssumption
  <2>2. CASE l = e /\ tm = NextTm(e)
    BY <2>2, UpdateLinkEffect
  <2> QED
    BY <2>1, <2>2, UpdateLinkSays
<1>3. UpdatesAgree'
  <2> SUFFICES ASSUME NEW l \in Links, NEW tm \in 1 .. MaxTm,
                      NEW y \in Latencies, NEW z \in Latencies,
                      Says(l, tm, y)', Says(l, tm, z)'
               PROVE  y = z
    BY DEF UpdatesAgree
  <2>1. CASE Says(l, tm, y) /\ Says(l, tm, z)
    BY <2>1 DEF UpdatesAgree
  <2>2. CASE ~(Says(l, tm, y) /\ Says(l, tm, z))
    <3>1. l = e /\ tm = tmvalue[Source(l)][l] + 1
      BY <2>2, UpdateLinkSays, UpdateLinkEffect
    <3>2. ~Says(l, tm, y) /\ ~Says(l, tm, z)
      BY <3>1, <1>1, MaxTmAssumption DEF NoneNewerThanSource
    <3> QED
      BY <3>2, UpdateLinkSays
  <2> QED
    BY <2>1, <2>2
<1>4. FloodFrontier'
  <2> SUFFICES ASSUME NEW n \in Nodes, NEW k \in Nodes, NEW l \in Links,
                      k \in Neighbors(links', n)
               PROVE  \/ tmvalue'[n][l] <= tmvalue'[k][l]
                      \/ \E m \in inflight' : /\ m.to = k
                                              /\ m.link = l
                                              /\ tmvalue'[n][l] <= m.tm
    BY DEF FloodFrontier
  <2>1. k \in Neighbors(links, n)
    BY UpdateLinkEffect
  <2>2. CASE n = Source(e) /\ l = e
    <3> DEFINE a == [to |-> k, link |-> e, lat |-> x, tm |-> NextTm(e)]
    <3>1. a \in inflight'
      BY <2>2 DEF UpdateLink, SendToNeighbors
    <3>2. tmvalue'[n][l] <= a.tm
      BY <2>2, UpdateLinkEffect, MaxTmAssumption
    <3> QED
      BY <2>2, <3>1, <3>2
  <2>3. CASE ~(n = Source(e) /\ l = e)
    <3>1. tmvalue'[n][l] = tmvalue[n][l]
      BY <2>3, UpdateLinkEffect
    <3>2. /\ tmvalue[k][l] \in 0 .. MaxTm
          /\ tmvalue[n][l] \in 0 .. MaxTm
          /\ tmvalue'[k][l] \in 0 .. MaxTm
      BY DEF TypeOK
    <3>3. tmvalue[k][l] <= tmvalue'[k][l]
      <4>1. CASE k = Source(e) /\ l = e
        BY <4>1, <1>1
      <4>2. CASE ~(k = Source(e) /\ l = e)
        BY <4>2, <3>2, UpdateLinkEffect
      <4> QED
        BY <4>1, <4>2
    <3>4. CASE tmvalue[n][l] <= tmvalue[k][l]
      BY <3>1, <3>2, <3>3, <3>4, MaxTmAssumption
    <3>5. CASE \E m \in inflight : m.to = k /\ m.link = l /\ tmvalue[n][l] <= m.tm
      BY <3>1, <3>5 DEF UpdateLink
    <3> QED
      BY <2>1, <3>4, <3>5 DEF FloodFrontier
  <2> QED
    BY <2>2, <2>3
<1> QED
  BY <1>2, <1>3, <1>4

(* An accepted message: the receiver catches up, its neighbours are told. *)
LEMMA AcceptPreserves ==
  ASSUME IInv, TypeOK', NEW m \in inflight, AcceptMessage(m)
  PROVE  IInv'
<1> USE DEF IInv
<1>1. NoneNewerThanSource'
  BY AcceptSays, SourceUnmoved DEF NoneNewerThanSource
<1>2. UpdatesAgree'
  BY AcceptSays DEF UpdatesAgree
<1>3. FloodFrontier'
  <2> SUFFICES ASSUME NEW n \in Nodes, NEW k \in Nodes, NEW l \in Links,
                      k \in Neighbors(links', n)
               PROVE  \/ tmvalue'[n][l] <= tmvalue'[k][l]
                      \/ \E a \in inflight' : /\ a.to = k
                                              /\ a.link = l
                                              /\ tmvalue'[n][l] <= a.tm
    BY DEF FloodFrontier
  <2>1. links' = links
    BY DEF AcceptMessage
  <2>2. /\ m.tm \in 1 .. MaxTm
        /\ tmvalue[k][l] \in 0 .. MaxTm
        /\ tmvalue[n][l] \in 0 .. MaxTm
        /\ tmvalue'[k][l] \in 0 .. MaxTm
    BY AcceptIsNewer DEF TypeOK, Arrivals
  <2>3. tmvalue[k][l] <= tmvalue'[k][l]
    <3>1. CASE k = m.to /\ l = m.link
      BY <2>2, <3>1, AcceptIsNewer, MaxTmAssumption
    <3>2. CASE ~(k = m.to /\ l = m.link)
      BY <2>2, <3>2, AcceptIsNewer
    <3> QED
      BY <3>1, <3>2
  <2>4. CASE n = m.to /\ l = m.link
    <3> DEFINE a == [to |-> k, link |-> m.link, lat |-> m.lat, tm |-> m.tm]
    <3>1. a \in inflight'
      BY <2>1, <2>4 DEF AcceptMessage, SendToNeighbors
    <3>2. tmvalue'[n][l] <= a.tm
      BY <2>2, <2>4, AcceptIsNewer, MaxTmAssumption
    <3> QED
      BY <2>4, <3>1, <3>2
  <2>5. CASE ~(n = m.to /\ l = m.link)
    <3>1. tmvalue'[n][l] = tmvalue[n][l]
      BY <2>5, AcceptIsNewer
    <3>2. CASE tmvalue[n][l] <= tmvalue[k][l]
      BY <2>2, <2>3, <3>1, <3>2, MaxTmAssumption
    <3>3. CASE \E a \in inflight : a.to = k /\ a.link = l /\ tmvalue[n][l] <= a.tm
      <4>1. PICK a \in inflight : a.to = k /\ a.link = l /\ tmvalue[n][l] <= a.tm
        BY <3>3
      <4>2. CASE a = m
        BY <4>1, <4>2, <3>1, AcceptIsNewer
      <4>3. CASE a # m
        BY <4>1, <4>3, <3>1 DEF AcceptMessage
      <4> QED
        BY <4>2, <4>3
    <3> QED
      BY <2>1, <3>2, <3>3 DEF FloodFrontier
  <2> QED
    BY <2>4, <2>5
<1>4. SourceKnowsLink'
  BY SourceUnmoved DEF SourceKnowsLink, AcceptMessage
<1> QED
  BY <1>1, <1>2, <1>3, <1>4

(* An ignored message told its receiver nothing it lacked. *)
LEMMA IgnorePreserves ==
  ASSUME IInv, TypeOK', NEW m \in inflight, IgnoreMessage(m)
  PROVE  IInv'
<1> USE DEF IInv
<1>1. m \in Arrivals
  BY DEF TypeOK
<1>2. m.tm <= tmvalue[m.to][m.link]
  <2>1. /\ m.to \in Nodes
        /\ m.link \in Links
        /\ m.tm \in 1 .. MaxTm
    BY <1>1 DEF Arrivals
  <2>2. tmvalue[m.to][m.link] \in 0 .. MaxTm
    BY <2>1 DEF TypeOK
  <2> QED
    BY <2>1, <2>2, MaxTmAssumption DEF IgnoreMessage, IsNews
<1>3. \A l \in Links, tm \in 1 .. MaxTm, lat \in Latencies :
        Says(l, tm, lat)' => Says(l, tm, lat)
  BY DEF Says, IgnoreMessage
<1>4. NoneNewerThanSource' /\ UpdatesAgree'
  BY <1>3 DEF NoneNewerThanSource, UpdatesAgree, IgnoreMessage
<1>5. FloodFrontier'
  <2> SUFFICES ASSUME NEW n \in Nodes, NEW k \in Nodes, NEW l \in Links,
                      k \in Neighbors(links, n), ~(tmvalue[n][l] <= tmvalue[k][l])
               PROVE  \E a \in inflight \ {m} : /\ a.to = k
                                                /\ a.link = l
                                                /\ tmvalue[n][l] <= a.tm
    BY DEF FloodFrontier, IgnoreMessage
  <2>1. PICK a \in inflight : a.to = k /\ a.link = l /\ tmvalue[n][l] <= a.tm
    BY DEF FloodFrontier
  <2>2. a # m
    <3>1. /\ tmvalue[n][l] \in 0 .. MaxTm
          /\ tmvalue[k][l] \in 0 .. MaxTm
          /\ m.tm \in 1 .. MaxTm
      BY <1>1 DEF TypeOK, Arrivals
    <3> QED
      BY <1>2, <2>1, <3>1, MaxTmAssumption
  <2> QED
    BY <2>1, <2>2
<1>6. SourceKnowsLink'
  BY DEF SourceKnowsLink, IgnoreMessage
<1> QED
  BY <1>4, <1>5, <1>6

(* A change or first announcement of a link leaves its source with the     *)
(* latency it set, and no other source is concerned.                       *)
LEMMA UpdateLinkKnows ==
  ASSUME IInv, NEW e \in Links, NEW x \in Latencies, UpdateLink(e, x),
         posted' \subseteq posted, posted \subseteq posted' \cup {e}
  PROVE  SourceKnowsLink'
<1> SUFFICES ASSUME NEW l \in Links, links'[l] # NoLink, l \notin posted'
             PROVE  lsvalue'[Source(l)][l] = links'[l]
  BY DEF SourceKnowsLink
<1>1. CASE l = e
  <2>1. links'[e] = x
    BY <1>1 DEF IInv, TypeOK, UpdateLink
  <2> QED
    BY <1>1, <2>1, UpdateLinkEffect DEF IInv
<1>2. CASE l # e
  <2>1. links'[l] = links[l] /\ l \notin posted
    BY <1>2 DEF IInv, TypeOK, UpdateLink
  <2>2. lsvalue'[Source(l)][l] = lsvalue[Source(l)][l]
    BY <1>2, UpdateLinkEffect, SourceIsNode DEF IInv
  <2> QED
    BY <2>1, <2>2 DEF IInv, SourceKnowsLink
<1> QED
  BY <1>1, <1>2

(* Deleting a link only removes obligations. *)
LEMMA DeletePreserves ==
  ASSUME IInv, TypeOK', NEW e \in Links, DeleteLink(e)
  PROVE  IInv'
<1> USE DEF IInv
<1>1. \A l \in Links, tm \in 1 .. MaxTm, lat \in Latencies :
        Says(l, tm, lat)' => Says(l, tm, lat)
  BY DEF Says, DeleteLink
<1>2. NoneNewerThanSource' /\ UpdatesAgree'
  BY <1>1 DEF NoneNewerThanSource, UpdatesAgree, DeleteLink
<1>3. \A l \in Links : links'[l] # NoLink => links[l] = links'[l]
  BY DEF DeleteLink, TypeOK
<1>4. \A n \in Nodes : Neighbors(links', n) \subseteq Neighbors(links, n)
  BY <1>3 DEF Neighbors
<1>5. FloodFrontier'
  BY <1>4 DEF FloodFrontier, DeleteLink
<1>6. SourceKnowsLink'
  BY <1>3 DEF SourceKnowsLink, DeleteLink
<1> QED
  BY <1>2, <1>5, <1>6

(* Nothing is said before the first event. *)
LEMMA InitIInv == Init => IInv
<1> SUFFICES ASSUME Init PROVE IInv
  OBVIOUS
<1>1. TypeOK
  BY InitTypeOK
<1>2. \A l \in Links, tm \in 1 .. MaxTm, lat \in Latencies : ~Says(l, tm, lat)
  BY MaxTmAssumption DEF Init, Says
<1>3. NoneNewerThanSource /\ UpdatesAgree
  BY <1>2 DEF NoneNewerThanSource, UpdatesAgree
<1>4. FloodFrontier
  <2>1. \A n \in Nodes, l \in Links : tmvalue[n][l] = 0
    BY DEF Init
  <2> QED
    BY <2>1 DEF FloodFrontier
<1>5. SourceKnowsLink
  BY DEF Init, SourceKnowsLink
<1> QED
  BY <1>1, <1>3, <1>4, <1>5 DEF IInv

(* Every run without churn keeps the inductive invariant. *)
THEOREM FloodingInvariant == Spec => []IInv
<1>1. IInv /\ TypeOK' /\ [Next]_vars => IInv'
  <2> SUFFICES ASSUME IInv, TypeOK', [Next]_vars PROVE IInv'
    OBVIOUS
  <2>1. ASSUME NEW l \in Links, Announce(l) PROVE IInv'
    <3>1. links[l] \in Latencies
      BY <2>1 DEF Announce, IInv, TypeOK
    <3>2. UpdateLink(l, links[l]) /\ posted' = posted \ {l}
      BY <2>1 DEF Announce
    <3>3. NoneNewerThanSource' /\ UpdatesAgree' /\ FloodFrontier'
      BY <3>1, <3>2, UpdateLinkPreserves
    <3>4. SourceKnowsLink'
      BY <3>1, <3>2, UpdateLinkKnows
    <3> QED
      BY <3>3, <3>4 DEF IInv
  <2>2. ASSUME NEW l \in Links, NEW lat \in Latencies, ChangeLink(l, lat) PROVE IInv'
    <3>1. UpdateLink(l, lat) /\ posted' = posted
      BY <2>2 DEF ChangeLink
    <3>2. NoneNewerThanSource' /\ UpdatesAgree' /\ FloodFrontier'
      BY <3>1, UpdateLinkPreserves
    <3>3. SourceKnowsLink'
      BY <3>1, UpdateLinkKnows
    <3> QED
      BY <3>2, <3>3 DEF IInv
  <2>3. ASSUME NEW l \in Links, DeleteLink(l) PROVE IInv'
    BY <2>3, DeletePreserves
  <2>4. ASSUME NEW m \in inflight, AcceptMessage(m) PROVE IInv'
    BY <2>4, AcceptPreserves
  <2>5. ASSUME NEW m \in inflight, IgnoreMessage(m) PROVE IInv'
    BY <2>5, IgnorePreserves
  <2>6. CASE UNCHANGED vars
    BY <2>6 DEF vars, IInv, TypeOK, NoneNewerThanSource, UpdatesAgree, FloodFrontier,
                SourceKnowsLink, Says, Neighbors
  <2> QED
    BY <2>1, <2>2, <2>3, <2>4, <2>5, <2>6 DEF Next, Deliver
<1> QED
  BY <1>1, InitIInv, TypeCorrect, PTL DEF Spec

-----------------------------------------------------------------------------
(* At rest the nodes that are not behind the source of l are closed under   *)
(* the links that exist, so they include all that can be reached from it.   *)
LEMMA QuietConverged == ASSUME IInv PROVE Converged
<1> USE DEF IInv
<1> SUFFICES ASSUME Quiet, NEW l \in Links, links[l] # NoLink,
                    NEW n \in Reachable(Source(l))
             PROVE  lsvalue[n][l] = links[l]
  BY DEF Converged
<1> DEFINE s == Source(l)
           S == {k \in Nodes : tmvalue[s][l] <= tmvalue[k][l]}
<1>1. s \in Nodes /\ n \in Nodes
  BY SourceIsNode DEF Reachable
<1>2. \A k \in Nodes : tmvalue[k][l] \in 0 .. MaxTm
  BY DEF TypeOK
<1>3. s \in S
  BY <1>1, <1>2, MaxTmAssumption
<1>4. Closed(S)
  <2> SUFFICES ASSUME NEW j \in S, NEW k \in Neighbors(links, j)
               PROVE  k \in S
    BY DEF Closed
  <2>1. k \in Nodes /\ tmvalue[j][l] <= tmvalue[k][l]
    BY DEF FloodFrontier, Quiet, Neighbors
  <2> QED
    BY <2>1, <1>1, <1>2, MaxTmAssumption
<1>5. n \in S
  <2> HIDE DEF S
  <2>1. S \in SUBSET Nodes
    BY DEF S
  <2> QED
    BY <1>3, <1>4, <2>1 DEF Reachable
<1>6. lsvalue[s][l] = links[l] /\ links[l] \in Latencies
  BY DEF SourceKnowsLink, Quiet, TypeOK
<1>7. tmvalue[s][l] \in 1 .. MaxTm
  <2>1. lsvalue[s][l] # Unset
    BY <1>6, LatenciesAssumption
  <2> QED
    BY <2>1, <1>1, <1>2, MaxTmAssumption DEF TypeOK
<1>8. tmvalue[n][l] \in 1 .. MaxTm
  BY <1>1, <1>2, <1>5, <1>7, MaxTmAssumption
<1>9. lsvalue[n][l] \in Latencies
  BY <1>1, <1>8, MaxTmAssumption DEF TypeOK
<1>10. Says(l, tmvalue[n][l], lsvalue[n][l]) /\ Says(l, tmvalue[s][l], lsvalue[s][l])
  BY <1>1, <1>7, <1>8, MaxTmAssumption DEF Says
<1>11. tmvalue[n][l] <= tmvalue[s][l]
  BY <1>8, <1>9, <1>10 DEF NoneNewerThanSource
<1>12. tmvalue[n][l] = tmvalue[s][l]
  BY <1>5, <1>7, <1>8, <1>11, MaxTmAssumption
<1> QED
  BY <1>6, <1>7, <1>9, <1>10, <1>12 DEF UpdatesAgree

(* Sequence numbers are made at the source alone. *)
THEOREM SourceLeads == Spec => []NoneNewerThanSource
  BY FloodingInvariant, PTL DEF IInv

(* A sequence number identifies one latency, everywhere. *)
THEOREM UpdatesAreUnique == Spec => []UpdatesAgree
  BY FloodingInvariant, PTL DEF IInv

(* A neighbour is never behind unless what it misses is on its way. *)
THEOREM FloodReachesNeighbors == Spec => []FloodFrontier
  BY FloodingInvariant, PTL DEF IInv

(* The source of a link that exists holds its current latency. *)
THEOREM SourceIsRight == Spec => []SourceKnowsLink
  BY FloodingInvariant, PTL DEF IInv

(* When the queue is empty, every database that a flood can reach is right. *)
THEOREM FloodingConverges == Spec => []Converged
  BY FloodingInvariant, QuietConverged, PTL

===============================================================================
