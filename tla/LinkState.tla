------------------------------ MODULE LinkState ------------------------------
(***************************************************************************)
(* Link-state flooding of routelab-w15 (built with LINKSTATE): the         *)
(* topology, the link-state database of every node and the routing         *)
(* messages waiting in the event queue.                                    *)
(*                                                                         *)
(* A node's database is Table::adjmat, a map from a link <<s, d>> to a     *)
(* NodeInfo.  Its operator[] inserts the default NodeInfo (lsvalue -1,     *)
(* tmvalue 0) for a link it does not hold, so an absent entry and a        *)
(* default entry are the same entry here.  NodeInfo::prev belongs to the   *)
(* route computation, which neither reads nor writes tmvalue and lsvalue.  *)
(*                                                                         *)
(* The event queue orders events by timestamp only.  A latency may drop    *)
(* between two sends, and events of equal timestamp leave the priority     *)
(* queue in no particular order, so a later message may arrive first:      *)
(* messages in flight are a set.  While no node is replaced a set loses    *)
(* nothing: a second copy of a delivered message is ignored (its sequence  *)
(* number is not newer).  A replaced node may take a second copy: see      *)
(* AcceptCopy.                                                             *)
(***************************************************************************)
EXTENDS Integers, FiniteSets

CONSTANTS
  Nodes,        \* node numbers
  Links,        \* the pairs <<src, dest>> that the topology or an event names
  Latencies,    \* the latencies a link may have
  InitLinks,    \* the links of the topology file
  InitLatency,  \* their latencies
  MaxTm         \* bound on the sequence number of a link: an unsigned of 32
                \* bits, whose wrap-around the model leaves out

Unset  == -1    \* lsvalue of a default NodeInfo
NoLink == -1    \* the topology holds no such link

ASSUME LinksAssumption == Links \subseteq Nodes \X Nodes
ASSUME LatenciesAssumption == Latencies \subseteq Nat
ASSUME InitLinksAssumption ==
  /\ InitLinks \subseteq Links
  /\ InitLatency \in [InitLinks -> Latencies]
ASSUME MaxTmAssumption == MaxTm \in Nat

VARIABLES
  links,        \* Topology::links: latency of each link, or NoLink
  lsvalue,      \* per node, the latency its database holds for a link
  tmvalue,      \* per node, the sequence number its database holds for a link
  posted,       \* links whose first CHANGE_LINK event (context Init) is queued
  inflight      \* queued ROUTING_MESSAGE_ARRIVAL events

vars == <<links, lsvalue, tmvalue, posted, inflight>>

Source(l) == l[1]

(* A queued arrival: the receiver, and the fields of the RoutingMessage. *)
Arrivals == [to : Nodes, link : Links, lat : Latencies, tm : 1 .. MaxTm]

Neighbors(topology, n) == {k \in Nodes : <<n, k>> \in Links /\ topology[<<n, k>>] # NoLink}

(* One arrival per outgoing link of n, each with the same message. *)
SendToNeighbors(topology, n, l, lat, tm) ==
  {[to |-> k, link |-> l, lat |-> lat, tm |-> tm] : k \in Neighbors(topology, n)}

-----------------------------------------------------------------------------
(* After LoadTopology and Init: links loaded, databases empty, and one      *)
(* CHANGE_LINK per link posted at time -100.                                *)
Init ==
  /\ links = [l \in Links |-> IF l \in InitLinks THEN InitLatency[l] ELSE NoLink]
  /\ lsvalue = [n \in Nodes |-> [l \in Links |-> Unset]]
  /\ tmvalue = [n \in Nodes |-> [l \in Links |-> 0]]
  /\ posted = InitLinks
  /\ inflight = {}

(* Table::LinkUpdate: the number of the next update of l. *)
NextTm(l) == tmvalue[Source(l)][l] + 1

(* Topology::ChangeLink and Node::LinkHasBeenUpdated at the link's source:  *)
(* set the latency if the link exists, number the update whether it exists  *)
(* or not, and tell the neighbours.                                         *)
UpdateLink(l, lat) ==
  LET n   == Source(l)
      tm  == NextTm(l)
      top == IF links[l] = NoLink THEN links ELSE [links EXCEPT ![l] = lat]
  IN  /\ tm <= MaxTm
      /\ links' = top
      /\ lsvalue' = [lsvalue EXCEPT ![n][l] = lat]
      /\ tmvalue' = [tmvalue EXCEPT ![n][l] = tm]
      /\ inflight' = inflight \cup SendToNeighbors(top, n, l, lat, tm)

(* The CHANGE_LINK event that Init posted for l. *)
Announce(l) ==
  /\ l \in posted
  /\ posted' = posted \ {l}
  /\ UpdateLink(l, links[l])

(* CHANGE_LINK, or ADD_LINK of a link that exists, from the event file.     *)
(* Its events come at times of 0 and later, after those of Init at -100.    *)
ChangeLink(l, lat) ==
  /\ posted = {}
  /\ UpdateLink(l, lat)
  /\ UNCHANGED posted

(* DELETE_LINK: the topology forgets the link, no node is told. *)
DeleteLink(l) ==
  /\ posted = {}
  /\ links[l] # NoLink
  /\ links' = [links EXCEPT ![l] = NoLink]
  /\ UNCHANGED <<lsvalue, tmvalue, posted, inflight>>

(* ADD_LINK of a link that does not exist: no node is told either. *)
AddLink(l, lat) ==
  /\ posted = {}
  /\ links[l] = NoLink
  /\ links' = [links EXCEPT ![l] = lat]
  /\ UNCHANGED <<lsvalue, tmvalue, posted, inflight>>

(* CHANGE_NODE (or ADD_NODE of a known number): the node is assigned a new  *)
(* Node whose table is empty.                                               *)
ChangeNode(n) ==
  /\ posted = {}
  /\ lsvalue' = [lsvalue EXCEPT ![n] = [l \in Links |-> Unset]]
  /\ tmvalue' = [tmvalue EXCEPT ![n] = [l \in Links |-> 0]]
  /\ UNCHANGED <<links, posted, inflight>>

(* Faults: any message, only a first message, or also a message that is     *)
(* just as new, changes the table.                                          *)
IsNewsAlways(m) == TRUE
IsNewsFirst(m) == lsvalue[m.to][m.link] = Unset
IsNewsIfNotOlder(m) == tmvalue[m.to][m.link] <= m.tm

(* Table::AdjmatUpdate takes a message for a link it holds no latency of,   *)
(* or one newer than what it holds.                                         *)
IsNews(m) ==
  \/ lsvalue[m.to][m.link] = Unset
  \/ tmvalue[m.to][m.link] < m.tm

(* Fault: the message is not sent on. *)
AcceptWithoutFlood(m) ==
  /\ IsNews(m)
  /\ lsvalue' = [lsvalue EXCEPT ![m.to][m.link] = m.lat]
  /\ tmvalue' = [tmvalue EXCEPT ![m.to][m.link] = m.tm]
  /\ inflight' = inflight \ {m}
  /\ UNCHANGED <<links, posted>>

(* Node::ProcessIncomingRoutingMessage of a message that changes the table: *)
(* it is sent on to all neighbours, the one it came from included.          *)
AcceptMessage(m) ==
  /\ IsNews(m)
  /\ lsvalue' = [lsvalue EXCEPT ![m.to][m.link] = m.lat]
  /\ tmvalue' = [tmvalue EXCEPT ![m.to][m.link] = m.tm]
  /\ inflight' = (inflight \ {m}) \cup SendToNeighbors(links, m.to, m.link, m.lat, m.tm)
  /\ UNCHANGED <<links, posted>>

(* The same while another copy of m is queued.  The set does not count the  *)
(* copies, so this is possible for every m: a run with churn may deliver a  *)
(* message again more often than the program does.                          *)
AcceptCopy(m) ==
  /\ IsNews(m)
  /\ lsvalue' = [lsvalue EXCEPT ![m.to][m.link] = m.lat]
  /\ tmvalue' = [tmvalue EXCEPT ![m.to][m.link] = m.tm]
  /\ inflight' = inflight \cup SendToNeighbors(links, m.to, m.link, m.lat, m.tm)
  /\ UNCHANGED <<links, posted>>

(* ... and of one that does not. *)
IgnoreMessage(m) ==
  /\ ~IsNews(m)
  /\ inflight' = inflight \ {m}
  /\ UNCHANGED <<links, lsvalue, tmvalue, posted>>

Deliver == \E m \in inflight : AcceptMessage(m) \/ IgnoreMessage(m)

-----------------------------------------------------------------------------
(* Without churn: latencies change and links go, but no link appears and    *)
(* no node is replaced.                                                     *)
Next ==
  \/ \E l \in Links : Announce(l)
  \/ \E l \in Links, lat \in Latencies : ChangeLink(l, lat)
  \/ \E l \in Links : DeleteLink(l)
  \/ Deliver

(* With churn: every event an event file may hold, except DELETE_NODE. *)
ChurnNext ==
  \/ Next
  \/ \E l \in Links, lat \in Latencies : AddLink(l, lat)
  \/ \E n \in Nodes : ChangeNode(n)
  \/ \E m \in inflight : AcceptCopy(m)

Spec == Init /\ [][Next]_vars

ChurnSpec == Init /\ [][ChurnNext]_vars

(* main dispatches events until the queue is empty. *)
FairSpec == Spec /\ WF_vars(\E l \in Links : Announce(l)) /\ WF_vars(Deliver)

-----------------------------------------------------------------------------
(* Types, and what the default NodeInfo stands for: a database entry        *)
(* without a latency carries no sequence number, so the branch of           *)
(* AdjmatUpdate that skips the comparison never goes back in time.          *)
TypeOK ==
  /\ links \in [Links -> Latencies \cup {NoLink}]
  /\ lsvalue \in [Nodes -> [Links -> Latencies \cup {Unset}]]
  /\ tmvalue \in [Nodes -> [Links -> 0 .. MaxTm]]
  /\ posted \subseteq {l \in Links : links[l] # NoLink}
  /\ inflight \subseteq Arrivals
  /\ \A n \in Nodes, l \in Links : lsvalue[n][l] = Unset <=> tmvalue[n][l] = 0

(* A node or a message says that update tm of link l set the latency lat. *)
Says(l, tm, lat) ==
  \/ \E n \in Nodes : tm > 0 /\ tmvalue[n][l] = tm /\ lsvalue[n][l] = lat
  \/ \E m \in inflight : m.link = l /\ m.tm = tm /\ m.lat = lat

(* Nobody holds or carries an update of a link that its source has not made *)
(* (LinkUpdate at the source alone creates sequence numbers: a flooded echo *)
(* never advances or replaces the source's own entry).                      *)
NoneNewerThanSource ==
  \A l \in Links, tm \in 1 .. MaxTm, lat \in Latencies :
    Says(l, tm, lat) => tm <= tmvalue[Source(l)][l]

(* Two copies of the same update of a link agree on its latency, wherever   *)
(* they are: a sequence number identifies the update.                       *)
UpdatesAgree ==
  \A l \in Links, tm \in 1 .. MaxTm, x, y \in Latencies :
    Says(l, tm, x) /\ Says(l, tm, y) => x = y

(* What flooding maintains across every interleaving and reordering: for    *)
(* each link n -> k that exists, k is never behind n on any link, unless a  *)
(* message that makes it catch up is on its way.                            *)
FloodFrontier ==
  \A n, k \in Nodes, l \in Links :
    k \in Neighbors(links, n) =>
      \/ tmvalue[n][l] <= tmvalue[k][l]
      \/ \E m \in inflight : m.to = k /\ m.link = l /\ tmvalue[n][l] <= m.tm

(* The source of a link that exists holds its current latency. *)
SourceKnowsLink ==
  \A l \in Links : links[l] # NoLink /\ l \notin posted => lsvalue[Source(l)][l] = links[l]

(* What every dispatch of an event preserves, and what makes flooding work: *)
(* no node is ahead of a source, equal numbers are equal updates, sources   *)
(* are right, and what a neighbour misses is under way to it.               *)
IInv ==
  /\ TypeOK
  /\ NoneNewerThanSource
  /\ UpdatesAgree
  /\ FloodFrontier
  /\ SourceKnowsLink

Quiet == posted = {} /\ inflight = {}

(* The nodes a flood from s reaches over the links that exist. *)
Closed(S) == \A n \in S : Neighbors(links, n) \subseteq S
Reachable(s) == {n \in Nodes : \A S \in SUBSET Nodes : s \in S /\ Closed(S) => n \in S}

(* When the event queue has drained, every node that can be reached from    *)
(* the source of an existing link holds that link's true latency, whatever  *)
(* the order in which updates, deletions and arrivals were dispatched.      *)
Converged ==
  Quiet => \A l \in Links : links[l] # NoLink =>
             \A n \in Reachable(Source(l)) : lsvalue[n][l] = links[l]

(* A late message never replaces a newer update, churn included: an entry   *)
(* changes only to a higher sequence number, or when its node is replaced.  *)
NeverOlder ==
  [][\A n \in Nodes :
       \/ \A l \in Links : tmvalue'[n][l] = 0
       \/ \A l \in Links : \/ tmvalue'[n][l] > tmvalue[n][l]
                           \/ /\ tmvalue'[n][l] = tmvalue[n][l]
                              /\ lsvalue'[n][l] = lsvalue[n][l]]_vars

(* Flooding ends although every accepted message is sent on to all          *)
(* neighbours, so that it comes back along every circle of links: once no   *)
(* update is dispatched the queue drains.                                   *)
FloodingEnds == []<>Quiet

=============================================================================
