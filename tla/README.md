# A verification of NetworkProtocol

The repository holds two programs of a networking course. `src/routelab-w15` is
a simulator of routing protocols, link-state and distance-vector.
`src/minet-netclass-w15` is Minet, a user-level protocol stack whose layers are
separate processes joined by FIFOs. This directory models them in TLA+, checks
the models with TLC and proves theorems about them with TLAPS.

- `LinkState`, `RouteComputation` and `DistanceVector` model the simulator;
  `DeviceDriver` (on `PacketBuffer`), `TcpModule`, `SockModule`, `Applications`
  (on `SockModule`), `IpStack` and `MinetStart` model Minet. `DropTailQueue` is
  what a direction of the device driver promises.
- `MC*.tla` and `*.cfg` are the instances that TLC checks.
- `*_proofs.tla` hold the theorems and their proofs, `DataLemmas` what three of
  them need to know of numbers, recursion and sequences.
- `PROJECT.json` maps every definition to the lines it models, and lists
  components, runs, findings and hazards.

Operators marked "Fault:" or "A slip:" are not part of a specification. Each is a plausible
mistake in the definition after it; put in its place, TLC finds the property
violated that is meant to catch the mistake.

## The system

### routelab-w15

`SimulationContext` reads a topology and an event file, posts one CHANGE_LINK
event per link and the events of the file, and `routesim` dispatches the
`EventQueue` until it is empty. The compile-time choice LINKSTATE or
DISTANCEVECTOR selects the routing code in `node.cc`, `table.cc`, `messages.cc`.

| part | state | operations | what makes it correct |
|---|---|---|---|
| `Topology` | nodes, links and their latencies | ADD, CHANGE, DELETE of nodes and links | link events reach the node at the link's source |
| link-state `Node`, `Table` | per link the latency and the sequence number it last heard of | `LinkHasBeenUpdated`, `ProcessIncomingRoutingMessage`, `AdjmatUpdate`, `GetNextHop` | an old update never wins; flooding ends; all databases agree with the topology at the end |
| distance-vector `Node`, `Table` | distances by neighbour and destination | the same handlers | the exchange ends with shortest distances |
| `EventQueue` | pending events ordered by time only | post, earliest | handlers run one at a time |

Hard here: messages overtake each other when a latency drops, and events of the
same time leave the priority queue in any order; accepted updates are sent back
to where they came from; links and nodes change while updates are in flight.

### minet-netclass-w15

    application - sock_module - tcp_module ---- ip_mux - ip_module - ethernet_mux - device_driver - reader, writer
                              \ udp_module --- /                  \ arp_module  /
                              \ icmp, ipother /

Every box is a process with a loop over `MinetGetNextEvent` (a `select` over its
FIFOs with a timeout). Requests and answers between modules are asynchronous:
`SockRequestResponse` between applications, sockets and transports, `Packet`
below.

| part | state | operations | what makes it correct |
|---|---|---|---|
| device driver | input and output rings, outgoing packet, signal mask | main loop, SIGUSR1 handler | frames are not reordered, doubled, or lost while there is room; handler and loop never send at once; waiting frames are served |
| reader, writer | socket pairs | capture and signal; send and answer | answers are read |
| raw packet buffer | ring of slots | push, pull, counts | a queue |
| TCP module | list of connections: state, `last_acked`, `last_sent`, `last_recvd`, timer | `handle_mux`, `handle_sock`, `handle_timeout` | numbers stay consistent; data is acknowledged once delivered; a host closes when it should; requests are answered |
| socket module | sockets, ports, queues of requests that wait for a STATUS of TCP or UDP | requests of applications, answers from below | an answer reaches the request it belongs to, each call gets one, none is forgotten |
| socket library, applications | the call in which a program waits; its sockets | socket, bind, listen, accept, connect, read, write, close | a program makes calls that are allowed, gets an answer and leaves no socket |
| UDP module | forward list | WRITE, FORWARD, CLOSE, packets | a socket keeps its forward; answers in order |
| IP module | the packet that waits for its hardware address | `SendPacket`, receive | the answer is for the packet; a packet whose address is known leaves |
| ARP module | the cache | answer, ask, learn | the cache is what hosts announced last |
| start-up (`MinetInit`, `MinetConnect`, `MinetAccept`) | FIFOs that are open | open, end | the opens do not wait in a circle; no process survives its neighbours |
| muxes, ICMP, ipother, other, monitor | none | forward, answer, swallow | what arrives brings at most one answer; full FIFOs do not block everybody |

Hard here: the signal handler interrupts the driver's loop at any point; signals
merge; pipes fill; packets are lost, doubled and reordered; answers carry no
identity and are matched by order; timers race with late packets; a send into a
full FIFO and an open without a partner block a whole process.

## How the modules fit together

| module | stands for | the rest of the stack is |
|---|---|---|
| `LinkState` | databases and flooding | |
| `RouteComputation` | Dijkstra and walks on the databases | updates that reach nodes in any order |
| `DistanceVector` | the other build | |
| `PacketBuffer`, `DeviceDriver` | the driver, its reader and writer | `ethernet_mux`, which reads and writes its FIFOs at will |
| `IpStack` | everything between the driver and the transports | a driver that takes any frame; datagrams of applications |
| `TcpModule` | two hosts with one connection | a network that loses, doubles, reorders; a socket module |
| `SockModule` | sockets, UDP, and TCP as the socket module sees it | a network that brings any segment and datagram; an application that makes any call |
| `Applications` | seven programs on `SockModule` | the network, as above |
| `MinetStart` | all processes and their FIFOs, coming up and going down | |

They were written in the order in which faults would hurt most: flooding, the
driver, TCP, the socket module, the lower stack, distance vectors, routes and
start-up. What is left to do is under "Not modelled".

## LinkState

*State.* `links` is `Topology::links`; `lsvalue` and `tmvalue` are the fields of
the `NodeInfo` in each node's `adjmat`; `posted` the CHANGE_LINK events that
`Init` queued; `inflight` the queued ROUTING_MESSAGE_ARRIVAL events. *Actions.*
`Announce`, `ChangeLink`, `DeleteLink`, `AddLink`, `ChangeNode` are the events of
the files with the handler they run; `AcceptMessage` and `IgnoreMessage` are the
two outcomes of `ProcessIncomingRoutingMessage`.

The queue is a set: arrival order is free, which includes every order that times
can give. A second copy of a message is ignored by its receiver, so dropping
copies loses nothing while nodes are not replaced; `AcceptCopy` restores it for
runs in which they are.

| run | question | instance |
|---|---|---|
| `ls_safety` | `Converged`, the inductive invariant `IInv` behind it, and `FloodingEnds` | three nodes in a lasso (1 to 2, 2 and 3 in a circle), two latencies, two updates per link |
| `ls_churn` | `NeverOlder` with added links and replaced nodes | two nodes |

On the lasso an update of the first link is passed on twice, a flood comes back to
its source round the circle, and nothing reaches node 1; two updates of one link
suffice for one to overtake the other. `FloodingEnds`
assumes that `main` goes on dispatching (weak fairness of `Announce` and
`Deliver`). `MaxTm` bounds the sequence number, so the wrap-around of the
unsigned is outside the model. `CHECK_DEADLOCK FALSE`: the simulation ends when
its queue is empty.

*Proved* for every set of nodes, links and latencies: `TypeOK`, `NeverOlder`
(with churn), the inductive invariant `IInv` (its parts are `TypeOK`,
`NoneNewerThanSource`, `UpdatesAgree`, `FloodFrontier`, `SourceKnowsLink`) and,
from it, `Converged`. `Converged`
is not inductive: it speaks of an empty queue. What holds at every moment is the
frontier: over each link that exists, the far end is at least as new as the near
end, or a message that makes it so is under way. With an empty queue all nodes
reachable from a source are then as new as the source; as nobody is newer
(`NoneNewerThanSource`) and equal numbers mean equal latencies (`UpdatesAgree`),
all are right. Links that appear break the frontier, because nobody is told of
them; `Converged` is not claimed there.

## PacketBuffer and DeviceDriver

*State.* The ring is a record with the fields of the struct. `DeviceDriver` adds
both socket pairs and FIFOs as bounded sequences, the signal (`pending`,
`blocked`), where the handler is (`isr`), where the main loop is (`pc`), the
half-finished comparison of `Numitems` (`wrapped`) and what `select` told
(`ready`). *Actions.* One for each step of the loop or handler between which
something else can happen; the handler can interrupt the loop between any two of
its steps outside the critical section, and nothing of the loop runs before the
handler returns.

| run | question | instance |
|---|---|---|
| `dd` | is the way in a drop-tail queue (`InputIsQueue`), and the way out (`OutputIsQueue`), which loop and handler share; does main ever wait with the signal blocked for ethernet_mux (`NeverStuckBlocked`); `NeverBusy` is the assertion in `EthernetInitiateSend`; are the frames of the reader served although signals merge (`ReaderServed`) | input ring of two slots, output ring of three, one packet value, two frames in the reader's pipe |

A ring of three slots holds two packets, so it fills, wraps and empties; a ring
of two holds one, so it overflows at once. With one packet value the run sees
packets that are lost or doubled and not their order; that the order is kept
too, for every set of packets and every size, is the theorem (below). A ring of
one slot holds nothing and drops all, which the code permits. The pipe must hold
two frames for their signals to merge.

Fairness: each process is scheduled (weak fairness of its steps); a signal that
becomes deliverable again and again is delivered (strong fairness of
`TakeSignal`, because the loop blocks it in each turn). The reader need not
capture and ethernet_mux need not read. `ReaderServed` excepts `Jammed`: with
the signal blocked main can wait for the writer while the writer waits for its
answers to be read, and that is a real deadlock of the code once both socket
pairs are full. That is also why the runs have `CHECK_DEADLOCK FALSE`.

*Proved* for every size: types, `NeverBusy`, `NeverStuckBlocked` (while the
signal is blocked, what `select` told of a FIFO stays true: only the loop itself
uses up its room), and that the driver implements
`DropTailQueue` in both directions, under the refinement mapping that takes a
ring to the sequence it holds. The invariant `DInv` adds to the types where the
outgoing packet can be set: only between the two halves of a send, of the
loop with the signal blocked, or of the handler. The proofs rest on what
`PushPacket` and `PullPacket` do to `Contents`, proved for every ring.

## TcpModule

*State.* `conn` is the one entry of each host's `clist`, with the fields of
`TCPState` and the timer; `net` is the set of all packets ever sent, so that each
may arrive never, once or again, in any order; `delivered` holds the segments
handed to the socket module; `owed` counts requests that wait for a STATUS.
*Actions.* `handle_sock` by request and state, `handle_mux` by state and flags,
`handle_timeout` by state. What is sent twice (SYN, and SYN with ACK) is one
packet of `net`, which holds any number of copies.

`createPacket` is modelled as it is called: the sequence number is always
`last_acked + 1`, and `SendData` passes its size and its header type in the wrong
order, so a segment has its flags from its number of bytes and tells a length of
four. Only segments of four bytes are data; the pass runs write four bytes.
The SendBuffer is empty between events and is left out.

| run | question | instance |
|---|---|---|
| `tcp_safety` | `TypeOK`, `AckedWasSent`, `OnlyCloseCloses` | two hosts, each may open actively or passively, write once, close; one retry of the timer; symmetric in the hosts |
| `tcp_data` | `AckedWasDelivered`, `AcceptorSettles` | A connects and writes three times, B accepts; two retries |
| `tcp_swapped` | the finding | as `tcp_safety`, with writes of five bytes |

One open per host (`MaxOpens`) keeps two incarnations of a connection apart;
both start at sequence number 1, so packets of an old one are valid in the next,
and a segment of the old one would count as the delivery of one of the new. Three writes give two that are
outstanding together and a third after one of them was acknowledged. A host
with a retry left and without one meets both branches of the timer. `MaxSent`
stands for the 32 bits of `last_sent`, whose wrap-around is not reached.
`CHECK_DEADLOCK FALSE`: when both hosts are in FIN_WAIT1 or the bounds are used
up, nothing is left to do.

Fairness: `handle_timeout` runs only when no event came for a second. Weak
fairness of `Timeout` says that a host is idle that long again and again. Packets
need not arrive. `AcceptorSettles` needs no more. Nothing of the kind holds of
SYN_SENT, whose timer is never active: after a lost SYN it is never left.

*Proved* for all sizes and bounds, over any network of this kind: `TypeOK` and
`AckedWasSent` (their conjunction `Inv` is inductive; `SetLastAckedSound` is the
core), which justify that the code's unsigned differences never go below zero
and that the SYN_SENT case of `handle_timeout` is dead; and `OnlyCloseCloses`,
on the condition `NoFinSegment` that no write is cut into a segment of five or
six bytes. For it the invariant adds that a FIN in the network means that some
host is in FIN_WAIT1; that state is never left, and a host that takes the FIN in
ESTABLISHED is not in it, so its peer is. The condition is needed: `tcp_swapped`
refutes the property without it. `AckedWasDelivered` is proved (`AckedDataDelivered`) on two conditions: one open
per host, as above, and `NoControlSegment`, that no segment has a size of 1, 2,
3, 5 or 6 bytes. The second is needed too: a segment of three bytes goes out as
SYN and ACK, tells a length of four and moves the peer's `last_recvd` past a
segment of four bytes with the same number, which TLC shows with writes of three and four
bytes. Sizes that select no flags (8, say) are allowed, and such segments are
never data. The inductive invariant `Chained` says what makes every number in
the system harmless, although receivers set `last_recvd` back and forward with
each ACK:

- a host's segments start at its `Base`, 3 if it sent the SYN of a CONNECT and 2
  if not, and each is four bytes long, so the numbers in use are `Base + 4k`;
- `Reached`: whatever number of a host is quoted, its own `last_acked + 1`, the
  `seq` of its packets, its peer's `last_recvd`, the `ack` of its peer's packets,
  either does not pass `Base` or is such a number with all the segments before
  it delivered. Only `ReceiveData` makes a new one (`ReachedNext`);
- `Role`: in the handshake the two hosts are at the few numbers that this needs.
  The number that a host in SYN_RCVD waits for after two crossing SYN, 3 or 4, is never reached
  (`NotReached`), so it stays there; this is why a crossing does no harm;
- a FIN has a sender in FIN_WAIT1, a FIN with an ACK a receiver in FIN_WAIT1, so
  the sequence number a FIN sets is never quoted again; and nothing is sent
  before some host has connected.

`ChainedStep` carries all of it over a step of one host that only extends the
network and the deliveries; CONNECT, which decides a `Base`, is done by hand.

## SockModule and Applications

*State.* `socks` and `ports` are `SockStatus` and `PortStatus`; `call`, `asked`
and `answers` are the one call in which the application waits, its message and
what comes back; `tcpq` and `udpq` are the queues of requests without STATUS;
`toTcp`, `fromTcp`, `toUdp`, `fromUdp` the FIFOs; `tcp` and `clist` the lists of
the TCP and the UDP module; `alive` ends with the socket module. `Applications`
adds the program, its point and its two descriptors.
*Actions.* `Socket` ... `Close`, `Stub` and `Refuse` are the cases of
`ProcessAppRequest`; `HandleTCPWrite`, `HandleTCPStatus`, `HandleUDPWrite`,
`HandleUDPStatus`, `HandleICMPWrite` take messages from below; `UdpRequest` and
`UdpDatagram` are the UDP module; `TcpRequest`, `TcpSegment` and `TcpTimeout`
are `handle_sock`, `handle_mux` and `handle_timeout` of the TCP module. A program
is a function from points to the call made there and the points that follow
success and failure.

TCP is `tcp_module.cc`, as far as the socket module sees it: an entry of the list
has a connection, a state and a timer, and any segment may come from any peer at
any moment (`TcpModule` has the numbers that make some of them stale). What
`tcp_module.cc` answers is not what `docs/sockint.semantics` says:

- an ACCEPT gets its STATUS when a SYN comes (195-199), and one more for every SYN
  after the host gave up on the last ACK (780);
- a CLOSE gets none unless the connection is unknown or in CLOSING (550-611), a
  WRITE none unless it is unknown or ESTABLISHED;
- a connection that listens answers nothing, and any request makes it send a SYN,
  the STATUS too with which the socket module confirms data (500-505);
- a STATUS for an unknown connection names no connection.

So `tcpq` gets out of order, and TLC refutes `InOrder` of it in a few steps. What
comes of that, in the model as in the code:

- the requests without STATUS stay in `tcpq`, and the STATUS of later ones is taken
  for theirs: a call of a program that goes on after a close may wait for good;
- the entry of a connection in FIN_WAIT1 is never removed, and one in LAST_ACK or
  CLOSING by a CLOSE in CLOSING only; it takes the next ACCEPT of the port, so a
  server may wait for good after it;
- data that comes late may be taken for a new connection by a socket that accepts
  on the port;
- a STATUS that finds `tcpq` empty is a null pointer in `HandleTCPStatus`
  (`sock_module.cc:200`, `sock_mod_structs.cc:373`): `Crash`, after which nothing
  happens. The other processes follow, which is `MinetStart`.

What holds in spite of it is what the run checks.

| run | question | instance |
|---|---|---|
| `sock` | `StatusInOrder`: UDP's queue matches what is on its way; `AnswersTheCall`, `CallNotForgotten`: a program gets no answer but one to the call that waits, though a STATUS of TCP may be another request's, and a call without answer has something that it waits for; `CallReturns`; `ForwardsKept`; `NotRefused`, `NoSocketLeft`: what programs do to sockets | three sockets, two ports besides 0, two peers, bins of one unit; five calls of an arbitrary application on UDP sockets, or any run of one of seven programs over TCP or UDP |

Three sockets let a server listen, accept and have one left, and let accepts run
out of sockets. Five calls are enough for a UDP socket that is bound, and the close
of one that has no port, which takes its forward away. Two peers let a segment
match the entry of one and not of the other. `MaxRequests` bounds the requests
without STATUS where a call is made; `tcpq` never has more than three in the
instance, so 4 cuts nothing off. `MaxWrites = 1` lets one WRITE from below wait, or
its answer, on its way; with two, TLC had found no violation in 25 million states
when it was stopped. `LongWrites` is FALSE: no program writes more than 15000
bytes at once, and TCP refuses a WRITE above 53600 (`TCP_BUFFER_SIZE`).
An application that wrote that much in the order of `http_server1` could take the
refusal of a WRITE for that of an ACCEPT, and `AnswersTheCall` would not hold.
`AppProtocols` keeps the arbitrary application on UDP sockets. On TCP sockets, too,
one that closes, accepts and connects again in the right order can be told the
refusal of one request as that of another, because the queue has fallen behind; it
takes more calls than TLC can explore here, and the code promises nothing.

`CallReturns` is about calls that no event has to end, on UDP and in the socket
module; a WRITE on a TCP socket is not among them, as TCP may never answer it, and
after a crash nothing returns.
Fairness: the application goes on after an answer and every module takes its
next message; segments, datagrams and the timeout need not come.
`CHECK_DEADLOCK FALSE`: programs end.

*Proved* for every number of sockets and ports, every set of peers, and any number
of calls, segments and datagrams, on TCP and UDP: `ForwardsKept`
(`OnlyOwnRequests`) and `StatusInOrder` (`RequestsInOrder`). A request replaces or
removes the first forward that matches
it, and a connection without a port matches every port. The invariant behind it,
`WellTyped` (`RequestsWellTyped`), is therefore about types and more: a FORWARD on
its way to UDP has a port, because `ResolveSrcPort` gave one or an earlier bind
did, and so has every entry of the list; only a CLOSE may come without. To carry
the connection from the table to the FIFO and back through TCP the invariant types
every message on the way. For `StatusInOrder` the queue is as long as the list of
the STATUS on their way up followed by the requests on their way down (`Coming`),
and entries at the same place belong together.

*Proved* of the application that makes any call on UDP sockets (`AppProtocols =
{"udp"}`): `TypeOK`, `AnswersTheCall` and `CallNotForgotten`. *Proved* of
`Applications` with every program but `http_server1`, for any number of calls and
over `tcp_module.cc`'s TCP: these and `StatusInOrder` (`ProgramsAnswered`),
`NotRefused` (`CallsNotRefused`) and `NoSocketLeft` (`SocketsClosed`). Nothing is
assumed of TCP beyond what the module defines: requests stay unanswered, a STATUS
comes twice, the socket module may crash.

None of these is inductive, and they need each other. The invariant `Ordered` says:

- of a socket (`SocketsOK`): what its status tells of its connection;
- of the call (`CallsOK`): a pending socket is the one whose call waits, and no
  answer is there yet;
- of a request (`TcpPartOK`, `UdpPartOK`): in each queue at most one is no CLOSE
  (`OneOpen`), and its socket is pending in the call that waits. A CLOSE may stay
  for good; its STATUS, or that of another request taken for its, changes nothing;
- of the first connection (`OpeningOK`): a CONNECT or ACCEPT is alone in `tcpq`, and
  is on its way, or TCP listens, or the first message that TCP has sent is a STATUS
  without an error. So it is never refused, and its socket is still pending when the
  connection is told.

The last part holds while nothing was sent to TCP before (`TcpQuiet`), which the six
programs keep: each opens at most one connection, and whatever waits in TCP's
list after its close harms nobody. `http_server1` opens the next one while requests
of the last wait. With late data, old STATUS and entries that are never removed in
between, the argument is about every combination of them, and it is left to TLC,
for which all properties hold.

For the programs `Points` reads off each one what calls of one name have in common
(`PointOK`), and the rest is about the kinds of points. The
invariant is `Ordered`, `NoRefusal` (no message from below says
EINVALID_OP; in the code only the socket module does), `Quiet` (nothing was sent to
TCP before the program opens its connection) and `Running`:

- where a call is made, `Fits`: the socket has the status that the call needs and the
  program's protocol, and no other socket is in use but, behind an accept, the one
  that listens;
- while a call waits, `Pends`: its socket waits for the same thing, and everything
  else is as it will be after the answer;
- when an answer is there, `AnswerFits`: the sockets fit every point that the program
  may go to with it.

Two calls are refused all the same, and `NotRefused` names them. A connect that fails
has closed the socket, so the `close` that follows it in `tcp_client` and `http_client` finds it gone;
and `http_server1` reads its file with `minet_read`, as the socket that has the number
of its descriptor. Neither leaves a socket behind.

What the model shows along the way and no property forbids: a port stays taken
when its socket is closed, what is read stays in the bin, `CloseSocket` on a
failed connect leaves the program a descriptor that is refused, and an `accept`
for which no socket is left is never answered (the exception in
`CallNotForgotten`).

## IpStack

*State.* `fifo` holds for every pair of modules that share FIFOs what is in the
pipe; `out` what the handler that runs in a module has yet to send; `asking` the
packet with which `SendPacket` waits for `arp_module`; `cache` is `ARPCache`.
`arrived` and `wire` remember what came from and went to the network.
*Actions.* One for each branch of the loops of `ethernet_mux`, `arp_module`,
`ip_module`, `ip_mux`, `udp_module`, `icmp_module`, and the two that swallow.
`Event` is `MinetGetNextEvent`: the first FIFO, in the order of the opens, that
has something to read. A handler takes its object at once and makes its sends one
by one, each when its FIFO has room.

| run | question | instance |
|---|---|---|
| `ip` | `AnswerIsForQuestion`, `SentToAnnounced`, `CacheIsCurrent`, `KnownIsSent`: addresses and packets stay together; `AtMostOneAnswer`; `Drains`: the stack comes to rest | FIFOs of one object; two hosts, one of which changes its hardware address; two frames out of nine kinds and one datagram of an application |

Three objects and FIFOs of one: every FIFO on a circle of senders can be full
while another object waits, and the stack still drains. With four objects it does
not: `ethernet_mux`, `ip_module` and `ip_mux` or `arp_module` then wait for
each other. A circle needs at least `2 * FifoSize + 2` objects; with pipes of the
kernel that is a flood, and the code does nothing against it. `Drains` is claimed
below that number only, and just below it in the instance.

Fairness: the kernel runs each process that is not blocked. Frames need not come.

*Proved* for every size and set of hosts and frames: `AnswerIsForQuestion`, from
`Exchange`, which says that `ip_module` and `arp_module` are together in one of
five situations: at rest, about to ask, asked, answering, answered, with what is
in both FIFOs in each. `SentToAnnounced` follows from `Exchange` and `Origin`:
whatever the cache, the FIFOs and the unfinished sends say of a hardware address
was in a frame that arrived. Without `Exchange` an answer might be read for
another packet and nothing would follow about the frame it is put into.

`TypeOK` follows from `Typed`, which says for every pair of modules what one may
send the other (`Fits`), in the FIFO or still to be sent, and from `Bounded`.
`AtMostOneAnswer` follows from `Typed` and `Numbered`: the number of a frame or
datagram is in at most one place (`OnePlace`: a FIFO, an unfinished send, the
packet `ip_module` waits with, the network), once there, and only if it was
given out. Every handler moves the number it takes or drops it (`Moved`); the
pair of sends of `arp_module` bears none. `wire` is a set, so a packet that left
twice, exactly alike, would not be seen there. `CacheIsCurrent` follows from `Typed`
and `Followed`: the FIFO of the driver holds the last frames that arrived, and
there is a `c` such that the cache knows the last announcements of the first
`c` frames and the ARP frames after them, as far as `ethernet_mux` has read,
are on their way to `arp_module` in the order of their arrival.

`FramesAssumption` says what the instances of `Frames` are: ARP packets, IP
packets and other frames, sent under addresses of the other hosts and not yet
numbered. A frame that claims our own address is outside the model.

## DistanceVector

*State.* `outgoing`, `dvTable`, `dvTable_nb` are the fields of `Table`; `posted`
and `inflight` the two kinds of queued events. A `RoutingMessage` carries a
pointer to the live table of its sender, so a message in flight is no more than
its link. *Actions.* `Announce` and `ChangeLink` run `LinkHasBeenUpdated`,
`ProcessIncomingRoutingMessage` is the other handler; both end with the loop
`BellmanFord`. Announcements are posted at time -100 and messages arrive a
positive latency later, so all announcements come before all deliveries.

| run | question | instance |
|---|---|---|
| `dv` | `Converged`: shortest distances at the end; `CopiesCurrent`; `ExchangeEnds`: counting up stops | triangle, latencies 1, 1, 2, one change to 1 or 4 |
| `dv_loop` | the finding | the same |

The triangle has a tie (two ways of the same length), a circle for counting up,
and a change in both directions. Fairness: `main` dispatches until the queue is
empty. The instance has links in both directions: distances are computed from
what a neighbour at the far end of a link sends back, and without a link back
nothing comes. One entry without a route counts as the distance -1 on the way.

*Proved* for every topology: `TypeOK`, with the strengthening `Tables` (every
offer a neighbour can make is a natural number, although entries without a route
offer -1 plus a latency: latencies are at least 1), and `CopiesCurrent`: the
only steps that change a distance queue a message on every link that leaves the node.
`Converged` is proved for topologies with every link both ways (`BothWays`) and a
path between every two nodes (`Connected`), which all topology files are but
`tree.topo`, with its one link that has none back. The invariant (`Computing`):
each row is what `BellmanFord` makes of the copies at hand, a node has heard of
every destination that its copies name, or a message will tell it, and until the
first message is read every vector that has grown is on its way. When nothing is on
its way the distances therefore solve the equations of shortest paths (`Solves`),
where an entry without a route, the distance -1, would be wrong: that there is none
left follows from `Connected`. A solution is no longer than any path (`NoneShorter`)
and is the length of one (`OneMore`: with each link more, one more node has a path
as short as its distance), by the induction described below.

## RouteComputation

*State.* `lsvalue` are the databases, `prev` the predecessors that
`Table::Dijkstra` leaves in the node's own row, `walk` and `run` the walk of
`CollectPathLinks` and the run of Dijkstra it is in. *Actions.* `ChangeLink`,
`AdjmatUpdate` (an update reaches a node), `DrawPath`; then one turn of each loop:
`StartDijkstra`, `VisitRelay`, `StartFollow`, `FollowPrev`, `ReturnNextHop`,
`EndWalk`. Unsigned arithmetic is kept (`Inf` is the largest int).

| run | question | instance |
|---|---|---|
| `routes` | `VisitedAreFinal`: what Dijkstra has visited is final, whatever earlier runs left in the row; `NextHopShortest`; `PathIsShortest` when the databases agree; `WalkEnds` | square with a diagonal, one change, two walks |

The square has nodes that are no neighbours, whose entries the first run makes
and the second finds, and two ways of the same length. A change that has reached
some nodes only is what sends walks astray; a loop is cut after twice as many
steps as nodes. Every node can be reached from every other (`ReachAssumption`):
for a node that cannot, Dijkstra indexes its vectors with -1 and `GetNextHop`
does not end.

*Proved* for every topology with this property: `VisitedAreFinal`,
`NextHopShortest` and `PathIsShortest`. The invariant (`Routed`) has the loop
invariant of Dijkstra (`Settled`): visited nodes have their shortest distance, no
other node is nearer, every link out of a visited node has been looked at, the
predecessor of each node that was reached gives its distance, and no distance is
longer than the links it can have, so that nothing wraps. While `GetNextHop`
follows predecessors, these form a tree and the node it has come to is on a
shortest path (`OnPath`); with `Walked`, on a walk through databases that agree the
path so far is one. `Distance` is defined by
recursion on the number of links; that it is the shortest distance (it settles
after `NodeNum - 1` links, it obeys the triangle inequality, and every other node
has a neighbour that is nearer) is proved by induction, as below.

## MinetStart

*State.* `fifos` is per process the list of FIFO ends that it opens, computed
from the calls in its `main` and from the configuration; `opened` how far it is;
`alive` who runs. *Actions.* `Open`, which returns when the other end is open or
is being opened; `Stop`, a process of a running stack ends; `Die`, a process
whose neighbour is gone.

| run | question | instance |
|---|---|---|
| `start` | `StartsUp`: no circle of opens; `StackEnds`: one end is the end of all | six configurations: the one of `setup.sh`, one with a monitor, one with an application of its own, a small one, and two that cannot start |

`StartsUp` is claimed for configurations that are `Complete`. `other_module` is
found as a part of the name `ipother_module`, so a stack with the latter waits
for the former (`NoOther`), and a monitored module that is not started stops the
monitor (`NoMonitor`). Fairness: a process whose open can return goes on.

## Findings

| run | the code | against |
|---|---|---|
| `tcp_swapped` | five bytes are sent as a FIN | `docs/sockint.semantics` on WRITE |
| `dv_loop` | a next hop is kept on a tie although the way over it got worse: two nodes send to each other for good | the message "suspected routing loop" of `context.cc` |

Four more statements about the code are written down in the modules that the
models do not satisfy; TLC refutes each of them in a few steps when it is added
to a configuration under a specification with fairness where it is temporal.

| module | statement | the code |
|---|---|---|
| `DeviceDriver` | `AnswersRead` | the writer's `kill` has its arguments swapped, so no signal tells of an answer (`writer.cc:141`, against the comment at its head) |
| `DeviceDriver` | `SendStarted` | `Numitems` is one too small when the ring wraps: a packet alone in it is not sent (`raw_ethernet_packet_buffer.cc:55`) |
| `TcpModule` | `NoSurplusStatus` | an ACCEPT may get two STATUS; the second meets an empty queue in `sock_module.cc` (`tcp_module.cc:199`) |
| `TcpModule` | `AckedBytesWereDelivered` | of two outstanding writes one is lost and acknowledged (`tcp_module.cc:655`, against Go-Back-N in `src/README.md`) |

## What is only model-checked

Liveness: `FloodingEnds`, `ReaderServed`, `AcceptorSettles`, `CallReturns`,
`StartsUp`, `StackEnds`, `KnownIsSent`, `Drains`, `ExchangeEnds`, `WalkEnds`.
Every invariant and action property that a passing run checks is also proved, some
under the conditions named above. Of `sock` that leaves `http_server1` to TLC, but for
`StatusInOrder` and `ForwardsKept` under the application of `SockModule`, and of an
application that makes any call on TCP sockets only these two are proved and none of
the others checked.

Where a proof needs an induction (`RouteComputation`, `DistanceVector`, and `OfType` of
`SockModule`), it takes the least number that violates the claim (`Least` of
`DataLemmas`, from `WellFoundedInduction`): the induction rules of the library have
an operator as a parameter, which no prover here instantiates.

## Not modelled

- DELETE_NODE, after which queued events point to a freed node; drawing; the
  trees of the `Topology`. (`CollectShortestPathTreeLinks` keeps, for each node,
  the length of one link and not of the path from the source, so it computes a
  minimum spanning tree, while `context.cc` calls it the shortest paths tree.)
- In the distance-vector build, links and nodes that are added, deleted or
  replaced after the start.
- Start-up and shutdown of the driver's children; pcap and libnet.
- Sequence numbers of several connections at once (`TcpModule` has one per host,
  `SockModule` a list without numbers), RST (ignored by every state), and the
  contents of segments.
- `ip_module_routing.cc`, `ip_module_diffusion.cc` and `route.cc`, which the
  start scripts do not start, and `bridge.cc`.
- Packet and header classes (data formats); printing and monitoring messages.
- `minet_select`, `minet_poll` and the calls on kernel sockets, and with them
  `http_server2`: on the user-level stack `minet_select` answers "not
  implemented".
- Test programs, utilities and the Java timeline viewer.
