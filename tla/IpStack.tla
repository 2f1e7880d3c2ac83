------------------------------ MODULE IpStack ------------------------------
(***************************************************************************)
(* The lower half of the Minet stack: ethernet_mux, arp_module, ip_module, *)
(* ip_mux, udp_module, icmp_module, and the two modules that swallow what  *)
(* is left, other_module and ipother_module.  Each is a process that waits *)
(* in MinetGetNextEvent for the first FIFO with something to read, in the  *)
(* order in which it opened them, receives one object, and sends zero, one *)
(* or two objects on other FIFOs.  A FIFO is a pipe of the kernel: a send  *)
(* into a full one blocks the process.  ip_module blocks a second way: for *)
(* every packet it sends it asks arp_module for the hardware address and   *)
(* reads nothing else until the answer is there.                           *)
(*                                                                         *)
(* Frames and packets are records; n numbers what enters the stack, so     *)
(* that what leaves it can be told apart.  The device driver (see          *)
(* DeviceDriver) and the socket module (see SockModule) are the two ends.  *)
(***************************************************************************)
EXTENDS Naturals, FiniteSets, Sequences

CONSTANTS
    Peers,      \* IP addresses of the other hosts of the network
    Own,        \* MyIPAddr
    Broadcast,  \* 255.255.255.255
    Foreign,    \* an IP address that is neither ours nor the broadcast address
    Hw,         \* hardware addresses of the other hosts
    OwnHw,      \* MyEthernetAddr
    Blank,      \* ETHERNET_BLANK_ADDR
    Frames,     \* the frames that may arrive, numbered 0
    Configs,    \* the modules above ip_mux that MINET_MODULES may name
    FifoSize,   \* objects a FIFO holds
    MaxFrames,  \* bound on the frames that arrive
    MaxWrites   \* bound on the datagrams applications send

ASSUME IpStackAssumption ==
    /\ FifoSize \in Nat \ {0} /\ MaxFrames \in Nat /\ MaxWrites \in Nat
    /\ \A c \in Configs : c \subseteq {"udp", "icmp", "ipother"}
    /\ {Own, Broadcast, Foreign} \cap Peers = {}
    /\ Own # Broadcast /\ Foreign \notin {Own, Broadcast}

Kinds == {"udp", "udp_unknown", "tcp", "icmp_echo", "icmp_reply", "icmp_error", "other"}
Faults == {"none", "checksum", "ttl", "fragment"}
Addresses == Peers \cup {Own, Broadcast, Foreign}

\* The other hosts send under addresses of their own: ARP packets, IP packets,
\* and frames of other types.
ASSUME FramesAssumption ==
    \A f \in Frames :
        \/ f \in [type : {"arp"}, op : {"request", "reply", "other"}, sip : Peers, shw : Hw,
                  tip : Addresses, n : {0}]
        \/ f \in [type : {"ip"},
                  packet : [kind : Kinds, src : Peers, dst : Addresses, fault : Faults,
                            n : {0}]]
        \/ f \in [type : {"unknown"}, n : {0}]

VARIABLES
    handled,  \* the modules above ip_mux that were started
    fifo,     \* the FIFOs: fifo[<<a, b>>] is what a sent to b and b has not read
    out,      \* out[m]: what m's current handler still has to send
    asking,   \* the packets (none or one) ip_module waits with for arp_module
    cache,    \* ARPCache of arp_module: a set of <<IP address, hardware address>>
    arrived,  \* history: the frames that came from the network, in order
    wire,     \* history: the frames the device driver wrote to the network
    number    \* the frames and datagrams that have entered: [frames, writes]

vars == <<handled, fifo, out, asking, cache, arrived, wire, number>>

\* The FIFOs each module reads, in the order it opened them (MyFifos).  ip_mux
\* opens one for tcp_module between those of udp_module and icmp_module:
\* tcp_module has a model of its own (TcpModule), and is not started here.
Opened ==
    [ethernet_mux |-> <<"dd", "arp", "ip", "other">>,
     arp     |-> <<"ethernet_mux", "ip">>,
     ip      |-> <<"ethernet_mux", "arp", "ip_mux">>,
     ip_mux  |-> <<"ip", "udp", "icmp", "ipother">>,
     udp     |-> <<"ip_mux">>,
     icmp    |-> <<"ip_mux">>,
     ipother |-> <<"ip_mux">>,
     other   |-> <<"ethernet_mux">>,
     dd      |-> <<"ethernet_mux">>]

Modules == DOMAIN Opened
Links == {l \in Modules \X Modules : \E i \in DOMAIN Opened[l[2]] : Opened[l[2]][i] = l[1]}

To(m, x) == [to |-> m, object |-> x]

Idle(m) == out[m] = <<>> /\ (m = "ip" => asking = {})

\* MinetGetNextEvent: the first FIFO of MyFifos that has something to read.
Event(m, from) ==
    /\ Idle(m)
    /\ \E i \in DOMAIN Opened[m] :
          /\ Opened[m][i] = from
          /\ fifo[<<from, m>>] # <<>>
          /\ \A j \in 1 .. i - 1 : fifo[<<Opened[m][j], m>>] = <<>>

\* The handler of m for what is first in the FIFO from `from`, and what it
\* sends: MinetReceive, then the sends in the order they are made.
Handle(m, from, sends) ==
    /\ fifo' = [fifo EXCEPT ![<<from, m>>] = Tail(@)]
    /\ out' = [out EXCEPT ![m] = sends]

\* MinetSend: the write to the pipe, once there is room.
MinetSend(m) ==
    /\ out[m] # <<>>
    /\ LET link == <<m, Head(out[m]).to>>
       IN  /\ Len(fifo[link]) < FifoSize
           /\ fifo' = [fifo EXCEPT ![link] = Append(@, Head(out[m]).object)]
    /\ out' = [out EXCEPT ![m] = Tail(@)]
    /\ UNCHANGED <<handled, asking, cache, arrived, wire, number>>

-----------------------------------------------------------------------------
(* The packets. *)

\* A message of the ICMP constructors for errors: from us to the sender of p.
ICMPError(p) == [kind |-> "icmp_error", src |-> Own, dst |-> p.src, fault |-> "none", n |-> p.n]

\* A slip: the addresses do not change places.
RespondUnswapped(p) == [p EXCEPT !.kind = "icmp_reply"]

\* ICMPPacket::respond for an echo or address mask request: the two addresses
\* change places.
Respond(p) == [p EXCEPT !.kind = "icmp_reply", !.src = p.dst, !.dst = p.src]

IpFrame(hw, p) == [type |-> "ip", dsthw |-> hw, packet |-> p]

ArpRequest(target) ==
    [type |-> "arp", op |-> "request", sip |-> Own, shw |-> OwnHw, tip |-> target, n |-> 0]
ArpReply(a) ==
    [type |-> "arp", op |-> "reply", sip |-> Own, shw |-> OwnHw, tip |-> a.sip, thw |-> a.shw, n |-> a.n]

-----------------------------------------------------------------------------
(* ethernet_mux *)

Destination(f) ==
    CASE f.type = "arp" -> "arp"
      [] f.type = "ip"  -> "ip"
      [] OTHER          -> "other"

ethernet_mux(from) ==
    /\ Event("ethernet_mux", from)
    /\ LET f == Head(fifo[<<from, "ethernet_mux">>])
       IN  Handle("ethernet_mux", from,
                  IF from = "dd" THEN <<To(Destination(f), f)>> ELSE <<To("dd", f)>>)
    /\ UNCHANGED <<handled, asking, cache, arrived, wire, number>>

-----------------------------------------------------------------------------
(* arp_module *)

Known(ip) == {hw \in Hw \cup {OwnHw} : <<ip, hw>> \in cache}

\* A slip: data.insert, which keeps the entry that is there.
UpdateInserts(ip, hw) == IF Known(ip) = {} THEN cache \cup {<<ip, hw>>} ELSE cache

\* ARPCache::Update: data[x.ipaddr] = x.
Update(ip, hw) == {e \in cache : e[1] # ip} \cup {<<ip, hw>>}

\* ARPCache::Lookup of a request made with a blank hardware address.
Lookup(ip) ==
    IF Known(ip) = {} THEN [ip |-> ip, hw |-> Blank, flag |-> "unknown"]
    ELSE [ip |-> ip, hw |-> CHOOSE hw \in Known(ip) : TRUE, flag |-> "ok"]

\* A slip: only what is known is answered.
ArpFromIpKnownOnly ==
    /\ Event("arp", "ip")
    /\ LET ip == Head(fifo[<<"ip", "arp">>])
           answer == Lookup(ip)
       IN  Handle("arp", "ip", IF answer.flag = "unknown" THEN <<To("ethernet_mux", ArpRequest(ip))>>
                               ELSE <<To("ip", answer)>>)
    /\ UNCHANGED <<handled, asking, cache, arrived, wire, number>>

\* A request of ip_module is answered at once; if the address is not known it
\* is asked for on the network, for the benefit of a later packet.
ArpFromIp ==
    /\ Event("arp", "ip")
    /\ LET ip == Head(fifo[<<"ip", "arp">>])
           answer == Lookup(ip)
       IN  Handle("arp", "ip",
                  IF answer.flag = "unknown"
                  THEN <<To("ip", answer), To("ethernet_mux", ArpRequest(ip))>>
                  ELSE <<To("ip", answer)>>)
    /\ UNCHANGED <<handled, asking, cache, arrived, wire, number>>

\* Whatever the network says about a sender is believed; a request for our own
\* address is answered to the sender.
ArpFromNetwork ==
    /\ Event("arp", "ethernet_mux")
    /\ LET a == Head(fifo[<<"ethernet_mux", "arp">>])
           ipToEthernet == a.op \in {"request", "reply"}
       IN  /\ cache' = IF ipToEthernet THEN Update(a.sip, a.shw) ELSE cache
           /\ Handle("arp", "ethernet_mux",
                     IF a.op = "request" /\ a.tip = Own
                     THEN <<To("ethernet_mux", ArpReply(a))>> ELSE <<>>)
    /\ UNCHANGED <<handled, asking, arrived, wire, number>>

-----------------------------------------------------------------------------
(* ip_module *)

\* A slip: a packet to everyone does not wait for the answer.
AskNotForBroadcast(from, p) ==
    /\ Handle("ip", from, <<To("arp", p.dst)>>
                          \o IF p.dst = Broadcast THEN <<To("ethernet_mux", IpFrame(Blank, p))>> ELSE <<>>)
    /\ asking' = IF p.dst = Broadcast THEN {} ELSE {p}

\* SendPacket, first half: the question to arp_module.
Ask(from, p) ==
    /\ Handle("ip", from, <<To("arp", p.dst)>>)
    /\ asking' = {p}

\* A slip: no `continue' after the error.
IpFromNetworkFallsThrough ==
    /\ Event("ip", "ethernet_mux")
    /\ LET p == Head(fifo[<<"ethernet_mux", "ip">>]).packet
       IN  \/ /\ p.dst \in {Own, Broadcast} /\ p.fault = "none"
              /\ Handle("ip", "ethernet_mux", <<To("ip_mux", p)>>)
              /\ asking' = {}
           \/ /\ p.dst \in {Own, Broadcast} /\ p.fault # "none"
              /\ Handle("ip", "ethernet_mux", <<To("arp", p.src), To("ip_mux", p)>>)
              /\ asking' = {ICMPError(p)}
           \/ /\ p.dst \notin {Own, Broadcast}
              /\ Handle("ip", "ethernet_mux", <<>>)
              /\ asking' = {}
    /\ UNCHANGED <<handled, cache, arrived, wire, number>>

\* From the network: what is for us goes up if nothing is wrong with it, and
\* brings its sender an ICMP error if something is.
IpFromNetwork ==
    /\ Event("ip", "ethernet_mux")
    /\ LET p == Head(fifo[<<"ethernet_mux", "ip">>]).packet
       IN  \/ /\ p.dst \in {Own, Broadcast} /\ p.fault = "none"
              /\ Handle("ip", "ethernet_mux", <<To("ip_mux", p)>>)
              /\ asking' = {}
           \/ /\ p.dst \in {Own, Broadcast} /\ p.fault # "none"
              /\ Ask("ethernet_mux", ICMPError(p))
           \/ /\ p.dst \notin {Own, Broadcast}
              /\ Handle("ip", "ethernet_mux", <<>>)
              /\ asking' = {}
    /\ UNCHANGED <<handled, cache, arrived, wire, number>>

IpFromMux ==
    /\ Event("ip", "ip_mux")
    /\ Ask("ip_mux", Head(fifo[<<"ip_mux", "ip">>]))
    /\ UNCHANGED <<handled, cache, arrived, wire, number>>

\* A slip: the flag of the question is tested, not that of the answer.
SendPacketNotBlank ==
    /\ out["ip"] = <<>> /\ asking # {} /\ fifo[<<"arp", "ip">>] # <<>>
    /\ LET p == CHOOSE q \in asking : TRUE
           resp == Head(fifo[<<"arp", "ip">>])
       IN  Handle("ip", "arp", IF p.dst = Broadcast THEN <<To("ethernet_mux", IpFrame(resp.hw, p))>> ELSE <<>>)
    /\ asking' = {}
    /\ UNCHANGED <<handled, cache, arrived, wire, number>>

\* A slip: sent whatever the answer is.
SendPacketAlways ==
    /\ out["ip"] = <<>> /\ asking # {} /\ fifo[<<"arp", "ip">>] # <<>>
    /\ LET p == CHOOSE q \in asking : TRUE
       IN  Handle("ip", "arp", <<To("ethernet_mux", IpFrame(Head(fifo[<<"arp", "ip">>]).hw, p))>>)
    /\ asking' = {}
    /\ UNCHANGED <<handled, cache, arrived, wire, number>>

\* SendPacket, second half: the answer.  The packet is sent to the address it
\* names; a packet to everyone is sent whatever the answer is; any other packet
\* is discarded.
SendPacket ==
    /\ out["ip"] = <<>> /\ asking # {} /\ fifo[<<"arp", "ip">>] # <<>>
    /\ LET p == CHOOSE q \in asking : TRUE
           resp == Head(fifo[<<"arp", "ip">>])
       IN  Handle("ip", "arp",
                  IF resp.hw # Blank \/ p.dst = Broadcast
                  THEN <<To("ethernet_mux", IpFrame(resp.hw, p))>> ELSE <<>>)
    /\ asking' = {}
    /\ UNCHANGED <<handled, cache, arrived, wire, number>>

-----------------------------------------------------------------------------
(* ip_mux, and the modules above it *)

Protocol(kind) ==
    CASE kind \in {"udp", "udp_unknown"} -> "udp"
      [] kind = "tcp" -> "tcp"
      [] kind \in {"icmp_echo", "icmp_reply", "icmp_error"} -> "icmp"
      [] OTHER -> "ipother"

\* A packet whose protocol has no module is dropped; only for a protocol that
\* is none of the three, its sender is told.
IpMuxFromIp ==
    /\ Event("ip_mux", "ip")
    /\ LET p == Head(fifo[<<"ip", "ip_mux">>])
           above == Protocol(p.kind)
       IN  Handle("ip_mux", "ip",
                  IF above \in handled THEN <<To(above, p)>>
                  ELSE IF above = "ipother" THEN <<To("ip", ICMPError(p))>>
                  ELSE <<>>)
    /\ UNCHANGED <<handled, asking, cache, arrived, wire, number>>

IpMuxFromAbove(m) ==
    /\ Event("ip_mux", m)
    /\ Handle("ip_mux", m, <<To("ip", Head(fifo[<<m, "ip_mux">>]))>>)
    /\ UNCHANGED <<handled, asking, cache, arrived, wire, number>>

\* udp_module: a datagram of a known connection goes to the socket module, the
\* sender of another is told that the port is unreachable.
UdpFromMux ==
    /\ Event("udp", "ip_mux")
    /\ LET p == Head(fifo[<<"ip_mux", "udp">>])
       IN  Handle("udp", "ip_mux",
                  IF p.kind = "udp_unknown" THEN <<To("ip_mux", ICMPError(p))>> ELSE <<>>)
    /\ UNCHANGED <<handled, asking, cache, arrived, wire, number>>

\* A WRITE of the socket module.  It is the last FIFO that udp_module opened.
UdpFromSock(dst) ==
    /\ Idle("udp") /\ fifo[<<"ip_mux", "udp">>] = <<>> /\ "udp" \in handled
    /\ number.writes < MaxWrites
    /\ number' = [number EXCEPT !.writes = @ + 1]
    /\ out' = [out EXCEPT !["udp"] = <<To("ip_mux",
                 [kind |-> "udp", src |-> Own, dst |-> dst, fault |-> "none",
                  n |-> MaxFrames + number.writes + 1])>>]
    /\ UNCHANGED <<handled, fifo, asking, cache, arrived, wire>>

\* icmp_module: requests are answered, everything else is written to the
\* socket module.
IcmpFromMux ==
    /\ Event("icmp", "ip_mux")
    /\ LET p == Head(fifo[<<"ip_mux", "icmp">>])
       IN  Handle("icmp", "ip_mux",
                  IF p.kind = "icmp_echo" THEN <<To("ip_mux", Respond(p))>> ELSE <<>>)
    /\ UNCHANGED <<handled, asking, cache, arrived, wire, number>>

\* other_module and ipother_module read and forget.
Swallow(m, from) ==
    /\ Event(m, from)
    /\ Handle(m, from, <<>>)
    /\ UNCHANGED <<handled, asking, cache, arrived, wire, number>>

other_module == Swallow("other", "ethernet_mux")
ipother_module == Swallow("ipother", "ip_mux")

-----------------------------------------------------------------------------
(* The two ends of the driver: a frame of the network, and a frame for it. *)

Number(f) ==
    LET k == number.frames + 1
    IN  IF f.type = "ip" THEN [f EXCEPT !.packet.n = k] ELSE [f EXCEPT !.n = k]

Arrive(f) ==
    /\ number.frames < MaxFrames
    /\ Len(fifo[<<"dd", "ethernet_mux">>]) < FifoSize
    /\ number' = [number EXCEPT !.frames = @ + 1]
    /\ fifo' = [fifo EXCEPT ![<<"dd", "ethernet_mux">>] = Append(@, Number(f))]
    /\ arrived' = Append(arrived, Number(f))
    /\ UNCHANGED <<handled, out, asking, cache, wire>>

Transmit ==
    /\ Event("dd", "ethernet_mux")
    /\ wire' = wire \cup {Head(fifo[<<"ethernet_mux", "dd">>])}
    /\ Handle("dd", "ethernet_mux", <<>>)
    /\ UNCHANGED <<handled, asking, cache, arrived, number>>

-----------------------------------------------------------------------------
Init ==
    /\ handled \in Configs
    /\ fifo = [l \in Links |-> <<>>]
    /\ out = [m \in Modules |-> <<>>]
    /\ asking = {}
    /\ cache = {<<Own, OwnHw>>}
    /\ arrived = <<>>
    /\ wire = {}
    /\ number = [frames |-> 0, writes |-> 0]

Step ==
    \/ \E m \in Modules : MinetSend(m)
    \/ \E from \in {"dd", "arp", "ip"} : ethernet_mux(from)
    \/ ArpFromIp \/ ArpFromNetwork
    \/ IpFromNetwork \/ IpFromMux \/ SendPacket
    \/ IpMuxFromIp \/ \E m \in {"udp", "icmp"} : IpMuxFromAbove(m)
    \/ UdpFromMux \/ IcmpFromMux
    \/ other_module \/ ipother_module
    \/ Transmit

Next ==
    \/ Step
    \/ \E f \in Frames : Arrive(f)
    \/ \E dst \in Peers \cup {Broadcast} : UdpFromSock(dst)

Spec == Init /\ [][Next]_vars

\* The scheduler of the kernel runs every process that is not blocked.
FairSpec ==
    /\ Spec
    /\ \A m \in Modules : WF_vars(MinetSend(m))
    /\ WF_vars(\E from \in {"dd", "arp", "ip"} : ethernet_mux(from))
    /\ WF_vars(ArpFromIp \/ ArpFromNetwork)
    /\ WF_vars(IpFromNetwork \/ IpFromMux \/ SendPacket)
    /\ WF_vars(IpMuxFromIp \/ \E m \in {"udp", "icmp"} : IpMuxFromAbove(m))
    /\ WF_vars(UdpFromMux) /\ WF_vars(IcmpFromMux)
    /\ WF_vars(other_module) /\ WF_vars(ipother_module)
    /\ WF_vars(Transmit)

-----------------------------------------------------------------------------
(* Properties *)

Packets(dsts) ==
    [kind : Kinds, src : Peers \cup {Own, Broadcast}, dst : dsts, fault : Faults,
     n : 1 .. MaxFrames + MaxWrites]

\* Every FIFO carries what its reader unserialises: frames below ip_module,
\* packets above it, questions and answers between it and arp_module; what goes
\* down has a source address of this host and what goes up is for it.
TypeOK ==
    /\ \A l \in Links : Len(fifo[l]) \in 0 .. FifoSize
    /\ \A i \in DOMAIN fifo[<<"ip", "arp">>] : fifo[<<"ip", "arp">>][i] \in Peers \cup {Broadcast}
    /\ \A i \in DOMAIN fifo[<<"arp", "ip">>] :
          fifo[<<"arp", "ip">>][i] \in [ip : Peers \cup {Broadcast}, hw : Hw \cup {Blank},
                                       flag : {"ok", "unknown"}]
    /\ \A i \in DOMAIN fifo[<<"ip", "ip_mux">>] :
          /\ fifo[<<"ip", "ip_mux">>][i] \in Packets({Own, Broadcast})
          /\ fifo[<<"ip", "ip_mux">>][i].src \in Peers
    /\ \A i \in DOMAIN fifo[<<"ip_mux", "ip">>] :
          /\ fifo[<<"ip_mux", "ip">>][i] \in Packets(Peers \cup {Broadcast})
          /\ fifo[<<"ip_mux", "ip">>][i].src \in {Own, Broadcast}
    /\ Cardinality(asking) =< 1
    /\ \A p \in asking : p \in Packets(Peers \cup {Broadcast})
    /\ cache \subseteq (Peers \cup {Own}) \X (Hw \cup {OwnHw})
    /\ \A m \in Modules : Len(out[m]) \in 0 .. 2

\* ip_module and arp_module keep step: an answer lies in the FIFO only while
\* ip_module waits for one, and it is about the packet that ip_module waits with.
\* A question too many, or an answer read too few, would shift every later
\* packet to the hardware address of another host.
AnswerIsForQuestion ==
    /\ Len(fifo[<<"ip", "arp">>]) + Len(fifo[<<"arp", "ip">>]) =< Cardinality(asking)
    /\ \A p \in asking : \A i \in DOMAIN fifo[<<"arp", "ip">>] : fifo[<<"arp", "ip">>][i].ip = p.dst

Announces(f, ip) == f.type = "arp" /\ f.op \in {"request", "reply"} /\ f.sip = ip

\* A packet for another host leaves in a frame to a hardware address which that
\* host, and no other, announced.
SentToAnnounced ==
    \A f \in wire : f.type = "ip" /\ f.packet.dst \in Peers =>
        \E i \in DOMAIN arrived : Announces(arrived[i], f.packet.dst) /\ arrived[i].shw = f.dsthw

Quiet ==
    /\ \A l \in Links : fifo[l] = <<>>
    /\ \A m \in Modules : Idle(m)

\* The last announcement of a host is the i-th frame that arrived.
LastAnnounced(ip, i) ==
    /\ i \in DOMAIN arrived /\ Announces(arrived[i], ip)
    /\ \A j \in DOMAIN arrived : j > i => ~ Announces(arrived[j], ip)

\* When nothing is on its way, arp_module knows for each host that announced
\* itself the address it announced last.
CacheIsCurrent ==
    Quiet => \A ip \in Peers : \A i \in DOMAIN arrived :
        LastAnnounced(ip, i) => Known(ip) = {arrived[i].shw}

\* What arrives brings at most one packet in answer: an error or a reply, and
\* never both.
AtMostOneAnswer ==
    \A f, g \in wire : f.type = "ip" /\ g.type = "ip" /\ f.packet.n = g.packet.n => f = g

\* A datagram of an application is discarded only for a host that had not
\* announced itself when ip_module asked: any other one reaches the network,
\* whatever the modules around it do meanwhile.
KnownIsSent ==
    \A n \in MaxFrames + 1 .. MaxFrames + MaxWrites :
        (\E p \in asking : p.n = n /\ Known(p.dst) # {} /\ fifo[<<"ip", "arp">>] # <<>>)
            ~> (\E f \in wire : f.type = "ip" /\ f.packet.n = n)

\* The stack comes to rest: the modules never all wait for each other, as long
\* as fewer than 2 * FifoSize + 2 objects are on their way.
Drains == []<>Quiet
=============================================================================
