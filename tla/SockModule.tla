----------------------------- MODULE SockModule -----------------------------
(***************************************************************************)
(* sock_module.cc with its tables (sock_mod_structs), the UDP and the TCP  *)
(* module under it, and the socket library of one application over it.     *)
(*                                                                         *)
(* The application waits in every call of the library for one answer.  The *)
(* socket module forwards some calls as requests, which wait in tcpq and   *)
(* udpq for a STATUS: an answer names no request, the n-th STATUS is taken *)
(* for the n-th request.  UDP answers every request, TCP only some, and it *)
(* also sends a STATUS that no request asked for.                          *)
(*                                                                         *)
(* Of TCP, this is what the socket module sees: the list of connections,   *)
(* and a network that may bring any segment from any peer at any moment.   *)
(* Sequence numbers and retransmission are in TcpModule.                   *)
(*                                                                         *)
(* An address and its port are one value of Peers, or "any".  Data is      *)
(* counted in units: every WRITE from below carries one, and a bin holds   *)
(* BinSize.  Every socket stays blocking: nothing calls SetBlockingStatus. *)
(***************************************************************************)
EXTENDS Naturals, Sequences, FiniteSets

CONSTANTS
  NumSocks,    \* NUM_SOCKS: sockets are 1 .. NumSocks - 1
  NumPorts,    \* NUM_PORTS
  BinSize,     \* BIN_SIZE
  Peers,       \* remote endpoints
  AppProtocols, \* the protocols of the sockets that the application makes
  Calls,       \* types of the calls that the application makes
  LongWrites,  \* it may write more than TCP_BUFFER_SIZE at once
  MaxCalls,    \* bound on the calls of the application
  MaxRequests, \* bound on the requests without STATUS, when a call is made,
               \* and on the STATUS whose cause is no request
  MaxWrites    \* bound on the WRITEs of TCP or UDP whose answer is not read

ASSUME SocksAssumption == NumSocks \in Nat \ {0, 1} /\ NumPorts \in Nat \ {0, 1} /\ BinSize \in Nat
ASSUME PeersAssumption == "any" \notin Peers
ASSUME AppAssumption == AppProtocols \subseteq {"tcp", "udp"} /\ LongWrites \in BOOLEAN
ASSUME BoundAssumption == MaxCalls \in Nat /\ MaxRequests \in Nat /\ MaxWrites \in Nat

Socks == 1 .. NumSocks - 1
PortNumbers == 0 .. NumPorts - 1
PORT_NONE == 0
Protocols == {"none", "tcp", "udp", "icmp"}

Connections == [src : {"any", "me"}, srcport : PortNumbers, dest : Peers \cup {"any"}, protocol : Protocols]
NoConnection == [src |-> "any", srcport |-> PORT_NONE, dest |-> "any", protocol |-> "none"]

VARIABLES
  socks,    \* SockStatus: the socket records
  ports,    \* PortStatus: the socket that took a port first, 0 for none
  call,     \* the call of the library in which the application waits
  asked,    \* its message is in the FIFO to the socket module
  answers,  \* messages to the application
  calls,    \* number of calls made
  tcpq, toTcp, fromTcp,  \* requests without STATUS; the FIFOs to and from TCP
  udpq, toUdp, fromUdp,
  tcp,      \* the connection list of the TCP module
  clist,    \* the forwards of the UDP module
  alive     \* the socket module has not crashed

appVars == <<call, asked, answers, calls>>
tcpVars == <<tcpq, toTcp, fromTcp, tcp>>
udpVars == <<udpq, toUdp, fromUdp, clist>>
vars == <<socks, ports, appVars, tcpVars, udpVars, alive>>

(* A message between the socket module and a module below it. *)
Srr(type, c, error) == [type |-> type, connection |-> c, error |-> error]
Idle == [type |-> "none", sock |-> 0]

-----------------------------------------------------------------------------
(* SockStatus and PortStatus; 0 stands for the -1 of "not found". *)
SockRecord == [status |-> "FREE", connection |-> NoConnection, bin |-> 0, app |-> FALSE]

First(S) == IF S = {} THEN 0 ELSE CHOOSE k \in S : \A j \in S : k <= j
FindFreeSock == First({k \in Socks : socks[k].status = "FREE"})

(* An ACCEPT_PENDING socket takes what comes from any peer to its port. *)
Takes(k, c) ==
  \/ socks[k].connection = c
  \/ (socks[k].status = "ACCEPT_PENDING" /\ socks[k].connection = [c EXCEPT !.dest = "any"])
FindConnection(c) == First({k \in Socks : Takes(k, c)})

FreePorts == {p \in PortNumbers \ {PORT_NONE} : ports[p] = 0}

(* ResolveSrcPort.  The only interface in the table is IP_ADDRESS_ANY. *)
ResolveSrcPort(src, port) ==
  IF src # "any" THEN 0
  ELSE IF port = PORT_NONE THEN First(FreePorts)
  ELSE IF port \in FreePorts THEN port ELSE 0

SetStatus(k, status) == socks' = [socks EXCEPT ![k].status = status]

(* Fault: the socket keeps its FIFO to the application. *)
CloseSocketKeepsApp(k) == socks' = [socks EXCEPT ![k] = [SockRecord EXCEPT !.app = socks[k].app]]

CloseSocket(k) == socks' = [socks EXCEPT ![k] = SockRecord]

-----------------------------------------------------------------------------
(* minet_socket.cc: every call sends one message and waits for its answer. *)
MinetSend(request) ==
  /\ call = Idle
  /\ call' = request /\ asked' = TRUE
  /\ UNCHANGED answers
Call(type, k) == MinetSend([type |-> type, sock |-> k])

minet_socket(protocol) == MinetSend([type |-> "mSOCKET", sock |-> 0, protocol |-> protocol])
minet_bind(k, src, port) == MinetSend([type |-> "mBIND", sock |-> k, src |-> src, port |-> port])
minet_listen(k) == Call("mLISTEN", k)
minet_accept(k) == Call("mACCEPT", k)
minet_connect(k, peer) == MinetSend([type |-> "mCONNECT", sock |-> k, dest |-> peer])
minet_read(k) == Call("mREAD", k)
minet_write(k) == Call("mWRITE", k)
minet_close(k) == Call("mCLOSE", k)

(* Calls that the socket module answers without looking at them. *)
minet_recvfrom(k) == Call("mRECVFROM", k)
minet_sendto(k) == Call("mSENDTO", k)
minet_set_nonblocking(k) == Call("mSET_NONBLOCKING", k)
minet_set_blocking(k) == Call("mSET_BLOCKING", k)
minet_can_write_now(k) == Call("mCAN_WRITE_NOW", k)
minet_can_read_now(k) == Call("mCAN_READ_NOW", k)
Stubs == {"mRECVFROM", "mSENDTO", "mSET_NONBLOCKING", "mSET_BLOCKING", "mCAN_WRITE_NOW", "mCAN_READ_NOW"}

(* The call returns. *)
MinetReceive ==
  /\ answers # <<>>
  /\ answers' = Tail(answers) /\ call' = Idle
  /\ UNCHANGED <<asked, calls>>

AppReturns == MinetReceive /\ UNCHANGED <<socks, ports, tcpVars, udpVars>>

-----------------------------------------------------------------------------
(* ProcessAppRequest, by the type of the message. *)
Take(type) == asked /\ call.type = type /\ asked' = FALSE /\ UNCHANGED <<call, calls>>

(* The field "of" is no part of the message: it says what the code answers. *)
Message(of, k, error) == answers' = Append(answers, [of |-> of, sock |-> k, error |-> error])
Answer(k, error) == Message(call.type, k, error)

SendTCPRequest(type, c, k) ==
  /\ toTcp' = Append(toTcp, Srr(type, c, "EOK"))
  /\ tcpq' = Append(tcpq, [type |-> type, sock |-> k])
  /\ UNCHANGED <<fromTcp, tcp>>

(* Fault: a CLOSE, whose STATUS changes nothing, is not queued. *)
SendUDPRequestCloseUnqueued(type, c, k) ==
  /\ toUdp' = Append(toUdp, Srr(type, c, "EOK"))
  /\ udpq' = IF type = "CLOSE" THEN udpq ELSE Append(udpq, [type |-> type, sock |-> k])
  /\ UNCHANGED <<fromUdp, clist>>
SendUDPRequest(type, c, k) ==
  /\ toUdp' = Append(toUdp, Srr(type, c, "EOK"))
  /\ udpq' = Append(udpq, [type |-> type, sock |-> k])
  /\ UNCHANGED <<fromUdp, clist>>

(* By protocol, to UDP or to TCP. *)
SendRequest(type, c, k) ==
  \/ c.protocol = "udp" /\ SendUDPRequest(type, c, k) /\ UNCHANGED tcpVars
  \/ c.protocol = "tcp" /\ SendTCPRequest(type, c, k) /\ UNCHANGED udpVars

Allowed(type, k) ==
  LET status == socks[k].status IN
  /\ socks[k].app
  /\ \/ type = "mBIND" /\ status = "UNBOUND"
     \/ type = "mLISTEN" /\ status = "BOUND"
     \/ type = "mACCEPT" /\ status = "LISTENING"
     \/ type = "mCONNECT" /\ status \in {"UNBOUND", "BOUND"}
     \/ type = "mREAD" /\ (status = "CONNECTED" \/ (status = "BOUND" /\ socks[k].connection.protocol = "udp"))
     \/ type = "mWRITE" /\ status = "CONNECTED"
     \/ type = "mCLOSE"

Refuse(type) ==
  /\ Take(type)
  /\ ~Allowed(type, call.sock)
  /\ Answer(call.sock, "EINVALID_OP")
  /\ UNCHANGED <<socks, ports, tcpVars, udpVars>>

Socket ==
  LET k == FindFreeSock IN
  /\ Take("mSOCKET")
  /\ \/ /\ k # 0
        /\ socks' = [socks EXCEPT ![k].status = "UNBOUND", ![k].app = TRUE, ![k].connection.protocol = call.protocol]
        /\ Answer(k, "EOK")
     \/ k = 0 /\ Answer(0, "ERESOURCE_UNAVAIL") /\ UNCHANGED socks
  /\ UNCHANGED <<ports, tcpVars, udpVars>>

NoPort(src, port) ==
  /\ ResolveSrcPort(src, port) = 0
  /\ Answer(call.sock, "ERESOURCE_UNAVAIL")
  /\ UNCHANGED <<socks, ports, tcpVars, udpVars>>

(* A UDP socket stays UNBOUND until UDP has taken its FORWARD. *)
Bind ==
  LET k == call.sock
      p == ResolveSrcPort(call.src, call.port)
      c == [socks[k].connection EXCEPT !.src = "me", !.srcport = p]
  IN  /\ Take("mBIND") /\ Allowed("mBIND", k)
      /\ \/ NoPort(call.src, call.port)
         \/ /\ p # 0
            /\ ports' = [ports EXCEPT ![p] = k]
            /\ \/ /\ c.protocol = "udp"
                  /\ socks' = [socks EXCEPT ![k].connection = c]
                  /\ SendUDPRequest("FORWARD", c, k)
                  /\ UNCHANGED <<tcpVars, answers>>
               \/ /\ c.protocol = "tcp"
                  /\ socks' = [socks EXCEPT ![k].connection = c, ![k].status = "BOUND"]
                  /\ Answer(k, "EOK")
                  /\ UNCHANGED <<tcpVars, udpVars>>

Listen ==
  LET k == call.sock IN
  /\ Take("mLISTEN") /\ Allowed("mLISTEN", k)
  /\ \/ /\ socks[k].connection.protocol = "udp"
        /\ Answer(0, "ENOT_SUPPORTED")
        /\ UNCHANGED socks
     \/ /\ socks[k].connection.protocol = "tcp"
        /\ socks' = [socks EXCEPT ![k].connection.dest = "any", ![k].status = "LISTENING"]
        /\ Answer(k, "EOK")
  /\ UNCHANGED <<ports, tcpVars, udpVars>>

Accept ==
  LET k == call.sock IN
  /\ Take("mACCEPT") /\ Allowed("mACCEPT", k)
  /\ SendTCPRequest("ACCEPT", socks[k].connection, k)
  /\ SetStatus(k, "ACCEPT_PENDING")
  /\ UNCHANGED <<answers, ports, udpVars>>

(* A UDP socket is CONNECTED at once, a TCP socket when TCP says so. *)
Connect ==
  LET k == call.sock
      unbound == socks[k].status = "UNBOUND"
      p == IF unbound THEN ResolveSrcPort("any", PORT_NONE) ELSE socks[k].connection.srcport
      c == [socks[k].connection EXCEPT !.src = "me", !.srcport = p, !.dest = call.dest]
      status == IF c.protocol = "udp" THEN "CONNECTED" ELSE "CONNECT_PENDING"
      type == IF c.protocol = "udp" THEN "FORWARD" ELSE "CONNECT"
  IN  /\ Take("mCONNECT") /\ Allowed("mCONNECT", k)
      /\ \/ unbound /\ NoPort("any", PORT_NONE)
         \/ /\ p # 0
            /\ ports' = IF unbound THEN [ports EXCEPT ![p] = k] ELSE ports
            /\ SendRequest(type, c, k)
            /\ socks' = [socks EXCEPT ![k].connection = c, ![k].status = status]
            /\ UNCHANGED answers

(* What is read stays in the bin. *)
Read ==
  LET k == call.sock IN
  /\ Take("mREAD") /\ Allowed("mREAD", k)
  /\ \/ socks[k].bin > 0 /\ Answer(k, "EOK") /\ UNCHANGED socks
     \/ socks[k].bin = 0 /\ SetStatus(k, "READ_PENDING") /\ UNCHANGED answers
  /\ UNCHANGED <<ports, tcpVars, udpVars>>

Write ==
  LET k == call.sock IN
  /\ Take("mWRITE") /\ Allowed("mWRITE", k)
  /\ SendRequest("WRITE", socks[k].connection, k)
  /\ SetStatus(k, "WRITE_PENDING")
  /\ UNCHANGED <<answers, ports>>

(* The application is answered before the module below; the port is kept. *)
Close ==
  LET k == call.sock IN
  /\ Take("mCLOSE") /\ Allowed("mCLOSE", k)
  /\ SendRequest("CLOSE", socks[k].connection, k)
  /\ CloseSocket(k)
  /\ Answer(k, "EOK")
  /\ UNCHANGED ports

Stub ==
  /\ \E type \in Stubs : Take(type)
  /\ Answer(call.sock, "EOK")
  /\ UNCHANGED <<socks, ports, tcpVars, udpVars>>

ProcessAppRequest ==
  \/ \E type \in {"mBIND", "mLISTEN", "mACCEPT", "mCONNECT", "mREAD", "mWRITE", "mCLOSE"} : Refuse(type)
  \/ Socket \/ Bind \/ Listen \/ Accept \/ Connect \/ Read \/ Write \/ Close \/ Stub

(* Of the first n messages those that are STATUS, or those that are not. *)
OfTypeUpto(messages, isStatus) ==
  LET upto[n \in 0 .. Len(messages)] ==
        IF n = 0 THEN <<>>
        ELSE IF (messages[n].type = "STATUS") = isStatus THEN Append(upto[n - 1], messages[n])
        ELSE upto[n - 1]
  IN  upto
OfType(messages, isStatus) == OfTypeUpto(messages, isStatus)[Len(messages)]
Unread(up, down) == Len(OfType(up, FALSE)) + Len(OfType(down, TRUE))

-----------------------------------------------------------------------------
(* Messages from TCP, UDP and ICMP: the STATUS that a WRITE gets goes back  *)
(* to the module it came from.                                              *)
Reply(below, m, error) ==
  LET status == Srr("STATUS", m.connection, error) IN
  \/ below = "tcp" /\ toTcp' = Append(toTcp, status)
  \/ below = "udp" /\ toUdp' = Append(toUdp, status)
  \/ below = "icmp"

(* Data of m for socket k, and what is replied: it goes to the bin, or to   *)
(* the application if it reads; in any other state it is refused.           *)
Store(k) == socks[k].status = "CONNECTED" /\ socks[k].bin < BinSize

(* Fault: data goes to the bin of a socket that is read, and the reader is  *)
(* not told.                                                                *)
DataToBin(below, m, k) ==
  \/ /\ Store(k) \/ socks[k].status = "READ_PENDING"
     /\ socks' = [socks EXCEPT ![k].bin = BinSize, ![k].status = "CONNECTED"]
     /\ Reply(below, m, "EOK") /\ UNCHANGED answers
  \/ /\ ~Store(k) /\ socks[k].status # "READ_PENDING"
     /\ Reply(below, m, IF socks[k].status = "CONNECTED" THEN "EBUF_SPACE" ELSE "EINVALID_OP")
     /\ UNCHANGED <<socks, answers>>

Data(below, m, k) ==
  \/ Store(k) /\ socks' = [socks EXCEPT ![k].bin = @ + 1] /\ Reply(below, m, "EOK") /\ UNCHANGED answers
  \/ /\ socks[k].status = "READ_PENDING"
     /\ Message("mREAD", k, m.error)
     /\ SetStatus(k, "CONNECTED")
     /\ Reply(below, m, "EOK")
  \/ /\ ~Store(k) /\ socks[k].status # "READ_PENDING"
     /\ Reply(below, m, IF socks[k].status = "CONNECTED" THEN "EBUF_SPACE" ELSE "EINVALID_OP")
     /\ UNCHANGED <<socks, answers>>

NoMatch(below, m) ==
  FindConnection(m.connection) = 0 /\ Reply(below, m, "ENOMATCH") /\ UNCHANGED <<socks, answers>>

(* HandleTCPWrite, ACCEPT_PENDING: the connection gets a socket of its own. *)
Accepted(m, k) ==
  LET free == FindFreeSock
      back == [socks EXCEPT ![k].status = "LISTENING"]
  IN  /\ socks[k].status = "ACCEPT_PENDING"
      /\ \/ m.error # "EOK" /\ socks' = back /\ Message("mACCEPT", k, m.error) /\ Reply("tcp", m, "EOK")
         \/ /\ m.error = "EOK" /\ free # 0
            /\ socks' = [back EXCEPT ![free] = [SockRecord EXCEPT !.status = "CONNECTED",
                                                  !.connection = m.connection, !.app = TRUE]]
            /\ Message("mACCEPT", free, "EOK")
            /\ Reply("tcp", m, "EOK")
         \/ /\ m.error = "EOK" /\ free = 0
            /\ socks' = back
            /\ Reply("tcp", m, "ERESOURCE_UNAVAIL")
            /\ UNCHANGED answers

Connected(m, k) ==
  /\ socks[k].status = "CONNECT_PENDING"
  /\ \/ m.error # "EOK" /\ CloseSocket(k)
     \/ m.error = "EOK" /\ socks' = [socks EXCEPT ![k].connection = m.connection, ![k].status = "CONNECTED"]
  /\ Message("mCONNECT", k, m.error)
  /\ Reply("tcp", m, "EOK")

HandleTCPWrite ==
  LET m == Head(fromTcp)
      k == FindConnection(m.connection)
  IN  /\ fromTcp # <<>> /\ m.type = "WRITE"
      /\ fromTcp' = Tail(fromTcp)
      /\ \/ NoMatch("tcp", m)
         \/ k # 0 /\ (Accepted(m, k) \/ Connected(m, k))
         \/ k # 0 /\ socks[k].status \notin {"ACCEPT_PENDING", "CONNECT_PENDING"} /\ Data("tcp", m, k)
      /\ UNCHANGED <<ports, call, asked, calls, tcpq, tcp, udpVars>>

(* Fault: the STATUS of a CONNECT answers the application, although the     *)
(* WRITE that follows does.                                                 *)
HandleTCPStatusConnects ==
  LET m == Head(fromTcp)
      r == Head(tcpq)
  IN  /\ fromTcp # <<>> /\ m.type = "STATUS" /\ tcpq # <<>>
      /\ fromTcp' = Tail(fromTcp)
      /\ tcpq' = Tail(tcpq)
      /\ \/ r.type = "CONNECT" /\ Message("mCONNECT", r.sock, m.error) /\ UNCHANGED socks
         \/ r.type # "CONNECT" /\ UNCHANGED <<socks, answers>>
      /\ UNCHANGED <<ports, call, asked, calls, toTcp, tcp, udpVars>>

(* The STATUS is taken for the oldest request, whatever it answers.  After  *)
(* a CLOSE nothing is done, whether or not it was refused.                  *)
HandleTCPStatus ==
  LET m == Head(fromTcp)
      r == Head(tcpq)
  IN  /\ fromTcp # <<>> /\ m.type = "STATUS" /\ tcpq # <<>>
      /\ fromTcp' = Tail(fromTcp)
      /\ tcpq' = Tail(tcpq)
      /\ \/ r.type = "CONNECT" /\ m.error # "EOK" /\ Message("mCONNECT", r.sock, m.error) /\ CloseSocket(r.sock)
         \/ r.type = "ACCEPT" /\ m.error # "EOK" /\ Message("mACCEPT", r.sock, m.error) /\ SetStatus(r.sock, "LISTENING")
         \/ r.type = "WRITE" /\ Message("mWRITE", r.sock, m.error) /\ SetStatus(r.sock, "CONNECTED")
         \/ (r.type = "CLOSE" \/ (r.type \in {"CONNECT", "ACCEPT"} /\ m.error = "EOK")) /\ UNCHANGED <<socks, answers>>
      /\ UNCHANGED <<ports, call, asked, calls, toTcp, tcp, udpVars>>

HandleUDPWrite ==
  LET m == Head(fromUdp)
      k == FindConnection(m.connection)
  IN  /\ fromUdp # <<>> /\ m.type = "WRITE"
      /\ fromUdp' = Tail(fromUdp)
      /\ (NoMatch("udp", m) \/ (k # 0 /\ Data("udp", m, k)))
      /\ UNCHANGED <<ports, call, asked, calls, udpq, clist, tcpVars>>

HandleUDPStatus ==
  LET m == Head(fromUdp)
      r == Head(udpq)
      status == IF socks[r.sock].connection.dest = "any" THEN "BOUND" ELSE "CONNECTED"
      of == IF r.type = "WRITE" THEN "mWRITE" ELSE IF status = "BOUND" THEN "mBIND" ELSE "mCONNECT"
  IN  /\ fromUdp # <<>> /\ m.type = "STATUS" /\ udpq # <<>>
      /\ fromUdp' = Tail(fromUdp)
      /\ udpq' = Tail(udpq)
      /\ \/ /\ r.type = "FORWARD" /\ m.error # "EOK"
            /\ Message(of, r.sock, m.error) /\ CloseSocket(r.sock)
         \/ /\ r.type = "WRITE" \/ (r.type = "FORWARD" /\ m.error = "EOK")
            /\ Message(of, r.sock, m.error) /\ SetStatus(r.sock, status)
         \/ r.type = "CLOSE" /\ UNCHANGED <<socks, answers>>
      /\ UNCHANGED <<ports, call, asked, calls, toUdp, clist, tcpVars>>

(* ProcessICMPMessage: what the ICMP module passes on names no port, so no  *)
(* socket has its connection; the message is printed and answered, and the  *)
(* ICMP module ignores the answer.  icmpq stays empty.                      *)
HandleICMPWrite(peer) ==
  /\ NoMatch("icmp", Srr("WRITE", [NoConnection EXCEPT !.src = "me", !.dest = peer, !.protocol = "icmp"], "EOK"))
  /\ UNCHANGED <<ports, call, asked, calls, tcpVars, udpVars>>

SockStep ==
  \/ ProcessAppRequest
  \/ HandleTCPWrite \/ HandleTCPStatus
  \/ HandleUDPWrite \/ HandleUDPStatus

-----------------------------------------------------------------------------
(* udp_module.cc *)
(* Fault: every port matches. *)
MatchesSourceAny(c, d) == TRUE

MatchesSource(c, d) == c.srcport = PORT_NONE \/ d.srcport = PORT_NONE \/ c.srcport = d.srcport
MatchesDest(c, d) == c.dest = "any" \/ d.dest = "any" \/ c.dest = d.dest
Matches(c, d) == MatchesSource(c, d) /\ MatchesDest(c, d) /\ c.protocol = d.protocol

FindMatching(c) == First({i \in DOMAIN clist : Matches(clist[i], c)})
Erase(list, i) == SubSeq(list, 1, i - 1) \o SubSeq(list, i + 1, Len(list))
Without(c) == LET i == FindMatching(c) IN IF i = 0 THEN clist ELSE Erase(clist, i)

UdpReply(c, error) == fromUdp' = Append(fromUdp, Srr("STATUS", c, error))

(* Fault: a WRITE gets no STATUS. *)
UdpRequestSilent ==
  LET m == Head(toUdp)
      c == m.connection
  IN  /\ toUdp # <<>>
      /\ toUdp' = Tail(toUdp)
      /\ \/ m.type \in {"STATUS", "WRITE"} /\ UNCHANGED <<clist, fromUdp>>
         \/ m.type = "FORWARD" /\ clist' = Append(Without(c), c) /\ UdpReply(c, "EOK")
         \/ m.type = "CLOSE" /\ clist' = Without(c) /\ UdpReply(c, IF FindMatching(c) = 0 THEN "ENOMATCH" ELSE "EOK")
      /\ UNCHANGED <<socks, ports, udpq, appVars, tcpVars>>

(* A WRITE goes to the multiplexer as a packet; the socket module's STATUS  *)
(* is dropped; CONNECT and ACCEPT are never sent to UDP.                    *)
UdpRequest ==
  LET m == Head(toUdp)
      c == m.connection
  IN  /\ toUdp # <<>>
      /\ toUdp' = Tail(toUdp)
      /\ \/ m.type = "STATUS" /\ UNCHANGED <<clist, fromUdp>>
         \/ m.type = "WRITE" /\ UdpReply(c, "EOK") /\ UNCHANGED clist
         \/ m.type = "FORWARD" /\ clist' = Append(Without(c), c) /\ UdpReply(c, "EOK")
         \/ m.type = "CLOSE" /\ clist' = Without(c) /\ UdpReply(c, IF FindMatching(c) = 0 THEN "ENOMATCH" ELSE "EOK")
      /\ UNCHANGED <<socks, ports, udpq, appVars, tcpVars>>

(* A datagram from the multiplexer; the one that matches no forward is      *)
(* answered with an ICMP error.  It goes up with the connection of the      *)
(* forward, not its own.                                                    *)
UdpDatagram(port, peer) ==
  LET i == FindMatching([src |-> "me", srcport |-> port, dest |-> peer, protocol |-> "udp"])
  IN  /\ i # 0 /\ Unread(fromUdp, toUdp) < MaxWrites
      /\ fromUdp' = Append(fromUdp, Srr("WRITE", clist[i], "EOK"))
      /\ UNCHANGED <<socks, ports, udpq, toUdp, clist, appVars, tcpVars>>

-----------------------------------------------------------------------------
(* tcp_module.cc.  The list is searched as UDP's is.                        *)
TcpEntry(c, st) == [connection |-> c, st |-> st, tmr |-> FALSE]
TcpMatching(c) == First({i \in DOMAIN tcp : Matches(tcp[i].connection, c)})
TcpGoesTo(i, st) == tcp' = [tcp EXCEPT ![i].st = st]

TcpStatus(c, error) == fromTcp' = Append(fromTcp, Srr("STATUS", c, error))
TcpWrite(c) == fromTcp' = Append(fromTcp, Srr("WRITE", c, "EOK"))

(* handle_sock, without a matching connection.  The STATUS of a refused     *)
(* request has the default connection.                                      *)
TcpOpens(m) ==
  \/ m.type = "CONNECT" /\ tcp' = Append(tcp, TcpEntry(m.connection, "SYN_SENT")) /\ TcpStatus(m.connection, "EOK")
  \/ m.type = "ACCEPT" /\ tcp' = Append(tcp, TcpEntry(m.connection, "LISTEN")) /\ UNCHANGED fromTcp
  \/ m.type = "WRITE" /\ TcpStatus(NoConnection, "EUNKNOWN") /\ UNCHANGED tcp
  \/ m.type = "CLOSE" /\ TcpStatus(NoConnection, "ENOMATCH") /\ UNCHANGED tcp
  \/ m.type = "STATUS" /\ UNCHANGED <<fromTcp, tcp>>

(* handle_sock, for the connection at place i, by its state.  Whatever is   *)
(* sent to a connection that listens makes it connect.                      *)
TcpHandles(m, i) ==
  LET st == tcp[i].st IN
  \/ st = "LISTEN" /\ TcpGoesTo(i, "SYN_SENT") /\ UNCHANGED fromTcp
  \/ st \in {"SYN_RCVD", "ESTABLISHED"} /\ m.type = "CLOSE" /\ TcpGoesTo(i, "FIN_WAIT1") /\ UNCHANGED fromTcp
  \/ st = "SYN_SENT" /\ m.type = "CLOSE" /\ tcp' = Erase(tcp, i) /\ UNCHANGED fromTcp
  \/ st = "CLOSING" /\ m.type = "CLOSE" /\ tcp' = Erase(tcp, i) /\ TcpStatus(m.connection, "EOK")
  \/ /\ st = "ESTABLISHED" /\ m.type = "WRITE"
     /\ TcpStatus(m.connection, "EOK") \/ (LongWrites /\ TcpStatus(m.connection, "EBUF_SPACE"))
     /\ UNCHANGED tcp

TcpIgnores(m, i) ==
  LET st == tcp[i].st IN
  /\ st # "LISTEN"
  /\ m.type = "CLOSE" => st \in {"FIN_WAIT1", "LAST_ACK"}
  /\ m.type = "WRITE" => st # "ESTABLISHED"
  /\ UNCHANGED <<fromTcp, tcp>>

TcpRequest ==
  LET m == Head(toTcp)
      i == TcpMatching(m.connection)
  IN  /\ toTcp # <<>>
      /\ toTcp' = Tail(toTcp)
      /\ IF i = 0 THEN TcpOpens(m) ELSE TcpHandles(m, i) \/ TcpIgnores(m, i)
      /\ UNCHANGED <<socks, ports, tcpq, appVars, udpVars>>

(* handle_mux: a segment of any flags from a peer.  Data goes up with the   *)
(* connection of the list, which may have no peer.                          *)
TcpSegment(port, peer) ==
  LET c == [src |-> "me", srcport |-> port, dest |-> peer, protocol |-> "tcp"]
      i == TcpMatching(c)
      st == tcp[i].st
      mayWrite == Unread(fromTcp, toTcp) < MaxWrites
      mayStatus == Len(OfType(fromTcp, TRUE)) < MaxRequests
  IN  /\ i # 0
      /\ \/ /\ st = "LISTEN" /\ mayStatus         \* SYN
            /\ tcp' = [tcp EXCEPT ![i] = [connection |-> c, st |-> "SYN_RCVD", tmr |-> TRUE]]
            /\ TcpStatus(c, "EOK")
         \/ st = "SYN_RCVD" /\ mayWrite /\ TcpGoesTo(i, "ESTABLISHED") /\ TcpWrite(c)    \* ACK
         \/ st = "SYN_SENT" /\ mayWrite /\ TcpGoesTo(i, "ESTABLISHED") /\ TcpWrite(tcp[i].connection)  \* SYN, ACK
         \/ st = "SYN_SENT" /\ TcpGoesTo(i, "SYN_RCVD") /\ UNCHANGED fromTcp           \* SYN
         \/ st = "SYN_SENT" /\ mayStatus /\ tcp' = Erase(tcp, i) /\ TcpStatus(NoConnection, "EOK")  \* FIN, ACK
         \/ st = "ESTABLISHED" /\ mayWrite /\ TcpWrite(tcp[i].connection) /\ UNCHANGED tcp  \* PSH
         \/ st = "ESTABLISHED" /\ TcpGoesTo(i, "LAST_ACK") /\ UNCHANGED fromTcp         \* FIN
         \/ st = "LAST_ACK" /\ TcpGoesTo(i, "CLOSING") /\ UNCHANGED fromTcp            \* ACK
      /\ UNCHANGED <<socks, ports, tcpq, toTcp, appVars, udpVars>>

(* handle_timeout: no peer acknowledged the SYN of a connection that had    *)
(* listened.  It listens again, with the peer it has; nobody is told.       *)
TcpTimeout ==
  /\ \E i \in DOMAIN tcp :
       /\ tcp[i].st = "SYN_RCVD" /\ tcp[i].tmr
       /\ tcp' = [tcp EXCEPT ![i].st = "LISTEN", ![i].tmr = FALSE]
  /\ UNCHANGED <<socks, ports, tcpq, toTcp, fromTcp, appVars, udpVars>>

-----------------------------------------------------------------------------
(* An application that makes any call on any socket. *)
AnyCall ==
  \/ \E protocol \in AppProtocols : minet_socket(protocol)
  \/ \E k \in Socks :
       \/ \E src \in {"any", "me"}, port \in PortNumbers : minet_bind(k, src, port)
       \/ \E peer \in Peers : minet_connect(k, peer)
       \/ minet_listen(k) \/ minet_accept(k) \/ minet_read(k) \/ minet_write(k) \/ minet_close(k)
       \/ minet_recvfrom(k) \/ minet_sendto(k) \/ minet_can_write_now(k) \/ minet_can_read_now(k)
       \/ minet_set_blocking(k) \/ minet_set_nonblocking(k)

AppCalls ==
  /\ Len(tcpq) < MaxRequests /\ Len(udpq) < MaxRequests
  /\ AnyCall /\ call'.type \in Calls
  /\ calls < MaxCalls /\ calls' = calls + 1
  /\ UNCHANGED <<socks, ports, tcpVars, udpVars>>

Init ==
  /\ socks = [k \in Socks |-> SockRecord]
  /\ ports = [p \in PortNumbers |-> 0]
  /\ call = Idle /\ asked = FALSE /\ answers = <<>> /\ calls = 0
  /\ tcpq = <<>> /\ toTcp = <<>> /\ fromTcp = <<>>
  /\ udpq = <<>> /\ toUdp = <<>> /\ fromUdp = <<>>
  /\ tcp = <<>> /\ clist = <<>>
  /\ alive = TRUE

Segment == \E port \in PortNumbers \ {PORT_NONE}, peer \in Peers : UdpDatagram(port, peer) \/ TcpSegment(port, peer)

Below ==
  \/ UdpRequest \/ TcpRequest \/ TcpTimeout \/ Segment
  \/ \E peer \in Peers : HandleICMPWrite(peer)

(* The STATUS that finds tcpq empty: Remove returns NULL, and its request   *)
(* is read.  The other modules follow (MinetStart); nothing happens here    *)
(* any more.  udpq is never empty then (StatusInOrder).                     *)
Crash ==
  /\ fromTcp # <<>> /\ Head(fromTcp).type = "STATUS" /\ tcpq = <<>>
  /\ alive /\ alive' = FALSE
  /\ UNCHANGED <<socks, ports, appVars, tcpVars, udpVars>>

Runs(A) == alive /\ A /\ UNCHANGED alive

Next == Runs(AppCalls \/ AppReturns \/ SockStep \/ Below) \/ Crash

Spec == Init /\ [][Next]_vars

(* Each module waits for its next message again and again. *)
Fairness ==
  /\ WF_vars(Runs(AppReturns)) /\ WF_vars(Runs(ProcessAppRequest))
  /\ WF_vars(Runs(HandleTCPWrite)) /\ WF_vars(Runs(HandleTCPStatus))
  /\ WF_vars(Runs(HandleUDPWrite)) /\ WF_vars(Runs(HandleUDPStatus))
  /\ WF_vars(Runs(UdpRequest)) /\ WF_vars(Runs(TcpRequest))

FairSpec == Spec /\ Fairness
-----------------------------------------------------------------------------
Statuses == {"FREE", "UNBOUND", "BOUND", "LISTENING", "ACCEPT_PENDING", "CONNECT_PENDING",
             "CONNECTED", "READ_PENDING", "WRITE_PENDING"}
RequestTypes == {"CONNECT", "ACCEPT", "WRITE", "FORWARD", "CLOSE"}
Errors == {"EOK", "ENOMATCH", "EBUF_SPACE", "EINVALID_OP", "ERESOURCE_UNAVAIL", "EUNKNOWN"}
TcpStates == {"LISTEN", "SYN_RCVD", "SYN_SENT", "ESTABLISHED", "FIN_WAIT1", "LAST_ACK", "CLOSING"}
Messages == [type : RequestTypes \cup {"STATUS"}, connection : Connections, error : Errors]

(* Types; a socket that is not FREE belongs to the application. *)
TypeOK ==
  /\ socks \in [Socks -> [status : Statuses, connection : Connections, bin : 0 .. BinSize, app : BOOLEAN]]
  /\ \A k \in Socks : socks[k].app <=> socks[k].status # "FREE"
  /\ ports \in [PortNumbers -> 0 .. NumSocks - 1]
  /\ asked \in BOOLEAN /\ calls \in 0 .. MaxCalls
  /\ tcpq \in Seq([type : RequestTypes, sock : Socks]) /\ udpq \in Seq([type : RequestTypes, sock : Socks])
  /\ {toTcp, fromTcp, toUdp, fromUdp} \subseteq Seq(Messages)
  /\ tcp \in Seq([connection : Connections, st : TcpStates, tmr : BOOLEAN])
  /\ clist \in Seq(Connections) /\ alive \in BOOLEAN

(* The requests to UDP that wait for a STATUS are those whose STATUS is on  *)
(* its way up, followed by those on their way down (sock_module.cc 348).    *)
(* This is not so of tcpq: tcp_module.cc sends no STATUS to some requests   *)
(* and more than one to others.                                             *)
InOrder(queue, up, down) ==
  LET replies == OfType(up, TRUE)
      requests == OfType(down, FALSE)
  IN  /\ Len(queue) = Len(replies) + Len(requests)
      /\ \A i \in DOMAIN requests : requests[i].type = queue[Len(replies) + i].type
StatusInOrder == InOrder(udpq, fromUdp, toUdp)

(* The application gets one answer, to the call in which it waits: none to  *)
(* a call that has returned, none for another socket, although a STATUS of  *)
(* TCP may be taken for that of another request (sock_module.cc 194-338).   *)
AnswersTheCall ==
  answers # <<>> =>
    /\ Len(answers) = 1 /\ ~asked
    /\ answers[1].of = call.type
    /\ \/ answers[1].sock \in {call.sock, 0}
       \/ call.type = "mSOCKET"
       \/ call.type = "mACCEPT" /\ socks[answers[1].sock].connection.srcport = socks[call.sock].connection.srcport

(* A call that was not answered is not forgotten: its socket waits for an   *)
(* event of TCP or UDP, or its request for a STATUS of UDP; a write waits   *)
(* for TCP's as long as it takes, which may be for ever.  An accept is      *)
(* forgotten, when no socket is left for the connection                     *)
(* (sock_module.cc 146).                                                    *)
Waits(type, k) ==
  \/ type = "mREAD" /\ socks[k].status = "READ_PENDING"
  \/ type = "mACCEPT" /\ (socks[k].status = "ACCEPT_PENDING" \/ FindFreeSock = 0)
  \/ type = "mCONNECT" /\ socks[k].status = "CONNECT_PENDING"
  \/ type = "mWRITE" /\ socks[k].status = "WRITE_PENDING"
       /\ \/ \E i \in DOMAIN udpq : udpq[i] = [type |-> "WRITE", sock |-> k]
          \/ socks[k].connection.protocol = "tcp"
  \/ type \in {"mBIND", "mCONNECT"} /\ \E i \in DOMAIN udpq : udpq[i] = [type |-> "FORWARD", sock |-> k]
CallNotForgotten == call # Idle /\ ~asked /\ answers = <<>> => Waits(call.type, call.sock)

(* A UDP socket loses its forward only to its own requests, or to the CLOSE *)
(* of a socket that has no port (udp_module.cc 185).                        *)
ForwardsKept ==
  [][\A i \in DOMAIN clist :
       (\A j \in DOMAIN clist' : clist'[j] # clist[i]) =>
         LET m == Head(toUdp) IN
         \/ m.connection.srcport = clist[i].srcport
         \/ m.type = "CLOSE" /\ m.connection.srcport = PORT_NONE]_clist

(* What asks only UDP or the socket module itself returns, and so does a    *)
(* close, unless the process crashes.  A write on a socket of TCP may not:  *)
(* tcp_module.cc sends no STATUS to a WRITE unless it is ESTABLISHED.       *)
Prompt == {"mSOCKET", "mBIND", "mLISTEN", "mWRITE", "mCLOSE"} \cup Stubs
Asks == call.type \in Prompt /\ ~(call.type = "mWRITE" /\ socks[call.sock].connection.protocol = "tcp")
CallReturns == Asks ~> (call = Idle \/ ~alive)
=============================================================================
