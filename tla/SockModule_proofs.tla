-------------------------- MODULE SockModule_proofs --------------------------
(* Theorems about SockModule, for every number of sockets and ports, every  *)
(* set of peers, and any number of calls, requests and segments, and about  *)
(* the programs of Applications on it.                                      *)
EXTENDS Applications, DataLemmas

(* What goes down to UDP, and what UDP keeps: a forward has a port. *)
ToUdpMessages == {m \in Messages : m.type = "FORWARD" => m.connection.srcport # PORT_NONE}
Forwards == {c \in Connections : c.srcport # PORT_NONE}

SockRecords == [status : Statuses, connection : Connections, bin : 0 .. BinSize, app : BOOLEAN]
Requests == [type : RequestTypes, sock : Socks]
TcpEntries == [connection : Connections, st : TcpStates, tmr : BOOLEAN]

SocksOK == socks \in [Socks -> SockRecords]
CallOK ==
  /\ call.type = "mSOCKET" => call.protocol \in Protocols
  /\ call.type = "mCONNECT" => call.dest \in Peers
  /\ call.type \notin {"none", "mSOCKET"} => call.sock \in Socks
TcpOK == tcpq \in Seq(Requests) /\ toTcp \in Seq(Messages) /\ fromTcp \in Seq(Messages) /\ tcp \in Seq(TcpEntries)
UdpOK == udpq \in Seq(Requests) /\ toUdp \in Seq(ToUdpMessages) /\ fromUdp \in Seq(Messages) /\ clist \in Seq(Forwards)

(* Every request and every message names a connection, and no FORWARD one   *)
(* without a port.                                                          *)
WellTyped == SocksOK /\ CallOK /\ TcpOK /\ UdpOK

-----------------------------------------------------------------------------
(* What First finds. *)
LEMMA FirstIsMember ==
  ASSUME NEW S, S \subseteq Nat, First(S) # 0
  PROVE  First(S) \in S
<1>1. S # {}
  BY DEF First
<1> QED
  BY <1>1, Least DEF First

LEMMA SocketFound ==
  /\ FindFreeSock # 0 => FindFreeSock \in Socks
  /\ \A c : FindConnection(c) # 0 => FindConnection(c) \in Socks
<1>1. Socks \subseteq Nat
  BY SocksAssumption DEF Socks
<1>2. FindFreeSock # 0 => FindFreeSock \in Socks
  BY <1>1, FirstIsMember DEF FindFreeSock
<1>3. ASSUME NEW c, FindConnection(c) # 0 PROVE FindConnection(c) \in Socks
  BY <1>1, <1>3, FirstIsMember DEF FindConnection
<1> QED
  BY <1>2, <1>3

LEMMA PortResolved ==
  ASSUME NEW src, NEW port, ResolveSrcPort(src, port) # 0
  PROVE  ResolveSrcPort(src, port) \in PortNumbers \ {PORT_NONE}
<1>1. FreePorts \subseteq PortNumbers \ {PORT_NONE} /\ FreePorts \subseteq Nat
  BY SocksAssumption DEF FreePorts, PortNumbers
<1>2. First(FreePorts) # 0 => First(FreePorts) \in FreePorts
  BY <1>1, FirstIsMember
<1> QED
  BY <1>1, <1>2 DEF ResolveSrcPort

-----------------------------------------------------------------------------
(* The tables. *)
LEMMA NoConnectionTyped == NoConnection \in Connections /\ SockRecord \in SockRecords
<1>1. 0 \in PortNumbers /\ 0 \in 0 .. BinSize
  BY SocksAssumption DEF PortNumbers
<1>2. NoConnection \in Connections
  BY <1>1 DEF NoConnection, Connections, Protocols, PORT_NONE
<1> QED
  BY <1>1, <1>2 DEF SockRecord, SockRecords, Statuses

LEMMA StatusTyped ==
  ASSUME SocksOK, NEW k, NEW status \in Statuses, SetStatus(k, status)
  PROVE  SocksOK'
  BY DEF SocksOK, SetStatus, SockRecords

LEMMA CloseTyped ==
  ASSUME SocksOK, NEW k, CloseSocket(k)
  PROVE  SocksOK'
  BY NoConnectionTyped DEF SocksOK, CloseSocket

LEMMA SendTcpTyped ==
  ASSUME TcpOK, NEW type \in RequestTypes, NEW c \in Connections, NEW k \in Socks,
         SendTCPRequest(type, c, k)
  PROVE  TcpOK'
<1>1. Srr(type, c, "EOK") \in Messages
  BY DEF Srr, Messages, Errors
<1>2. [type |-> type, sock |-> k] \in Requests
  BY DEF Requests
<1> QED
  BY <1>1, <1>2 DEF TcpOK, SendTCPRequest

LEMMA SendUdpTyped ==
  ASSUME UdpOK, NEW type \in RequestTypes, NEW c \in Connections, NEW k \in Socks,
         type = "FORWARD" => c.srcport # PORT_NONE,
         SendUDPRequest(type, c, k)
  PROVE  UdpOK'
<1>1. Srr(type, c, "EOK") \in ToUdpMessages
  BY DEF Srr, Messages, Errors, ToUdpMessages
<1>2. [type |-> type, sock |-> k] \in Requests
  BY DEF Requests
<1> QED
  BY <1>1, <1>2 DEF UdpOK, SendUDPRequest

LEMMA TcpUnchanged == ASSUME TcpOK, UNCHANGED tcpVars PROVE TcpOK'
  BY DEF TcpOK, tcpVars
LEMMA UdpUnchanged == ASSUME UdpOK, UNCHANGED udpVars PROVE UdpOK'
  BY DEF UdpOK, udpVars
LEMMA TypesUnchanged == ASSUME WellTyped, UNCHANGED vars PROVE WellTyped'
<1>1. SocksOK' /\ CallOK'
  BY DEF WellTyped, SocksOK, CallOK, vars, appVars
<1>2. TcpOK' /\ UdpOK'
  BY TcpUnchanged, UdpUnchanged DEF WellTyped, vars
<1> QED
  BY <1>1, <1>2 DEF WellTyped

LEMMA SendTyped ==
  ASSUME TcpOK, UdpOK, NEW type \in RequestTypes, NEW c \in Connections, NEW k \in Socks,
         type = "FORWARD" => c.srcport # PORT_NONE,
         SendRequest(type, c, k)
  PROVE  TcpOK' /\ UdpOK'
<1>1. CASE SendUDPRequest(type, c, k) /\ UNCHANGED tcpVars
  BY <1>1, SendUdpTyped, TcpUnchanged
<1>2. CASE SendTCPRequest(type, c, k) /\ UNCHANGED udpVars
  BY <1>2, SendTcpTyped, UdpUnchanged
<1> QED
  BY <1>1, <1>2 DEF SendRequest

(* The STATUS of a WRITE from below. *)
LEMMA ReplyTcpTyped ==
  ASSUME TcpOK, UNCHANGED <<tcpq, tcp>>, fromTcp # <<>>, fromTcp' = Tail(fromTcp),
         NEW m \in Messages, NEW error \in Errors, Reply("tcp", m, error)
  PROVE  TcpOK'
<1>1. Srr("STATUS", m.connection, error) \in Messages
  BY DEF Srr, Messages
<1>2. toTcp' = Append(toTcp, Srr("STATUS", m.connection, error))
  BY DEF Reply
<1> QED
  BY <1>1, <1>2 DEF TcpOK

LEMMA ReplyUdpTyped ==
  ASSUME UdpOK, UNCHANGED <<udpq, clist>>, fromUdp # <<>>, fromUdp' = Tail(fromUdp),
         NEW m \in Messages, NEW error \in Errors, Reply("udp", m, error)
  PROVE  UdpOK'
<1>1. Srr("STATUS", m.connection, error) \in ToUdpMessages
  BY DEF Srr, Messages, ToUdpMessages
<1>2. toUdp' = Append(toUdp, Srr("STATUS", m.connection, error))
  BY DEF Reply
<1> QED
  BY <1>1, <1>2 DEF UdpOK

(* Data never fills a bin over its size. *)
LEMMA DataTyped ==
  ASSUME SocksOK, NEW below, NEW m, NEW k, Data(below, m, k)
  PROVE  SocksOK' /\ \E error \in Errors : Reply(below, m, error)
<1>1. CASE /\ Store(k) /\ socks' = [socks EXCEPT ![k].bin = @ + 1]
           /\ Reply(below, m, "EOK")
  <2>1. BinSize \in Nat
    BY SocksAssumption
  <2>2. \A j \in Socks : j = k => socks[j].bin + 1 \in 0 .. BinSize
    BY <1>1, <2>1 DEF Store, SocksOK, SockRecords
  <2>3. SocksOK'
    BY <1>1, <2>2 DEF SocksOK, SockRecords
  <2> QED
    BY <1>1, <2>3 DEF Errors
<1>2. CASE SetStatus(k, "CONNECTED") /\ Reply(below, m, "EOK")
  BY <1>2, StatusTyped DEF Statuses, Errors
<1>3. CASE /\ Reply(below, m, IF socks[k].status = "CONNECTED" THEN "EBUF_SPACE" ELSE "EINVALID_OP")
           /\ UNCHANGED socks
  BY <1>3 DEF SocksOK, Errors
<1> QED
  BY <1>1, <1>2, <1>3 DEF Data

LEMMA HeadMessage ==
  ASSUME TcpOK, UdpOK
  PROVE  /\ fromTcp # <<>> => Head(fromTcp) \in Messages
         /\ toTcp # <<>> => Head(toTcp) \in Messages
         /\ fromUdp # <<>> => Head(fromUdp) \in Messages
         /\ toUdp # <<>> => Head(toUdp) \in ToUdpMessages
  BY DEF TcpOK, UdpOK

-----------------------------------------------------------------------------
(* The application and its requests. *)
LEMMA AppTyped ==
  ASSUME WellTyped, AppCalls \/ AppReturns
  PROVE  WellTyped'
<1>1. SocksOK' /\ TcpOK' /\ UdpOK'
  BY TcpUnchanged, UdpUnchanged DEF WellTyped, AppCalls, AppReturns, SocksOK
<1>2. CASE AppReturns
  BY <1>1, <1>2 DEF WellTyped, AppReturns, MinetReceive, CallOK, Idle
<1>3. CASE AppCalls
  BY <1>1, <1>3, AppAssumption DEF WellTyped, AppCalls, AnyCall, MinetSend, Call, CallOK, Protocols,
     minet_socket, minet_bind, minet_listen, minet_accept, minet_connect, minet_read,
     minet_write, minet_close, minet_recvfrom, minet_sendto, minet_set_nonblocking,
     minet_set_blocking, minet_can_write_now, minet_can_read_now
<1> QED
  BY <1>2, <1>3

(* Requests that nothing is sent below for. *)
LEMMA LocalTyped ==
  ASSUME WellTyped, SocksOK', UNCHANGED <<call, tcpVars, udpVars>>
  PROVE  WellTyped'
<1>1. CallOK'
  BY DEF WellTyped, CallOK
<1> QED
  BY <1>1, TcpUnchanged, UdpUnchanged DEF WellTyped

LEMMA SocketTyped == ASSUME WellTyped, Socket PROVE WellTyped'
<1>1. UNCHANGED <<call, tcpVars, udpVars>> /\ call.protocol \in Protocols
  BY DEF Socket, Take, WellTyped, CallOK
<1>2. SocksOK'
  <2>1. CASE UNCHANGED socks
    BY <2>1 DEF WellTyped, SocksOK
  <2>2. CASE \E k : socks' = [socks EXCEPT ![k].status = "UNBOUND", ![k].app = TRUE,
                                         ![k].connection.protocol = call.protocol]
    <3>1. PICK k : socks' = [socks EXCEPT ![k].status = "UNBOUND", ![k].app = TRUE,
                                          ![k].connection.protocol = call.protocol]
      BY <2>2
    <3>2. CASE k \in Socks
      <4> DEFINE c == [socks[k].connection EXCEPT !.protocol = call.protocol]
      <4>1. socks \in [Socks -> SockRecords] /\ socks[k] \in SockRecords
        BY <3>2 DEF WellTyped, SocksOK
      <4>2. c \in Connections
        BY <1>1, <4>1 DEF SockRecords, Connections
      <4> DEFINE f == [socks EXCEPT ![k].status = "UNBOUND"]
                 g == [f EXCEPT ![k].app = TRUE]
      <4>3. f \in [Socks -> SockRecords] /\ f[k].connection = socks[k].connection
        BY <3>2, <4>1 DEF SockRecords, Statuses
      <4> HIDE DEF f
      <4>4. g \in [Socks -> SockRecords] /\ g[k].connection = f[k].connection
        BY <3>2, <4>3 DEF SockRecords
      <4>5. socks' = [g EXCEPT ![k].connection.protocol = call.protocol]
        BY <3>1, <3>2, <4>1 DEF f
      <4> HIDE DEF g
      <4>6. socks' = [g EXCEPT ![k].connection = c]
        BY <3>2, <4>3, <4>4, <4>5
      <4> HIDE DEF c
      <4> QED
        BY <3>2, <4>2, <4>4, <4>6 DEF SocksOK, SockRecords
    <3>3. CASE k \notin Socks
      BY <3>1, <3>3 DEF WellTyped, SocksOK
    <3> QED
      BY <3>2, <3>3
  <2> QED
    BY <2>1, <2>2 DEF Socket
<1> QED
  BY <1>1, <1>2, LocalTyped

LEMMA ConnectionTyped ==
  ASSUME SocksOK, NEW k \in Socks, NEW c \in Connections, NEW status \in Statuses,
         socks' = [socks EXCEPT ![k].connection = c, ![k].status = status]
  PROVE  SocksOK'
<1>1. socks \in [Socks -> SockRecords] /\ socks[k] \in SockRecords
  BY DEF SocksOK
<1> DEFINE f == [socks EXCEPT ![k].connection = c]
<1>2. f \in [Socks -> SockRecords]
  BY <1>1 DEF SockRecords
<1>3. socks' = [f EXCEPT ![k].status = status]
  BY <1>1
<1> HIDE DEF f
<1> QED
  BY <1>2, <1>3 DEF SocksOK, SockRecords

(* The connection of a socket, and what a port and a peer make of it. *)
LEMMA SocketConnection ==
  ASSUME SocksOK, NEW k \in Socks
  PROVE  /\ socks[k].connection \in Connections /\ socks[k].status \in Statuses
         /\ \A p \in PortNumbers : [socks[k].connection EXCEPT !.src = "me", !.srcport = p] \in
              {c \in Connections : c.srcport = p}
         /\ \A p \in PortNumbers, d \in Peers \cup {"any"} :
              [socks[k].connection EXCEPT !.src = "me", !.srcport = p, !.dest = d] \in
              {c \in Connections : c.srcport = p}
  BY DEF SocksOK, SockRecords, Connections

LEMMA BindTyped == ASSUME WellTyped, Bind PROVE WellTyped'
<1> DEFINE k == call.sock
           p == ResolveSrcPort(call.src, call.port)
           c == [socks[k].connection EXCEPT !.src = "me", !.srcport = p]
<1>1. k \in Socks /\ call' = call
  BY DEF Bind, Take, WellTyped, CallOK
<1>2. CASE NoPort(call.src, call.port)
  <2>1. UNCHANGED <<call, socks, tcpVars, udpVars>>
    BY <1>1, <1>2 DEF NoPort
  <2>2. SocksOK'
    BY <2>1 DEF WellTyped, SocksOK
  <2> QED
    BY <2>1, <2>2, LocalTyped
<1>3. CASE p # 0
  <2>1. p \in PortNumbers \ {PORT_NONE}
    BY <1>3, PortResolved
  <2>2. c \in Connections /\ c.srcport # PORT_NONE /\ socks[k].status \in Statuses
    BY <1>1, <2>1, SocketConnection DEF WellTyped
  <2>3. CASE /\ socks' = [socks EXCEPT ![k].connection = c]
             /\ SendUDPRequest("FORWARD", c, k)
             /\ UNCHANGED tcpVars
    <3>1. socks' = [socks EXCEPT ![k].connection = c, ![k].status = socks[k].status]
      BY <1>1, <2>3 DEF WellTyped, SocksOK, SockRecords
    <3>2. SocksOK'
      BY <1>1, <2>2, <3>1, ConnectionTyped DEF WellTyped
    <3>3. UdpOK'
      BY <1>1, <2>2, <2>3, SendUdpTyped DEF WellTyped, RequestTypes
    <3> QED
      BY <1>1, <2>3, <3>2, <3>3, TcpUnchanged DEF WellTyped, CallOK
  <2>4. CASE /\ socks' = [socks EXCEPT ![k].connection = c, ![k].status = "BOUND"]
             /\ UNCHANGED <<tcpVars, udpVars>>
    <3>1. SocksOK'
      BY <1>1, <2>2, <2>4, ConnectionTyped DEF WellTyped, Statuses
    <3> QED
      BY <1>1, <2>4, <3>1, LocalTyped
  <2> QED
    BY <1>3, <2>3, <2>4 DEF Bind, NoPort
<1> QED
  BY <1>2, <1>3 DEF Bind

LEMMA ConnectTyped == ASSUME WellTyped, Connect PROVE WellTyped'
<1> DEFINE k == call.sock
           unbound == socks[k].status = "UNBOUND"
           p == IF unbound THEN ResolveSrcPort("any", PORT_NONE) ELSE socks[k].connection.srcport
           c == [socks[k].connection EXCEPT !.src = "me", !.srcport = p, !.dest = call.dest]
           status == IF c.protocol = "udp" THEN "CONNECTED" ELSE "CONNECT_PENDING"
           type == IF c.protocol = "udp" THEN "FORWARD" ELSE "CONNECT"
<1>1. k \in Socks /\ call.dest \in Peers /\ call' = call
  BY DEF Connect, Take, WellTyped, CallOK
<1>2. CASE NoPort("any", PORT_NONE)
  <2>1. UNCHANGED <<call, socks, tcpVars, udpVars>>
    BY <1>1, <1>2 DEF NoPort
  <2>2. SocksOK'
    BY <2>1 DEF WellTyped, SocksOK
  <2> QED
    BY <2>1, <2>2, LocalTyped
<1>3. CASE /\ p # 0
           /\ SendRequest(type, c, k)
           /\ socks' = [socks EXCEPT ![k].connection = c, ![k].status = status]
  <2>1. p \in PortNumbers \ {PORT_NONE}
    <3>1. CASE unbound
      BY <1>3, <3>1, PortResolved
    <3>2. CASE ~unbound
      <4>1. p = socks[k].connection.srcport
        BY <3>2
      <4>2. socks[k].connection.srcport \in PortNumbers
        BY <1>1, SocketConnection DEF WellTyped, Connections
      <4> QED
        BY <1>3, <4>1, <4>2 DEF PORT_NONE
    <3> QED
      BY <3>1, <3>2
  <2>2. c \in Connections /\ c.srcport # PORT_NONE
    <3> HIDE DEF p
    <3>1. call.dest \in Peers \cup {"any"} /\ p \in PortNumbers
      BY <1>1, <2>1
    <3>2. c \in {x \in Connections : x.srcport = p}
      BY <1>1, <3>1, SocketConnection DEF WellTyped
    <3> QED
      BY <2>1, <3>2
  <2>3. status \in Statuses /\ type \in RequestTypes
    BY DEF Statuses, RequestTypes
  <2> HIDE DEF c, p, status, type
  <2>4. SocksOK'
    BY <1>1, <1>3, <2>2, <2>3, ConnectionTyped DEF WellTyped
  <2>5. TcpOK' /\ UdpOK'
    BY <1>1, <1>3, <2>2, <2>3, SendTyped DEF WellTyped
  <2> QED
    BY <1>1, <2>4, <2>5 DEF WellTyped, CallOK
<1> QED
  BY <1>2, <1>3 DEF Connect

LEMMA ListenTyped == ASSUME WellTyped, Listen PROVE WellTyped'
<1> DEFINE k == call.sock
<1>1. k \in Socks /\ UNCHANGED <<call, tcpVars, udpVars>>
  BY DEF Listen, Take, WellTyped, CallOK
<1>2. SocksOK'
  <2>1. CASE UNCHANGED socks
    BY <2>1 DEF WellTyped, SocksOK
  <2>2. CASE socks' = [socks EXCEPT ![k].connection.dest = "any", ![k].status = "LISTENING"]
    <3> DEFINE c == [socks[k].connection EXCEPT !.dest = "any"]
    <3>1. socks[k] \in SockRecords
      BY <1>1 DEF WellTyped, SocksOK
    <3>2. c \in Connections
      BY <3>1 DEF SockRecords, Connections
    <3>3. socks' = [socks EXCEPT ![k].connection = c, ![k].status = "LISTENING"]
      BY <1>1, <2>2, <3>1 DEF WellTyped, SocksOK, SockRecords
    <3> HIDE DEF c
    <3> QED
      BY <1>1, <3>2, <3>3, ConnectionTyped DEF WellTyped, Statuses
  <2> QED
    BY <2>1, <2>2 DEF Listen
<1> QED
  BY <1>1, <1>2, LocalTyped

(* Accept, Write and Close send the connection of the socket below. *)
LEMMA SendingTyped == ASSUME WellTyped, Accept \/ Write \/ Close PROVE WellTyped'
<1> DEFINE k == call.sock
           c == socks[k].connection
<1>1. k \in Socks /\ call' = call
  BY DEF Accept, Write, Close, Take, WellTyped, CallOK
<1>2. c \in Connections
  BY <1>1, SocketConnection DEF WellTyped
<1>3. SocksOK'
  BY StatusTyped, CloseTyped DEF Accept, Write, Close, WellTyped, Statuses
<1> HIDE DEF c
<1>4. TcpOK' /\ UdpOK'
  <2>1. CASE SendTCPRequest("ACCEPT", c, k) /\ UNCHANGED udpVars
    BY <1>1, <1>2, <2>1, SendTcpTyped, UdpUnchanged DEF WellTyped, RequestTypes
  <2>2. CASE SendRequest("WRITE", c, k)
    BY <1>1, <1>2, <2>2, SendTyped DEF WellTyped, RequestTypes
  <2>3. CASE SendRequest("CLOSE", c, k)
    BY <1>1, <1>2, <2>3, SendTyped DEF WellTyped, RequestTypes
  <2> QED
    BY <2>1, <2>2, <2>3 DEF Accept, Write, Close, c
<1> QED
  BY <1>1, <1>3, <1>4 DEF WellTyped, CallOK

LEMMA ProcessTyped == ASSUME WellTyped, ProcessAppRequest PROVE WellTyped'
<1>1. CASE \/ Stub \/ Read
           \/ \E type \in {"mBIND", "mLISTEN", "mACCEPT", "mCONNECT", "mREAD", "mWRITE", "mCLOSE"} : Refuse(type)
  <2>1. UNCHANGED <<call, tcpVars, udpVars>>
    BY <1>1 DEF Stub, Read, Refuse, Take
  <2>2. UNCHANGED socks \/ SetStatus(call.sock, "READ_PENDING")
    BY <1>1 DEF Stub, Read, Refuse
  <2>3. SocksOK'
    BY <2>2, StatusTyped DEF WellTyped, SocksOK, Statuses
  <2> QED
    BY <2>1, <2>3, LocalTyped
<1> QED
  BY <1>1, SocketTyped, BindTyped, ListenTyped, ConnectTyped, SendingTyped DEF ProcessAppRequest

-----------------------------------------------------------------------------
(* Messages from below. *)
LEMMA AcceptedTyped ==
  ASSUME SocksOK, NEW m \in Messages, NEW k, Accepted(m, k)
  PROVE  SocksOK' /\ \E error \in Errors : Reply("tcp", m, error)
<1> DEFINE free == FindFreeSock
           back == [socks EXCEPT ![k].status = "LISTENING"]
           r == [SockRecord EXCEPT !.status = "CONNECTED", !.connection = m.connection, !.app = TRUE]
<1>1. back \in [Socks -> SockRecords]
  BY DEF SocksOK, SockRecords, Statuses
<1>2. r \in SockRecords
  BY NoConnectionTyped DEF SockRecords, Messages, Statuses
<1>3. \E error \in Errors : Reply("tcp", m, error)
  BY DEF Accepted, Errors
<1> HIDE DEF back, r
<1>4. CASE socks' = back
  BY <1>1, <1>3, <1>4 DEF SocksOK
<1>5. CASE socks' = [back EXCEPT ![free] = r]
  BY <1>1, <1>2, <1>3, <1>5 DEF SocksOK
<1> QED
  BY <1>4, <1>5 DEF Accepted, back, r

LEMMA ConnectedTyped ==
  ASSUME SocksOK, NEW m \in Messages, NEW k \in Socks, Connected(m, k)
  PROVE  SocksOK' /\ \E error \in Errors : Reply("tcp", m, error)
<1>1. \E error \in Errors : Reply("tcp", m, error)
  BY DEF Connected, Errors
<1>2. CASE CloseSocket(k)
  BY <1>1, <1>2, CloseTyped
<1>3. CASE socks' = [socks EXCEPT ![k].connection = m.connection, ![k].status = "CONNECTED"]
  <2>1. m.connection \in Connections
    BY DEF Messages
  <2> QED
    BY <1>1, <1>3, <2>1, ConnectionTyped DEF Statuses
<1> QED
  BY <1>2, <1>3 DEF Connected

LEMMA TcpWriteTyped == ASSUME WellTyped, HandleTCPWrite PROVE WellTyped'
<1> DEFINE m == Head(fromTcp)
           k == FindConnection(m.connection)
<1>1. /\ m \in Messages /\ (k # 0 => k \in Socks)
      /\ fromTcp # <<>> /\ fromTcp' = Tail(fromTcp)
      /\ UNCHANGED <<call, tcpq, tcp, udpVars>>
  BY HeadMessage, SocketFound DEF HandleTCPWrite, WellTyped
<1>2. CASE NoMatch("tcp", m)
  BY <1>1, <1>2, ReplyTcpTyped, UdpUnchanged DEF NoMatch, WellTyped, SocksOK, CallOK, Errors
<1>3. CASE k # 0 /\ (Accepted(m, k) \/ Connected(m, k) \/ Data("tcp", m, k))
  <2>1. SocksOK' /\ \E error \in Errors : Reply("tcp", m, error)
    BY <1>1, <1>3, AcceptedTyped, ConnectedTyped, DataTyped DEF WellTyped
  <2>2. TcpOK'
    BY <1>1, <2>1, ReplyTcpTyped DEF WellTyped
  <2> QED
    BY <1>1, <2>1, <2>2, UdpUnchanged DEF WellTyped, CallOK
<1> QED
  BY <1>2, <1>3 DEF HandleTCPWrite

LEMMA UdpWriteTyped == ASSUME WellTyped, HandleUDPWrite PROVE WellTyped'
<1> DEFINE m == Head(fromUdp)
           k == FindConnection(m.connection)
<1>1. /\ m \in Messages
      /\ fromUdp # <<>> /\ fromUdp' = Tail(fromUdp)
      /\ UNCHANGED <<call, udpq, clist, tcpVars>>
  BY HeadMessage DEF HandleUDPWrite, WellTyped
<1>2. SocksOK' /\ \E error \in Errors : Reply("udp", m, error)
  <2>1. CASE NoMatch("udp", m)
    BY <2>1 DEF NoMatch, WellTyped, SocksOK, Errors
  <2>2. CASE Data("udp", m, k)
    BY <2>2, DataTyped DEF WellTyped
  <2> QED
    BY <2>1, <2>2 DEF HandleUDPWrite
<1>3. UdpOK'
  BY <1>1, <1>2, ReplyUdpTyped DEF WellTyped
<1> QED
  BY <1>1, <1>2, <1>3, TcpUnchanged DEF WellTyped, CallOK

LEMMA StatusReceivedTyped == ASSUME WellTyped, HandleTCPStatus \/ HandleUDPStatus PROVE WellTyped'
<1>1. CASE HandleTCPStatus
  <2>1. SocksOK'
    BY <1>1, StatusTyped, CloseTyped DEF HandleTCPStatus, WellTyped, SocksOK, Statuses
  <2>2. TcpOK'
    BY <1>1 DEF HandleTCPStatus, WellTyped, TcpOK
  <2> QED
    BY <1>1, <2>1, <2>2, UdpUnchanged DEF HandleTCPStatus, WellTyped, CallOK
<1>2. CASE HandleUDPStatus
  <2> DEFINE k == Head(udpq).sock
             status == IF socks[k].connection.dest = "any" THEN "BOUND" ELSE "CONNECTED"
  <2>a. UNCHANGED socks \/ CloseSocket(k) \/ SetStatus(k, status)
    BY <1>2 DEF HandleUDPStatus
  <2>1. status \in Statuses
    BY DEF Statuses
  <2> HIDE DEF k, status
  <2>2. SocksOK'
    BY <2>a, <2>1, StatusTyped, CloseTyped DEF WellTyped, SocksOK
  <2>3. UdpOK'
    BY <1>2 DEF HandleUDPStatus, WellTyped, UdpOK
  <2> QED
    BY <1>2, <2>2, <2>3, TcpUnchanged DEF HandleUDPStatus, WellTyped, CallOK
<1> QED
  BY <1>1, <1>2

-----------------------------------------------------------------------------
(* The forward that a request of UDP replaces or removes. *)
LEMMA Erased ==
  ASSUME UdpOK, NEW c
  PROVE  /\ Without(c) \in Seq(Forwards)
         /\ \A i \in DOMAIN clist :
              Matches(clist[i], c) \/ \E j \in DOMAIN Without(c) : Without(c)[j] = clist[i]
<1> DEFINE i == FindMatching(c)
<1>1. clist \in Seq(Forwards) /\ Queue(clist) /\ DOMAIN clist = 1 .. Len(clist)
  BY DEF UdpOK, Queue
<1>2. CASE i = 0
  BY <1>1, <1>2 DEF Without
<1>3. CASE i # 0
  <2>1. {x \in DOMAIN clist : Matches(clist[x], c)} \subseteq Nat
    BY <1>1
  <2>2. i \in DOMAIN clist /\ Matches(clist[i], c)
    BY <1>3, <2>1, FirstIsMember DEF FindMatching
  <2>3. Without(c) = SubSeq(clist, 1, i - 1) \o SubSeq(clist, i + 1, Len(clist))
    BY <1>3 DEF Without, Erase
  <2> HIDE DEF i
  <2>4. /\ Queue(Without(c)) /\ Range(Without(c)) \subseteq Range(clist)
        /\ \A j \in DOMAIN clist : j # i => clist[j] \in Range(Without(c))
    BY <1>1, <2>2, <2>3, QueueErase
  <2>5. Range(clist) \subseteq Forwards
    BY <1>1 DEF Range
  <2>6. Without(c) \in Seq(Forwards)
    <3>1. PICK S : Without(c) \in Seq(S)
      BY <2>4 DEF Queue
    <3> DEFINE w == Without(c)
    <3>2. w \in Seq(S) /\ \A j \in 1 .. Len(w) : w[j] \in Forwards
      BY <3>1, <2>4, <2>5 DEF Range
    <3> HIDE DEF w
    <3>3. w \in Seq(Forwards)
      BY <3>2
    <3> QED
      BY <3>3 DEF w
  <2>7. ASSUME NEW j \in DOMAIN clist, ~Matches(clist[j], c)
        PROVE  \E x \in DOMAIN Without(c) : Without(c)[x] = clist[j]
    BY <2>2, <2>4, <2>7 DEF Range
  <2> QED
    BY <2>6, <2>7
<1> QED
  BY <1>2, <1>3

LEMMA UdpRequestTyped == ASSUME WellTyped, UdpRequest PROVE WellTyped'
<1> DEFINE m == Head(toUdp)
           c == m.connection
<1>1. /\ toUdp # <<>> /\ toUdp' = Tail(toUdp) /\ m \in ToUdpMessages /\ c \in Connections
      /\ UNCHANGED <<socks, call, udpq, tcpVars>>
  BY HeadMessage DEF UdpRequest, WellTyped, appVars, ToUdpMessages, Messages
<1>2. fromUdp' \in Seq(Messages)
  <2>1. \A error \in Errors : Srr("STATUS", c, error) \in Messages
    BY <1>1 DEF Srr, Messages
  <2>2. UNCHANGED fromUdp \/ \E error \in Errors : UdpReply(c, error)
    BY DEF UdpRequest, Errors
  <2>3. fromUdp \in Seq(Messages)
    BY DEF WellTyped, UdpOK
  <2> HIDE DEF c
  <2>4. ASSUME NEW error \in Errors, UdpReply(c, error)
        PROVE  fromUdp' \in Seq(Messages)
    BY <2>1, <2>3, <2>4 DEF UdpReply
  <2> QED
    BY <2>2, <2>3, <2>4
<1>3. clist' \in Seq(Forwards)
  <2>1. Without(c) \in Seq(Forwards) /\ clist \in Seq(Forwards)
    BY Erased DEF WellTyped, UdpOK
  <2>2. m.type = "FORWARD" => c \in Forwards
    BY <1>1 DEF ToUdpMessages, Forwards
  <2>3. \/ clist' = clist \/ clist' = Without(c)
        \/ m.type = "FORWARD" /\ clist' = Append(Without(c), c)
    BY DEF UdpRequest
  <2> QED
    BY <2>1, <2>2, <2>3
<1>4. UdpOK'
  BY <1>1, <1>2, <1>3 DEF WellTyped, UdpOK
<1> QED
  BY <1>1, <1>4, TcpUnchanged DEF WellTyped, SocksOK, CallOK

LEMMA UdpDatagramTyped ==
  ASSUME WellTyped, NEW port, NEW peer, UdpDatagram(port, peer)
  PROVE  WellTyped'
<1> DEFINE i == FindMatching([src |-> "me", srcport |-> port, dest |-> peer, protocol |-> "udp"])
<1>1. /\ i # 0 /\ fromUdp' = Append(fromUdp, Srr("WRITE", clist[i], "EOK"))
      /\ UNCHANGED <<socks, call, udpq, toUdp, clist, tcpVars>>
  BY DEF UdpDatagram, appVars
<1>2. clist[i] \in Connections
  <2>1. clist \in Seq(Forwards)
    BY DEF WellTyped, UdpOK
  <2>2. DOMAIN clist \subseteq Nat /\ \A x \in DOMAIN clist : clist[x] \in Connections
    BY <2>1 DEF Forwards
  <2>3. i \in DOMAIN clist
    BY <1>1, <2>2, FirstIsMember DEF FindMatching
  <2> QED
    BY <2>2, <2>3
<1> HIDE DEF i
<1>3. Srr("WRITE", clist[i], "EOK") \in Messages
  BY <1>2 DEF Srr, Messages, RequestTypes, Errors
<1>4. UdpOK'
  BY <1>1, <1>3 DEF WellTyped, UdpOK
<1> QED
  BY <1>1, <1>4, TcpUnchanged DEF WellTyped, SocksOK, CallOK

LEMMA ErasedTyped ==
  ASSUME NEW S, NEW list \in Seq(S), NEW i \in DOMAIN list
  PROVE  Erase(list, i) \in Seq(S)
<1>1. i \in 1 .. Len(list) /\ Len(list) \in Nat
  OBVIOUS
<1>2. SubSeq(list, 1, i - 1) \in Seq(S) /\ SubSeq(list, i + 1, Len(list)) \in Seq(S)
  BY <1>1
<1> QED
  BY <1>2 DEF Erase

(* The list of TCP, and the place of the connection that is found in it. *)
LEMMA TcpFound ==
  ASSUME TcpOK, NEW c, TcpMatching(c) # 0
  PROVE  TcpMatching(c) \in DOMAIN tcp /\ tcp[TcpMatching(c)] \in TcpEntries
<1>1. DOMAIN tcp \subseteq Nat /\ \A i \in DOMAIN tcp : tcp[i] \in TcpEntries
  BY DEF TcpOK
<1> QED
  BY <1>1, FirstIsMember DEF TcpMatching

LEMMA TcpListTyped ==
  ASSUME TcpOK, NEW i \in DOMAIN tcp
  PROVE  /\ \A st \in TcpStates : TcpGoesTo(i, st) => tcp' \in Seq(TcpEntries)
         /\ \A c \in Connections, st \in TcpStates, tmr \in BOOLEAN :
              tcp' = [tcp EXCEPT ![i] = [connection |-> c, st |-> st, tmr |-> tmr]] => tcp' \in Seq(TcpEntries)
         /\ tcp' = [tcp EXCEPT ![i].st = "LISTEN", ![i].tmr = FALSE] => tcp' \in Seq(TcpEntries)
         /\ tcp' = Erase(tcp, i) => tcp' \in Seq(TcpEntries)
<1>1. tcp \in Seq(TcpEntries) /\ tcp[i] \in TcpEntries
  BY DEF TcpOK
<1>2. \A e \in TcpEntries : [tcp EXCEPT ![i] = e] \in Seq(TcpEntries)
  BY <1>1
<1>3. ASSUME NEW st \in TcpStates, TcpGoesTo(i, st)
      PROVE  tcp' \in Seq(TcpEntries)
  <2>1. [tcp[i] EXCEPT !.st = st] \in TcpEntries
    BY <1>1 DEF TcpEntries
  <2>2. tcp' = [tcp EXCEPT ![i] = [tcp[i] EXCEPT !.st = st]]
    BY <1>3 DEF TcpGoesTo
  <2> QED
    BY <1>2, <2>1, <2>2
<1>4. ASSUME NEW c \in Connections, NEW st \in TcpStates, NEW tmr \in BOOLEAN,
             tcp' = [tcp EXCEPT ![i] = [connection |-> c, st |-> st, tmr |-> tmr]]
      PROVE  tcp' \in Seq(TcpEntries)
  <2>1. [connection |-> c, st |-> st, tmr |-> tmr] \in TcpEntries
    BY DEF TcpEntries
  <2> QED
    BY <1>2, <1>4, <2>1
<1>5. ASSUME tcp' = [tcp EXCEPT ![i].st = "LISTEN", ![i].tmr = FALSE]
      PROVE  tcp' \in Seq(TcpEntries)
  <2>1. [tcp[i] EXCEPT !.st = "LISTEN", !.tmr = FALSE] \in TcpEntries
    BY <1>1 DEF TcpEntries, TcpStates
  <2>2. tcp' = [tcp EXCEPT ![i] = [tcp[i] EXCEPT !.st = "LISTEN", !.tmr = FALSE]]
    BY <1>1, <1>5
  <2> QED
    BY <1>2, <2>1, <2>2
<1>6. Erase(tcp, i) \in Seq(TcpEntries)
  BY <1>1, ErasedTyped
<1> QED
  BY <1>3, <1>4, <1>5, <1>6

(* What TCP sends up. *)
Sends == \E c \in Connections, error \in Errors : TcpStatus(c, error)
Writes == \E c \in Connections : TcpWrite(c)
LEMMA TcpSends ==
  ASSUME TcpOK, Sends \/ Writes \/ UNCHANGED fromTcp
  PROVE  fromTcp' \in Seq(Messages)
<1>1. \A c \in Connections, error \in Errors :
        Srr("STATUS", c, error) \in Messages /\ Srr("WRITE", c, error) \in Messages
  BY DEF Srr, Messages, RequestTypes
<1>2. fromTcp \in Seq(Messages)
  BY DEF TcpOK
<1>3. CASE Sends
  <2>1. PICK c \in Connections, error \in Errors : TcpStatus(c, error)
    BY <1>3 DEF Sends
  <2> QED
    BY <1>1, <1>2, <2>1 DEF TcpStatus
<1>4. CASE Writes
  <2>1. PICK c \in Connections : TcpWrite(c)
    BY <1>4 DEF Writes
  <2> QED
    BY <1>1, <1>2, <2>1 DEF TcpWrite, Errors
<1> QED
  BY <1>2, <1>3, <1>4

LEMMA TcpOpensTyped ==
  ASSUME TcpOK, NEW m \in Messages, TcpOpens(m)
  PROVE  tcp' \in Seq(TcpEntries) /\ (Sends \/ UNCHANGED fromTcp)
<1>1. m.connection \in Connections /\ NoConnection \in Connections
  BY NoConnectionTyped DEF Messages
<1>2. \A st \in TcpStates : TcpEntry(m.connection, st) \in TcpEntries
  BY <1>1 DEF TcpEntry, TcpEntries
<1>3. tcp' \in Seq(TcpEntries)
  <2>1. UNCHANGED tcp \/ \E st \in TcpStates : tcp' = Append(tcp, TcpEntry(m.connection, st))
    BY DEF TcpOpens, TcpStates
  <2>2. tcp \in Seq(TcpEntries)
    BY DEF TcpOK
  <2>3. ASSUME NEW e \in TcpEntries, tcp' = Append(tcp, e)
        PROVE  tcp' \in Seq(TcpEntries)
    BY <2>2, <2>3
  <2> QED
    BY <1>2, <2>1, <2>2, <2>3
<1> QED
  BY <1>1, <1>3 DEF TcpOpens, Sends, Errors

LEMMA TcpHandlesTyped ==
  ASSUME TcpOK, NEW m \in Messages, NEW i \in DOMAIN tcp, TcpHandles(m, i)
  PROVE  tcp' \in Seq(TcpEntries) /\ (Sends \/ UNCHANGED fromTcp)
<1>1. m.connection \in Connections
  BY DEF Messages
<1>2. tcp' \in Seq(TcpEntries)
  <2>1. \/ \E st \in TcpStates : TcpGoesTo(i, st)
        \/ tcp' = Erase(tcp, i) \/ UNCHANGED tcp
    BY DEF TcpHandles, TcpStates
  <2> QED
    BY <2>1, TcpListTyped DEF TcpOK
<1> QED
  BY <1>1, <1>2 DEF TcpHandles, Sends, Errors

LEMMA TcpRequestTyped == ASSUME WellTyped, TcpRequest PROVE WellTyped'
<1> DEFINE m == Head(toTcp)
           i == TcpMatching(m.connection)
<1>1. /\ toTcp # <<>> /\ toTcp' = Tail(toTcp) /\ m \in Messages
      /\ UNCHANGED <<socks, call, tcpq, udpVars>>
      /\ IF i = 0 THEN TcpOpens(m) ELSE TcpHandles(m, i) \/ TcpIgnores(m, i)
  BY HeadMessage DEF TcpRequest, WellTyped, appVars
<1>2. TcpOK
  BY DEF WellTyped
<1>3. i # 0 => i \in DOMAIN tcp
  BY <1>2, TcpFound
<1> HIDE DEF i
<1>4. tcp' \in Seq(TcpEntries) /\ (Sends \/ UNCHANGED fromTcp)
  <2>1. CASE UNCHANGED <<fromTcp, tcp>>
    BY <1>2, <2>1 DEF TcpOK
  <2> QED
    BY <1>1, <1>2, <1>3, <2>1, TcpOpensTyped, TcpHandlesTyped DEF TcpIgnores
<1>5. TcpOK'
  BY <1>1, <1>2, <1>4, TcpSends DEF TcpOK
<1> QED
  BY <1>1, <1>5, UdpUnchanged DEF WellTyped, SocksOK, CallOK

LEMMA TcpSegmentTyped ==
  ASSUME WellTyped, NEW port \in PortNumbers, NEW peer \in Peers, TcpSegment(port, peer)
  PROVE  WellTyped'
<1> DEFINE c == [src |-> "me", srcport |-> port, dest |-> peer, protocol |-> "tcp"]
           i == TcpMatching(c)
<1>1. UNCHANGED <<socks, call, tcpq, toTcp, udpVars>> /\ i # 0
  BY DEF TcpSegment, appVars
<1>2. TcpOK /\ c \in Connections /\ NoConnection \in Connections
  BY NoConnectionTyped DEF WellTyped, Connections, Protocols
<1>3. i \in DOMAIN tcp /\ tcp[i].connection \in Connections
  BY <1>1, <1>2, TcpFound DEF TcpEntries
<1>a. \/ \E st \in TcpStates : TcpGoesTo(i, st)
      \/ tcp' = Erase(tcp, i) \/ UNCHANGED tcp
      \/ tcp' = [tcp EXCEPT ![i] = [connection |-> c, st |-> "SYN_RCVD", tmr |-> TRUE]]
  BY DEF TcpSegment, TcpStates
<1>b. \/ TcpStatus(c, "EOK") \/ TcpStatus(NoConnection, "EOK") \/ UNCHANGED fromTcp
      \/ TcpWrite(c) \/ TcpWrite(tcp[i].connection)
  BY DEF TcpSegment
<1> HIDE DEF c, i
<1>4. tcp' \in Seq(TcpEntries)
  BY <1>2, <1>3, <1>a, TcpListTyped DEF TcpOK, TcpStates
<1>5. Sends \/ Writes \/ UNCHANGED fromTcp
  BY <1>2, <1>3, <1>b DEF Sends, Writes, Errors
<1>6. TcpOK'
  BY <1>1, <1>2, <1>4, <1>5, TcpSends DEF TcpOK
<1> QED
  BY <1>1, <1>6, UdpUnchanged DEF WellTyped, SocksOK, CallOK

LEMMA TcpTimeoutTyped == ASSUME WellTyped, TcpTimeout PROVE WellTyped'
<1>1. UNCHANGED <<socks, call, tcpq, toTcp, fromTcp, udpVars>> /\ TcpOK
  BY DEF TcpTimeout, appVars, WellTyped
<1>2. tcp' \in Seq(TcpEntries)
  BY <1>1, TcpListTyped DEF TcpTimeout
<1>3. TcpOK'
  BY <1>1, <1>2 DEF TcpOK
<1> QED
  BY <1>1, <1>3, UdpUnchanged DEF WellTyped, SocksOK, CallOK

-----------------------------------------------------------------------------
LEMMA InitTyped == Init => WellTyped
<1> SUFFICES ASSUME Init PROVE WellTyped
  OBVIOUS
<1>1. SocksOK
  BY NoConnectionTyped DEF Init, SocksOK
<1>2. CallOK
  BY DEF Init, CallOK, Idle
<1>3. TcpOK /\ UdpOK
  BY DEF Init, TcpOK, UdpOK
<1> QED
  BY <1>1, <1>2, <1>3 DEF WellTyped

LEMMA StackTyped == ASSUME WellTyped, SockStep \/ Below \/ Crash PROVE WellTyped'
<1>1. CASE SockStep
  BY <1>1, ProcessTyped, TcpWriteTyped, UdpWriteTyped, StatusReceivedTyped DEF SockStep
<1>2. CASE (\E peer \in Peers : HandleICMPWrite(peer)) \/ Crash
  <2>1. UNCHANGED <<socks, call, tcpVars, udpVars>>
    BY <1>2 DEF HandleICMPWrite, NoMatch, Crash, appVars
  <2> QED
    BY <2>1, LocalTyped DEF WellTyped, SocksOK
<1>3. CASE UdpRequest \/ TcpRequest \/ TcpTimeout
  BY <1>3, UdpRequestTyped, TcpRequestTyped, TcpTimeoutTyped
<1>4. CASE Segment
  BY <1>4, UdpDatagramTyped, TcpSegmentTyped DEF Segment
<1> QED
  BY <1>1, <1>2, <1>3, <1>4 DEF Below

LEMMA StepTyped == WellTyped /\ [Next]_vars => WellTyped'
<1> SUFFICES ASSUME WellTyped, [Next]_vars PROVE WellTyped'
  OBVIOUS
<1>1. CASE UNCHANGED vars
  BY <1>1, TypesUnchanged
<1>2. CASE AppCalls \/ AppReturns
  BY <1>2, AppTyped
<1>3. CASE SockStep \/ Below \/ Crash
  BY <1>3, StackTyped
<1> QED
  BY <1>1, <1>2, <1>3 DEF Next, Runs

(* At every moment each request names a connection and a socket, and no     *)
(* FORWARD is without a port, for UDP's list of forwards as for its FIFO    *)
(* (sock_module.cc 738, 832, udp_module.cc 167).                           *)
THEOREM RequestsWellTyped == Spec => []WellTyped
<1> QED
  BY InitTyped, StepTyped, PTL DEF Spec

(* Only UdpRequest changes the list. *)
LEMMA StepKeepsForwards ==
  ASSUME WellTyped, [Next]_vars, clist' # clist
  PROVE  UdpRequest
<1>1. [Next]_vars => UdpRequest \/ clist' = clist
  BY DEF vars, udpVars, Next, Runs, Crash, AppCalls, AppReturns, SockStep, Below, Segment, ProcessAppRequest, Refuse,
     Socket, Bind, NoPort, Listen, Accept, Connect, Read, Write, Close, Stub, SendRequest,
     SendUDPRequest, HandleTCPWrite, HandleTCPStatus, HandleUDPWrite, HandleUDPStatus,
     HandleICMPWrite, TcpRequest, TcpSegment, TcpTimeout, UdpDatagram
<1> QED
  BY <1>1


(* A socket loses its forward in UDP only to a request that names its own   *)
(* port, or to the CLOSE of a socket without one (udp_module.cc 163, 185).  *)
THEOREM OnlyOwnRequests == Spec => ForwardsKept
<1>1. ASSUME WellTyped, [Next]_vars
      PROVE  [\A i \in DOMAIN clist :
                (\A j \in DOMAIN clist' : clist'[j] # clist[i]) =>
                  LET m == Head(toUdp) IN
                  \/ m.connection.srcport = clist[i].srcport
                  \/ m.type = "CLOSE" /\ m.connection.srcport = PORT_NONE]_clist
  <2> SUFFICES ASSUME clist' # clist, NEW i \in DOMAIN clist,
                      \A j \in DOMAIN clist' : clist'[j] # clist[i]
               PROVE  \/ Head(toUdp).connection.srcport = clist[i].srcport
                      \/ Head(toUdp).type = "CLOSE" /\ Head(toUdp).connection.srcport = PORT_NONE
    OBVIOUS
  <2> DEFINE m == Head(toUdp)
             c == m.connection
             w == Without(c)
  <2>1. UdpRequest
    BY <1>1, StepKeepsForwards
  <2>2. /\ m \in ToUdpMessages
        /\ \/ m.type = "FORWARD" /\ clist' = Append(w, c)
           \/ m.type = "CLOSE" /\ clist' = w
    BY <1>1, <2>1, HeadMessage DEF UdpRequest, WellTyped
  <2>3. clist[i].srcport # PORT_NONE
    BY <1>1 DEF WellTyped, UdpOK, Forwards
  <2>4. Matches(clist[i], c)
    <3>1. w \in Seq(Forwards)
      BY <1>1, Erased DEF WellTyped
    <3>2. ~Matches(clist[i], c) => \E j \in DOMAIN w : w[j] = clist[i]
      BY <1>1, Erased DEF WellTyped
    <3> HIDE DEF w, c
    <3>3. Queue(w)
      BY <3>1 DEF Queue
    <3>4. \A j \in DOMAIN w : j \in DOMAIN clist' /\ clist'[j] = w[j]
      <4>1. CASE clist' = Append(w, c)
        BY <3>1, <4>1
      <4>2. CASE clist' = w
        BY <4>2
      <4> QED
        BY <2>2, <4>1, <4>2
    <3> QED
      BY <3>2, <3>4
  <2> QED
    BY <2>2, <2>3, <2>4 DEF Matches, MatchesSource, ToUdpMessages
<1> QED
  BY <1>1, RequestsWellTyped, PTL DEF Spec, ForwardsKept
-----------------------------------------------------------------------------
(* The answers that a queue of requests waits for: the STATUS on their way  *)
(* up, in their order, and then the requests on their way down.             *)
Ofs(isStatus) == {m \in Messages : (m.type = "STATUS") = isStatus}
Coming(up, down) == OfType(up, TRUE) \o OfType(down, FALSE)

LEMMA OfTypeSelects ==
  ASSUME NEW s \in Seq(Messages), NEW isStatus \in BOOLEAN
  PROVE  Selects(OfTypeUpto(s, isStatus), s, Ofs(isStatus))
<1> DEFINE upto == OfTypeUpto(s, isStatus)
           S == Ofs(isStatus)
           L == Len(s)
<1>1. L \in Nat /\ \A n \in 1 .. L : s[n] \in Messages
  OBVIOUS
<1>2. \A n \in 1 .. L : s[n] \in S <=> (s[n].type = "STATUS") = isStatus
  BY <1>1 DEF Ofs
<1> HIDE DEF S
<1>3. PICK f : f = [n \in 0 .. L |->
                     IF n = 0 THEN <<>> ELSE IF s[n] \in S THEN Append(f[n - 1], s[n]) ELSE f[n - 1]]
  <2> HIDE DEF L
  <2> QED
    BY SelectionExists DEF L
<1>4. ASSUME NEW n \in 0 .. L
      PROVE  f[n] = IF n = 0 THEN <<>>
                    ELSE IF (s[n].type = "STATUS") = isStatus THEN Append(f[n - 1], s[n]) ELSE f[n - 1]
  <2>1. n = 0 \/ n \in 1 .. L
    BY <1>1
  <2>2. f[n] = IF n = 0 THEN <<>> ELSE IF s[n] \in S THEN Append(f[n - 1], s[n]) ELSE f[n - 1]
    BY <1>3
  <2> QED
    BY <2>1, <2>2, <1>2
<1>5. f = [n \in 0 .. L |->
            IF n = 0 THEN <<>>
            ELSE IF (s[n].type = "STATUS") = isStatus THEN Append(f[n - 1], s[n]) ELSE f[n - 1]]
  <2>1. f = [n \in 0 .. L |-> f[n]]
    BY <1>3
  <2> QED
    BY <2>1, <1>4
<1>6. upto = [n \in 0 .. L |->
            IF n = 0 THEN <<>>
            ELSE IF (s[n].type = "STATUS") = isStatus THEN Append(upto[n - 1], s[n]) ELSE upto[n - 1]]
  BY <1>5 DEF OfTypeUpto
<1> HIDE DEF upto
<1>7. \A n \in 1 .. L : n # 0 /\ n \in 0 .. L /\ 0 \in 0 .. L
  BY <1>1
<1>8. upto[0] = <<>>
  <2>1. 0 \in 0 .. L
    BY <1>1
  <2> QED
    BY <1>6, <2>1
<1>9. ASSUME NEW n \in 1 .. L PROVE upto[n] = IF s[n] \in S THEN Append(upto[n - 1], s[n]) ELSE upto[n - 1]
  <2>1. upto[n] = IF (s[n].type = "STATUS") = isStatus THEN Append(upto[n - 1], s[n]) ELSE upto[n - 1]
    BY <1>6, <1>7
  <2> QED
    BY <2>1, <1>2
<1> QED
  BY <1>8, <1>9 DEF Selects, upto, S

LEMMA OfTypeFacts ==
  ASSUME NEW s \in Seq(Messages), NEW isStatus \in BOOLEAN
  PROVE  OfType(s, isStatus) \in Seq(Range(s) \cap Ofs(isStatus))
<1>1. Len(s) \in 0 .. Len(s)
  OBVIOUS
<1> QED
  BY <1>1, OfTypeSelects, Selected DEF OfType

LEMMA OfTypeLater ==
  ASSUME NEW s \in Seq(Messages), NEW m \in Messages, NEW isStatus \in BOOLEAN
  PROVE  OfType(Append(s, m), isStatus) =
           IF m \in Ofs(isStatus) THEN Append(OfType(s, isStatus), m) ELSE OfType(s, isStatus)
<1>1. Append(s, m) \in Seq(Messages)
  OBVIOUS
<1>2. Selects(OfTypeUpto(s, isStatus), s, Ofs(isStatus))
  BY OfTypeSelects
<1>3. Selects(OfTypeUpto(Append(s, m), isStatus), Append(s, m), Ofs(isStatus))
  BY <1>1, OfTypeSelects
<1> QED
  BY <1>2, <1>3, SelectedLater DEF OfType

LEMMA OfTypeFirst ==
  ASSUME NEW s \in Seq(Messages), s # <<>>, NEW isStatus \in BOOLEAN
  PROVE  /\ Head(s) \in Ofs(isStatus) =>
              /\ OfType(s, isStatus) # <<>> /\ Head(OfType(s, isStatus)) = Head(s)
              /\ OfType(Tail(s), isStatus) = Tail(OfType(s, isStatus))
         /\ Head(s) \notin Ofs(isStatus) => OfType(Tail(s), isStatus) = OfType(s, isStatus)
<1>1. Tail(s) \in Seq(Messages)
  OBVIOUS
<1>2. Selects(OfTypeUpto(s, isStatus), s, Ofs(isStatus))
  BY OfTypeSelects
<1>3. Selects(OfTypeUpto(Tail(s), isStatus), Tail(s), Ofs(isStatus))
  BY <1>1, OfTypeSelects
<1> QED
  BY <1>2, <1>3, SelectedFirst DEF OfType

(* The answers that come: STATUS, and then requests. *)
LEMMA ComingFacts ==
  ASSUME NEW up \in Seq(Messages), NEW down \in Seq(Messages)
  PROVE  LET a == Coming(up, down)
             n == Len(OfType(up, TRUE))
         IN  /\ a \in Seq(Messages) /\ n \in Nat /\ Len(a) \in Nat /\ n <= Len(a)
             /\ Len(a) = n + Len(OfType(down, FALSE))
             /\ \A i \in 1 .. Len(a) : a[i].type = "STATUS" <=> i <= n
             /\ \A i \in 1 .. Len(OfType(down, FALSE)) : OfType(down, FALSE)[i] = a[n + i]
<1> DEFINE u == OfType(up, TRUE)
           d == OfType(down, FALSE)
           n == Len(u)
           a == u \o d
<1>1. u \in Seq(Ofs(TRUE)) /\ u \in Seq(Messages)
  <2>1. Range(up) \cap Ofs(TRUE) \subseteq Ofs(TRUE) /\ Ofs(TRUE) \subseteq Messages
    BY DEF Ofs
  <2>2. u \in Seq(Range(up) \cap Ofs(TRUE))
    BY OfTypeFacts
  <2> QED
    BY <2>1, <2>2, SeqMonotonic
<1>2. d \in Seq(Ofs(FALSE)) /\ d \in Seq(Messages)
  <2>1. Range(down) \cap Ofs(FALSE) \subseteq Ofs(FALSE) /\ Ofs(FALSE) \subseteq Messages
    BY DEF Ofs
  <2>2. d \in Seq(Range(down) \cap Ofs(FALSE))
    BY OfTypeFacts
  <2> QED
    BY <2>1, <2>2, SeqMonotonic
<1> HIDE DEF u, d
<1>3. /\ a \in Seq(Messages) /\ Len(a) = Len(u) + Len(d)
      /\ \A i \in 1 .. Len(u) + Len(d) : a[i] = IF i <= Len(u) THEN u[i] ELSE d[i - Len(u)]
  BY <1>1, <1>2, ConcatProperties
<1>4. Len(u) \in Nat /\ Len(d) \in Nat
  BY <1>1, <1>2
<1>5. /\ \A i \in 1 .. Len(u) : u[i].type = "STATUS"
      /\ \A i \in 1 .. Len(d) : d[i].type # "STATUS"
  BY <1>1, <1>2 DEF Ofs
<1> HIDE DEF a
<1>6. \A i \in 1 .. Len(a) : a[i].type = "STATUS" <=> i <= n
  <2> TAKE i \in 1 .. Len(a)
  <2>1. CASE i <= n
    <3>1. i \in 1 .. Len(u)
      BY <2>1, <1>3, <1>4
    <3> QED
      BY <2>1, <3>1, <1>3, <1>5
  <2>2. CASE ~ (i <= n)
    <3>1. i - Len(u) \in 1 .. Len(d)
      BY <2>2, <1>3, <1>4
    <3> QED
      BY <2>2, <3>1, <1>3, <1>5
  <2> QED
    BY <2>1, <2>2
<1>7. \A i \in 1 .. Len(d) : d[i] = a[n + i]
  <2> TAKE i \in 1 .. Len(d)
  <2>1. n + i \in 1 .. Len(u) + Len(d) /\ ~ (n + i <= Len(u)) /\ (n + i) - Len(u) = i
    BY <1>4
  <2> QED
    BY <2>1, <1>3
<1>8. a \in Seq(Messages) /\ n \in Nat /\ Len(a) \in Nat /\ n <= Len(a) /\ Len(a) = n + Len(d)
  BY <1>3, <1>4
<1>9. Coming(up, down) = a /\ OfType(up, TRUE) = u /\ OfType(down, FALSE) = d
  BY DEF a, u, d, Coming
<1> HIDE DEF n
<1>10. Len(OfType(up, TRUE)) = n
  BY <1>9 DEF n
<1> QED
  BY <1>6, <1>7, <1>8, <1>9, <1>10

LEMMA OfsFacts ==
  ASSUME NEW m \in Messages
  PROVE  /\ m.type = "STATUS" => m \in Ofs(TRUE) /\ m \notin Ofs(FALSE)
         /\ m.type # "STATUS" => m \in Ofs(FALSE) /\ m \notin Ofs(TRUE)
  BY DEF Ofs

(* What does not change the answers to come. *)
LEMMA ComingKept ==
  ASSUME NEW up \in Seq(Messages), NEW down \in Seq(Messages), NEW m \in Messages
  PROVE  /\ m.type # "STATUS" => Coming(Append(up, m), down) = Coming(up, down)
         /\ m.type = "STATUS" => Coming(up, Append(down, m)) = Coming(up, down)
         /\ up # <<>> /\ Head(up).type # "STATUS" => Coming(Tail(up), down) = Coming(up, down)
         /\ down # <<>> /\ Head(down).type = "STATUS" => Coming(up, Tail(down)) = Coming(up, down)
<1>1. /\ up # <<>> => Head(up) \in Messages
      /\ down # <<>> => Head(down) \in Messages
  OBVIOUS
<1>2. ASSUME m.type # "STATUS" PROVE OfType(Append(up, m), TRUE) = OfType(up, TRUE)
  BY <1>2, OfsFacts, OfTypeLater
<1>3. ASSUME m.type = "STATUS" PROVE OfType(Append(down, m), FALSE) = OfType(down, FALSE)
  BY <1>3, OfsFacts, OfTypeLater
<1>4. ASSUME up # <<>>, Head(up).type # "STATUS" PROVE OfType(Tail(up), TRUE) = OfType(up, TRUE)
  BY <1>1, <1>4, OfsFacts, OfTypeFirst
<1>5. ASSUME down # <<>>, Head(down).type = "STATUS" PROVE OfType(Tail(down), FALSE) = OfType(down, FALSE)
  BY <1>1, <1>5, OfsFacts, OfTypeFirst
<1> QED
  BY <1>2, <1>3, <1>4, <1>5 DEF Coming

(* A request is sent. *)
LEMMA ComingSent ==
  ASSUME NEW up \in Seq(Messages), NEW down \in Seq(Messages), NEW m \in Messages, m.type # "STATUS"
  PROVE  Coming(up, Append(down, m)) = Append(Coming(up, down), m)
<1> DEFINE u == OfType(up, TRUE)
           d == OfType(down, FALSE)
<1>1. u \in Seq(Messages) /\ d \in Seq(Messages)
  <2>1. Range(up) \cap Ofs(TRUE) \subseteq Messages /\ Range(down) \cap Ofs(FALSE) \subseteq Messages
    BY DEF Ofs
  <2> QED
    BY <2>1, OfTypeFacts, SeqMonotonic
<1>2. OfType(Append(down, m), FALSE) = Append(d, m)
  BY OfsFacts, OfTypeLater
<1> HIDE DEF u, d
<1>3. u \o Append(d, m) = Append(u \o d, m)
  <2>1. u \o d \in Seq(Messages) /\ <<m>> \in Seq(Messages)
    BY <1>1
  <2>2. Append(d, m) = d \o <<m>> /\ Append(u \o d, m) = (u \o d) \o <<m>>
    BY <1>1, <2>1, AppendIsConcat
  <2> QED
    BY <1>1, <2>1, <2>2, ConcatAssociative
<1> QED
  BY <1>2, <1>3 DEF Coming, u, d

(* The request at the head of a FIFO gets its STATUS. *)
LEMMA ComingAnswered ==
  ASSUME NEW up \in Seq(Messages), NEW down \in Seq(Messages), down # <<>>, Head(down).type # "STATUS",
         NEW m \in Messages, m.type = "STATUS"
  PROVE  LET a == Coming(up, down)
             b == Coming(Append(up, m), Tail(down))
             n == Len(OfType(up, TRUE)) + 1
         IN  /\ n \in 1 .. Len(a) /\ a[n] = Head(down)
             /\ Len(b) = Len(a) /\ b[n] = m
             /\ \A i \in 1 .. Len(a) : i # n => b[i] = a[i]
             /\ \A i \in 1 .. Len(a) : a[i].type # "STATUS" => n <= i
<1> DEFINE u == OfType(up, TRUE)
           d == OfType(down, FALSE)
           v == Append(u, m)
           t == Tail(d)
           n == Len(u) + 1
           a == u \o d
           b == v \o t
<1>0. Head(down) \in Messages /\ Tail(down) \in Seq(Messages) /\ Append(up, m) \in Seq(Messages)
  OBVIOUS
<1>1. u \in Seq(Messages) /\ d \in Seq(Messages)
  <2>1. Range(up) \cap Ofs(TRUE) \subseteq Messages /\ Range(down) \cap Ofs(FALSE) \subseteq Messages
    BY DEF Ofs
  <2> QED
    BY <2>1, OfTypeFacts, SeqMonotonic
<1>2. OfType(Append(up, m), TRUE) = v
  BY OfsFacts, OfTypeLater
<1>3. d # <<>> /\ Head(d) = Head(down) /\ OfType(Tail(down), FALSE) = t
  BY <1>0, OfsFacts, OfTypeFirst
<1>4. Coming(up, down) = a /\ Coming(Append(up, m), Tail(down)) = b
  BY <1>2, <1>3 DEF Coming
<1>5. \A i \in 1 .. Len(a) : a[i].type # "STATUS" => ~ (i <= Len(u))
  <2>1. \A i \in 1 .. Len(Coming(up, down)) :
          Coming(up, down)[i].type = "STATUS" <=> i <= Len(OfType(up, TRUE))
    BY ComingFacts
  <2> QED
    BY <2>1, <1>4
<1> HIDE DEF u, d
<1>6. /\ v \in Seq(Messages) /\ Len(v) = Len(u) + 1 /\ v[Len(u) + 1] = m
      /\ \A i \in 1 .. Len(u) : v[i] = u[i]
  BY <1>1
<1>7. /\ t \in Seq(Messages) /\ Len(t) = Len(d) - 1 /\ Len(d) \in Nat \ {0} /\ Len(u) \in Nat
      /\ d[1] = Head(down) /\ \A i \in 1 .. Len(d) - 1 : t[i] = d[i + 1]
  BY <1>1, <1>3
<1> HIDE DEF v, t
<1>8. /\ Len(a) = Len(u) + Len(d)
      /\ \A i \in 1 .. Len(u) + Len(d) : a[i] = IF i <= Len(u) THEN u[i] ELSE d[i - Len(u)]
  BY <1>1, ConcatProperties
<1>9. /\ Len(b) = Len(v) + Len(t)
      /\ \A i \in 1 .. Len(v) + Len(t) : b[i] = IF i <= Len(v) THEN v[i] ELSE t[i - Len(v)]
  BY <1>6, <1>7, ConcatProperties
<1> HIDE DEF a, b
<1>10. n \in 1 .. Len(a) /\ ~ (n <= Len(u)) /\ n - Len(u) = 1 /\ Len(b) = Len(a) /\ n <= Len(v)
  BY <1>6, <1>7, <1>8, <1>9
<1>11. a[n] = Head(down)
  BY <1>7, <1>8, <1>10
<1>12. b[n] = m
  BY <1>6, <1>8, <1>9, <1>10
<1>13. ASSUME NEW i \in 1 .. Len(a), i # n PROVE b[i] = a[i]
  <2>1. CASE i <= Len(u)
    <3>1. i \in 1 .. Len(u) /\ i <= Len(v) /\ i \in 1 .. Len(v) + Len(t) /\ i \in 1 .. Len(u) + Len(d)
      BY <1>6, <1>7, <1>8, <2>1
    <3> QED
      BY <2>1, <3>1, <1>6, <1>8, <1>9
  <2>2. CASE ~ (i <= Len(u))
    <3>1. /\ ~ (i <= Len(v)) /\ i \in 1 .. Len(v) + Len(t) /\ i \in 1 .. Len(u) + Len(d)
          /\ i - Len(v) \in 1 .. Len(d) - 1 /\ (i - Len(v)) + 1 = i - Len(u)
      BY <1>6, <1>7, <1>8, <1>13, <2>2
    <3> QED
      BY <2>2, <3>1, <1>7, <1>8, <1>9
  <2> QED
    BY <2>1, <2>2
<1>14. \A i \in 1 .. Len(a) : a[i].type # "STATUS" => n <= i
  <2> TAKE i \in 1 .. Len(a)
  <2>1. ~ (i <= Len(u)) => n <= i
    BY <1>7
  <2> QED
    BY <2>1, <1>5
<1> QED
  BY <1>4, <1>10, <1>11, <1>12, <1>13, <1>14 DEF u

(* The STATUS at the head of a FIFO is taken. *)
LEMMA ComingTaken ==
  ASSUME NEW up \in Seq(Messages), NEW down \in Seq(Messages), up # <<>>, Head(up).type = "STATUS"
  PROVE  LET a == Coming(up, down)
         IN  /\ a # <<>> /\ Head(a) = Head(up)
             /\ Coming(Tail(up), down) = Tail(a)
<1> DEFINE u == OfType(up, TRUE)
           d == OfType(down, FALSE)
<1>1. u \in Seq(Messages) /\ d \in Seq(Messages)
  <2>1. Range(up) \cap Ofs(TRUE) \subseteq Messages /\ Range(down) \cap Ofs(FALSE) \subseteq Messages
    BY DEF Ofs
  <2> QED
    BY <2>1, OfTypeFacts, SeqMonotonic
<1>2. u # <<>> /\ Head(u) = Head(up) /\ OfType(Tail(up), TRUE) = Tail(u)
  <2>1. Head(up) \in Messages
    OBVIOUS
  <2> QED
    BY <2>1, OfsFacts, OfTypeFirst
<1>3. Coming(Tail(up), down) = Tail(u) \o d /\ Coming(up, down) = u \o d
  BY <1>2 DEF Coming
<1> HIDE DEF u, d
<1> DEFINE a == u \o d
           b == Tail(u) \o d
<1>4. /\ a \in Seq(Messages) /\ Len(a) = Len(u) + Len(d)
      /\ \A i \in 1 .. Len(u) + Len(d) : a[i] = IF i <= Len(u) THEN u[i] ELSE d[i - Len(u)]
  BY <1>1, ConcatProperties
<1>5. /\ Tail(u) \in Seq(Messages) /\ Len(Tail(u)) = Len(u) - 1 /\ Len(u) \in Nat \ {0} /\ Len(d) \in Nat
      /\ Head(u) = u[1] /\ \A i \in 1 .. Len(u) - 1 : Tail(u)[i] = u[i + 1]
  BY <1>1, <1>2
<1>6. /\ b \in Seq(Messages) /\ Len(b) = Len(u) - 1 + Len(d)
      /\ \A i \in 1 .. Len(u) - 1 + Len(d) : b[i] = IF i <= Len(u) - 1 THEN Tail(u)[i] ELSE d[i - (Len(u) - 1)]
  <2> DEFINE w == Tail(u)
  <2>1. w \in Seq(Messages) /\ Len(w) = Len(u) - 1
    BY <1>5
  <2> HIDE DEF w
  <2>2. /\ w \o d \in Seq(Messages) /\ Len(w \o d) = Len(w) + Len(d)
        /\ \A i \in 1 .. Len(w) + Len(d) : (w \o d)[i] = IF i <= Len(w) THEN w[i] ELSE d[i - Len(w)]
    BY <1>1, <2>1, ConcatProperties
  <2> QED
    BY <2>1, <2>2 DEF w
<1> HIDE DEF a, b
<1>7. a # <<>> /\ Head(a) = Head(up)
  <2>1. 1 \in 1 .. Len(u) + Len(d) /\ 1 <= Len(u) /\ Len(a) # 0
    BY <1>4, <1>5
  <2>2. a # <<>> /\ Head(a) = a[1]
    BY <2>1, <1>4
  <2> QED
    BY <2>1, <2>2, <1>2, <1>4, <1>5
<1>8. Tail(a) \in Seq(Messages) /\ Len(Tail(a)) = Len(a) - 1 /\ \A i \in 1 .. Len(a) - 1 : Tail(a)[i] = a[i + 1]
  BY <1>4, <1>7, HeadTailProperties
<1>9. ASSUME NEW i \in 1 .. Len(u) - 1 + Len(d) PROVE b[i] = Tail(a)[i]
  <2>1. i + 1 \in 1 .. Len(u) + Len(d) /\ i \in 1 .. Len(a) - 1 /\ (i + 1) - Len(u) = i - (Len(u) - 1)
    BY <1>4, <1>5
  <2>2. CASE i <= Len(u) - 1
    <3>1. i + 1 <= Len(u) /\ i \in 1 .. Len(u) - 1
      BY <1>5, <2>2
    <3> QED
      BY <2>1, <2>2, <3>1, <1>4, <1>5, <1>6, <1>8
  <2>3. CASE ~ (i <= Len(u) - 1)
    <3>1. ~ (i + 1 <= Len(u))
      BY <1>5, <2>3
    <3> QED
      BY <2>1, <2>3, <3>1, <1>4, <1>6, <1>8
  <2> QED
    BY <2>2, <2>3
<1>10. b = Tail(a)
  <2>1. Len(b) = Len(Tail(a)) /\ Len(b) = Len(u) - 1 + Len(d)
    BY <1>4, <1>5, <1>6, <1>8
  <2> QED
    BY <2>1, <1>6, <1>8, <1>9, SeqEqual
<1> QED
  BY <1>3, <1>7, <1>10 DEF a, b
-----------------------------------------------------------------------------
(* The n-th answer that comes, a STATUS or the request for one, is that of  *)
(* the n-th request in the queue.                                           *)
UdpAnswers == Coming(fromUdp, toUdp)
UdpQueueOK ==
  /\ Len(udpq) = Len(UdpAnswers)
  /\ \A i \in 1 .. Len(udpq) : UdpAnswers[i].type \in {"STATUS", udpq[i].type}

LEMMA Appended ==
  ASSUME NEW S, NEW s \in Seq(S), NEW x \in S, NEW n \in Nat, n = Len(s)
  PROVE  LET t == Append(s, x) IN
         /\ t \in Seq(S) /\ Len(t) = n + 1 /\ t[n + 1] = x
         /\ \A i \in 1 .. n : t[i] = s[i]
  OBVIOUS

LEMMA UdpSeqs ==
  ASSUME WellTyped
  PROVE  /\ fromUdp \in Seq(Messages) /\ toUdp \in Seq(Messages) /\ ToUdpMessages \subseteq Messages
         /\ UdpAnswers \in Seq(Messages) /\ udpq \in Seq(Requests)
         /\ \A i \in 1 .. Len(udpq) : udpq[i] \in Requests /\ udpq[i].sock \in Socks
<1>1. ToUdpMessages \subseteq Messages
  BY DEF ToUdpMessages
<1>2. fromUdp \in Seq(Messages) /\ toUdp \in Seq(Messages) /\ udpq \in Seq(Requests)
  BY <1>1, SeqMonotonic DEF WellTyped, UdpOK
<1>3. UdpAnswers \in Seq(Messages)
  BY <1>2, ComingFacts DEF UdpAnswers
<1>4. \A r \in Requests : r.sock \in Socks
  BY DEF Requests
<1> QED
  BY <1>1, <1>2, <1>3, <1>4

LEMMA RequestQueued ==
  ASSUME WellTyped, UdpQueueOK, NEW type \in {"FORWARD", "WRITE", "CLOSE"}, NEW c \in Connections, NEW k \in Socks,
         SendUDPRequest(type, c, k)
  PROVE  UdpQueueOK'
<1> DEFINE r == [type |-> type, sock |-> k]
           m == Srr(type, c, "EOK")
<1>1. /\ toUdp' = Append(toUdp, m) /\ UNCHANGED fromUdp /\ udpq' = Append(udpq, r)
      /\ fromUdp \in Seq(Messages) /\ toUdp \in Seq(Messages) /\ UdpAnswers \in Seq(Messages) /\ udpq \in Seq(Requests)
  BY UdpSeqs DEF SendUDPRequest
<1>2. r \in Requests /\ m \in Messages /\ m.type = type /\ m.type # "STATUS" /\ r.type = type
  BY DEF RequestTypes, Srr, Messages, Errors, Requests
<1>0. PICK n \in Nat : n = Len(udpq) /\ n = Len(UdpAnswers)
  BY <1>1 DEF UdpQueueOK
<1> HIDE DEF r, m
<1>3. UdpAnswers' = Append(UdpAnswers, m)
  <2>1. Coming(fromUdp, Append(toUdp, m)) = Append(Coming(fromUdp, toUdp), m)
    BY <1>1, <1>2, ComingSent
  <2> QED
    BY <1>1, <2>1 DEF UdpAnswers
<1>4. /\ Len(udpq') = n + 1 /\ udpq'[n + 1] = r
      /\ \A i \in 1 .. n : udpq'[i] = udpq[i]
  <2>1. udpq' = Append(udpq, r) /\ udpq \in Seq(Requests) /\ r \in Requests /\ Len(udpq) = n
    BY <1>0, <1>1, <1>2
  <2> QED
    BY <2>1, Appended
<1>5. /\ Len(UdpAnswers') = n + 1 /\ UdpAnswers'[n + 1] = m
      /\ \A i \in 1 .. n : UdpAnswers'[i] = UdpAnswers[i]
  <2>1. UdpAnswers \in Seq(Messages) /\ m \in Messages /\ Len(UdpAnswers) = n
    BY <1>0, <1>1, <1>2
  <2> QED
    BY <2>1, <1>3, Appended
<1>6. \A i \in 1 .. n + 1 : i \in 1 .. n \/ i = n + 1
  BY <1>0
<1> QED
  BY <1>0, <1>2, <1>4, <1>5, <1>6 DEF UdpQueueOK

LEMMA QueueSame ==
  ASSUME UdpQueueOK, UNCHANGED <<udpq, fromUdp, toUdp>>
  PROVE  UdpQueueOK'
  BY DEF UdpQueueOK, UdpAnswers

(* Every call of the application sends at most one request to UDP. *)
LEMMA ProcessQueued ==
  ASSUME WellTyped, WellTyped', UdpQueueOK, ProcessAppRequest
  PROVE  UdpQueueOK'
<1>1. \/ UNCHANGED udpVars
      \/ \E type \in {"FORWARD", "WRITE", "CLOSE"} : \E c, k : SendUDPRequest(type, c, k) /\ k = call.sock
  BY DEF ProcessAppRequest, Refuse, Socket, Bind, NoPort, Listen, Accept, Connect, Read, Write, Close, Stub, SendRequest,
     SendTCPRequest
<1>2. CASE UNCHANGED udpVars
  BY <1>2, QueueSame DEF udpVars
<1>3. ASSUME NEW type \in {"FORWARD", "WRITE", "CLOSE"}, NEW c, NEW k, SendUDPRequest(type, c, k), k = call.sock
      PROVE  UdpQueueOK'
  <2>1. c \in Connections
    <3> DEFINE m == Srr(type, c, "EOK")
    <3>1. toUdp' = Append(toUdp, m) /\ toUdp' \in Seq(ToUdpMessages) /\ Len(toUdp) \in Nat
      BY <1>3 DEF SendUDPRequest, WellTyped, UdpOK
    <3>2. toUdp'[Len(toUdp) + 1] = m /\ Len(toUdp) + 1 \in DOMAIN toUdp'
      BY <3>1 DEF WellTyped, UdpOK
    <3> HIDE DEF m
    <3>3. m \in Messages
      BY <3>1, <3>2, UdpSeqs
    <3> QED
      BY <3>3 DEF m, Srr, Messages
  <2>2. k \in Socks
    <3> DEFINE r == [type |-> type, sock |-> k]
    <3>1. udpq' = Append(udpq, r) /\ udpq' \in Seq(Requests) /\ Len(udpq) \in Nat
      BY <1>3 DEF SendUDPRequest, WellTyped, UdpOK
    <3>2. udpq'[Len(udpq) + 1] = r /\ Len(udpq) + 1 \in DOMAIN udpq'
      BY <3>1 DEF WellTyped, UdpOK
    <3> HIDE DEF r
    <3>3. r \in Requests
      BY <3>1, <3>2
    <3> QED
      BY <3>3 DEF r, Requests
  <2> QED
    BY <1>3, <2>1, <2>2, RequestQueued
<1> QED
  BY <1>1, <1>2, <1>3

LEMMA UdpWriteQueued ==
  ASSUME WellTyped, UdpQueueOK, HandleUDPWrite
  PROVE  UdpAnswers' = UdpAnswers /\ UNCHANGED udpq
<1> DEFINE m == Head(fromUdp)
<1>1. /\ fromUdp # <<>> /\ m.type = "WRITE" /\ m \in Messages /\ fromUdp' = Tail(fromUdp) /\ UNCHANGED udpq
      /\ fromUdp \in Seq(Messages) /\ toUdp \in Seq(Messages)
  BY UdpSeqs DEF HandleUDPWrite
<1>2. PICK error \in Errors : toUdp' = Append(toUdp, Srr("STATUS", m.connection, error))
  <2>1. \E error \in Errors : Reply("udp", m, error)
    BY DEF HandleUDPWrite, NoMatch, Data, Errors
  <2> QED
    BY <2>1 DEF Reply
<1>3. PICK s \in Messages : s = Srr("STATUS", m.connection, error) /\ s.type = "STATUS"
  BY <1>1, <1>2 DEF Srr, Messages
<1>4. Coming(fromUdp, Append(toUdp, s)) = Coming(fromUdp, toUdp) /\ Append(toUdp, s) \in Seq(Messages)
  BY <1>1, <1>3, ComingKept
<1>5. Coming(Tail(fromUdp), Append(toUdp, s)) = Coming(fromUdp, Append(toUdp, s))
  BY <1>1, <1>4, ComingKept
<1> QED
  BY <1>1, <1>2, <1>3, <1>4, <1>5 DEF UdpAnswers

LEMMA UdpStatusQueued ==
  ASSUME WellTyped, UdpQueueOK, HandleUDPStatus
  PROVE  UdpQueueOK'
<1>1. /\ fromUdp # <<>> /\ Head(fromUdp).type = "STATUS" /\ fromUdp' = Tail(fromUdp) /\ UNCHANGED toUdp
      /\ udpq # <<>> /\ udpq' = Tail(udpq)
      /\ fromUdp \in Seq(Messages) /\ toUdp \in Seq(Messages) /\ UdpAnswers \in Seq(Messages) /\ udpq \in Seq(Requests)
  BY UdpSeqs DEF HandleUDPStatus
<1>2. UdpAnswers # <<>> /\ UdpAnswers' = Tail(UdpAnswers)
  BY <1>1, ComingTaken DEF UdpAnswers
<1>3. PICK n \in Nat : n = Len(udpq) /\ n = Len(UdpAnswers)
  BY <1>1 DEF UdpQueueOK
<1>4. /\ n # 0 /\ Len(udpq') = n - 1 /\ Len(UdpAnswers') = n - 1
      /\ \A i \in 1 .. n - 1 : udpq'[i] = udpq[i + 1] /\ UdpAnswers'[i] = UdpAnswers[i + 1] /\ i + 1 \in 1 .. n
  <2>1. n # 0 /\ Len(udpq') = n - 1 /\ \A i \in 1 .. n - 1 : udpq'[i] = udpq[i + 1] /\ i + 1 \in 1 .. n
    <3>1. udpq \in Seq(Requests) /\ udpq # <<>> /\ udpq' = Tail(udpq) /\ Len(udpq) = n
      BY <1>1, <1>3
    <3> QED
      BY <3>1
  <2>2. Len(UdpAnswers') = n - 1 /\ \A i \in 1 .. n - 1 : UdpAnswers'[i] = UdpAnswers[i + 1]
    <3>1. UdpAnswers \in Seq(Messages) /\ Len(UdpAnswers) = n
      BY <1>1, <1>3
    <3> QED
      BY <3>1, <1>2
  <2> QED
    BY <2>1, <2>2
<1> QED
  BY <1>3, <1>4 DEF UdpQueueOK

(* UDP turns a request into its STATUS, or drops a STATUS. *)
LEMMA UdpRequestQueued ==
  ASSUME WellTyped, UdpQueueOK, UdpRequest
  PROVE  UdpQueueOK'
<1> DEFINE m == Head(toUdp)
<1>1. /\ toUdp # <<>> /\ toUdp' = Tail(toUdp) /\ m \in Messages /\ m.connection \in Connections /\ UNCHANGED udpq
      /\ fromUdp \in Seq(Messages) /\ toUdp \in Seq(Messages) /\ UdpAnswers \in Seq(Messages)
  <2>1. toUdp # <<>> /\ toUdp' = Tail(toUdp) /\ UNCHANGED udpq
    BY DEF UdpRequest
  <2>2. m \in Messages
    BY <2>1, UdpSeqs
  <2> QED
    BY <2>1, <2>2, UdpSeqs DEF Messages
<1>2. CASE m.type = "STATUS"
  <2>1. UNCHANGED fromUdp
    BY <1>2 DEF UdpRequest
  <2>2. UdpAnswers' = UdpAnswers
    BY <1>1, <1>2, <2>1, ComingKept DEF UdpAnswers
  <2> QED
    BY <1>1, <2>2 DEF UdpQueueOK
<1>3. CASE m.type # "STATUS"
  <2>1. PICK error \in Errors : UdpReply(m.connection, error)
    BY <1>3 DEF UdpRequest, Errors
  <2>2. PICK s \in Messages : s = Srr("STATUS", m.connection, error) /\ s.type = "STATUS" /\ fromUdp' = Append(fromUdp, s)
    BY <1>1, <2>1 DEF Srr, Messages, UdpReply
  <2> DEFINE n == Len(OfType(fromUdp, TRUE)) + 1
             b == Coming(Append(fromUdp, s), Tail(toUdp))
  <2>3. /\ Len(b) = Len(UdpAnswers) /\ b[n] = s
        /\ \A i \in 1 .. Len(UdpAnswers) : i # n => b[i] = UdpAnswers[i]
    BY <1>1, <1>3, <2>2, ComingAnswered DEF UdpAnswers
  <2>4. UdpAnswers' = b
    BY <1>1, <2>2 DEF UdpAnswers
  <2> HIDE DEF n, b
  <2> QED
    BY <1>1, <2>2, <2>3, <2>4 DEF UdpQueueOK
<1> QED
  BY <1>2, <1>3

LEMMA DatagramQueued ==
  ASSUME WellTyped, WellTyped', UdpQueueOK, NEW port, NEW peer, UdpDatagram(port, peer)
  PROVE  UdpAnswers' = UdpAnswers /\ UNCHANGED udpq
<1> DEFINE i == FindMatching([src |-> "me", srcport |-> port, dest |-> peer, protocol |-> "udp"])
           m == Srr("WRITE", clist[i], "EOK")
<1>1. /\ fromUdp' = Append(fromUdp, m) /\ UNCHANGED <<udpq, toUdp>> /\ m.type # "STATUS"
      /\ fromUdp \in Seq(Messages) /\ toUdp \in Seq(Messages) /\ fromUdp' \in Seq(Messages)
  BY UdpSeqs DEF UdpDatagram, Srr, WellTyped, UdpOK
<1> HIDE DEF m
<1>2. m \in Messages
  <2>1. fromUdp'[Len(fromUdp) + 1] = m /\ Len(fromUdp) + 1 \in DOMAIN fromUdp'
    BY <1>1
  <2> QED
    BY <1>1, <2>1
<1> QED
  BY <1>1, <1>2, ComingKept DEF UdpAnswers

LEMMA StackQueued ==
  ASSUME WellTyped, WellTyped', UdpQueueOK, SockStep \/ Below \/ Crash
  PROVE  UdpQueueOK'
<1>1. CASE HandleTCPWrite \/ HandleTCPStatus \/ TcpRequest \/ TcpTimeout \/ Crash
           \/ (\E peer \in Peers : HandleICMPWrite(peer))
           \/ (\E port \in PortNumbers \ {PORT_NONE}, peer \in Peers : TcpSegment(port, peer))
  <2>1. UNCHANGED udpVars
    BY <1>1 DEF HandleTCPWrite, HandleTCPStatus, TcpRequest, TcpTimeout, Crash, HandleICMPWrite, TcpSegment
  <2> QED
    BY <2>1, QueueSame DEF udpVars
<1>2. CASE HandleUDPWrite \/ (\E port \in PortNumbers \ {PORT_NONE}, peer \in Peers : UdpDatagram(port, peer))
  <2>1. UdpAnswers' = UdpAnswers /\ UNCHANGED udpq
    BY <1>2, UdpWriteQueued, DatagramQueued
  <2> QED
    BY <2>1 DEF UdpQueueOK
<1> QED
  BY <1>1, <1>2, ProcessQueued, UdpStatusQueued, UdpRequestQueued DEF SockStep, Below, Segment

LEMMA QueueInOrder ==
  ASSUME WellTyped, UdpQueueOK
  PROVE  StatusInOrder
<1>1. fromUdp \in Seq(Messages) /\ toUdp \in Seq(Messages)
  BY UdpSeqs
<1> DEFINE n == Len(OfType(fromUdp, TRUE))
           d == OfType(toUdp, FALSE)
<1>2. /\ n \in Nat /\ Len(UdpAnswers) = n + Len(d) /\ DOMAIN d = 1 .. Len(d) /\ Len(d) \in Nat
      /\ \A i \in 1 .. Len(UdpAnswers) : UdpAnswers[i].type = "STATUS" <=> i <= n
      /\ \A i \in 1 .. Len(d) : d[i] = UdpAnswers[n + i]
  <2>1. d \in Seq(Range(toUdp) \cap Ofs(FALSE))
    BY <1>1, OfTypeFacts
  <2>2. DOMAIN d = 1 .. Len(d) /\ Len(d) \in Nat
    <3>1. PICK S : d \in Seq(S)
      BY <2>1
    <3> HIDE DEF d
    <3> QED
      BY <3>1
  <2> QED
    BY <1>1, <2>2, ComingFacts DEF UdpAnswers
<1> HIDE DEF n, d
<1>3. \A i \in 1 .. Len(d) : d[i].type = udpq[n + i].type
  <2> TAKE i \in 1 .. Len(d)
  <2>1. n + i \in 1 .. Len(UdpAnswers) /\ ~ (n + i <= n)
    BY <1>2
  <2> QED
    BY <1>2, <2>1 DEF UdpQueueOK
<1> QED
  BY <1>2, <1>3 DEF StatusInOrder, InOrder, UdpQueueOK, n, d

LEMMA NothingComes == OfType(<<>>, TRUE) = <<>> /\ OfType(<<>>, FALSE) = <<>> /\ Coming(<<>>, <<>>) = <<>>
<1>1. <<>> \in Seq(Messages) /\ Range(<<>>) = {}
  BY DEF Range
<1>2. OfType(<<>>, TRUE) \in Seq({}) /\ OfType(<<>>, FALSE) \in Seq({})
  <2>1. {} \cap Ofs(TRUE) = {} /\ {} \cap Ofs(FALSE) = {}
    OBVIOUS
  <2> QED
    BY <1>1, <2>1, OfTypeFacts
<1>3. \A s \in Seq({}) : s = <<>>
  OBVIOUS
<1>4. OfType(<<>>, TRUE) = <<>> /\ OfType(<<>>, FALSE) = <<>>
  BY <1>2, <1>3, Zenon
<1>5. <<>> \o <<>> = <<>>
  OBVIOUS
<1> QED
  BY <1>4, <1>5 DEF Coming

LEMMA InitQueue == Init => UdpQueueOK
  BY NothingComes DEF Init, UdpQueueOK, UdpAnswers

LEMMA StepQueued == WellTyped /\ UdpQueueOK /\ [Next]_vars => UdpQueueOK'
<1> SUFFICES ASSUME WellTyped, UdpQueueOK, [Next]_vars PROVE UdpQueueOK'
  OBVIOUS
<1>1. CASE AppCalls \/ AppReturns \/ UNCHANGED vars
  BY <1>1, QueueSame DEF AppCalls, AppReturns, vars, udpVars
<1>2. CASE SockStep \/ Below \/ Crash
  BY <1>2, StepTyped, StackQueued
<1> QED
  BY <1>1, <1>2 DEF Next, Runs

(* The n-th STATUS that comes from UDP is that of the n-th request in the   *)
(* queue, whatever the application calls and whatever TCP does: udpq is     *)
(* never empty when one comes (sock_module.cc 348).                         *)
THEOREM RequestsInOrder == Spec => []StatusInOrder
<1>1. WellTyped /\ UdpQueueOK => StatusInOrder
  BY QueueInOrder
<1> QED
  BY <1>1, RequestsWellTyped, InitQueue, StepQueued, PTL DEF Spec
-----------------------------------------------------------------------------
(* The application waits in a call on socket k. *)
Waiting(type, k) == call.type = type /\ call.sock = k /\ ~asked /\ answers = <<>>

(* What the status of a socket says of it. *)
SockOK(s) ==
  /\ s.app <=> s.status # "FREE"
  /\ s.status = "FREE" => s.connection = NoConnection
  /\ s.status = "UNBOUND" => s.connection.dest = "any"
  /\ s.status \in {"LISTENING", "ACCEPT_PENDING", "CONNECT_PENDING"} => s.connection.protocol = "tcp"
SocketsOK == \A k \in Socks : SockOK(socks[k])

(* A pending socket has the application wait in its call. *)
PendingOK(k) ==
  /\ socks[k].status = "READ_PENDING" => Waiting("mREAD", k)
  /\ socks[k].status = "ACCEPT_PENDING" => Waiting("mACCEPT", k)
  /\ socks[k].status = "CONNECT_PENDING" => Waiting("mCONNECT", k)
  /\ socks[k].status = "WRITE_PENDING" => Waiting("mWRITE", k)
PhaseOK ==
  /\ call.type = "none" => call = Idle
  /\ call = Idle => ~asked /\ answers = <<>>
  /\ asked => answers = <<>>
  /\ answers # <<>> => answers = <<answers[1]>> /\ answers[1].sock \in Socks \cup {0}
CallsOK == PhaseOK /\ (\A k \in Socks : PendingOK(k)) /\ AnswersTheCall /\ CallNotForgotten

(* The requests whose STATUS may still change a socket: there is at most    *)
(* one, that of the call in which the application waits.                    *)
Open(queue) == {r \in Range(queue) : r.type # "CLOSE"}
OneOpen(queue) == \A i, j \in 1 .. Len(queue) : queue[i].type # "CLOSE" /\ queue[j].type # "CLOSE" => i = j

TcpRequestOK(r) ==
  LET s == socks[r.sock] IN
  /\ s.connection.protocol = "tcp"
  /\ \/ r.type = "WRITE" /\ s.status = "WRITE_PENDING"
     \/ r.type = "ACCEPT" /\ s.status = "ACCEPT_PENDING"
     \/ r.type = "CONNECT" /\ s.status = "CONNECT_PENDING"
UdpRequestOK(r) ==
  LET s == socks[r.sock] IN
  /\ s.connection.protocol = "udp"
  /\ \/ r.type = "WRITE" /\ s.status = "WRITE_PENDING"
     \/ r.type = "FORWARD" /\ s.connection.dest = "any" /\ s.status = "UNBOUND" /\ Waiting("mBIND", r.sock)
     \/ r.type = "FORWARD" /\ s.connection.dest # "any" /\ s.status = "CONNECTED" /\ Waiting("mCONNECT", r.sock)
UdpPartOK == OneOpen(udpq) /\ \A r \in Open(udpq) : UdpRequestOK(r)

(* The first connection: nothing was sent to TCP before the request that    *)
(* opens it.  It is on its way to TCP, or TCP listens, or a STATUS is the   *)
(* first that TCP has sent, and no error.                                   *)
TcpQuiet == tcpq = <<>> /\ toTcp = <<>> /\ fromTcp = <<>> /\ tcp = <<>>
Sent(type) == Len(toTcp) = 1 /\ Head(toTcp).type = type /\ fromTcp = <<>> /\ tcp = <<>>
Heard == toTcp = <<>> /\ fromTcp = <<>> /\ Len(tcp) = 1 /\ tcp[1].st = "LISTEN"
Told == toTcp = <<>> /\ fromTcp # <<>> /\ Head(fromTcp).type = "STATUS" /\ \A m \in Range(fromTcp) : m.error = "EOK"
Opens == {"ACCEPT", "CONNECT"}
OpeningOK ==
  \A r \in Range(tcpq) : r.type \in Opens =>
    Len(tcpq) = 1 /\ (Sent(r.type) \/ (r.type = "ACCEPT" /\ Heard) \/ Told)
BeforeOpening ==
  asked /\ (call.type = "mACCEPT" \/ (call.type = "mCONNECT" /\ socks[call.sock].connection.protocol = "tcp"))
    => TcpQuiet
TcpPartOK == OneOpen(tcpq) /\ (\A r \in Open(tcpq) : TcpRequestOK(r)) /\ OpeningOK /\ BeforeOpening

TablesOK == ports \in [PortNumbers -> 0 .. NumSocks - 1] /\ asked \in BOOLEAN /\ calls \in 0 .. MaxCalls

(* The invariant: every request that waits for a STATUS belongs to the call *)
(* that waits, or its STATUS changes nothing any more.                      *)
Ordered == WellTyped /\ TablesOK /\ SocketsOK /\ CallsOK /\ TcpPartOK /\ UdpPartOK

-----------------------------------------------------------------------------
(* What a step does to the sockets. *)
Others(k) == \A j \in Socks : j # k => socks'[j] = socks[j]

LEMMA StatusSet ==
  ASSUME SocksOK, NEW k \in Socks, NEW status, SetStatus(k, status)
  PROVE  /\ Others(k)
         /\ socks'[k].status = status /\ socks'[k].connection = socks[k].connection
         /\ socks'[k].app = socks[k].app
  BY DEF SocksOK, SockRecords, SetStatus, Others

LEMMA SocketClosed ==
  ASSUME SocksOK, NEW k \in Socks, CloseSocket(k)
  PROVE  /\ Others(k)
         /\ socks'[k].status = "FREE" /\ socks'[k].connection = NoConnection /\ socks'[k].app = FALSE
  BY DEF SocksOK, CloseSocket, SockRecord, Others

ConnectionStep(k, c, status) == socks' = [socks EXCEPT ![k].connection = c, ![k].status = status]
LEMMA ConnectionSet ==
  ASSUME SocksOK, NEW k \in Socks, NEW c, NEW status, ConnectionStep(k, c, status)
  PROVE  /\ Others(k)
         /\ socks'[k].status = status /\ socks'[k].connection = c
         /\ socks'[k].app = socks[k].app
<1>1. socks \in [Socks -> SockRecords] /\ socks[k] \in SockRecords
  BY DEF SocksOK
<1> DEFINE f == [socks EXCEPT ![k].connection = c]
<1>2. /\ DOMAIN f = Socks /\ \A j \in Socks : j # k => f[j] = socks[j]
      /\ f[k] = [socks[k] EXCEPT !.connection = c]
  BY <1>1
<1>3. f[k].connection = c /\ f[k].app = socks[k].app /\ DOMAIN f[k] = {"status", "connection", "bin", "app"}
  BY <1>1, <1>2 DEF SockRecords
<1>4. socks' = [f EXCEPT ![k].status = status]
  BY <1>1 DEF ConnectionStep
<1> HIDE DEF f
<1> QED
  BY <1>2, <1>3, <1>4 DEF Others

LEMMA SocketsStep ==
  ASSUME SocketsOK, NEW k \in Socks, Others(k), SockOK(socks'[k])
  PROVE  SocketsOK'
  BY DEF SocketsOK, Others, SockOK

(* A port that is handed out. *)
PortStep(p, k) == ports' = [ports EXCEPT ![p] = k]
LEMMA PortTaken ==
  ASSUME TablesOK, NEW k \in Socks, NEW p, PortStep(p, k), UNCHANGED calls, asked' \in BOOLEAN
  PROVE  TablesOK'
<1>1. k \in 0 .. NumSocks - 1
  BY SocksAssumption DEF Socks
<1> QED
  BY <1>1 DEF TablesOK, PortStep

-----------------------------------------------------------------------------
(* The queues. *)
LEMMA Queues ==
  ASSUME WellTyped
  PROVE  /\ Queue(tcpq) /\ Queue(toTcp) /\ Queue(fromTcp) /\ Queue(tcp)
         /\ Queue(udpq) /\ Queue(toUdp) /\ Queue(fromUdp)
         /\ \A r \in Range(tcpq) \cup Range(udpq) : r.sock \in Socks /\ r = [type |-> r.type, sock |-> r.sock]
<1>1. \A r \in Requests : r.sock \in Socks /\ r = [type |-> r.type, sock |-> r.sock]
  BY DEF Requests
<1>2. tcpq \in Seq(Requests) /\ udpq \in Seq(Requests)
  BY DEF WellTyped, TcpOK, UdpOK
<1>3. \A r \in Range(tcpq) \cup Range(udpq) : r \in Requests
  BY <1>2 DEF Range
<1> QED
  BY <1>1, <1>3 DEF WellTyped, TcpOK, UdpOK, Queue

LEMMA QueueSent ==
  ASSUME NEW q, Queue(q), Open(q) = {}, NEW r
  PROVE  /\ OneOpen(Append(q, r)) /\ Len(Append(q, r)) = Len(q) + 1
         /\ r.type = "CLOSE" => Open(Append(q, r)) = {}
         /\ r.type # "CLOSE" => Open(Append(q, r)) = {r}
<1> DEFINE t == Append(q, r)
<1>1. Range(t) = Range(q) \cup {r}
  BY QueueAppend
<1>2. /\ Len(q) \in Nat /\ DOMAIN q = 1 .. Len(q)
      /\ Len(t) = Len(q) + 1 /\ \A i \in 1 .. Len(q) : t[i] = q[i]
  BY QueuePositions, AppendPositions
<1>3. \A i \in 1 .. Len(q) : q[i].type = "CLOSE"
  BY <1>2 DEF Open, Range
<1> HIDE DEF t
<1>4. OneOpen(t)
  BY <1>2, <1>3 DEF OneOpen
<1> QED
  BY <1>1, <1>2, <1>4 DEF Open, t

LEMMA QueueRead ==
  ASSUME NEW q, Queue(q), q # <<>>, OneOpen(q)
  PROVE  /\ OneOpen(Tail(q)) /\ Open(Tail(q)) \subseteq Open(q) /\ Head(q) \in Range(q)
         /\ Len(q) = 1 => Range(Tail(q)) = {}
         /\ Head(q).type = "CLOSE" => Open(Tail(q)) = Open(q)
         /\ Head(q).type # "CLOSE" => Open(Tail(q)) = {} /\ Head(q) \in Open(q)
<1> DEFINE t == Tail(q)
           n == Len(q)
<1>1. Queue(t) /\ Range(t) \subseteq Range(q) /\ Head(q) \in Range(q)
  BY QueueTail
<1>2. /\ n \in Nat \ {0} /\ DOMAIN q = 1 .. n /\ Head(q) = q[1]
      /\ Len(t) = n - 1 /\ \A i \in 1 .. n - 1 : t[i] = q[i + 1]
  BY QueuePositions, TailPositions
<1>3. DOMAIN t = 1 .. n - 1
  BY <1>1, <1>2, QueuePositions
<1>4. \A i, j \in 1 .. n : q[i].type # "CLOSE" /\ q[j].type # "CLOSE" => i = j
  BY DEF OneOpen
<1> HIDE DEF t, n
<1>5. OneOpen(t)
  <2> SUFFICES ASSUME NEW i \in 1 .. n - 1, NEW j \in 1 .. n - 1, t[i].type # "CLOSE", t[j].type # "CLOSE"
               PROVE  i = j
    BY <1>2 DEF OneOpen
  <2>1. i + 1 \in 1 .. n /\ j + 1 \in 1 .. n /\ t[i] = q[i + 1] /\ t[j] = q[j + 1]
    BY <1>2
  <2>2. i + 1 = j + 1
    BY <1>4, <2>1
  <2> QED
    BY <2>2, <1>2
<1>6. Open(t) \subseteq Open(q)
  BY <1>1 DEF Open
<1>7. n = 1 => Range(t) = {}
  BY <1>2, <1>3 DEF Range
<1>8. ASSUME q[1].type = "CLOSE" PROVE Open(q) \subseteq Open(t)
  <2> SUFFICES ASSUME NEW i \in 1 .. n, q[i].type # "CLOSE" PROVE q[i] \in Range(t)
    BY <1>2 DEF Open, Range
  <2>1. i # 1 /\ i - 1 \in 1 .. n - 1 /\ (i - 1) + 1 = i
    BY <1>2, <1>8
  <2>2. t[i - 1] = q[i]
    BY <1>2, <2>1
  <2> QED
    BY <1>3, <2>1, <2>2 DEF Range
<1>9. ASSUME q[1].type # "CLOSE" PROVE Open(t) = {}
  <2> SUFFICES ASSUME NEW i \in 1 .. n - 1 PROVE t[i].type = "CLOSE"
    BY <1>3 DEF Open, Range
  <2>1. i + 1 \in 1 .. n /\ i + 1 # 1 /\ 1 \in 1 .. n /\ t[i] = q[i + 1]
    BY <1>2
  <2> QED
    BY <1>4, <1>9, <2>1
<1> QED
  BY <1>1, <1>2, <1>5, <1>6, <1>7, <1>8, <1>9 DEF Open, t, n

(* The call that waits for an open request. *)
LEMMA OpenRequest ==
  ASSUME Ordered
  PROVE  /\ \A r \in Open(tcpq) :
              /\ r.sock \in Socks /\ r.sock = call.sock /\ ~asked /\ answers = <<>> /\ TcpRequestOK(r)
              /\ \/ r.type = "WRITE" /\ call.type = "mWRITE"
                 \/ r.type = "ACCEPT" /\ call.type = "mACCEPT"
                 \/ r.type = "CONNECT" /\ call.type = "mCONNECT"
         /\ \A r \in Open(udpq) :
              /\ r.sock \in Socks /\ r.sock = call.sock /\ ~asked /\ answers = <<>> /\ UdpRequestOK(r)
              /\ \/ r.type = "WRITE" /\ call.type = "mWRITE"
                 \/ r.type = "FORWARD" /\ call.type \in {"mBIND", "mCONNECT"}
<1>1. \A k \in Socks : PendingOK(k)
  BY DEF Ordered, CallsOK
<1>2. \A r \in Open(tcpq) \cup Open(udpq) : r.sock \in Socks
  BY Queues DEF Open, Ordered
<1>3. (\A r \in Open(tcpq) : TcpRequestOK(r)) /\ (\A r \in Open(udpq) : UdpRequestOK(r))
  BY DEF Ordered, TcpPartOK, UdpPartOK
<1>4. ASSUME NEW r \in Open(tcpq)
      PROVE  /\ r.sock \in Socks /\ r.sock = call.sock /\ ~asked /\ answers = <<>> /\ TcpRequestOK(r)
             /\ \/ r.type = "WRITE" /\ call.type = "mWRITE"
                \/ r.type = "ACCEPT" /\ call.type = "mACCEPT"
                \/ r.type = "CONNECT" /\ call.type = "mCONNECT"
  BY <1>1, <1>2, <1>3 DEF PendingOK, Waiting, TcpRequestOK
<1>5. ASSUME NEW r \in Open(udpq)
      PROVE  /\ r.sock \in Socks /\ r.sock = call.sock /\ ~asked /\ answers = <<>> /\ UdpRequestOK(r)
             /\ \/ r.type = "WRITE" /\ call.type = "mWRITE"
                \/ r.type = "FORWARD" /\ call.type \in {"mBIND", "mCONNECT"}
  BY <1>1, <1>2, <1>3 DEF PendingOK, Waiting, UdpRequestOK
<1> QED
  BY <1>4, <1>5

(* While a message of the application is in its FIFO, or its call is        *)
(* answered, nothing is pending.                                            *)
PendingStatuses == {"READ_PENDING", "ACCEPT_PENDING", "CONNECT_PENDING", "WRITE_PENDING"}

LEMMA NonePending ==
  ASSUME Ordered, asked \/ answers # <<>> \/ call = Idle
  PROVE  /\ \A k \in Socks : socks[k].status \notin PendingStatuses
         /\ Open(tcpq) = {} /\ Open(udpq) = {}
<1>1. \A type, k : type # "none" => ~ Waiting(type, k)
  BY DEF Waiting, Idle
<1>2. ASSUME NEW k \in Socks PROVE socks[k].status \notin PendingStatuses
  BY <1>1 DEF Ordered, CallsOK, PendingOK, PendingStatuses
<1>3. \A r \in Open(tcpq) \cup Open(udpq) : call.type # "none" /\ ~asked /\ answers = <<>>
  BY OpenRequest
<1>4. Idle.type = "none"
  BY DEF Idle
<1> QED
  BY <1>2, <1>3, <1>4

(* Only the socket of the call that waits is pending. *)
LEMMA OnlyWaiting ==
  ASSUME Ordered, NEW k \in Socks, socks[k].status \in PendingStatuses
  PROVE  /\ k = call.sock /\ ~asked /\ answers = <<>> /\ call # Idle
         /\ \A j \in Socks : j # k => socks[j].status \notin PendingStatuses
<1>1. \A j \in Socks : PendingOK(j)
  BY DEF Ordered, CallsOK
<1>2. \A j \in Socks : socks[j].status \in PendingStatuses =>
        j = call.sock /\ ~asked /\ answers = <<>> /\ call.type # "none"
  BY <1>1 DEF PendingOK, PendingStatuses, Waiting
<1> QED
  BY <1>2 DEF Idle
-----------------------------------------------------------------------------
(* A call that is answered, at once or by TCP or UDP. *)
Nothing == Open(tcpq) = {} /\ Open(udpq) = {} /\ OneOpen(tcpq) /\ OneOpen(udpq)

LEMMA NothingOpen ==
  ASSUME Nothing, ~asked
  PROVE  TcpPartOK /\ UdpPartOK
<1>1. \A r \in Range(tcpq) : r.type \notin Opens
  BY DEF Nothing, Open, Opens
<1> QED
  BY <1>1 DEF Nothing, TcpPartOK, UdpPartOK, OpeningOK, BeforeOpening

LEMMA NothingOpenLater ==
  ASSUME Nothing', ~asked'
  PROVE  TcpPartOK' /\ UdpPartOK'
<1>1. \A r \in Range(tcpq)' : r.type \notin Opens
  BY DEF Nothing, Open, Opens
<1> QED
  BY <1>1 DEF Nothing, TcpPartOK, UdpPartOK, OpeningOK, BeforeOpening

LEMMA Answered ==
  ASSUME Ordered, WellTyped', TablesOK', SocketsOK', Nothing',
         call # Idle, answers = <<>>, UNCHANGED call, ~asked',
         NEW x \in Socks \cup {0}, NEW e, Message(call.type, x, e),
         \/ x \in {call.sock, 0} \/ call.type = "mSOCKET"
         \/ call.type = "mACCEPT" /\ socks'[x].connection.srcport = socks'[call.sock].connection.srcport,
         \A k \in Socks : socks'[k].status \notin PendingStatuses
  PROVE  Ordered'
<1>1. /\ answers' # <<>> /\ Len(answers') = 1 /\ answers'[1].of = call.type /\ answers'[1].sock = x
      /\ answers' = <<answers'[1]>>
  BY DEF Message
<1>2. call.type # "none"
  BY DEF Ordered, CallsOK, PhaseOK
<1>3. \A k \in Socks : PendingOK(k)'
  BY DEF PendingOK, PendingStatuses
<1>4. PhaseOK'
  BY <1>1, <1>2 DEF PhaseOK
<1>5. AnswersTheCall'
  BY <1>1 DEF AnswersTheCall
<1>6. CallNotForgotten'
  BY <1>1 DEF CallNotForgotten
<1>7. TcpPartOK' /\ UdpPartOK'
  BY NothingOpenLater
<1> QED
  BY <1>3, <1>4, <1>5, <1>6, <1>7 DEF Ordered, CallsOK

(* A call that waits from now on: its socket alone is pending, or a request *)
(* to UDP is open.                                                          *)
LEMMA CallWaits ==
  ASSUME Ordered, WellTyped', TablesOK', SocketsOK', TcpPartOK', UdpPartOK',
         asked, ~asked', UNCHANGED <<call, answers>>,
         NEW k \in Socks, k = call.sock, Others(k), PendingOK(k)', Waits(call.type, call.sock)'
  PROVE  Ordered'
<1>1. answers = <<>> /\ call # Idle /\ call.type # "none"
  BY DEF Ordered, CallsOK, PhaseOK
<1>2. \A j \in Socks : PendingOK(j)'
  <2> SUFFICES ASSUME NEW j \in Socks, j # k PROVE PendingOK(j)'
    OBVIOUS
  <2>1. socks'[j] = socks[j] /\ socks[j].status \notin PendingStatuses
    BY NonePending DEF Others
  <2> QED
    BY <2>1 DEF PendingOK, PendingStatuses
<1>3. PhaseOK'
  BY <1>1 DEF PhaseOK
<1>4. AnswersTheCall' /\ CallNotForgotten'
  BY <1>1 DEF AnswersTheCall, CallNotForgotten, Waits, FindFreeSock
<1> QED
  BY <1>2, <1>3, <1>4 DEF Ordered, CallsOK

(* A request is sent. *)
LEMMA TcpSent ==
  ASSUME Ordered, asked, ~asked', NEW type \in {"CONNECT", "ACCEPT", "WRITE", "CLOSE"}, NEW c, NEW k \in Socks,
         SendTCPRequest(type, c, k),
         type \in Opens => TcpQuiet,
         type # "CLOSE" => TcpRequestOK([type |-> type, sock |-> k])'
  PROVE  TcpPartOK' /\ (type = "CLOSE" => Open(tcpq)' = {} /\ OneOpen(tcpq)')
<1> DEFINE r == [type |-> type, sock |-> k]
           m == Srr(type, c, "EOK")
<1>1. /\ toTcp' = Append(toTcp, m) /\ tcpq' = Append(tcpq, r) /\ UNCHANGED <<fromTcp, tcp>>
      /\ Open(tcpq) = {} /\ Queue(tcpq) /\ Queue(toTcp)
  BY NonePending, Queues DEF SendTCPRequest, Ordered
<1>2. r.type = type /\ m.type = type
  BY DEF Srr
<1>3. type # "CLOSE" => TcpRequestOK(r)'
  OBVIOUS
<1>0. r' = r
  OBVIOUS
<1> HIDE DEF r, m
<1>4. /\ OneOpen(tcpq') /\ Len(tcpq') = Len(tcpq) + 1
      /\ type = "CLOSE" => Open(tcpq') = {}
      /\ type # "CLOSE" => Open(tcpq') = {r}
  BY <1>1, <1>2, QueueSent
<1>5. Open(tcpq)' = Open(tcpq') /\ OneOpen(tcpq)' = OneOpen(tcpq') /\ Range(tcpq)' = Range(tcpq')
  BY DEF Open, OneOpen, Range
<1>6. \A x \in Open(tcpq') : TcpRequestOK(x)'
  <2> SUFFICES ASSUME NEW x \in Open(tcpq') PROVE TcpRequestOK(x)'
    OBVIOUS
  <2>1. x = r /\ type # "CLOSE"
    BY <1>4
  <2> QED
    BY <1>0, <1>3, <2>1 DEF TcpRequestOK
<1>7. OpeningOK'
  <2> SUFFICES ASSUME NEW x \in Range(tcpq'), x.type \in Opens
               PROVE  Len(tcpq') = 1 /\ Sent(x.type)'
    BY <1>5 DEF OpeningOK, Sent
  <2>1. x \in Open(tcpq')
    BY DEF Open, Opens
  <2>2. x = r /\ type \in Opens /\ x.type = type
    BY <1>2, <1>4, <2>1 DEF Opens
  <2>3. tcpq = <<>> /\ toTcp = <<>> /\ fromTcp = <<>> /\ tcp = <<>>
    BY <2>2 DEF TcpQuiet
  <2>4. Len(tcpq') = 1
    <3>1. Len(tcpq) = 0
      BY <2>3
    <3> QED
      BY <3>1, <1>4
  <2>5. toTcp' = <<m>>
    BY <1>1, <2>3
  <2> QED
    BY <1>1, <1>2, <2>2, <2>3, <2>4, <2>5 DEF Sent
<1> QED
  BY <1>4, <1>5, <1>6, <1>7 DEF TcpPartOK, BeforeOpening

LEMMA UdpSent ==
  ASSUME Ordered, asked, NEW type \in {"FORWARD", "WRITE", "CLOSE"}, NEW c, NEW k \in Socks,
         SendUDPRequest(type, c, k),
         type # "CLOSE" => UdpRequestOK([type |-> type, sock |-> k])'
  PROVE  /\ UdpPartOK' /\ (type = "CLOSE" => Open(udpq)' = {} /\ OneOpen(udpq)')
         /\ \E i \in DOMAIN udpq' : udpq'[i] = [type |-> type, sock |-> k]
<1> DEFINE r == [type |-> type, sock |-> k]
<1>1. udpq' = Append(udpq, r) /\ Open(udpq) = {} /\ Queue(udpq)
  BY NonePending, Queues DEF SendUDPRequest, Ordered
<1>2. r.type = type /\ r' = r
  OBVIOUS
<1>3. type # "CLOSE" => UdpRequestOK(r)'
  OBVIOUS
<1> HIDE DEF r
<1>4. /\ OneOpen(udpq') /\ r \in Range(udpq')
      /\ type = "CLOSE" => Open(udpq') = {}
      /\ type # "CLOSE" => Open(udpq') = {r}
  BY <1>1, <1>2, QueueSent, QueueAppend
<1>5. Open(udpq)' = Open(udpq') /\ OneOpen(udpq)' = OneOpen(udpq')
  BY DEF Open, OneOpen, Range
<1>6. \A x \in Open(udpq') : UdpRequestOK(x)'
  <2> SUFFICES ASSUME NEW x \in Open(udpq') PROVE UdpRequestOK(x)'
    OBVIOUS
  <2>1. x = r /\ type # "CLOSE"
    BY <1>4
  <2> QED
    BY <1>2, <1>3, <2>1 DEF UdpRequestOK, Waiting
<1>7. \E i \in DOMAIN udpq' : udpq'[i] = r
  BY <1>4 DEF Range
<1> QED
  BY <1>4, <1>5, <1>6, <1>7 DEF UdpPartOK, r

(* Nothing is open for a call that is not waiting yet; so it stays when     *)
(* nothing is sent.                                                         *)
LEMMA NothingSent ==
  ASSUME Ordered, asked, UNCHANGED <<tcpq, udpq>>
  PROVE  Nothing'
<1>1. Open(tcpq) = {} /\ Open(udpq) = {}
  BY NonePending
<1> QED
  BY <1>1 DEF Ordered, TcpPartOK, UdpPartOK, Nothing, Open, OneOpen, Range
-----------------------------------------------------------------------------
(* The calls of the application. *)
LEMMA TcpIdle ==
  ASSUME Ordered, asked, ~asked', UNCHANGED tcpq
  PROVE  TcpPartOK' /\ Open(tcpq)' = {} /\ OneOpen(tcpq)'
<1>1. Open(tcpq) = {} /\ OneOpen(tcpq)
  BY NonePending DEF Ordered, TcpPartOK
<1>2. \A r \in Range(tcpq) : r.type \notin Opens
  BY <1>1 DEF Open, Opens
<1> QED
  BY <1>1, <1>2 DEF TcpPartOK, OpeningOK, BeforeOpening, Open, OneOpen, Range

LEMMA UdpIdle ==
  ASSUME Ordered, asked, UNCHANGED udpq
  PROVE  UdpPartOK' /\ Open(udpq)' = {} /\ OneOpen(udpq)'
<1>1. Open(udpq) = {} /\ OneOpen(udpq)
  BY NonePending DEF Ordered, UdpPartOK
<1> QED
  BY <1>1 DEF UdpPartOK, Open, OneOpen, Range

LEMMA TakeFacts ==
  ASSUME Ordered, NEW type, type # "none", Take(type)
  PROVE  /\ asked /\ asked' = FALSE /\ UNCHANGED <<call, calls>> /\ answers = <<>> /\ call.type = type
         /\ type # "mSOCKET" => call.sock \in Socks
         /\ call # Idle
         /\ WellTyped /\ SocksOK /\ TablesOK /\ SocketsOK
         /\ \A j \in Socks : socks[j].status \notin PendingStatuses
<1>1. asked /\ asked' = FALSE /\ UNCHANGED <<call, calls>> /\ call.type = type
  BY DEF Take
<1>2. answers = <<>>
  BY <1>1 DEF Ordered, CallsOK, PhaseOK
<1>3. type # "mSOCKET" => call.sock \in Socks
  BY <1>1 DEF Ordered, WellTyped, CallOK
<1>4. WellTyped /\ SocksOK /\ TablesOK /\ SocketsOK
  BY DEF Ordered, WellTyped
<1>5. call # Idle
  BY <1>1 DEF Idle
<1> QED
  BY <1>1, <1>2, <1>3, <1>4, <1>5, NonePending

(* A socket alone is changed by a call that is answered at once. *)
LEMMA SocketAnswered ==
  ASSUME Ordered, WellTyped', NEW type, type # "none", Take(type),
         UNCHANGED <<tcpVars, udpVars>>, TablesOK', SocketsOK',
         NEW x \in Socks \cup {0}, NEW e, Answer(x, e), x \in {call.sock, 0} \/ type = "mSOCKET",
         NEW k \in Socks, Others(k), socks'[k].status \notin PendingStatuses
  PROVE  Ordered'
<1>1. /\ asked /\ asked' = FALSE /\ UNCHANGED call /\ call.type = type /\ answers = <<>> /\ call # Idle
      /\ \A j \in Socks : socks[j].status \notin PendingStatuses
  BY TakeFacts
<1>2. \A j \in Socks : socks'[j].status \notin PendingStatuses
  BY <1>1 DEF Others
<1>3. Nothing'
  BY <1>1, NothingSent DEF tcpVars, udpVars
<1>4. Message(call.type, x, e)
  BY DEF Answer
<1> QED
  BY <1>1, <1>2, <1>3, <1>4, Answered

(* Nothing changes but for the answer. *)
LEMMA OnlyAnswered ==
  ASSUME Ordered, WellTyped', NEW type, type # "none", Take(type),
         UNCHANGED <<socks, ports, tcpVars, udpVars>>,
         NEW x \in Socks \cup {0}, NEW e, Answer(x, e), x \in {call.sock, 0} \/ type = "mSOCKET"
  PROVE  Ordered'
<1>1. /\ asked /\ asked' = FALSE /\ UNCHANGED <<call, calls>> /\ call.type = type /\ answers = <<>> /\ call # Idle
      /\ TablesOK /\ SocketsOK /\ \A j \in Socks : socks[j].status \notin PendingStatuses
  BY TakeFacts
<1>2. TablesOK' /\ SocketsOK'
  BY <1>1 DEF TablesOK, SocketsOK
<1>3. Nothing'
  BY <1>1, NothingSent DEF tcpVars, udpVars
<1>4. Message(call.type, x, e) /\ \A j \in Socks : socks'[j].status \notin PendingStatuses
  BY <1>1 DEF Answer
<1> QED
  BY <1>1, <1>2, <1>3, <1>4, Answered

LEMMA RefuseOrdered == ASSUME Ordered, WellTyped', NEW type, type # "none", type # "mSOCKET", Refuse(type) PROVE Ordered'
<1>1. Take(type) /\ Answer(call.sock, "EINVALID_OP") /\ UNCHANGED <<socks, ports, tcpVars, udpVars>>
  BY DEF Refuse
<1>2. call.sock \in Socks
  BY <1>1, TakeFacts
<1> QED
  BY <1>1, <1>2, OnlyAnswered

LEMMA StubOrdered == ASSUME Ordered, WellTyped', Stub PROVE Ordered'
<1>1. PICK type \in Stubs : Take(type) /\ Answer(call.sock, "EOK") /\ UNCHANGED <<socks, ports, tcpVars, udpVars>>
  BY DEF Stub
<1>2. type # "none" /\ type # "mSOCKET"
  BY DEF Stubs
<1>3. call.sock \in Socks
  BY <1>1, <1>2, TakeFacts
<1> QED
  BY <1>1, <1>2, <1>3, OnlyAnswered

LEMMA NoPortOrdered ==
  ASSUME Ordered, WellTyped', NEW type, type # "none", type # "mSOCKET", Take(type), NEW src, NEW port, NoPort(src, port)
  PROVE  Ordered'
<1>1. Answer(call.sock, "ERESOURCE_UNAVAIL") /\ UNCHANGED <<socks, ports, tcpVars, udpVars>>
  BY DEF NoPort
<1>2. call.sock \in Socks
  BY TakeFacts
<1> QED
  BY <1>1, <1>2, OnlyAnswered

(* What First finds among the sockets. *)
LEMMA FreeSocket ==
  /\ FindFreeSock # 0 => FindFreeSock \in Socks /\ socks[FindFreeSock].status = "FREE"
  /\ FindFreeSock = 0 <=> \A k \in Socks : socks[k].status # "FREE"
<1> DEFINE S == {k \in Socks : socks[k].status = "FREE"}
<1>1. S \subseteq Nat /\ \A k \in S : k # 0
  BY SocksAssumption DEF Socks
<1>2. First(S) # 0 => First(S) \in S
  BY <1>1, FirstIsMember
<1>3. First(S) = 0 => S = {}
  <2>1. S # {} => First(S) \in S
    BY <1>1, Least DEF First
  <2> QED
    BY <1>1, <2>1
<1>4. S = {} => First(S) = 0
  BY DEF First
<1> QED
  BY <1>2, <1>3, <1>4 DEF FindFreeSock

(* A socket is taken for the application.                                   *)
SocketStep(k) ==
  socks' = [socks EXCEPT ![k].status = "UNBOUND", ![k].app = TRUE, ![k].connection.protocol = call.protocol]

LEMMA SocketMade ==
  ASSUME SocksOK, NEW k \in Socks, socks[k].status = "FREE",
         SocketStep(k)
  PROVE  /\ Others(k) /\ socks'[k].status = "UNBOUND" /\ socks'[k].app = TRUE
         /\ socks'[k].connection = [socks[k].connection EXCEPT !.protocol = call.protocol]
<1> DEFINE f == [socks EXCEPT ![k].status = "UNBOUND"]
           g == [f EXCEPT ![k].app = TRUE]
           h == [g EXCEPT ![k].connection.protocol = call.protocol]
<1>1. socks \in [Socks -> SockRecords] /\ socks[k] \in SockRecords
  BY DEF SocksOK
<1>2. /\ f \in [Socks -> SockRecords] /\ f[k].connection = socks[k].connection /\ f[k].status = "UNBOUND"
      /\ \A j \in Socks : j # k => f[j] = socks[j]
  BY <1>1 DEF SockRecords, Statuses
<1>3. socks' = h
  BY <1>1 DEF f, SocketStep
<1> HIDE DEF f
<1>4. /\ g \in [Socks -> SockRecords] /\ g[k].connection = f[k].connection /\ g[k].status = f[k].status /\ g[k].app = TRUE
      /\ \A j \in Socks : j # k => g[j] = f[j]
  BY <1>2 DEF SockRecords
<1> HIDE DEF g
<1>5. /\ h[k].connection = [g[k].connection EXCEPT !.protocol = call.protocol]
      /\ h[k].status = g[k].status /\ h[k].app = g[k].app
      /\ \A j \in Socks : j # k => h[j] = g[j]
  BY <1>4 DEF SockRecords
<1> HIDE DEF h
<1> QED
  BY <1>2, <1>3, <1>4, <1>5 DEF Others

LEMMA SocketOrdered == ASSUME Ordered, WellTyped', Socket PROVE Ordered'
<1>0. PICK k : k = FindFreeSock
  OBVIOUS
<1>1. Take("mSOCKET") /\ UNCHANGED <<ports, tcpVars, udpVars>>
  BY DEF Socket
<1>2. CASE Answer(0, "ERESOURCE_UNAVAIL") /\ UNCHANGED socks
  BY <1>1, <1>2, OnlyAnswered
<1>3. CASE /\ k # 0
           /\ socks' = [socks EXCEPT ![k].status = "UNBOUND", ![k].app = TRUE, ![k].connection.protocol = call.protocol]
           /\ Answer(k, "EOK")
  <2>1. k \in Socks /\ socks[k].status = "FREE"
    BY <1>0, <1>3, FreeSocket
  <2>2. /\ SocksOK /\ TablesOK /\ SocketsOK /\ UNCHANGED <<calls>> /\ asked' = FALSE
    BY <1>1, TakeFacts
  <2>3. socks[k].connection = NoConnection
    BY <2>1, <2>2 DEF SocketsOK, SockOK
  <2> DEFINE c == [socks[k].connection EXCEPT !.protocol = call.protocol]
  <2>4. Others(k) /\ socks'[k].status = "UNBOUND" /\ socks'[k].app = TRUE /\ socks'[k].connection = c
    BY <1>3, <2>1, <2>2, SocketMade DEF SocketStep
  <2>5. c.dest = "any"
    BY <2>3 DEF NoConnection
  <2> HIDE DEF c
  <2>6. SockOK(socks'[k])
    BY <2>4, <2>5 DEF SockOK
  <2>8. SocketsOK'
    BY <2>1, <2>2, <2>4, <2>6, SocketsStep
  <2>9. TablesOK'
    BY <1>1, <2>2 DEF TablesOK
  <2>10. socks'[k].status \notin PendingStatuses
    BY <2>4 DEF PendingStatuses
  <2>11. Answer(k, "EOK")
    BY <1>3
  <2> QED
    BY <1>1, <2>1, <2>4, <2>8, <2>9, <2>10, <2>11, SocketAnswered
<1> QED
  BY <1>0, <1>2, <1>3 DEF Socket

(* What a call on socket k knows of it. *)
LEMMA CalledSocket ==
  ASSUME Ordered, NEW type, type \notin {"none", "mSOCKET"}, Take(type), NEW k, k = call.sock
  PROVE  k \in Socks /\ socks[k].connection \in Connections /\ SockOK(socks[k])
<1>1. type # "none" /\ type # "mSOCKET"
  OBVIOUS
<1>2. k \in Socks /\ SocksOK /\ SocketsOK
  BY <1>1, TakeFacts
<1> QED
  BY <1>2, SocketConnection DEF SocketsOK

LEMMA ListenOrdered == ASSUME Ordered, WellTyped', Listen PROVE Ordered'
<1>0. PICK k : k = call.sock
  OBVIOUS
<1>1. Take("mLISTEN") /\ Allowed("mLISTEN", k) /\ UNCHANGED <<ports, tcpVars, udpVars>>
  BY <1>0 DEF Listen
<1>2. /\ SocksOK /\ TablesOK /\ SocketsOK /\ UNCHANGED calls /\ asked' = FALSE
  BY <1>1, TakeFacts
<1>3. k \in Socks /\ SockOK(socks[k])
  BY <1>0, <1>1, CalledSocket
<1>4. CASE Answer(0, "ENOT_SUPPORTED") /\ UNCHANGED socks
  BY <1>1, <1>4, OnlyAnswered
<1>5. CASE /\ socks[k].connection.protocol = "tcp"
           /\ socks' = [socks EXCEPT ![k].connection.dest = "any", ![k].status = "LISTENING"]
           /\ Answer(k, "EOK")
  <2> DEFINE c == [socks[k].connection EXCEPT !.dest = "any"]
  <2>1. socks[k].status = "BOUND" /\ socks[k].app
    BY <1>1 DEF Allowed
  <2>2. c.protocol = "tcp"
    BY <1>2, <1>3, <1>5 DEF SocksOK, SockRecords, Connections
  <2>3. ConnectionStep(k, c, "LISTENING")
    <3>1. socks \in [Socks -> SockRecords] /\ socks[k] \in SockRecords
      BY <1>2, <1>3 DEF SocksOK
    <3> QED
      BY <1>5, <3>1 DEF ConnectionStep
  <2> HIDE DEF c
  <2>4. Others(k) /\ socks'[k].status = "LISTENING" /\ socks'[k].connection = c /\ socks'[k].app = socks[k].app
    BY <1>2, <1>3, <2>3, ConnectionSet
  <2>5. SockOK(socks'[k])
    BY <2>1, <2>2, <2>4 DEF SockOK
  <2>6. SocketsOK'
    BY <1>2, <1>3, <2>4, <2>5, SocketsStep
  <2>7. TablesOK'
    BY <1>1, <1>2 DEF TablesOK
  <2>8. Answer(k, "EOK") /\ socks'[k].status \notin PendingStatuses
    BY <1>5, <2>4 DEF PendingStatuses
  <2> QED
    BY <1>0, <1>1, <1>3, <2>4, <2>6, <2>7, <2>8, SocketAnswered
<1> QED
  BY <1>0, <1>4, <1>5 DEF Listen

LEMMA BindOrdered == ASSUME Ordered, WellTyped', Bind PROVE Ordered'
<1>0. PICK k, p, c : /\ k = call.sock /\ p = ResolveSrcPort(call.src, call.port)
                     /\ c = [socks[k].connection EXCEPT !.src = "me", !.srcport = p]
  OBVIOUS
<1>1. /\ Take("mBIND") /\ Allowed("mBIND", k)
      /\ \/ NoPort(call.src, call.port)
         \/ /\ p # 0
            /\ ports' = [ports EXCEPT ![p] = k]
            /\ \/ /\ c.protocol = "udp"
                  /\ socks' = [socks EXCEPT ![k].connection = c]
                  /\ SendUDPRequest("FORWARD", c, k)
                  /\ UNCHANGED <<tcpVars, answers>>
               \/ /\ c.protocol = "tcp"
                  /\ socks' = [socks EXCEPT ![k].connection = c, ![k].status = "BOUND"]
                  /\ Answer(k, "EOK")
                  /\ UNCHANGED <<tcpVars, udpVars>>
  BY <1>0 DEF Bind
<1>2. /\ SocksOK /\ TablesOK /\ SocketsOK /\ UNCHANGED <<call, calls>> /\ asked' = FALSE
      /\ asked /\ answers = <<>> /\ call.type = "mBIND" /\ WellTyped
  BY <1>1, TakeFacts
<1>3. k \in Socks /\ socks[k].connection \in Connections /\ SockOK(socks[k])
  BY <1>0, <1>1, CalledSocket
<1>4. socks[k].status = "UNBOUND" /\ socks[k].app
  BY <1>1 DEF Allowed
<1>5. c.dest = "any" /\ c.protocol = socks[k].connection.protocol
  BY <1>0, <1>3, <1>4 DEF SockOK, Connections
<1>6. CASE NoPort(call.src, call.port)
  BY <1>1, <1>6, NoPortOrdered
<1>7. CASE ports' = [ports EXCEPT ![p] = k]
  <2>1. TablesOK'
    BY <1>2, <1>3, <1>7, PortTaken DEF PortStep
  <2>2. ASSUME NEW status \in {"UNBOUND", "BOUND"}, ConnectionStep(k, c, status)
        PROVE  Others(k) /\ socks'[k].status = status /\ socks'[k].connection = c /\ SocketsOK'
    <3>1. /\ Others(k) /\ socks'[k].status = status /\ socks'[k].connection = c
          /\ socks'[k].app = socks[k].app
      BY <1>2, <1>3, <2>2, ConnectionSet
    <3>2. SockOK(socks'[k])
      BY <1>4, <1>5, <2>2, <3>1 DEF SockOK
    <3> QED
      BY <1>2, <1>3, <3>1, <3>2, SocketsStep
  <2>3. CASE /\ c.protocol = "udp"
             /\ socks' = [socks EXCEPT ![k].connection = c]
             /\ SendUDPRequest("FORWARD", c, k)
             /\ UNCHANGED <<tcpVars, answers>>
    <3>1. ConnectionStep(k, c, "UNBOUND")
      BY <1>2, <1>3, <1>4, <2>3 DEF SocksOK, SockRecords, ConnectionStep
    <3>2. Others(k) /\ socks'[k].status = "UNBOUND" /\ socks'[k].connection = c /\ SocketsOK'
      BY <2>2, <3>1
    <3>3. Waiting("mBIND", k)'
      BY <1>0, <1>2, <2>3 DEF Waiting
    <3>4. UdpRequestOK([type |-> "FORWARD", sock |-> k])'
      BY <1>5, <2>3, <3>2, <3>3 DEF UdpRequestOK
    <3>5. UdpPartOK' /\ \E i \in DOMAIN udpq' : udpq'[i] = [type |-> "FORWARD", sock |-> k]
      BY <1>2, <1>3, <2>3, <3>4, UdpSent
    <3>6. TcpPartOK'
      BY <1>2, <2>3, TcpIdle DEF tcpVars
    <3>7. Waits(call.type, call.sock)'
      BY <1>0, <1>2, <3>5 DEF Waits
    <3>8. PendingOK(k)'
      BY <3>2 DEF PendingOK
    <3> QED
      BY <1>0, <1>2, <1>3, <2>1, <2>3, <3>2, <3>5, <3>6, <3>7, <3>8, CallWaits
  <2>4. CASE /\ c.protocol = "tcp"
             /\ socks' = [socks EXCEPT ![k].connection = c, ![k].status = "BOUND"]
             /\ Answer(k, "EOK")
             /\ UNCHANGED <<tcpVars, udpVars>>
    <3>1. Others(k) /\ socks'[k].status = "BOUND" /\ socks'[k].connection = c /\ SocketsOK'
      BY <2>2, <2>4 DEF ConnectionStep
    <3>2. socks'[k].status \notin PendingStatuses
      BY <3>1 DEF PendingStatuses
    <3> QED
      BY <1>0, <1>1, <1>3, <2>1, <2>4, <3>1, <3>2, SocketAnswered
  <2> QED
    BY <1>1, <1>6, <2>3, <2>4
<1> QED
  BY <1>1, <1>6, <1>7

(* The status of a socket is set, and its connection stays. *)
LEMMA StatusStep ==
  ASSUME SocksOK, SocketsOK, NEW k \in Socks, NEW status, SetStatus(k, status), socks[k].status # "FREE",
         status \notin {"FREE", "UNBOUND"},
         status \in {"LISTENING", "ACCEPT_PENDING", "CONNECT_PENDING"} => socks[k].connection.protocol = "tcp"
  PROVE  SocketsOK' /\ Others(k) /\ socks'[k].status = status /\ socks'[k].connection = socks[k].connection
<1>1. /\ Others(k) /\ socks'[k].status = status /\ socks'[k].connection = socks[k].connection
      /\ socks'[k].app = socks[k].app
  BY StatusSet
<1>2. SockOK(socks'[k])
  BY <1>1 DEF SocketsOK, SockOK
<1> QED
  BY <1>1, <1>2, SocketsStep

LEMMA AcceptOrdered == ASSUME Ordered, WellTyped', Accept PROVE Ordered'
<1>0. PICK k, c : k = call.sock /\ c = socks[k].connection
  OBVIOUS
<1>1. /\ Take("mACCEPT") /\ Allowed("mACCEPT", k) /\ SendTCPRequest("ACCEPT", c, k)
      /\ SetStatus(k, "ACCEPT_PENDING") /\ UNCHANGED <<answers, ports, udpVars>>
  BY <1>0 DEF Accept
<1>2. /\ SocksOK /\ TablesOK /\ SocketsOK /\ UNCHANGED <<call, calls>> /\ asked' = FALSE
      /\ asked /\ answers = <<>> /\ call.type = "mACCEPT"
  BY <1>1, TakeFacts
<1>3. k \in Socks /\ SockOK(socks[k])
  BY <1>0, <1>1, CalledSocket
<1>4. socks[k].status = "LISTENING" /\ c.protocol = "tcp"
  BY <1>0, <1>1, <1>3 DEF Allowed, SockOK
<1>5. SocketsOK' /\ Others(k) /\ socks'[k].status = "ACCEPT_PENDING" /\ socks'[k].connection = c
  BY <1>0, <1>1, <1>2, <1>3, <1>4, StatusStep
<1>6. TablesOK'
  BY <1>1, <1>2 DEF TablesOK
<1>7. TcpPartOK'
  <2>1. TcpQuiet
    BY <1>2 DEF Ordered, TcpPartOK, BeforeOpening
  <2>2. TcpRequestOK([type |-> "ACCEPT", sock |-> k])'
    BY <1>4, <1>5 DEF TcpRequestOK
  <2> QED
    BY <1>1, <1>2, <1>3, <2>1, <2>2, TcpSent
<1>8. UdpPartOK'
  BY <1>1, <1>2, UdpIdle DEF udpVars
<1>9. Waits(call.type, call.sock)' /\ PendingOK(k)'
  BY <1>0, <1>1, <1>2, <1>5 DEF Waits, PendingOK, Waiting
<1> QED
  BY <1>0, <1>1, <1>2, <1>3, <1>5, <1>6, <1>7, <1>8, <1>9, CallWaits

LEMMA ReadOrdered == ASSUME Ordered, WellTyped', Read PROVE Ordered'
<1>0. PICK k : k = call.sock
  OBVIOUS
<1>1. /\ Take("mREAD") /\ Allowed("mREAD", k) /\ UNCHANGED <<ports, tcpVars, udpVars>>
      /\ \/ Answer(k, "EOK") /\ UNCHANGED socks
         \/ SetStatus(k, "READ_PENDING") /\ UNCHANGED answers
  BY <1>0 DEF Read
<1>2. /\ SocksOK /\ TablesOK /\ SocketsOK /\ UNCHANGED <<call, calls>> /\ asked' = FALSE
      /\ asked /\ answers = <<>> /\ call.type = "mREAD"
  BY <1>1, TakeFacts
<1>3. k \in Socks /\ SockOK(socks[k])
  BY <1>0, <1>1, CalledSocket
<1>4. CASE Answer(k, "EOK") /\ UNCHANGED socks
  BY <1>0, <1>1, <1>3, <1>4, OnlyAnswered
<1>5. CASE SetStatus(k, "READ_PENDING") /\ UNCHANGED answers
  <2>1. socks[k].status # "FREE"
    BY <1>1, <1>3 DEF Allowed, SockOK
  <2>2. SocketsOK' /\ Others(k) /\ socks'[k].status = "READ_PENDING"
    BY <1>2, <1>3, <1>5, <2>1, StatusStep
  <2>3. TablesOK' /\ TcpPartOK' /\ UdpPartOK'
    BY <1>1, <1>2, TcpIdle, UdpIdle DEF TablesOK, tcpVars, udpVars
  <2>4. Waits(call.type, call.sock)' /\ PendingOK(k)'
    BY <1>0, <1>2, <1>5, <2>2 DEF Waits, PendingOK, Waiting
  <2> QED
    BY <1>0, <1>2, <1>3, <1>5, <2>2, <2>3, <2>4, CallWaits
<1> QED
  BY <1>1, <1>4, <1>5

LEMMA WriteOrdered == ASSUME Ordered, WellTyped', Write PROVE Ordered'
<1>0. PICK k, c : k = call.sock /\ c = socks[k].connection
  OBVIOUS
<1>1. /\ Take("mWRITE") /\ Allowed("mWRITE", k) /\ SendRequest("WRITE", c, k)
      /\ SetStatus(k, "WRITE_PENDING") /\ UNCHANGED <<answers, ports>>
  BY <1>0 DEF Write
<1>2. /\ SocksOK /\ TablesOK /\ SocketsOK /\ UNCHANGED <<call, calls>> /\ asked' = FALSE
      /\ asked /\ answers = <<>> /\ call.type = "mWRITE"
  BY <1>1, TakeFacts
<1>3. k \in Socks /\ socks[k].status = "CONNECTED"
  BY <1>0, <1>1, CalledSocket DEF Allowed
<1>4. SocketsOK' /\ Others(k) /\ socks'[k].status = "WRITE_PENDING" /\ socks'[k].connection = c
  BY <1>0, <1>1, <1>2, <1>3, StatusStep
<1>5. TablesOK' /\ PendingOK(k)'
  BY <1>0, <1>1, <1>2, <1>4 DEF TablesOK, PendingOK, Waiting
<1>6. CASE c.protocol = "udp" /\ SendUDPRequest("WRITE", c, k) /\ UNCHANGED tcpVars
  <2>1. UdpRequestOK([type |-> "WRITE", sock |-> k])'
    BY <1>4, <1>6 DEF UdpRequestOK
  <2>2. UdpPartOK' /\ \E i \in DOMAIN udpq' : udpq'[i] = [type |-> "WRITE", sock |-> k]
    BY <1>2, <1>3, <1>6, <2>1, UdpSent
  <2>3. TcpPartOK'
    BY <1>2, <1>6, TcpIdle DEF tcpVars
  <2>4. Waits(call.type, call.sock)'
    BY <1>0, <1>2, <1>4, <2>2 DEF Waits
  <2> QED
    BY <1>0, <1>1, <1>2, <1>3, <1>4, <1>5, <2>2, <2>3, <2>4, CallWaits
<1>7. CASE c.protocol = "tcp" /\ SendTCPRequest("WRITE", c, k) /\ UNCHANGED udpVars
  <2>1. TcpRequestOK([type |-> "WRITE", sock |-> k])'
    BY <1>4, <1>7 DEF TcpRequestOK
  <2>2. TcpPartOK'
    BY <1>2, <1>3, <1>7, <2>1, TcpSent DEF Opens
  <2>3. UdpPartOK'
    BY <1>2, <1>7, UdpIdle DEF udpVars
  <2>4. Waits(call.type, call.sock)'
    BY <1>0, <1>2, <1>4, <1>7 DEF Waits
  <2> QED
    BY <1>0, <1>1, <1>2, <1>3, <1>4, <1>5, <2>2, <2>3, <2>4, CallWaits
<1> QED
  BY <1>1, <1>6, <1>7 DEF SendRequest

LEMMA CloseOrdered == ASSUME Ordered, WellTyped', Close PROVE Ordered'
<1>0. PICK k, c : k = call.sock /\ c = socks[k].connection
  OBVIOUS
<1>1. /\ Take("mCLOSE") /\ Allowed("mCLOSE", k) /\ SendRequest("CLOSE", c, k)
      /\ CloseSocket(k) /\ Answer(k, "EOK") /\ UNCHANGED ports
  BY <1>0 DEF Close
<1>2. /\ SocksOK /\ TablesOK /\ SocketsOK /\ UNCHANGED <<call, calls>> /\ asked' = FALSE
      /\ asked /\ answers = <<>> /\ call.type = "mCLOSE" /\ call # Idle
      /\ \A j \in Socks : socks[j].status \notin PendingStatuses
  BY <1>1, TakeFacts
<1>3. k \in Socks
  BY <1>0, <1>1, CalledSocket
<1>4. /\ Others(k) /\ socks'[k].status = "FREE" /\ socks'[k].connection = NoConnection
      /\ socks'[k].app = FALSE
  BY <1>1, <1>2, <1>3, SocketClosed
<1>5. SockOK(socks'[k])
  BY <1>4 DEF SockOK
<1>6. TablesOK' /\ SocketsOK'
  BY <1>1, <1>2, <1>3, <1>4, <1>5, SocketsStep DEF TablesOK
<1>7. \A j \in Socks : socks'[j].status \notin PendingStatuses
  BY <1>2, <1>4 DEF Others, PendingStatuses
<1>8. Nothing'
  <2>1. CASE c.protocol = "udp" /\ SendUDPRequest("CLOSE", c, k) /\ UNCHANGED tcpVars
    <3>1. Open(udpq)' = {} /\ OneOpen(udpq)'
      BY <1>2, <1>3, <2>1, UdpSent
    <3>2. Open(tcpq)' = {} /\ OneOpen(tcpq)'
      BY <1>2, <2>1, TcpIdle DEF tcpVars
    <3> QED
      BY <3>1, <3>2 DEF Nothing
  <2>2. CASE c.protocol = "tcp" /\ SendTCPRequest("CLOSE", c, k) /\ UNCHANGED udpVars
    <3>1. Open(tcpq)' = {} /\ OneOpen(tcpq)'
      BY <1>2, <1>3, <2>2, TcpSent DEF Opens
    <3>2. Open(udpq)' = {} /\ OneOpen(udpq)'
      BY <1>2, <2>2, UdpIdle DEF udpVars
    <3> QED
      BY <3>1, <3>2 DEF Nothing
  <2> QED
    BY <1>1, <2>1, <2>2 DEF SendRequest
<1>9. Message(call.type, k, "EOK")
  BY <1>1 DEF Answer
<1> QED
  BY <1>0, <1>2, <1>3, <1>6, <1>7, <1>8, <1>9, Answered

LEMMA ConnectOrdered == ASSUME Ordered, WellTyped', Connect PROVE Ordered'
<1>0. PICK k, p, c, udp : /\ k = call.sock
                     /\ p = (IF socks[k].status = "UNBOUND" THEN ResolveSrcPort("any", PORT_NONE) ELSE socks[k].connection.srcport)
                     /\ c = [socks[k].connection EXCEPT !.src = "me", !.srcport = p, !.dest = call.dest]
                     /\ udp = (c.protocol = "udp")
  OBVIOUS
<1>1. /\ Take("mCONNECT") /\ Allowed("mCONNECT", k)
      /\ \/ NoPort("any", PORT_NONE)
         \/ /\ ports' = [ports EXCEPT ![p] = k] \/ ports' = ports
            /\ SendRequest(IF udp THEN "FORWARD" ELSE "CONNECT", c, k)
            /\ ConnectionStep(k, c, IF udp THEN "CONNECTED" ELSE "CONNECT_PENDING")
            /\ UNCHANGED answers
  BY <1>0 DEF Connect, ConnectionStep
<1>2. /\ SocksOK /\ TablesOK /\ SocketsOK /\ UNCHANGED <<call, calls>> /\ asked' = FALSE /\ WellTyped
      /\ asked /\ answers = <<>> /\ call.type = "mCONNECT"
  BY <1>1, TakeFacts
<1>3. k \in Socks /\ socks[k].connection \in Connections /\ SockOK(socks[k])
  BY <1>0, <1>1, CalledSocket
<1>4. socks[k].status # "FREE" /\ socks[k].app
  BY <1>1, <1>3 DEF Allowed, SockOK
<1>5. c.dest # "any" /\ c.protocol = socks[k].connection.protocol
  <2>1. call.dest \in Peers /\ call.dest # "any"
    BY <1>2, PeersAssumption DEF WellTyped, CallOK
  <2> QED
    BY <1>0, <1>3, <2>1 DEF Connections
<1>6. CASE NoPort("any", PORT_NONE)
  BY <1>1, <1>6, NoPortOrdered
<1>7. CASE /\ ports' = [ports EXCEPT ![p] = k] \/ ports' = ports
           /\ SendRequest(IF udp THEN "FORWARD" ELSE "CONNECT", c, k)
           /\ ConnectionStep(k, c, IF udp THEN "CONNECTED" ELSE "CONNECT_PENDING")
           /\ UNCHANGED answers
  <2>1. TablesOK'
    BY <1>2, <1>3, <1>7, PortTaken DEF PortStep, TablesOK
  <2>2. ASSUME NEW status \in {"CONNECTED", "CONNECT_PENDING"}, ConnectionStep(k, c, status),
               status = "CONNECT_PENDING" => c.protocol = "tcp"
        PROVE  Others(k) /\ socks'[k].status = status /\ socks'[k].connection = c /\ SocketsOK'
    <3>1. /\ Others(k) /\ socks'[k].status = status /\ socks'[k].connection = c
          /\ socks'[k].app = socks[k].app
      BY <1>2, <1>3, <2>2, ConnectionSet
    <3>2. SockOK(socks'[k])
      BY <1>4, <2>2, <3>1 DEF SockOK
    <3> QED
      BY <1>2, <1>3, <3>1, <3>2, SocketsStep
  <2>3. CASE udp
    <3>1. SendUDPRequest("FORWARD", c, k) /\ UNCHANGED tcpVars /\ c.protocol = "udp" /\ ConnectionStep(k, c, "CONNECTED")
      BY <1>0, <1>7, <2>3 DEF SendRequest
    <3>2. Others(k) /\ socks'[k].status = "CONNECTED" /\ socks'[k].connection = c /\ SocketsOK'
      BY <2>2, <3>1
    <3>3. Waiting("mCONNECT", k)' /\ PendingOK(k)'
      BY <1>0, <1>2, <1>7, <3>2 DEF Waiting, PendingOK
    <3>4. UdpRequestOK([type |-> "FORWARD", sock |-> k])'
      BY <1>5, <3>1, <3>2, <3>3 DEF UdpRequestOK
    <3>5. UdpPartOK' /\ \E i \in DOMAIN udpq' : udpq'[i] = [type |-> "FORWARD", sock |-> k]
      BY <1>2, <1>3, <3>1, <3>4, UdpSent
    <3>6. TcpPartOK'
      BY <1>2, <3>1, TcpIdle DEF tcpVars
    <3>7. Waits(call.type, call.sock)'
      BY <1>0, <1>2, <3>5 DEF Waits
    <3> QED
      BY <1>0, <1>2, <1>3, <1>7, <2>1, <3>2, <3>3, <3>5, <3>6, <3>7, CallWaits
  <2>4. CASE ~udp
    <3>1. SendTCPRequest("CONNECT", c, k) /\ UNCHANGED udpVars /\ c.protocol = "tcp" /\ ConnectionStep(k, c, "CONNECT_PENDING")
      BY <1>0, <1>7, <2>4 DEF SendRequest
    <3>2. Others(k) /\ socks'[k].status = "CONNECT_PENDING" /\ socks'[k].connection = c /\ SocketsOK'
      BY <2>2, <3>1
    <3>3. TcpQuiet
      BY <1>0, <1>2, <1>5, <3>1 DEF Ordered, TcpPartOK, BeforeOpening
    <3>4. TcpRequestOK([type |-> "CONNECT", sock |-> k])'
      BY <3>1, <3>2 DEF TcpRequestOK
    <3>5. TcpPartOK'
      BY <1>2, <1>3, <3>1, <3>3, <3>4, TcpSent
    <3>6. UdpPartOK'
      BY <1>2, <3>1, UdpIdle DEF udpVars
    <3>7. Waits(call.type, call.sock)' /\ PendingOK(k)'
      BY <1>0, <1>2, <1>7, <3>2 DEF Waits, PendingOK, Waiting
    <3> QED
      BY <1>0, <1>2, <1>3, <1>7, <2>1, <3>2, <3>5, <3>6, <3>7, CallWaits
  <2> QED
    BY <2>3, <2>4
<1> QED
  BY <1>1, <1>6, <1>7

LEMMA ProcessOrdered == ASSUME Ordered, WellTyped', ProcessAppRequest PROVE Ordered'
<1>1. CASE \E type \in {"mBIND", "mLISTEN", "mACCEPT", "mCONNECT", "mREAD", "mWRITE", "mCLOSE"} : Refuse(type)
  <2>1. PICK type \in {"mBIND", "mLISTEN", "mACCEPT", "mCONNECT", "mREAD", "mWRITE", "mCLOSE"} : Refuse(type)
    BY <1>1
  <2>2. type # "none" /\ type # "mSOCKET"
    OBVIOUS
  <2> QED
    BY <2>1, <2>2, RefuseOrdered
<1>2. CASE Socket
  BY <1>2, SocketOrdered
<1>3. CASE Bind
  BY <1>3, BindOrdered
<1>4. CASE Listen
  BY <1>4, ListenOrdered
<1>5. CASE Accept
  BY <1>5, AcceptOrdered
<1>6. CASE Connect
  BY <1>6, ConnectOrdered
<1>7. CASE Read
  BY <1>7, ReadOrdered
<1>8. CASE Write
  BY <1>8, WriteOrdered
<1>9. CASE Close
  BY <1>9, CloseOrdered
<1>10. CASE Stub
  BY <1>10, StubOrdered
<1> QED
  BY <1>1, <1>2, <1>3, <1>4, <1>5, <1>6, <1>7, <1>8, <1>9, <1>10 DEF ProcessAppRequest

(* The application calls, and returns. *)
LEMMA AskOrdered ==
  ASSUME Ordered, WellTyped', TablesOK', UNCHANGED <<socks, ports, answers, tcpVars, udpVars>>,
         call = Idle, call'.type # "none", asked' = TRUE, BeforeOpening'
  PROVE  Ordered'
<1>1. /\ \A j \in Socks : socks[j].status \notin PendingStatuses
      /\ Open(tcpq) = {} /\ Open(udpq) = {} /\ answers = <<>>
  BY NonePending DEF Ordered, CallsOK, PhaseOK
<1>2. call' # Idle
  BY DEF Idle
<1>3. PhaseOK' /\ AnswersTheCall' /\ CallNotForgotten'
  BY <1>1, <1>2 DEF PhaseOK, AnswersTheCall, CallNotForgotten
<1>4. \A j \in Socks : PendingOK(j)'
  BY <1>1 DEF PendingOK, PendingStatuses
<1>5. SocketsOK'
  BY DEF Ordered, SocketsOK
<1>6. UdpPartOK'
  BY <1>1 DEF Ordered, UdpPartOK, udpVars, Open, OneOpen, Range
<1>7. TcpPartOK'
  <2>1. \A r \in Range(tcpq) : r.type \notin Opens
    BY <1>1 DEF Open, Opens
  <2> QED
    BY <1>1, <2>1 DEF Ordered, TcpPartOK, OpeningOK, tcpVars, Open, OneOpen, Range
<1> QED
  BY <1>3, <1>4, <1>5, <1>6, <1>7 DEF Ordered, CallsOK

LEMMA ReturnOrdered == ASSUME Ordered, WellTyped', AppReturns PROVE Ordered'
<1>1. /\ answers # <<>> /\ answers' = Tail(answers) /\ call' = Idle
      /\ UNCHANGED <<asked, calls, socks, ports, tcpVars, udpVars>>
  BY DEF AppReturns, MinetReceive
<1>2. /\ \A j \in Socks : socks[j].status \notin PendingStatuses
      /\ Open(tcpq) = {} /\ Open(udpq) = {}
  BY <1>1, NonePending
<1>3. answers' = <<>> /\ ~asked'
  <2>1. answers = <<answers[1]>> /\ ~asked
    BY <1>1 DEF Ordered, CallsOK, PhaseOK
  <2>2. \A x : Tail(<<x>>) = <<>>
    OBVIOUS
  <2> QED
    BY <1>1, <2>1, <2>2
<1>4. PhaseOK' /\ AnswersTheCall' /\ CallNotForgotten'
  BY <1>1, <1>3 DEF PhaseOK, AnswersTheCall, CallNotForgotten
<1>5. \A j \in Socks : PendingOK(j)'
  BY <1>1, <1>2 DEF PendingOK, PendingStatuses
<1>6. SocketsOK' /\ TablesOK'
  BY <1>1 DEF Ordered, SocketsOK, TablesOK
<1>7. Nothing'
  BY <1>1, <1>2 DEF Ordered, TcpPartOK, UdpPartOK, Nothing, tcpVars, udpVars, Open, OneOpen, Range
<1> QED
  BY <1>3, <1>4, <1>5, <1>6, <1>7, NothingOpenLater DEF Ordered, CallsOK
-----------------------------------------------------------------------------
(* Steps that leave what is known of the sockets as it is. *)
Alike ==
  \A j \in Socks : /\ socks'[j].status = socks[j].status /\ socks'[j].connection = socks[j].connection
                   /\ socks'[j].app = socks[j].app

LEMMA WaitsAlike ==
  ASSUME WellTyped, Alike, Open(udpq)' = Open(udpq), NEW type, NEW k, Waits(type, k),
         k \in Socks \/ type \notin {"mREAD", "mACCEPT", "mCONNECT", "mWRITE", "mBIND"}
  PROVE  Waits(type, k)'
<1>1. FindFreeSock' = FindFreeSock
  BY DEF FindFreeSock, Alike
<1>2. ASSUME NEW t \in {"WRITE", "FORWARD"}, NEW i \in DOMAIN udpq, udpq[i] = [type |-> t, sock |-> k]
      PROVE  \E j \in DOMAIN udpq' : udpq'[j] = [type |-> t, sock |-> k]
  <2> DEFINE r == [type |-> t, sock |-> k]
  <2>1. r \in Open(udpq)
    BY <1>2 DEF Open, Range
  <2>2. r \in Open(udpq)'
    BY <2>1
  <2> HIDE DEF r
  <2>3. \E j \in DOMAIN udpq' : udpq'[j] = r
    BY <2>2 DEF Open, Range
  <2> QED
    BY <2>3 DEF r
<1>3. k \in Socks => socks'[k].status = socks[k].status /\ socks'[k].connection = socks[k].connection
  BY DEF Alike
<1> QED
  BY <1>1, <1>2, <1>3 DEF Waits

LEMMA AlikeOrdered ==
  ASSUME Ordered, WellTyped', Alike, UNCHANGED <<ports, call, asked, calls, answers>>,
         Open(tcpq)' \subseteq Open(tcpq), OneOpen(tcpq)', OpeningOK', TcpQuiet => TcpQuiet',
         Open(udpq)' = Open(udpq), OneOpen(udpq)'
  PROVE  Ordered'
<1>1. /\ WellTyped /\ TablesOK /\ SocketsOK /\ PhaseOK /\ (\A k \in Socks : PendingOK(k))
      /\ AnswersTheCall /\ CallNotForgotten /\ TcpPartOK /\ UdpPartOK
  BY DEF Ordered, CallsOK
<1>2. call.type \in {"mREAD", "mACCEPT", "mCONNECT", "mWRITE", "mBIND"} => call.sock \in Socks
  BY <1>1 DEF WellTyped, CallOK
<1>3. SocketsOK' /\ TablesOK'
  BY <1>1 DEF SocketsOK, SockOK, Alike, TablesOK
<1>4. PhaseOK' /\ \A k \in Socks : PendingOK(k)'
  BY <1>1 DEF PhaseOK, PendingOK, Waiting, Alike
<1>5. CallNotForgotten'
  <2> SUFFICES ASSUME call # Idle, ~asked, answers = <<>> PROVE Waits(call.type, call.sock)'
    BY DEF CallNotForgotten
  <2>1. PICK t, k : t = call.type /\ k = call.sock
    OBVIOUS
  <2>2. Waits(t, k) /\ (k \in Socks \/ t \notin {"mREAD", "mACCEPT", "mCONNECT", "mWRITE", "mBIND"})
    BY <1>1, <1>2, <2>1 DEF CallNotForgotten
  <2>3. Waits(t, k)'
    BY <1>1, <2>2, WaitsAlike
  <2> QED
    BY <2>1, <2>3 DEF Waits, FindFreeSock
<1>6. AnswersTheCall'
  <2>1. answers # <<>> => answers[1].sock \in Socks \cup {0}
    BY <1>1 DEF PhaseOK
  <2> QED
    BY <1>1, <1>2, <2>1 DEF AnswersTheCall, Alike
<1>7. TcpPartOK'
  <2>1. ASSUME NEW r \in Open(tcpq) PROVE TcpRequestOK(r)'
    <3>1. TcpRequestOK(r) /\ r.sock \in Socks
      BY <1>1, OpenRequest DEF TcpPartOK
    <3> QED
      BY <3>1 DEF TcpRequestOK, Alike
  <2>2. BeforeOpening'
    BY <1>1, <1>2 DEF TcpPartOK, BeforeOpening, Alike
  <2>3. \A r \in Open(tcpq)' : TcpRequestOK(r)'
    BY <2>1
  <2> QED
    BY <2>2, <2>3 DEF TcpPartOK
<1>8. UdpPartOK'
  <2>1. ASSUME NEW r \in Open(udpq) PROVE UdpRequestOK(r)'
    <3>1. UdpRequestOK(r) /\ r.sock \in Socks
      BY <1>1, OpenRequest DEF UdpPartOK
    <3> QED
      BY <3>1 DEF UdpRequestOK, Alike, Waiting
  <2>2. \A r \in Open(udpq)' : UdpRequestOK(r)'
    BY <2>1
  <2> QED
    BY <2>2 DEF UdpPartOK
<1> QED
  BY <1>3, <1>4, <1>5, <1>6, <1>7, <1>8 DEF Ordered, CallsOK

(* Neither queue moves. *)
LEMMA FrameOrdered ==
  ASSUME Ordered, WellTyped', Alike, UNCHANGED <<ports, call, asked, calls, answers, tcpq, udpq>>,
         OpeningOK', TcpQuiet => TcpQuiet'
  PROVE  Ordered'
<1>1. /\ Open(tcpq)' = Open(tcpq) /\ OneOpen(tcpq)' = OneOpen(tcpq)
      /\ Open(udpq)' = Open(udpq) /\ OneOpen(udpq)' = OneOpen(udpq)
  BY DEF Open, OneOpen, Range
<1> QED
  BY <1>1, AlikeOrdered DEF Ordered, TcpPartOK, UdpPartOK

LEMMA TcpStays ==
  ASSUME Ordered, UNCHANGED tcpVars
  PROVE  OpeningOK' /\ (TcpQuiet => TcpQuiet')
  BY DEF Ordered, TcpPartOK, OpeningOK, TcpQuiet, Sent, Heard, Told, tcpVars, Range

-----------------------------------------------------------------------------
(* TCP: what it does while the first connection is opened. *)
LEMMA NoEntry == ASSUME NEW c, tcp = <<>> PROVE TcpMatching(c) = 0
  BY DEF TcpMatching, First

LEMMA FirstSent == \A m : Append(<<>>, m) = <<m>> /\ Head(<<m>>) = m /\ Len(<<m>>) = 1 /\ <<m>>[1] = m /\ <<m>> # <<>>
  OBVIOUS

LEMMA TcpTellsFirst ==
  ASSUME toTcp' = <<>>, fromTcp = <<>>, NEW c, TcpStatus(c, "EOK")
  PROVE  Told'
<1>1. PICK m : m = Srr("STATUS", c, "EOK")
  OBVIOUS
<1>2. fromTcp' = <<m>> /\ m.type = "STATUS" /\ m.error = "EOK"
  BY <1>1, FirstSent DEF TcpStatus, Srr
<1>3. Range(<<m>>) = {m}
  BY DEF Range
<1>4. \A x \in Range(fromTcp') : x.error = "EOK"
  BY <1>2, <1>3
<1> QED
  BY <1>2, <1>4, FirstSent DEF Told, Range

LEMMA TcpTellsMore ==
  ASSUME Queue(fromTcp), Told, toTcp' = <<>>,
         UNCHANGED fromTcp \/ \E m : m.error = "EOK" /\ fromTcp' = Append(fromTcp, m)
  PROVE  Told'
<1>1. CASE UNCHANGED fromTcp
  BY <1>1 DEF Told, Range
<1>2. ASSUME NEW m, m.error = "EOK", fromTcp' = Append(fromTcp, m) PROVE Told'
  <2>1. /\ fromTcp' # <<>> /\ Head(fromTcp') = Head(fromTcp)
        /\ Range(fromTcp') = Range(fromTcp) \cup {m}
    BY <1>2, QueueAppend DEF Told
  <2>2. \A x \in Range(fromTcp') : x.error = "EOK"
    BY <1>2, <2>1 DEF Told
  <2> QED
    BY <2>1, <2>2 DEF Told, Range
<1> QED
  BY <1>1, <1>2

LEMMA TcpRequestOpening == ASSUME WellTyped, OpeningOK, TcpRequest PROVE OpeningOK' /\ ~TcpQuiet
<1>1. PICK m, i : m = Head(toTcp) /\ i = TcpMatching(m.connection)
  OBVIOUS
<1>2. /\ toTcp # <<>> /\ toTcp' = Tail(toTcp) /\ UNCHANGED tcpq
      /\ IF i = 0 THEN TcpOpens(m) ELSE TcpHandles(m, i) \/ TcpIgnores(m, i)
  BY <1>1 DEF TcpRequest
<1>3. ASSUME NEW x \in Range(tcpq), x.type \in Opens
      PROVE  Len(tcpq) = 1 /\ ((x.type = "ACCEPT" /\ Heard') \/ Told')
  <2>1. Len(tcpq) = 1 /\ Sent(x.type)
    BY <1>2, <1>3 DEF OpeningOK, Heard, Told
  <2>2. m.type = x.type /\ fromTcp = <<>> /\ tcp = <<>> /\ i = 0 /\ TcpOpens(m)
    BY <1>1, <1>2, <2>1, NoEntry DEF Sent
  <2>3. toTcp' = <<>>
    <3>1. Queue(toTcp) /\ Len(toTcp) = 1
      BY <2>1, Queues DEF Sent
    <3>2. Queue(Tail(toTcp)) /\ Len(Tail(toTcp)) = 0
      BY <1>2, <3>1, QueueTail, TailPositions
    <3> QED
      BY <1>2, <3>2 DEF Queue
  <2>4. CASE x.type = "CONNECT"
    <3>1. TcpStatus(m.connection, "EOK")
      BY <2>2, <2>4 DEF TcpOpens
    <3> QED
      BY <2>1, <2>2, <2>3, <3>1, TcpTellsFirst
  <2>5. CASE x.type = "ACCEPT"
    <3>1. tcp' = <<TcpEntry(m.connection, "LISTEN")>> /\ fromTcp' = <<>>
      BY <2>2, <2>5, FirstSent DEF TcpOpens
    <3>2. Len(tcp') = 1 /\ tcp'[1].st = "LISTEN"
      BY <3>1, FirstSent DEF TcpEntry
    <3> QED
      BY <2>1, <2>3, <2>5, <3>1, <3>2 DEF Heard
  <2> QED
    BY <1>3, <2>4, <2>5 DEF Opens
<1>4. Range(tcpq)' = Range(tcpq)
  BY <1>2 DEF Range
<1> QED
  BY <1>2, <1>3, <1>4 DEF OpeningOK, TcpQuiet

LEMMA TcpSegmentOpening ==
  ASSUME WellTyped, OpeningOK, NEW port, NEW peer, TcpSegment(port, peer)
  PROVE  OpeningOK' /\ ~TcpQuiet
<1>1. PICK c, i : c = [src |-> "me", srcport |-> port, dest |-> peer, protocol |-> "tcp"] /\ i = TcpMatching(c)
  OBVIOUS
<1>2. /\ i # 0 /\ UNCHANGED <<tcpq, toTcp>>
      /\ tcp[i].st = "LISTEN" => TcpStatus(c, "EOK")
      /\ UNCHANGED fromTcp \/ \E d : TcpStatus(d, "EOK") \/ TcpWrite(d)
  BY <1>1 DEF TcpSegment
<1>3. UNCHANGED fromTcp \/ \E m : m.error = "EOK" /\ fromTcp' = Append(fromTcp, m)
  BY <1>2 DEF TcpStatus, TcpWrite, Srr
<1>4. tcp # <<>>
  BY <1>1, <1>2, NoEntry
<1>5. ASSUME NEW x \in Range(tcpq), x.type \in Opens PROVE Len(tcpq) = 1 /\ Told'
  <2>1. Len(tcpq) = 1 /\ (Heard \/ Told)
    BY <1>4, <1>5 DEF OpeningOK, Sent
  <2>2. CASE Heard
    <3>1. i \in DOMAIN tcp /\ Queue(tcp)
      BY <1>1, <1>2, TcpFound, Queues DEF WellTyped
    <3>2. DOMAIN tcp = 1 .. Len(tcp)
      BY <3>1 DEF Queue
    <3>3. i = 1
      BY <2>2, <3>1, <3>2 DEF Heard
    <3>4. TcpStatus(c, "EOK") /\ toTcp' = <<>> /\ fromTcp = <<>>
      BY <1>2, <2>2, <3>3 DEF Heard
    <3> QED
      BY <2>1, <3>4, TcpTellsFirst
  <2>3. CASE Told
    <3>1. toTcp' = <<>> /\ Queue(fromTcp)
      BY <1>2, <2>3, Queues DEF Told
    <3> QED
      BY <1>3, <2>1, <2>3, <3>1, TcpTellsMore
  <2> QED
    BY <2>1, <2>2, <2>3
<1>6. Range(tcpq)' = Range(tcpq)
  BY <1>2 DEF Range
<1> QED
  BY <1>2, <1>4, <1>5, <1>6 DEF OpeningOK, TcpQuiet

LEMMA TcpTimeoutOpening == ASSUME WellTyped, OpeningOK, TcpTimeout PROVE OpeningOK' /\ ~TcpQuiet
<1>1. UNCHANGED <<tcpq, toTcp, fromTcp>>
  BY DEF TcpTimeout
<1>2. PICK i \in DOMAIN tcp : tcp[i].st = "SYN_RCVD"
  BY DEF TcpTimeout
<1>3. tcp # <<>> /\ ~Heard
  <2>1. Queue(tcp)
    BY Queues
  <2>2. DOMAIN tcp = 1 .. Len(tcp)
    BY <2>1 DEF Queue
  <2>3. Len(tcp) = 1 => i = 1
    BY <1>2, <2>2
  <2>4. tcp = <<>> => DOMAIN tcp = {}
    OBVIOUS
  <2> QED
    BY <1>2, <2>3, <2>4 DEF Heard
<1>4. \A x \in Range(tcpq) : x.type \in Opens => Len(tcpq) = 1 /\ Told
  BY <1>3 DEF OpeningOK, Sent
<1>5. Told => Told'
  BY <1>1 DEF Told, Range
<1> QED
  BY <1>1, <1>3, <1>4, <1>5 DEF OpeningOK, TcpQuiet, Range

(* What comes from TCP when it has opened nothing yet is a STATUS. *)
LEMMA ComesFromTcp ==
  ASSUME OpeningOK, fromTcp # <<>>
  PROVE  /\ ~TcpQuiet
         /\ \A x \in Range(tcpq) : x.type \in Opens => Len(tcpq) = 1 /\ Told
  BY DEF OpeningOK, TcpQuiet, Sent, Heard

LEMMA TcpMoves == ASSUME Ordered, WellTyped', TcpRequest \/ TcpTimeout PROVE Ordered'
<1>1. /\ UNCHANGED <<socks, ports, call, asked, calls, answers, tcpq, udpq>>
  BY DEF TcpRequest, TcpTimeout, appVars, udpVars
<1>2. WellTyped /\ OpeningOK
  BY DEF Ordered, TcpPartOK
<1>3. OpeningOK' /\ ~TcpQuiet
  BY <1>2, TcpRequestOpening, TcpTimeoutOpening
<1>4. Alike
  BY <1>1 DEF Alike
<1> QED
  BY <1>1, <1>3, <1>4, FrameOrdered

LEMMA SegmentMoves == ASSUME Ordered, WellTyped', NEW port, NEW peer, TcpSegment(port, peer) PROVE Ordered'
<1>1. /\ UNCHANGED <<socks, ports, call, asked, calls, answers, tcpq, udpq>>
  BY DEF TcpSegment, appVars, udpVars
<1>2. WellTyped /\ OpeningOK
  BY DEF Ordered, TcpPartOK
<1>3. OpeningOK' /\ ~TcpQuiet
  BY <1>2, TcpSegmentOpening
<1>4. Alike
  BY <1>1 DEF Alike
<1> QED
  BY <1>1, <1>3, <1>4, FrameOrdered

(* UDP, the ICMP module, and the crash. *)
LEMMA StillOrdered ==
  ASSUME Ordered, WellTyped', UNCHANGED <<socks, ports, call, asked, calls, answers, tcpVars, udpq>>
  PROVE  Ordered'
<1>1. OpeningOK' /\ (TcpQuiet => TcpQuiet')
  BY TcpStays
<1>2. Alike
  BY DEF Alike
<1> QED
  BY <1>1, <1>2, FrameOrdered DEF tcpVars

-----------------------------------------------------------------------------
(* What comes from below. *)
LEMMA ConnectionFound ==
  ASSUME NEW c, NEW k, k = FindConnection(c), k # 0
  PROVE  k \in Socks /\ Takes(k, c)
<1>1. {j \in Socks : Takes(j, c)} \subseteq Nat
  BY SocksAssumption DEF Socks
<1>2. k \in {j \in Socks : Takes(j, c)}
  BY <1>1, FirstIsMember DEF FindConnection
<1> QED
  BY <1>2

(* A socket that waits for a WRITE: no request is open any more. *)
LEMMA NoneOpen ==
  ASSUME Ordered, NEW k \in Socks,
         \/ socks[k].status = "READ_PENDING"
         \/ socks[k].status \in {"ACCEPT_PENDING", "CONNECT_PENDING"} /\ \A r \in Range(tcpq) : r.type \notin Opens
  PROVE  Open(tcpq) = {} /\ Open(udpq) = {} /\ OneOpen(tcpq) /\ OneOpen(udpq)
<1>1. k = call.sock
  BY OnlyWaiting DEF PendingStatuses
<1>2. ASSUME NEW r \in Open(tcpq) PROVE FALSE
  <2>1. r.sock = k /\ TcpRequestOK(r) /\ r \in Range(tcpq)
    BY <1>1, OpenRequest DEF Open
  <2> QED
    BY <2>1 DEF TcpRequestOK, Opens
<1>3. ASSUME NEW r \in Open(udpq) PROVE FALSE
  <2>1. r.sock = k /\ UdpRequestOK(r)
    BY <1>1, OpenRequest
  <2> QED
    BY <2>1 DEF UdpRequestOK
<1> QED
  BY <1>2, <1>3 DEF Ordered, TcpPartOK, UdpPartOK

LEMMA StillNothing ==
  ASSUME Open(tcpq) = {}, Open(udpq) = {}, OneOpen(tcpq), OneOpen(udpq), UNCHANGED <<tcpq, udpq>>
  PROVE  Nothing'
  BY DEF Nothing, Open, OneOpen, Range

LEMMA DataOrdered ==
  ASSUME Ordered, WellTyped', NEW below, NEW m, NEW k \in Socks, Data(below, m, k),
         UNCHANGED <<ports, call, asked, calls, tcpq, udpq>>, OpeningOK', TcpQuiet => TcpQuiet'
  PROVE  Ordered'
<1>0. WellTyped /\ SocksOK /\ TablesOK /\ SocketsOK
  BY DEF Ordered, WellTyped
<1>1. CASE socks' = [socks EXCEPT ![k].bin = @ + 1] /\ UNCHANGED answers
  <2>1. Alike
    BY <1>0, <1>1 DEF SocksOK, SockRecords, Alike
  <2> QED
    BY <1>1, <2>1, FrameOrdered
<1>2. CASE UNCHANGED <<socks, answers>>
  <2>1. Alike
    BY <1>2 DEF Alike
  <2> QED
    BY <1>2, <2>1, FrameOrdered
<1>3. CASE socks[k].status = "READ_PENDING" /\ Message("mREAD", k, m.error) /\ SetStatus(k, "CONNECTED")
  <2>1. SocketsOK' /\ Others(k) /\ socks'[k].status = "CONNECTED"
    BY <1>0, <1>3, StatusStep
  <2>2. /\ k = call.sock /\ ~asked /\ answers = <<>> /\ call # Idle
        /\ \A j \in Socks : j # k => socks[j].status \notin PendingStatuses
    BY <1>3, OnlyWaiting DEF PendingStatuses
  <2>3. call.type = "mREAD"
    BY <1>3 DEF Ordered, CallsOK, PendingOK, Waiting
  <2>4. \A j \in Socks : socks'[j].status \notin PendingStatuses
    BY <2>1, <2>2 DEF Others, PendingStatuses
  <2>5. Nothing' /\ TablesOK'
    BY <1>0, <1>3, NoneOpen, StillNothing DEF TablesOK
  <2>6. PICK e : Message(call.type, k, e)
    BY <1>3, <2>3
  <2> QED
    BY <2>1, <2>2, <2>4, <2>5, <2>6, Answered
<1> QED
  BY <1>1, <1>2, <1>3 DEF Data

LEMMA AcceptedOrdered ==
  ASSUME Ordered, WellTyped', NEW m, m.connection \in Connections,
         NEW k \in Socks, Takes(k, m.connection), Accepted(m, k),
         \A r \in Range(tcpq) : r.type \notin Opens,
         UNCHANGED <<ports, call, asked, calls, tcpq, udpq>>
  PROVE  Ordered'
<1> DEFINE back == [socks EXCEPT ![k].status = "LISTENING"]
           new == [SockRecord EXCEPT !.status = "CONNECTED", !.connection = m.connection, !.app = TRUE]
<1>0. PICK free : free = FindFreeSock
  OBVIOUS
<1>1. WellTyped /\ SocksOK /\ TablesOK /\ SocketsOK
  BY DEF Ordered, WellTyped
<1>2. /\ socks[k].status = "ACCEPT_PENDING"
      /\ \/ socks' = back /\ Message("mACCEPT", k, m.error)
         \/ free # 0 /\ socks' = [back EXCEPT ![free] = new] /\ Message("mACCEPT", free, "EOK")
         \/ free = 0 /\ socks' = back /\ UNCHANGED answers
  BY <1>0 DEF Accepted
<1>3. socks \in [Socks -> SockRecords] /\ socks[k] \in SockRecords
  BY <1>1 DEF SocksOK
<1>4. SockOK(socks[k]) /\ socks[k].connection.srcport = m.connection.srcport
  BY <1>1, <1>3 DEF SocketsOK, Takes, Connections, SockRecords
<1>5. /\ k = call.sock /\ ~asked /\ answers = <<>> /\ call # Idle /\ call.type = "mACCEPT"
      /\ \A j \in Socks : j # k => socks[j].status \notin PendingStatuses
  <2>1. call.type = "mACCEPT"
    BY <1>2 DEF Ordered, CallsOK, PendingOK, Waiting
  <2> QED
    BY <1>2, <2>1, OnlyWaiting DEF PendingStatuses
<1>6. Nothing' /\ TablesOK'
  BY <1>1, <1>2, NoneOpen, StillNothing DEF TablesOK
<1>7. /\ back[k].status = "LISTENING" /\ back[k].connection = socks[k].connection /\ back[k].app = socks[k].app
      /\ \A j \in Socks : j # k => back[j] = socks[j]
      /\ DOMAIN back = Socks
  BY <1>3 DEF SockRecords
<1>8. /\ new.status = "CONNECTED" /\ new.connection = m.connection /\ new.app = TRUE
  BY DEF SockRecord
<1>9. free # 0 => free \in Socks /\ socks[free].status = "FREE" /\ free # k
  BY <1>0, <1>2, FreeSocket
<1> HIDE DEF back, new
<1>10. /\ socks'[k].status = "LISTENING" /\ socks'[k].connection = socks[k].connection /\ socks'[k].app = socks[k].app
       /\ \A j \in Socks : j # k => socks'[j] = socks[j] \/ (j = free /\ socks[j].status = "FREE" /\ socks'[j] = new)
  BY <1>2, <1>7, <1>9
<1>11. SocketsOK'
  <2>1. SockOK(socks'[k])
    BY <1>2, <1>4, <1>10 DEF SockOK
  <2>2. SockOK(new)
    BY <1>8 DEF SockOK
  <2>3. \A j \in Socks : SockOK(socks'[j])
    BY <1>1, <1>10, <2>1, <2>2 DEF SocketsOK
  <2> QED
    BY <2>3 DEF SocketsOK, SockOK
<1>12. \A j \in Socks : socks'[j].status \notin PendingStatuses
  BY <1>5, <1>8, <1>10 DEF PendingStatuses
<1>13. CASE socks' = back /\ Message("mACCEPT", k, m.error)
  <2>1. PICK e : Message(call.type, k, e)
    BY <1>5, <1>13
  <2> QED
    BY <1>1, <1>5, <1>6, <1>11, <1>12, <2>1, Answered
<1>14. CASE free # 0 /\ socks' = [back EXCEPT ![free] = new] /\ Message("mACCEPT", free, "EOK")
  <2>1. socks'[free] = new
    BY <1>7, <1>9, <1>14
  <2>2. socks'[free].connection.srcport = socks'[call.sock].connection.srcport
    BY <1>4, <1>5, <1>8, <1>10, <2>1
  <2>3. Message(call.type, free, "EOK")
    BY <1>5, <1>14
  <2> QED
    BY <1>1, <1>5, <1>6, <1>9, <1>11, <1>12, <1>14, <2>2, <2>3, Answered
<1>15. CASE free = 0 /\ socks' = back /\ UNCHANGED answers
  <2>1. FindFreeSock' = 0
    <3>1. \A j \in Socks : socks[j].status # "FREE"
      BY <1>0, <1>15, FreeSocket
    <3>2. \A j \in Socks : socks'[j].status # "FREE"
      BY <3>1, <1>7, <1>15
    <3>3. {j \in Socks : socks'[j].status = "FREE"} = {}
      BY <3>2
    <3> QED
      BY <3>3 DEF FindFreeSock, First
  <2>2. Waits(call.type, call.sock)'
    BY <1>5, <2>1 DEF Waits
  <2>3. PhaseOK' /\ AnswersTheCall' /\ CallNotForgotten'
    BY <1>5, <1>15, <2>2 DEF PhaseOK, AnswersTheCall, CallNotForgotten, Idle
  <2>4. \A j \in Socks : PendingOK(j)'
    BY <1>12 DEF PendingOK, PendingStatuses
  <2>5. TcpPartOK' /\ UdpPartOK'
    BY <1>5, <1>6, NothingOpenLater
  <2> QED
    BY <1>6, <1>11, <2>3, <2>4, <2>5 DEF Ordered, CallsOK
<1> QED
  BY <1>2, <1>13, <1>14, <1>15

LEMMA ConnectedOrdered ==
  ASSUME Ordered, WellTyped', NEW m, NEW k \in Socks, Connected(m, k),
         \A r \in Range(tcpq) : r.type \notin Opens,
         UNCHANGED <<ports, call, asked, calls, tcpq, udpq>>
  PROVE  Ordered'
<1>1. WellTyped /\ SocksOK /\ TablesOK /\ SocketsOK
  BY DEF Ordered, WellTyped
<1>2. /\ socks[k].status = "CONNECT_PENDING" /\ Message("mCONNECT", k, m.error)
      /\ \/ CloseSocket(k)
         \/ socks' = [socks EXCEPT ![k].connection = m.connection, ![k].status = "CONNECTED"]
  BY DEF Connected
<1>3. /\ k = call.sock /\ ~asked /\ answers = <<>> /\ call # Idle /\ call.type = "mCONNECT"
      /\ \A j \in Socks : j # k => socks[j].status \notin PendingStatuses
  <2>1. call.type = "mCONNECT"
    BY <1>2 DEF Ordered, CallsOK, PendingOK, Waiting
  <2> QED
    BY <1>2, <2>1, OnlyWaiting DEF PendingStatuses
<1>4. Nothing' /\ TablesOK'
  BY <1>1, <1>2, NoneOpen, StillNothing DEF TablesOK
<1>5. Others(k) /\ socks'[k].status \in {"FREE", "CONNECTED"} /\ SockOK(socks'[k])
  <2>1. CASE CloseSocket(k)
    <3>1. /\ Others(k)
          /\ socks'[k].status = "FREE" /\ socks'[k].connection = NoConnection /\ socks'[k].app = FALSE
      BY <1>1, <2>1, SocketClosed
    <3> QED
      BY <3>1 DEF SockOK
  <2>2. CASE socks' = [socks EXCEPT ![k].connection = m.connection, ![k].status = "CONNECTED"]
    <3>1. ConnectionStep(k, m.connection, "CONNECTED")
      BY <2>2 DEF ConnectionStep
    <3>2. /\ Others(k)
          /\ socks'[k].status = "CONNECTED" /\ socks'[k].connection = m.connection
          /\ socks'[k].app = socks[k].app
      BY <1>1, <3>1, ConnectionSet
    <3>3. SockOK(socks[k])
      BY <1>1 DEF SocketsOK
    <3>4. SockOK(socks'[k])
      BY <1>2, <3>2, <3>3 DEF SockOK
    <3> QED
      BY <3>2, <3>4
  <2> QED
    BY <1>2, <2>1, <2>2
<1>6. SocketsOK'
  BY <1>1, <1>5, SocketsStep
<1>7. \A j \in Socks : socks'[j].status \notin PendingStatuses
  BY <1>3, <1>5 DEF Others, PendingStatuses
<1>8. PICK e : Message(call.type, k, e)
  BY <1>2, <1>3
<1> QED
  BY <1>3, <1>4, <1>6, <1>7, <1>8, Answered

LEMMA TcpWriteOrdered == ASSUME Ordered, WellTyped', HandleTCPWrite PROVE Ordered'
<1>1. PICK m, k : m = Head(fromTcp) /\ k = FindConnection(m.connection)
  OBVIOUS
<1>2. /\ fromTcp # <<>> /\ m.type = "WRITE" /\ UNCHANGED <<ports, call, asked, calls, tcpq, udpq>>
      /\ \/ NoMatch("tcp", m)
         \/ k # 0 /\ (Accepted(m, k) \/ Connected(m, k) \/ Data("tcp", m, k))
  BY <1>1 DEF HandleTCPWrite, udpVars
<1>3. m.connection \in Connections
  <2>1. fromTcp \in Seq(Messages)
    BY DEF Ordered, WellTyped, TcpOK
  <2>2. m \in Messages
    BY <1>1, <1>2, <2>1
  <2> QED
    BY <2>2 DEF Messages
<1>4. ~TcpQuiet /\ \A x \in Range(tcpq) : x.type \notin Opens
  BY <1>1, <1>2, ComesFromTcp DEF Ordered, TcpPartOK, Told
<1>5. OpeningOK'
  BY <1>2, <1>4 DEF OpeningOK, Range
<1>6. CASE NoMatch("tcp", m)
  <2>1. Alike /\ UNCHANGED answers
    BY <1>6 DEF NoMatch, Alike
  <2> QED
    BY <1>2, <1>4, <1>5, <2>1, FrameOrdered
<1>7. CASE k # 0
  <2>1. k \in Socks /\ Takes(k, m.connection)
    BY <1>1, <1>7, ConnectionFound
  <2>2. CASE Accepted(m, k)
    BY <1>2, <1>3, <1>4, <2>1, <2>2, AcceptedOrdered
  <2>3. CASE Connected(m, k)
    BY <1>2, <1>4, <2>1, <2>3, ConnectedOrdered
  <2>4. CASE Data("tcp", m, k)
    BY <1>2, <1>4, <1>5, <2>1, <2>4, DataOrdered
  <2> QED
    BY <1>2, <1>6, <2>2, <2>3, <2>4
<1> QED
  BY <1>2, <1>6, <1>7

LEMMA UdpWriteOrdered == ASSUME Ordered, WellTyped', HandleUDPWrite PROVE Ordered'
<1>1. PICK m, k : m = Head(fromUdp) /\ k = FindConnection(m.connection)
  OBVIOUS
<1>2. /\ UNCHANGED <<ports, call, asked, calls, udpq, tcpVars>>
      /\ NoMatch("udp", m) \/ (k # 0 /\ Data("udp", m, k))
  BY <1>1 DEF HandleUDPWrite
<1>3. OpeningOK' /\ (TcpQuiet => TcpQuiet') /\ UNCHANGED tcpq
  BY <1>2, TcpStays DEF tcpVars
<1>4. CASE NoMatch("udp", m)
  BY <1>2, <1>4, StillOrdered DEF NoMatch
<1>5. CASE k # 0 /\ Data("udp", m, k)
  <2>1. k \in Socks
    BY <1>1, <1>5, ConnectionFound
  <2> QED
    BY <1>2, <1>3, <1>5, <2>1, DataOrdered
<1> QED
  BY <1>2, <1>4, <1>5

-----------------------------------------------------------------------------
(* A STATUS is taken for the oldest request. *)
LEMMA RequestRead ==
  ASSUME NEW q, NEW s, Queue(q), q # <<>>, OneOpen(q), s = Tail(q)
  PROVE  /\ OneOpen(s) /\ Open(s) \subseteq Open(q)
         /\ Range(s) \subseteq Range(q) /\ (Len(q) = 1 => Range(s) = {})
         /\ Head(q).type = "CLOSE" => Open(s) = Open(q)
         /\ Head(q).type # "CLOSE" => Open(s) = {} /\ Head(q) \in Open(q)
  BY QueueRead, QueueTail

LEMMA TcpStatusOrdered == ASSUME Ordered, WellTyped', HandleTCPStatus PROVE Ordered'
<1>1. PICK m, r : m = Head(fromTcp) /\ r = Head(tcpq)
  OBVIOUS
<1>2. /\ fromTcp # <<>> /\ m.type = "STATUS" /\ tcpq # <<>> /\ tcpq' = Tail(tcpq)
      /\ \/ r.type \in Opens /\ m.error # "EOK"
         \/ r.type = "WRITE" /\ Message("mWRITE", r.sock, m.error) /\ SetStatus(r.sock, "CONNECTED")
         \/ (r.type = "CLOSE" \/ r.type \in Opens) /\ UNCHANGED <<socks, answers>>
      /\ UNCHANGED <<ports, call, asked, calls, udpVars>>
  BY <1>1 DEF HandleTCPStatus, Opens
<1>3. /\ WellTyped /\ SocksOK /\ TablesOK /\ SocketsOK /\ OneOpen(tcpq) /\ UdpPartOK /\ Queue(tcpq) /\ Queue(fromTcp)
  BY Queues DEF Ordered, WellTyped, TcpPartOK
<1>4. ~TcpQuiet /\ \A x \in Range(tcpq) : x.type \in Opens => Len(tcpq) = 1 /\ Told
  BY <1>2, ComesFromTcp DEF Ordered, TcpPartOK
<1>5. /\ OneOpen(tcpq') /\ Open(tcpq') \subseteq Open(tcpq) /\ r \in Range(tcpq)
      /\ Range(tcpq') \subseteq Range(tcpq) /\ (Len(tcpq) = 1 => Range(tcpq') = {})
      /\ r.type # "CLOSE" => Open(tcpq') = {} /\ r \in Open(tcpq)
  BY <1>1, <1>2, <1>3, RequestRead, QueueTail
<1>6. Open(tcpq)' = Open(tcpq') /\ OneOpen(tcpq)' = OneOpen(tcpq') /\ Range(tcpq)' = Range(tcpq')
  BY DEF Open, OneOpen, Range
<1>7. r.type \in Opens => m.error = "EOK"
  <2>1. m \in Range(fromTcp)
    BY <1>1, <1>2, <1>3, QueueTail
  <2> QED
    BY <1>4, <1>5, <2>1 DEF Told
<1>8. CASE (r.type = "CLOSE" \/ r.type \in Opens) /\ UNCHANGED <<socks, answers>>
  <2>1. OpeningOK'
    BY <1>4, <1>5, <1>6 DEF OpeningOK
  <2>2. Alike /\ UNCHANGED udpq
    BY <1>2, <1>8 DEF Alike, udpVars
  <2>3. Open(udpq)' = Open(udpq) /\ OneOpen(udpq)'
    BY <1>3, <2>2 DEF UdpPartOK, Open, OneOpen, Range
  <2> QED
    BY <1>2, <1>4, <1>5, <1>6, <1>8, <2>1, <2>2, <2>3, AlikeOrdered
<1>9. CASE r.type = "WRITE" /\ Message("mWRITE", r.sock, m.error) /\ SetStatus(r.sock, "CONNECTED")
  <2>1. PICK k : k = r.sock
    OBVIOUS
  <2>2. /\ r \in Open(tcpq) /\ k \in Socks /\ k = call.sock /\ ~asked /\ answers = <<>> /\ TcpRequestOK(r)
        /\ call.type = "mWRITE" /\ Open(tcpq') = {}
    BY <1>5, <1>9, <2>1, OpenRequest
  <2>3. socks[k].status = "WRITE_PENDING" /\ socks[k].connection.protocol = "tcp"
    BY <1>9, <2>1, <2>2 DEF TcpRequestOK
  <2>4. SocketsOK' /\ Others(k) /\ socks'[k].status = "CONNECTED"
    BY <1>3, <1>9, <2>1, <2>2, <2>3, StatusStep
  <2>5. call # Idle /\ \A j \in Socks : j # k => socks[j].status \notin PendingStatuses
    BY <2>2, <2>3, OnlyWaiting DEF PendingStatuses
  <2>6. \A j \in Socks : socks'[j].status \notin PendingStatuses
    BY <2>4, <2>5 DEF Others, PendingStatuses
  <2>7. Open(udpq) = {}
    <3> SUFFICES ASSUME NEW x \in Open(udpq) PROVE FALSE
      OBVIOUS
    <3>1. x.sock = k /\ UdpRequestOK(x)
      BY <2>2, OpenRequest
    <3> QED
      BY <2>3, <3>1 DEF UdpRequestOK
  <2>8. Nothing' /\ TablesOK'
    BY <1>2, <1>3, <1>5, <1>6, <2>2, <2>7 DEF Nothing, UdpPartOK, TablesOK, udpVars, Open, OneOpen, Range
  <2>9. PICK e : Message(call.type, k, e)
    BY <1>9, <2>1, <2>2
  <2> QED
    BY <1>2, <2>2, <2>4, <2>5, <2>6, <2>8, <2>9, Answered
<1> QED
  BY <1>2, <1>7, <1>8, <1>9

LEMMA UdpStatusOrdered == ASSUME Ordered, WellTyped', HandleUDPStatus PROVE Ordered'
<1>1. PICK m, r, status, of :
        /\ m = Head(fromUdp) /\ r = Head(udpq)
        /\ status = IF socks[r.sock].connection.dest = "any" THEN "BOUND" ELSE "CONNECTED"
        /\ of = IF r.type = "WRITE" THEN "mWRITE" ELSE IF status = "BOUND" THEN "mBIND" ELSE "mCONNECT"
  OBVIOUS
<1>2. /\ udpq # <<>> /\ udpq' = Tail(udpq)
      /\ \/ r.type # "CLOSE" /\ Message(of, r.sock, m.error) /\ (CloseSocket(r.sock) \/ SetStatus(r.sock, status))
         \/ r.type = "CLOSE" /\ UNCHANGED <<socks, answers>>
      /\ UNCHANGED <<ports, call, asked, calls, tcpVars>>
  BY <1>1 DEF HandleUDPStatus
<1>3. WellTyped /\ SocksOK /\ TablesOK /\ SocketsOK /\ OneOpen(udpq) /\ TcpPartOK /\ Queue(udpq)
  BY Queues DEF Ordered, WellTyped, UdpPartOK
<1>4. /\ OneOpen(udpq')
      /\ r.type = "CLOSE" => Open(udpq') = Open(udpq)
      /\ r.type # "CLOSE" => Open(udpq') = {} /\ r \in Open(udpq)
  BY <1>1, <1>2, <1>3, RequestRead
<1>5. Open(udpq)' = Open(udpq') /\ OneOpen(udpq)' = OneOpen(udpq')
  BY DEF Open, OneOpen, Range
<1>6. Open(tcpq)' = Open(tcpq) /\ OneOpen(tcpq)'
  BY <1>2, <1>3 DEF TcpPartOK, tcpVars, Open, OneOpen, Range
<1>7. CASE r.type = "CLOSE" /\ UNCHANGED <<socks, answers>>
  <2>1. OpeningOK' /\ (TcpQuiet => TcpQuiet') /\ Alike
    BY <1>2, <1>7, TcpStays DEF Alike
  <2> QED
    BY <1>2, <1>4, <1>5, <1>6, <1>7, <2>1, AlikeOrdered
<1>8. CASE r.type # "CLOSE" /\ Message(of, r.sock, m.error) /\ (CloseSocket(r.sock) \/ SetStatus(r.sock, status))
  <2>1. PICK k : k = r.sock
    OBVIOUS
  <2>2. /\ r \in Open(udpq) /\ k \in Socks /\ k = call.sock /\ ~asked /\ answers = <<>> /\ UdpRequestOK(r)
        /\ Open(udpq') = {}
    BY <1>4, <1>8, <2>1, OpenRequest
  <2>3. socks[k].connection.protocol = "udp" /\ socks[k].status \in {"WRITE_PENDING", "UNBOUND", "CONNECTED"}
    BY <2>1, <2>2 DEF UdpRequestOK
  <2>4. of = call.type
    <3>1. PendingOK(k)
      BY <2>2 DEF Ordered, CallsOK
    <3> QED
      BY <1>1, <2>1, <2>2, <3>1 DEF UdpRequestOK, PendingOK, Waiting
  <2>5. SocketsOK' /\ Others(k) /\ socks'[k].status \in {"FREE", "BOUND", "CONNECTED"}
    <3>1. CASE CloseSocket(k)
      <4>1. /\ Others(k)
            /\ socks'[k].status = "FREE" /\ socks'[k].connection = NoConnection /\ socks'[k].app = FALSE
        BY <1>3, <2>2, <3>1, SocketClosed
      <4>2. SockOK(socks'[k])
        BY <4>1 DEF SockOK
      <4> QED
        BY <1>3, <2>2, <4>1, <4>2, SocketsStep
    <3>2. CASE SetStatus(k, status)
      BY <1>1, <1>3, <2>2, <2>3, <3>2, StatusStep
    <3> QED
      BY <1>8, <2>1, <3>1, <3>2
  <2>6. call # Idle
    BY <1>1, <2>4 DEF Idle
  <2>7. \A j \in Socks : socks'[j].status \notin PendingStatuses
    <3>1. \A j \in Socks : socks[j].status \in PendingStatuses => j = k
      BY <2>2, OnlyWaiting
    <3> QED
      BY <2>5, <3>1 DEF Others, PendingStatuses
  <2>8. Open(tcpq) = {}
    <3> SUFFICES ASSUME NEW x \in Open(tcpq) PROVE FALSE
      OBVIOUS
    <3>1. x.sock = k /\ TcpRequestOK(x)
      BY <2>2, OpenRequest
    <3> QED
      BY <2>3, <3>1 DEF TcpRequestOK
  <2>9. Nothing' /\ TablesOK'
    BY <1>2, <1>3, <1>4, <1>5, <1>6, <2>2, <2>8 DEF Nothing, TablesOK
  <2>10. PICK e : Message(call.type, k, e)
    BY <1>8, <2>1, <2>4
  <2> QED
    BY <1>2, <2>2, <2>5, <2>6, <2>7, <2>9, <2>10, Answered
<1> QED
  BY <1>2, <1>7, <1>8

-----------------------------------------------------------------------------
LEMMA InitOrdered == Init => Ordered /\ TcpQuiet
<1> SUFFICES ASSUME Init PROVE Ordered /\ TcpQuiet
  OBVIOUS
<1>1. WellTyped
  BY InitTyped
<1>2. TablesOK
  <2>1. 0 \in 0 .. NumSocks - 1 /\ 0 \in 0 .. MaxCalls
    BY SocksAssumption, BoundAssumption
  <2>2. ports = [p \in PortNumbers |-> 0] /\ asked = FALSE /\ calls = 0
    BY DEF Init
  <2>3. ports \in [PortNumbers -> 0 .. NumSocks - 1]
    BY <2>1, <2>2
  <2> QED
    BY <2>1, <2>2, <2>3 DEF TablesOK
<1>3. \A k \in Socks : socks[k] = SockRecord
  BY DEF Init
<1>4. /\ SockRecord.status = "FREE" /\ SockRecord.app = FALSE /\ SockRecord.connection = NoConnection
  BY DEF SockRecord
<1>5. SocketsOK
  BY <1>3, <1>4 DEF SocketsOK, SockOK
<1>6. CallsOK
  BY <1>3, <1>4 DEF Init, CallsOK, PhaseOK, PendingOK, AnswersTheCall, CallNotForgotten
<1>7. TcpQuiet /\ ~asked
  BY DEF Init, TcpQuiet
<1>8. Nothing
  <2>1. DOMAIN tcpq = {} /\ DOMAIN udpq = {} /\ Len(tcpq) = 0 /\ Len(udpq) = 0
    BY DEF Init
  <2>2. \A i, j \in 1 .. 0 : FALSE
    OBVIOUS
  <2> QED
    BY <2>1, <2>2 DEF Nothing, Open, OneOpen, Range
<1> QED
  BY <1>1, <1>2, <1>5, <1>6, <1>7, <1>8, NothingOpen DEF Ordered

LEMMA StackOrdered ==
  ASSUME Ordered, WellTyped', SockStep \/ Below \/ Crash \/ UNCHANGED vars
  PROVE  Ordered'
<1>1. CASE SockStep
  BY <1>1, ProcessOrdered, TcpWriteOrdered, TcpStatusOrdered, UdpWriteOrdered, UdpStatusOrdered DEF SockStep
<1>2. CASE TcpRequest \/ TcpTimeout
  BY <1>2, TcpMoves
<1>3. CASE UdpRequest
  BY <1>3, StillOrdered DEF UdpRequest, appVars
<1>4. CASE Segment
  <2>1. PICK port, peer : UdpDatagram(port, peer) \/ TcpSegment(port, peer)
    BY <1>4 DEF Segment
  <2>2. CASE UdpDatagram(port, peer)
    BY <2>2, StillOrdered DEF UdpDatagram, appVars
  <2> QED
    BY <2>1, <2>2, SegmentMoves
<1>5. CASE \E peer \in Peers : HandleICMPWrite(peer)
  BY <1>5, StillOrdered DEF HandleICMPWrite, NoMatch, udpVars
<1>6. CASE Crash \/ UNCHANGED vars
  BY <1>6, StillOrdered DEF Crash, vars, appVars, udpVars
<1> QED
  BY <1>1, <1>2, <1>3, <1>4, <1>5, <1>6 DEF Below

LEMMA OrderedTypes == Ordered /\ alive \in BOOLEAN => TypeOK
<1> SUFFICES ASSUME Ordered, alive \in BOOLEAN PROVE TypeOK
  OBVIOUS
<1>1. WellTyped /\ TablesOK /\ SocketsOK
  BY DEF Ordered
<1>2. fromUdp \in Seq(Messages) /\ toUdp \in Seq(Messages)
  BY <1>1, UdpSeqs
<1>3. {toTcp, fromTcp, toUdp, fromUdp} \subseteq Seq(Messages)
  BY <1>1, <1>2 DEF WellTyped, TcpOK
<1>4. clist \in Seq(Connections)
  <2>1. Forwards \subseteq Connections
    BY DEF Forwards
  <2> QED
    BY <1>1, <2>1, SeqMonotonic DEF WellTyped, UdpOK
<1>5. \A k \in Socks : socks[k].app <=> socks[k].status # "FREE"
  BY <1>1 DEF SocketsOK, SockOK
<1>6. /\ socks \in [Socks -> [status : Statuses, connection : Connections, bin : 0 .. BinSize, app : BOOLEAN]]
      /\ tcpq \in Seq([type : RequestTypes, sock : Socks]) /\ udpq \in Seq([type : RequestTypes, sock : Socks])
      /\ tcp \in Seq([connection : Connections, st : TcpStates, tmr : BOOLEAN])
  BY <1>1 DEF WellTyped, SocksOK, TcpOK, UdpOK, SockRecords, Requests, TcpEntries
<1>7. ports \in [PortNumbers -> 0 .. NumSocks - 1] /\ asked \in BOOLEAN /\ calls \in 0 .. MaxCalls
  BY <1>1 DEF TablesOK
<1> QED
  BY <1>3, <1>4, <1>5, <1>6, <1>7 DEF TypeOK

-----------------------------------------------------------------------------
(* An application whose sockets are those of UDP: TCP hears nothing of it.  *)
UdpOnly ==
  /\ TcpQuiet
  /\ \A k \in Socks : socks[k].connection.protocol # "tcp"
  /\ call.type = "mSOCKET" => call.protocol # "tcp"

(* A request of it goes to UDP. *)
LEMMA UdpRequests ==
  ASSUME Ordered, UdpOnly, ProcessAppRequest
  PROVE  UNCHANGED tcpVars /\ \A k \in Socks : socks'[k].connection.protocol # "tcp"
<1>1. WellTyped /\ SocksOK /\ SocketsOK /\ \A k \in Socks : socks[k].connection \in Connections /\ SockOK(socks[k])
  BY SocketConnection DEF Ordered, WellTyped, SocketsOK
<1>2. NoConnection.protocol = "none"
  BY DEF NoConnection
<1>3. ASSUME NEW type, Refuse(type) PROVE UNCHANGED <<tcpVars, socks>>
  BY <1>3 DEF Refuse
<1>4. CASE Socket
  <2>1. PICK k : k = FindFreeSock
    OBVIOUS
  <2>2. /\ UNCHANGED tcpVars /\ call.type = "mSOCKET"
        /\ \/ k # 0 /\ socks' = [socks EXCEPT ![k].status = "UNBOUND", ![k].app = TRUE, ![k].connection.protocol = call.protocol]
           \/ UNCHANGED socks
    BY <1>4, <2>1 DEF Socket, Take
  <2>3. CASE UNCHANGED socks
    BY <2>2, <2>3 DEF UdpOnly
  <2>4. CASE k # 0 /\ socks' = [socks EXCEPT ![k].status = "UNBOUND", ![k].app = TRUE, ![k].connection.protocol = call.protocol]
    <3>1. k \in Socks /\ socks[k].status = "FREE"
      BY <2>1, <2>4, FreeSocket
    <3>2. Others(k) /\ socks'[k].connection = [socks[k].connection EXCEPT !.protocol = call.protocol]
      BY <1>1, <2>4, <3>1, SocketMade DEF SocketStep
    <3>3. socks'[k].connection.protocol = call.protocol
      BY <1>1, <3>1, <3>2 DEF Connections
    <3> QED
      BY <2>2, <3>2, <3>3 DEF UdpOnly, Others
  <2> QED
    BY <2>2, <2>3, <2>4
<1>5. CASE Bind
  <2>1. PICK k, p, c : /\ k = call.sock /\ p = ResolveSrcPort(call.src, call.port)
                       /\ c = [socks[k].connection EXCEPT !.src = "me", !.srcport = p]
    OBVIOUS
  <2>2. Take("mBIND") /\ Allowed("mBIND", k)
    BY <1>5, <2>1 DEF Bind
  <2>3. k \in Socks
    BY <2>1, <2>2, CalledSocket
  <2>4. c.protocol = socks[k].connection.protocol /\ c.protocol # "tcp"
    BY <1>1, <2>1, <2>3 DEF UdpOnly, Connections
  <2>5. UNCHANGED tcpVars /\ (UNCHANGED socks \/ socks' = [socks EXCEPT ![k].connection = c])
    BY <1>5, <2>1, <2>4 DEF Bind, NoPort
  <2>6. CASE socks' = [socks EXCEPT ![k].connection = c]
    <3>1. \A j \in Socks : socks'[j].connection = IF j = k THEN c ELSE socks[j].connection
      BY <1>1, <2>3, <2>6 DEF SocksOK, SockRecords
    <3> QED
      BY <2>4, <2>5, <3>1 DEF UdpOnly
  <2> QED
    BY <2>5, <2>6 DEF UdpOnly
<1>6. CASE Listen \/ Accept
  <2>1. PICK k : k = call.sock
    OBVIOUS
  <2>2. CASE Listen
    <3>1. Take("mLISTEN") /\ Allowed("mLISTEN", k)
      BY <2>1, <2>2 DEF Listen
    <3>2. k \in Socks
      BY <2>1, <3>1, CalledSocket
    <3> QED
      BY <2>1, <2>2, <3>2 DEF Listen, UdpOnly
  <2>3. CASE Accept
    <3>1. Take("mACCEPT") /\ Allowed("mACCEPT", k)
      BY <2>1, <2>3 DEF Accept
    <3>2. k \in Socks
      BY <2>1, <3>1, CalledSocket
    <3>3. FALSE
      BY <1>1, <3>1, <3>2 DEF Allowed, SockOK, UdpOnly
    <3> QED
      BY <3>3
  <2> QED
    BY <1>6, <2>2, <2>3
<1>7. CASE Connect
  <2>1. PICK k, p, c : /\ k = call.sock
                       /\ p = (IF socks[k].status = "UNBOUND" THEN ResolveSrcPort("any", PORT_NONE) ELSE socks[k].connection.srcport)
                       /\ c = [socks[k].connection EXCEPT !.src = "me", !.srcport = p, !.dest = call.dest]
    OBVIOUS
  <2>2. Take("mCONNECT") /\ Allowed("mCONNECT", k)
    BY <1>7, <2>1 DEF Connect
  <2>3. k \in Socks
    BY <2>1, <2>2, CalledSocket
  <2>4. c.protocol = socks[k].connection.protocol /\ c.protocol # "tcp"
    BY <1>1, <2>1, <2>3 DEF UdpOnly, Connections
  <2>5. \/ NoPort("any", PORT_NONE)
        \/ /\ SendRequest(IF c.protocol = "udp" THEN "FORWARD" ELSE "CONNECT", c, k)
           /\ ConnectionStep(k, c, IF c.protocol = "udp" THEN "CONNECTED" ELSE "CONNECT_PENDING")
    BY <1>7, <2>1 DEF Connect, ConnectionStep
  <2>6. CASE NoPort("any", PORT_NONE)
    BY <2>6 DEF NoPort, UdpOnly
  <2>7. CASE /\ SendRequest(IF c.protocol = "udp" THEN "FORWARD" ELSE "CONNECT", c, k)
             /\ ConnectionStep(k, c, IF c.protocol = "udp" THEN "CONNECTED" ELSE "CONNECT_PENDING")
    <3>1. UNCHANGED tcpVars
      BY <2>4, <2>7 DEF SendRequest
    <3>2. Others(k) /\ socks'[k].connection = c
      BY <1>1, <2>3, <2>7, ConnectionSet
    <3> QED
      BY <2>4, <3>1, <3>2 DEF UdpOnly, Others
  <2> QED
    BY <2>5, <2>6, <2>7
<1>8. CASE Read \/ Write
  <2>1. PICK k : k = call.sock
    OBVIOUS
  <2>2. /\ \/ Take("mREAD") /\ Allowed("mREAD", k)
           \/ Take("mWRITE") /\ Allowed("mWRITE", k)
        /\ \/ UNCHANGED tcpVars
           \/ SendRequest("WRITE", socks[k].connection, k)
        /\ \/ \E status : SetStatus(k, status)
           \/ UNCHANGED socks
           \/ \E b : socks' = [socks EXCEPT ![k].bin = b]
    BY <1>8, <2>1 DEF Read, Write
  <2>3. k \in Socks
    BY <2>1, <2>2, CalledSocket
  <2>4. UNCHANGED tcpVars
    BY <2>2, <2>3 DEF SendRequest, UdpOnly
  <2>5. \A j \in Socks : socks'[j].connection = socks[j].connection
    <3>1. ASSUME NEW status, SetStatus(k, status) PROVE \A j \in Socks : socks'[j].connection = socks[j].connection
      BY <1>1, <2>3, <3>1, StatusSet DEF Others
    <3>2. ASSUME NEW b, socks' = [socks EXCEPT ![k].bin = b] PROVE \A j \in Socks : socks'[j].connection = socks[j].connection
      BY <1>1, <2>3, <3>2 DEF SocksOK, SockRecords
    <3> QED
      BY <2>2, <3>1, <3>2
  <2> QED
    BY <2>4, <2>5 DEF UdpOnly
<1>9. CASE Close
  <2>1. PICK k : k = call.sock
    OBVIOUS
  <2>2. Take("mCLOSE") /\ Allowed("mCLOSE", k) /\ SendRequest("CLOSE", socks[k].connection, k) /\ CloseSocket(k)
    BY <1>9, <2>1 DEF Close
  <2>3. k \in Socks
    BY <2>1, <2>2, CalledSocket
  <2>4. UNCHANGED tcpVars
    BY <2>2, <2>3 DEF SendRequest, UdpOnly
  <2>5. Others(k) /\ socks'[k].connection = NoConnection
    BY <1>1, <2>2, <2>3, SocketClosed
  <2> QED
    BY <1>2, <2>4, <2>5 DEF UdpOnly, Others
<1>10. CASE Stub
  BY <1>10 DEF Stub, UdpOnly
<1> QED
  BY <1>3, <1>4, <1>5, <1>6, <1>7, <1>8, <1>9, <1>10 DEF ProcessAppRequest, UdpOnly

(* Data, and the STATUS of a request, leave the sockets their protocols. *)
LEMMA UdpEvents ==
  ASSUME Ordered, UdpOnly, HandleUDPWrite \/ HandleUDPStatus
  PROVE  UNCHANGED <<tcpVars, call>> /\ \A k \in Socks : socks'[k].connection.protocol # "tcp"
<1>1. WellTyped /\ SocksOK
  BY DEF Ordered, WellTyped
<1>2. ASSUME NEW k \in Socks, NEW status, SetStatus(k, status)
      PROVE  \A j \in Socks : socks'[j].connection.protocol # "tcp"
  BY <1>1, <1>2, StatusSet DEF Others, UdpOnly
<1>3. CASE HandleUDPWrite
  <2>1. PICK m, k : m = Head(fromUdp) /\ k = FindConnection(m.connection)
    OBVIOUS
  <2>2. /\ UNCHANGED <<tcpVars, call>>
        /\ NoMatch("udp", m) \/ (k # 0 /\ Data("udp", m, k))
    BY <1>3, <2>1 DEF HandleUDPWrite
  <2>3. CASE NoMatch("udp", m)
    BY <2>2, <2>3 DEF NoMatch, UdpOnly
  <2>4. CASE k # 0 /\ Data("udp", m, k)
    <3>1. k \in Socks
      BY <2>1, <2>4, ConnectionFound
    <3>2. \/ socks' = [socks EXCEPT ![k].bin = @ + 1]
          \/ SetStatus(k, "CONNECTED") \/ UNCHANGED socks
      BY <2>4 DEF Data
    <3>3. CASE socks' = [socks EXCEPT ![k].bin = @ + 1]
      <4>1. \A j \in Socks : socks'[j].connection = socks[j].connection
        BY <1>1, <3>1, <3>3 DEF SocksOK, SockRecords
      <4> QED
        BY <2>2, <4>1 DEF UdpOnly
    <3>4. CASE SetStatus(k, "CONNECTED")
      BY <1>2, <2>2, <3>1, <3>4
    <3> QED
      BY <2>2, <3>2, <3>3, <3>4 DEF UdpOnly
  <2> QED
    BY <2>2, <2>3, <2>4
<1>4. CASE HandleUDPStatus
  <2>1. PICK k, status :
          /\ k = Head(udpq).sock
          /\ status = IF socks[Head(udpq).sock].connection.dest = "any" THEN "BOUND" ELSE "CONNECTED"
    OBVIOUS
  <2>2. /\ UNCHANGED <<tcpVars, call>> /\ udpq # <<>>
        /\ CloseSocket(k) \/ SetStatus(k, status) \/ UNCHANGED socks
    BY <1>4, <2>1 DEF HandleUDPStatus
  <2>3. k \in Socks
    <3>1. Head(udpq) \in Range(udpq)
      BY <1>1, <2>2, Queues, QueueTail
    <3> QED
      BY <1>1, <2>1, <3>1, Queues
  <2>4. CASE CloseSocket(k)
    <3>1. Others(k) /\ socks'[k].connection = NoConnection
      BY <1>1, <2>3, <2>4, SocketClosed
    <3> QED
      BY <2>2, <3>1 DEF Others, UdpOnly, NoConnection
  <2>5. CASE SetStatus(k, status)
    BY <1>2, <2>2, <2>3, <2>5
  <2> QED
    BY <2>2, <2>4, <2>5 DEF UdpOnly
<1> QED
  BY <1>3, <1>4

LEMMA QuietStack == ASSUME TcpQuiet PROVE ~HandleTCPWrite /\ ~HandleTCPStatus /\ ~TcpRequest /\ ~TcpTimeout /\ ~Crash
  BY DEF TcpQuiet, HandleTCPWrite, HandleTCPStatus, TcpRequest, TcpTimeout, Crash

LEMMA QuietBelow == ASSUME TcpQuiet, Below PROVE UNCHANGED <<socks, call, asked, tcpVars>>
<1>1. CASE UdpRequest
  BY <1>1 DEF UdpRequest, appVars
<1>2. CASE Segment
  <2>1. PICK port, peer : UdpDatagram(port, peer) \/ TcpSegment(port, peer)
    BY <1>2 DEF Segment
  <2>2. ~TcpSegment(port, peer)
    BY NoEntry DEF TcpSegment, TcpQuiet
  <2> QED
    BY <2>1, <2>2 DEF UdpDatagram, appVars
<1>3. CASE \E peer \in Peers : HandleICMPWrite(peer)
  BY <1>3 DEF HandleICMPWrite, NoMatch
<1> QED
  BY <1>1, <1>2, <1>3, QuietStack DEF Below

LEMMA UdpOnlyStack ==
  ASSUME Ordered, UdpOnly, SockStep \/ Below \/ Crash \/ UNCHANGED vars
  PROVE  UdpOnly'
<1>1. CASE ProcessAppRequest
  <2>1. UNCHANGED call
    BY <1>1 DEF ProcessAppRequest, Refuse, Socket, Bind, Listen, Accept, Connect, Read, Write, Close, Stub, Take
  <2> QED
    BY <1>1, <2>1, UdpRequests DEF UdpOnly, TcpQuiet, tcpVars
<1>2. CASE HandleUDPWrite \/ HandleUDPStatus
  BY <1>2, UdpEvents DEF UdpOnly, TcpQuiet, tcpVars
<1>3. CASE Below
  BY <1>3, QuietBelow DEF UdpOnly, TcpQuiet, tcpVars
<1>4. CASE UNCHANGED vars
  BY <1>4 DEF UdpOnly, TcpQuiet, vars, appVars, tcpVars
<1> QED
  BY <1>1, <1>2, <1>3, <1>4, QuietStack DEF SockStep, UdpOnly

LEMMA UdpCalls ==
  ASSUME AppProtocols = {"udp"}, Ordered, UdpOnly, WellTyped', AppCalls \/ AppReturns
  PROVE  Ordered' /\ UdpOnly'
<1>1. CASE AppReturns
  <2>1. /\ call' = Idle /\ UNCHANGED <<socks, tcpVars>> /\ Idle.type = "none"
    BY <1>1 DEF AppReturns, MinetReceive, Idle
  <2> QED
    BY <1>1, <2>1, ReturnOrdered DEF UdpOnly, TcpQuiet, tcpVars
<1>2. CASE AppCalls
  <2>1. /\ call = Idle /\ call'.type # "none" /\ asked' = TRUE /\ calls' \in 0 .. MaxCalls
        /\ UNCHANGED <<socks, ports, answers, tcpVars, udpVars>>
        /\ call'.type = "mSOCKET" => call'.protocol = "udp"
    <3>1. /\ AnyCall /\ calls < MaxCalls /\ calls' = calls + 1 /\ calls \in 0 .. MaxCalls /\ MaxCalls \in Nat
          /\ UNCHANGED <<socks, ports, tcpVars, udpVars>>
      BY <1>2, BoundAssumption DEF AppCalls, Ordered, TablesOK
    <3>2. /\ call = Idle /\ call'.type # "none" /\ asked' = TRUE /\ UNCHANGED answers
          /\ call'.type = "mSOCKET" => call'.protocol = "udp"
      BY <3>1 DEF AnyCall, minet_socket, minet_bind, minet_listen, minet_accept, minet_connect, minet_read,
                  minet_write, minet_close, minet_recvfrom, minet_sendto, minet_set_nonblocking,
                  minet_set_blocking, minet_can_write_now, minet_can_read_now, Call, MinetSend
    <3>3. calls' \in 0 .. MaxCalls
      BY <3>1
    <3> QED
      BY <3>1, <3>2, <3>3
  <2>2. TablesOK'
    BY <2>1 DEF Ordered, TablesOK
  <2>3. UdpOnly'
    BY <2>1 DEF UdpOnly, TcpQuiet, tcpVars
  <2>4. BeforeOpening'
    BY <2>3 DEF UdpOnly, BeforeOpening
  <2> QED
    BY <2>1, <2>2, <2>3, <2>4, AskOrdered
<1> QED
  BY <1>1, <1>2

LEMMA UdpOnlyOrdered ==
  ASSUME AppProtocols = {"udp"}
  PROVE  Spec => [](Ordered /\ UdpOnly /\ alive \in BOOLEAN)
<1> DEFINE Inv == Ordered /\ UdpOnly /\ alive \in BOOLEAN
<1>1. Init => Inv
  <2> SUFFICES ASSUME Init PROVE Inv
    OBVIOUS
  <2>1. \A k \in Socks : socks[k].connection.protocol # "tcp"
    BY DEF Init, SockRecord, NoConnection
  <2>2. alive \in BOOLEAN /\ call.type # "mSOCKET"
    BY DEF Init, Idle
  <2> QED
    BY <2>1, <2>2, InitOrdered DEF UdpOnly
<1>2. Inv /\ [Next]_vars => Inv'
  <2> SUFFICES ASSUME Inv, [Next]_vars PROVE Inv'
    OBVIOUS
  <2>1. WellTyped'
    BY StepTyped DEF Ordered
  <2>2. alive' \in BOOLEAN
    BY DEF Next, Runs, Crash, vars
  <2>3. CASE AppCalls \/ AppReturns
    BY <2>1, <2>2, <2>3, UdpCalls
  <2>4. CASE SockStep \/ Below \/ Crash \/ UNCHANGED vars
    BY <2>1, <2>2, <2>4, StackOrdered, UdpOnlyStack
  <2> QED
    BY <2>3, <2>4 DEF Next, Runs
<1> QED
  BY <1>1, <1>2, PTL DEF Spec

(* The tables and the queues hold values of their types, and the sockets in *)
(* use are those of the application (sock_mod_structs.h 165-201,            *)
(* sock_module.cc 643), for every application with sockets of UDP.          *)
THEOREM TablesWellTyped == ASSUME AppProtocols = {"udp"} PROVE Spec => []TypeOK
<1> QED
  BY UdpOnlyOrdered, OrderedTypes, PTL

(* The application never gets an answer that is not to the call in which it *)
(* waits, whatever calls it makes on sockets of UDP and whatever comes from *)
(* the network meanwhile.                                                   *)
THEOREM AnswersMatchCalls == ASSUME AppProtocols = {"udp"} PROVE Spec => []AnswersTheCall
<1>1. Ordered => AnswersTheCall
  BY DEF Ordered, CallsOK
<1> QED
  BY <1>1, UdpOnlyOrdered, PTL

(* A call on a socket of UDP that has no answer yet has a request that      *)
(* waits for its STATUS, or a socket that waits for data.                   *)
THEOREM NoCallForgotten == ASSUME AppProtocols = {"udp"} PROVE Spec => []CallNotForgotten
<1>1. Ordered => CallNotForgotten
  BY DEF Ordered, CallsOK
<1> QED
  BY <1>1, UdpOnlyOrdered, PTL
Transport == IF prog \in {"udp_server", "udp_client", "icmp_app"} THEN "udp" ELSE "tcp"

(* What the socket of a program may be at a point where it makes a call:    *)
(* no call of it is waited for.                                             *)
Resting(p) ==
  CASE p = "bind" -> {"UNBOUND"}
    [] p = "listen" -> {"BOUND"}
    [] p = "accept" -> {"LISTENING"}
    [] p = "connect" -> IF prog = "http_client" THEN {"UNBOUND"} ELSE {"BOUND"}
    [] p = "read" -> IF prog = "udp_server" THEN {"BOUND", "CONNECTED"} ELSE {"CONNECTED"}
    [] p = "write" -> {"CONNECTED"}
    [] p = "close" -> {"FREE", "UNBOUND", "BOUND", "LISTENING", "CONNECTED"}
OneSocket == {"bind", "listen", "accept", "connect", "read", "write", "close"}
TwoSockets == {"read2", "close2"}

SocketOf(k, statuses) ==
  /\ k \in Socks /\ socks[k].status \in statuses
  /\ socks[k].status # "FREE" => socks[k].connection.protocol = Transport

(* The sockets are as point p needs them, for the descriptors f and s.      *)
Fits(p, f, s) ==
  /\ p \in {"socket", "done"} => InUse = {}
  /\ p \in OneSocket => SocketOf(f, Resting(p)) /\ InUse \subseteq {f}
  /\ p = "write" => socks[f].connection.dest # "any"
  /\ p \in TwoSockets =>
       /\ SocketOf(f, {"LISTENING"}) /\ SocketOf(s, {"CONNECTED"})
       /\ f # s /\ InUse = {f, s}

(* ... but for the socket of the call, which waits.                         *)
Pends ==
  /\ call.type = "mBIND" => Fits(pc, fd, sock2) /\ Transport = "udp"
  /\ call.type = "mCONNECT" =>
       /\ SocketOf(fd, IF Transport = "udp" THEN {"CONNECTED"} ELSE {"CONNECT_PENDING"})
       /\ socks[fd].connection.dest # "any" /\ InUse = {fd}
  /\ call.type = "mACCEPT" => SocketOf(fd, {"ACCEPT_PENDING", "LISTENING"}) /\ InUse = {fd}
  /\ call.type \in {"mREAD", "mWRITE"} =>
       /\ SocketOf(Fd, {IF call.type = "mREAD" THEN "READ_PENDING" ELSE "WRITE_PENDING"})
       /\ pc \in OneSocket => InUse = {fd} /\ (pc = "write" => socks[fd].connection.dest # "any")
       /\ pc \in TwoSockets => SocketOf(fd, {"LISTENING"}) /\ Fd = sock2 /\ fd # sock2 /\ InUse = {fd, sock2}

Called ==
  /\ pc \in DOMAIN Code
  /\ call.type = IF pc = "socket" THEN "mSOCKET" ELSE Code[pc].type
  /\ pc = "socket" => call.protocol = Transport
  /\ pc # "socket" => call.sock = Fd

(* The answer, and what the program makes of it.                            *)
AnswerFits(a) ==
  LET ok == a.error = "EOK" IN
  /\ a.error = "EINVALID_OP" => pc \in {"close", "file"}
  /\ \A p \in IF ok THEN Code[pc].ok ELSE Code[pc].fail :
       Fits(p, IF pc = "socket" THEN a.sock ELSE fd, IF pc = "accept" /\ ok THEN a.sock ELSE sock2)

Running ==
  /\ pc \in DOMAIN Code \cup Ends
  /\ call # Idle => Called
  /\ call = Idle \/ asked => Fits(pc, fd, sock2)
  /\ call # Idle /\ ~asked /\ answers = <<>> => Pends
  /\ answers # <<>> => call # Idle /\ AnswerFits(answers[1])

(* No module below refuses a socket's state.                                *)
NoRefusal == \A m \in Range(fromTcp) \cup Range(fromUdp) : m.error # "EINVALID_OP"

(* Until the program opens a connection of TCP it has sent nothing to TCP.  *)
Unopened ==
  \/ Transport = "udp" \/ pc \in {"socket", "bind", "listen"}
  \/ pc \in {"accept", "connect"} /\ (call = Idle \/ asked)
Quiet == Unopened => TcpQuiet

InProgram ==
  /\ prog # "any" => prog \in Programs /\ Running /\ Quiet
  /\ prog = "any" => pc = "socket" /\ UdpOnly

(* What the programs have in common at the points of each kind.             *)
PointOK(p, c) ==
  \/ /\ p = "socket" /\ c.type = Transport
     /\ c.ok \subseteq IF prog = "http_client" THEN {"connect", "close"} ELSE {"bind"}
     /\ c.fail \subseteq {"undefined", "exit"}
  \/ /\ p = "bind" /\ c.type = "mBIND" /\ prog # "http_client"
     /\ c.ok \subseteq IF prog = "udp_server" THEN {"read"} ELSE {"connect", "listen"}
     /\ c.fail \subseteq {"close", "undefined", "exit"}
  \/ /\ p = "listen" /\ c.type = "mLISTEN" /\ Transport = "tcp"
     /\ c.ok \subseteq {"accept"} /\ c.fail \subseteq {"undefined", "exit"}
  \/ /\ p = "accept" /\ c.type = "mACCEPT" /\ Transport = "tcp"
     /\ c.ok \subseteq {"read2"} /\ c.fail \subseteq {"undefined"}
  \/ p = "connect" /\ c.type = "mCONNECT" /\ c.ok \subseteq {"write", "close"} /\ c.fail \subseteq {"close"}
  \/ p = "read" /\ c.type = "mREAD" /\ c.ok \cup c.fail \subseteq {"read", "close"}
  \/ /\ p = "write" /\ c.type = "mWRITE"
     /\ c.ok \cup c.fail \subseteq {"write", "close", "exit"} \cup IF prog = "http_client" THEN {"read"} ELSE {}
  \/ p = "close" /\ c.type = "mCLOSE" /\ c.ok \cup c.fail \subseteq {"done"}
  \/ p = "read2" /\ Transport = "tcp" /\ c.type = "mREAD" /\ c.ok \cup c.fail \subseteq TwoSockets
  \/ p = "close2" /\ Transport = "tcp" /\ c.type = "mCLOSE" /\ c.ok \cup c.fail \subseteq {"close"}

LEMMA Points ==
  ASSUME prog \in Programs, prog # "any", prog # "http_server1", NEW p \in DOMAIN Code
  PROVE  PointOK(p, Code[p]) /\ Code[p].ok \cup Code[p].fail \subseteq DOMAIN Code \cup Ends
<1> USE DEF PointOK, Transport, Do, TwoSockets, OnAccepted, Ends
<1>1. CASE prog = "udp_server"
  <2>1. Code = udp_server
    BY <1>1 DEF Code
  <2> QED
    BY <1>1, <2>1 DEF udp_server
<1>2. CASE prog = "udp_client"
  <2>1. Code = udp_client
    BY <1>2 DEF Code
  <2> QED
    BY <1>2, <2>1 DEF udp_client
<1>3. CASE prog = "tcp_server"
  <2>1. Code = tcp_server
    BY <1>3 DEF Code
  <2> QED
    BY <1>3, <2>1 DEF tcp_server
<1>4. CASE prog = "tcp_client"
  <2>1. Code = tcp_client
    BY <1>4 DEF Code
  <2> QED
    BY <1>4, <2>1 DEF tcp_client
<1>5. CASE prog = "http_client"
  <2>1. Code = http_client
    BY <1>5 DEF Code
  <2> QED
    BY <1>5, <2>1 DEF http_client
<1>6. CASE prog = "icmp_app"
  <2>1. Code = icmp_app
    BY <1>6 DEF Code
  <2> QED
    BY <1>6, <2>1 DEF icmp_app
<1> QED
  BY <1>1, <1>2, <1>3, <1>4, <1>5, <1>6, ProgramsAssumption

(* The invariant of a program that runs, with the one of the stack.         *)
Program == prog # "any" /\ prog # "http_server1" /\ prog \in Programs /\ Ordered /\ NoRefusal /\ Running /\ Quiet

LEMMA SameProgram ==
  ASSUME UNCHANGED progVars
  PROVE  /\ UNCHANGED <<prog, pc, fd, sock2>> /\ Code' = Code /\ Transport' = Transport /\ Fd' = Fd
         /\ \A p : Resting(p)' = Resting(p)
<1>1. UNCHANGED <<prog, pc, fd, sock2>>
  BY DEF progVars
<1>2. Code' = Code
  BY <1>1 DEF Code
<1>3. Transport' = Transport /\ Fd' = Fd
  BY <1>1 DEF Transport, Fd
<1>4. \A p : Resting(p)' = Resting(p)
  BY <1>1 DEF Resting
<1> QED
  BY <1>1, <1>2, <1>3, <1>4

(* A program is where it makes a call, and what it calls.                   *)
LEMMA AtPoint ==
  ASSUME Program, call # Idle
  PROVE  /\ PointOK(pc, Code[pc]) /\ pc \in DOMAIN Code
         /\ Code[pc].ok \cup Code[pc].fail \subseteq DOMAIN Code \cup Ends
         /\ pc = "socket" <=> call.type = "mSOCKET"
         /\ pc # "socket" => call.type = Code[pc].type /\ call.sock = Fd
         /\ pc \in OneSocket => Fd = fd
         /\ pc \in OnAccepted => Fd = sock2
<1>1. Called
  BY DEF Program, Running
<1>2. PointOK(pc, Code[pc]) /\ Code[pc].ok \cup Code[pc].fail \subseteq DOMAIN Code \cup Ends
  BY <1>1, Points DEF Called, Program
<1>3. pc = "socket" <=> call.type = "mSOCKET"
  BY <1>1, <1>2 DEF Called, PointOK
<1>4. /\ pc \in OneSocket => Fd = fd
      /\ pc \in OnAccepted => Fd = sock2
  BY DEF Fd, OneSocket, OnAccepted
<1> QED
  BY <1>1, <1>2, <1>3, <1>4 DEF Called

(* The call waits, or is answered.                                          *)
LEMMA CallPends ==
  ASSUME Program, call # Idle, UNCHANGED <<call, progVars>>, ~asked', answers' = <<>>, Pends'
  PROVE  Running'
<1>1. UNCHANGED <<prog, pc, fd, sock2>> /\ Code' = Code /\ Transport' = Transport /\ Fd' = Fd
  BY SameProgram
<1>2. Called' /\ call' # Idle /\ pc' \in DOMAIN Code' \cup Ends
  BY <1>1 DEF Called, Program, Running
<1> QED
  BY <1>2 DEF Running, Idle

LEMMA CallAnswers ==
  ASSUME Program, call # Idle, UNCHANGED <<call, progVars>>, ~asked', answers' # <<>>,
         NEW j, NEW e, answers'[1].sock = j, answers'[1].error = e,
         e = "EINVALID_OP" => pc \in {"close", "file"},
         NEW f, f = (IF pc = "socket" THEN j ELSE fd),
         NEW s, s = (IF pc = "accept" /\ e = "EOK" THEN j ELSE sock2),
         \A p \in IF e = "EOK" THEN Code[pc].ok ELSE Code[pc].fail : Fits(p, f, s)'
  PROVE  Running'
<1>1. UNCHANGED <<prog, pc, fd, sock2>> /\ Code' = Code /\ Transport' = Transport /\ Fd' = Fd
  BY SameProgram
<1>2. Called' /\ call' # Idle /\ pc' \in DOMAIN Code' \cup Ends
  BY <1>1 DEF Called, Program, Running
<1>3. AnswerFits(answers[1])'
  BY <1>1 DEF AnswerFits
<1> QED
  BY <1>2, <1>3 DEF Running, Idle

(* Only bins and ports change.                                              *)
LEMMA AlikeFits ==
  ASSUME Alike, UNCHANGED progVars
  PROVE  /\ InUse' = InUse /\ \A k, statuses : SocketOf(k, statuses)' <=> SocketOf(k, statuses)
         /\ \A p, f, s : Fits(p, f, s)' <=> Fits(p, f, s)
<1>1. Transport' = Transport /\ \A p : Resting(p)' = Resting(p)
  BY SameProgram
<1>2. InUse' = InUse
  BY DEF InUse, Alike
<1>3. ASSUME NEW k, NEW statuses PROVE SocketOf(k, statuses)' <=> SocketOf(k, statuses)
  BY <1>1 DEF SocketOf, Alike
<1>4. ASSUME NEW p, NEW f, NEW s PROVE Fits(p, f, s)' <=> Fits(p, f, s)
  <2>1. CASE p = "write"
    <3>1. p \in OneSocket /\ p \notin TwoSockets /\ p \notin {"socket", "done"}
      BY <2>1 DEF OneSocket, TwoSockets, OnAccepted
    <3>2. f \in Socks => socks'[f].connection = socks[f].connection
      BY DEF Alike
    <3> QED
      BY <1>1, <1>2, <1>3, <2>1, <3>1, <3>2 DEF Fits, SocketOf
  <2>2. CASE p # "write"
    BY <1>1, <1>2, <1>3, <2>2 DEF Fits
  <2> QED
    BY <2>1, <2>2
<1> QED
  BY <1>2, <1>3, <1>4

LEMMA AlikeRunning ==
  ASSUME Program, Alike, UNCHANGED <<call, asked, answers, progVars>>
  PROVE  Running'
<1>1. UNCHANGED <<prog, pc, fd, sock2>> /\ Code' = Code /\ Transport' = Transport /\ Fd' = Fd
  BY SameProgram
<1>2. /\ InUse' = InUse /\ \A k, statuses : SocketOf(k, statuses)' <=> SocketOf(k, statuses)
      /\ \A p, f, s : Fits(p, f, s)' <=> Fits(p, f, s)
  BY AlikeFits
<1>3. call # Idle => Called'
  BY <1>1 DEF Called, Program, Running
<1>4. ASSUME call # Idle, ~asked, answers = <<>> PROVE Pends'
  <2>1. Pends
    BY <1>4 DEF Program, Running
  <2>2. fd \in Socks => socks'[fd].connection = socks[fd].connection
    BY DEF Alike
  <2>3. (call.type = "mBIND" => Fits(pc, fd, sock2) /\ Transport = "udp")'
    BY <1>1, <1>2, <2>1 DEF Pends
  <2>4. (call.type = "mCONNECT" =>
           /\ SocketOf(fd, IF Transport = "udp" THEN {"CONNECTED"} ELSE {"CONNECT_PENDING"})
           /\ socks[fd].connection.dest # "any" /\ InUse = {fd})'
    <3> SUFFICES ASSUME call.type = "mCONNECT"
                 PROVE  (/\ SocketOf(fd, IF Transport = "udp" THEN {"CONNECTED"} ELSE {"CONNECT_PENDING"})
                         /\ socks[fd].connection.dest # "any" /\ InUse = {fd})'
      OBVIOUS
    <3>1. /\ SocketOf(fd, IF Transport = "udp" THEN {"CONNECTED"} ELSE {"CONNECT_PENDING"})
          /\ socks[fd].connection.dest # "any" /\ InUse = {fd}
      BY <2>1 DEF Pends
    <3>2. fd \in Socks
      BY <3>1 DEF SocketOf
    <3> QED
      BY <1>1, <1>2, <2>2, <3>1, <3>2
  <2>5. (call.type = "mACCEPT" => SocketOf(fd, {"ACCEPT_PENDING", "LISTENING"}) /\ InUse = {fd})'
    BY <1>1, <1>2, <2>1 DEF Pends
  <2>6. (call.type \in {"mREAD", "mWRITE"} =>
           /\ SocketOf(Fd, {IF call.type = "mREAD" THEN "READ_PENDING" ELSE "WRITE_PENDING"})
           /\ pc \in OneSocket => InUse = {fd} /\ (pc = "write" => socks[fd].connection.dest # "any")
           /\ pc \in TwoSockets => SocketOf(fd, {"LISTENING"}) /\ Fd = sock2 /\ fd # sock2 /\ InUse = {fd, sock2})'
    <3> SUFFICES ASSUME call.type \in {"mREAD", "mWRITE"}
                 PROVE  (/\ SocketOf(Fd, {IF call.type = "mREAD" THEN "READ_PENDING" ELSE "WRITE_PENDING"})
                         /\ pc \in OneSocket => InUse = {fd} /\ (pc = "write" => socks[fd].connection.dest # "any")
                         /\ pc \in TwoSockets => SocketOf(fd, {"LISTENING"}) /\ Fd = sock2 /\ fd # sock2 /\ InUse = {fd, sock2})'
      OBVIOUS
    <3>1. /\ SocketOf(Fd, {IF call.type = "mREAD" THEN "READ_PENDING" ELSE "WRITE_PENDING"})
          /\ pc \in OneSocket => InUse = {fd} /\ (pc = "write" => socks[fd].connection.dest # "any")
          /\ pc \in TwoSockets => SocketOf(fd, {"LISTENING"}) /\ Fd = sock2 /\ fd # sock2 /\ InUse = {fd, sock2}
      BY <2>1 DEF Pends
    <3>2. pc = "write" => fd \in Socks /\ pc \in OneSocket
      BY <3>1 DEF SocketOf, Fd, OneSocket, OnAccepted
    <3> QED
      BY <1>1, <1>2, <2>2, <3>1, <3>2
  <2> QED
    BY <2>3, <2>4, <2>5, <2>6 DEF Pends
<1>5. call = Idle \/ asked => Fits(pc, fd, sock2)'
  BY <1>1, <1>2 DEF Program, Running
<1>6. answers # <<>> => call # Idle /\ AnswerFits(answers[1])'
  BY <1>1, <1>2 DEF AnswerFits, Program, Running
<1>7. pc' \in DOMAIN Code' \cup Ends
  BY <1>1 DEF Program, Running
<1> QED
  BY <1>1, <1>3, <1>4, <1>5, <1>6, <1>7 DEF Running, Idle

-----------------------------------------------------------------------------
(* The requests of a program.                                               *)
LEMMA Requested ==
  ASSUME Program, NEW type, type # "none", Take(type)
  PROVE  /\ call # Idle /\ UNCHANGED call /\ ~asked' /\ answers = <<>> /\ call.type = type
         /\ Fits(pc, fd, sock2) /\ Ordered
         /\ Called /\ PointOK(pc, Code[pc])
<1>1. Ordered /\ Running
  BY DEF Program
<1>2. asked /\ ~asked' /\ UNCHANGED call /\ answers = <<>> /\ call.type = type
  BY <1>1, TakeFacts
<1>3. call # Idle
  BY <1>2 DEF Idle
<1> QED
  BY <1>1, <1>2, <1>3, AtPoint DEF Running

LEMMA FirstAnswer ==
  ASSUME answers = <<>>, NEW of, NEW k, NEW e, Message(of, k, e)
  PROVE  answers' # <<>> /\ answers'[1].sock = k /\ answers'[1].error = e
  BY DEF Message

LEMMA InUseStep ==
  ASSUME NEW k \in Socks, Others(k)
  PROVE  /\ socks'[k].status = "FREE" => InUse' = InUse \ {k}
         /\ socks'[k].status # "FREE" => InUse' = InUse \cup {k}
  BY DEF Others, InUse

LEMMA FitsEnd == ASSUME NEW p \in {"exit", "undefined"}, NEW f, NEW s PROVE Fits(p, f, s)'
  BY DEF Fits, OneSocket, TwoSockets, OnAccepted

LEMMA FitsDone == ASSUME InUse' = {}, NEW p \in {"socket", "done"}, NEW f, NEW s PROVE Fits(p, f, s)'
  BY DEF Fits, OneSocket, TwoSockets, OnAccepted

LEMMA FitsOne ==
  ASSUME UNCHANGED progVars, NEW p \in OneSocket, NEW f \in Socks, NEW s, socks'[f].status \in Resting(p),
         socks'[f].status # "FREE" => socks'[f].connection.protocol = Transport,
         InUse' \subseteq {f}, p = "write" => socks'[f].connection.dest # "any"
  PROVE  Fits(p, f, s)'
<1>1. Transport' = Transport /\ Resting(p)' = Resting(p)
  BY SameProgram
<1>2. p \notin TwoSockets /\ p \notin {"socket", "done"}
  BY DEF OneSocket, TwoSockets, OnAccepted
<1>3. SocketOf(f, Resting(p))'
  BY <1>1 DEF SocketOf
<1> QED
  BY <1>2, <1>3 DEF Fits

LEMMA FitsTwo ==
  ASSUME UNCHANGED progVars, NEW p \in TwoSockets, NEW f \in Socks, NEW s \in Socks, f # s, InUse' = {f, s},
         socks'[f].status = "LISTENING", socks'[f].connection.protocol = Transport,
         socks'[s].status = "CONNECTED", socks'[s].connection.protocol = Transport
  PROVE  Fits(p, f, s)'
<1>1. Transport' = Transport
  BY SameProgram
<1>2. p \notin OneSocket /\ p \notin {"socket", "done", "write"}
  BY DEF OneSocket, TwoSockets, OnAccepted
<1>3. SocketOf(f, {"LISTENING"})' /\ SocketOf(s, {"CONNECTED"})'
  BY <1>1 DEF SocketOf
<1> QED
  BY <1>2, <1>3 DEF Fits

(* What the sockets are where a call is made.                               *)
LEMMA AtOne ==
  ASSUME Fits(pc, fd, sock2), pc \in OneSocket
  PROVE  /\ fd \in Socks /\ socks[fd].status \in Resting(pc) /\ InUse \subseteq {fd} /\ Fd = fd
         /\ socks[fd].status # "FREE" => socks[fd].connection.protocol = Transport /\ InUse = {fd}
         /\ pc = "write" => socks[fd].connection.dest # "any"
  BY DEF Fits, SocketOf, InUse, Fd, OneSocket, OnAccepted

LEMMA AtTwo ==
  ASSUME Fits(pc, fd, sock2), pc \in TwoSockets
  PROVE  /\ fd \in Socks /\ socks[fd].status = "LISTENING" /\ socks[fd].connection.protocol = Transport
         /\ sock2 \in Socks /\ socks[sock2].status = "CONNECTED" /\ socks[sock2].connection.protocol = Transport
         /\ fd # sock2 /\ InUse = {fd, sock2} /\ Fd = sock2
  BY DEF Fits, SocketOf, Fd, TwoSockets, OnAccepted

LEMMA CallFails ==
  ASSUME Program, call # Idle, pc # "socket", UNCHANGED <<call, progVars>>, ~asked', answers' # <<>>,
         NEW e, answers'[1].error = e, e # "EOK", e = "EINVALID_OP" => pc \in {"close", "file"},
         NEW f, f = fd, NEW s, s = sock2, \A p \in Code[pc].fail : Fits(p, f, s)'
  PROVE  Running'
<1>1. PICK j : answers'[1].sock = j
  OBVIOUS
<1>2. /\ f = (IF pc = "socket" THEN j ELSE fd) /\ s = (IF pc = "accept" /\ e = "EOK" THEN j ELSE sock2)
      /\ \A p \in IF e = "EOK" THEN Code[pc].ok ELSE Code[pc].fail : Fits(p, f, s)'
  OBVIOUS
<1> QED
  BY <1>1, <1>2, CallAnswers

LEMMA CallSucceeds ==
  ASSUME Program, call # Idle, pc \notin {"socket", "accept"}, UNCHANGED <<call, progVars>>, ~asked', answers' # <<>>,
         answers'[1].error = "EOK",
         NEW f, f = fd, NEW s, s = sock2, \A p \in Code[pc].ok : Fits(p, f, s)'
  PROVE  Running'
<1>1. PICK j, e : answers'[1].sock = j /\ e = "EOK"
  OBVIOUS
<1>2. /\ f = (IF pc = "socket" THEN j ELSE fd) /\ s = (IF pc = "accept" /\ e = "EOK" THEN j ELSE sock2)
      /\ \A p \in IF e = "EOK" THEN Code[pc].ok ELSE Code[pc].fail : Fits(p, f, s)'
      /\ answers'[1].error = e /\ e # "EINVALID_OP"
  BY <1>1
<1> QED
  BY <1>1, <1>2, CallAnswers

LEMMA RefuseRunning ==
  ASSUME Program, UNCHANGED progVars, NEW type \in {"mBIND", "mLISTEN", "mACCEPT", "mCONNECT", "mREAD", "mWRITE", "mCLOSE"},
         Refuse(type)
  PROVE  Running'
<1>0. PICK f, s : f = fd /\ s = sock2
  OBVIOUS
<1>1. /\ Take(type) /\ type # "none" /\ type # "mSOCKET" /\ ~Allowed(type, call.sock)
      /\ Answer(call.sock, "EINVALID_OP") /\ UNCHANGED socks
  BY DEF Refuse
<1>2. /\ call # Idle /\ UNCHANGED call /\ ~asked' /\ answers = <<>> /\ call.type = type
      /\ Fits(pc, fd, sock2) /\ PointOK(pc, Code[pc])
  BY <1>1, Requested
<1>3. answers' # <<>> /\ answers'[1].sock = call.sock /\ answers'[1].error = "EINVALID_OP"
  BY <1>1, <1>2, FirstAnswer DEF Answer
<1>4. pc # "socket" /\ type = Code[pc].type /\ call.sock = Fd
  BY <1>1, <1>2, AtPoint
<1>5. \A p, g, h : Fits(p, g, h)' <=> Fits(p, g, h)
  BY <1>1, AlikeFits DEF Alike
<1>6. \A j \in Socks : socks[j].app <=> socks[j].status # "FREE"
  BY DEF Program, Ordered, SocketsOK, SockOK
<1>7. CASE pc \in OneSocket
  <2>1. /\ fd \in Socks /\ socks[fd].status \in Resting(pc) /\ InUse \subseteq {fd} /\ Fd = fd
        /\ socks[fd].status # "FREE" => socks[fd].connection.protocol = Transport /\ InUse = {fd}
    BY <1>2, <1>7, AtOne
  <2>2. ~Allowed(type, fd)
    BY <1>1, <1>4, <2>1
  <2>3. pc = "close"
    <3>1. CASE pc = "bind"
      BY <1>2, <1>4, <1>6, <2>1, <2>2, <3>1 DEF Allowed, Resting, PointOK
    <3>2. CASE pc = "listen"
      BY <1>2, <1>4, <1>6, <2>1, <2>2, <3>2 DEF Allowed, Resting, PointOK
    <3>3. CASE pc = "accept"
      BY <1>2, <1>4, <1>6, <2>1, <2>2, <3>3 DEF Allowed, Resting, PointOK
    <3>4. CASE pc = "connect"
      BY <1>2, <1>4, <1>6, <2>1, <2>2, <3>4 DEF Allowed, Resting, PointOK
    <3>5. CASE pc = "read"
      <4>1. type = "mREAD" /\ socks[fd].status \in {"BOUND", "CONNECTED"}
            /\ (socks[fd].status = "BOUND" => Transport = "udp")
        BY <1>2, <1>4, <2>1, <3>5 DEF Resting, PointOK, Transport
      <4> QED
        BY <1>6, <2>1, <2>2, <4>1 DEF Allowed
    <3>6. CASE pc = "write"
      BY <1>2, <1>4, <1>6, <2>1, <2>2, <3>6 DEF Allowed, Resting, PointOK
    <3> QED
      BY <1>7, <3>1, <3>2, <3>3, <3>4, <3>5, <3>6 DEF OneSocket
  <2>4. socks[fd].status = "FREE"
    BY <1>2, <1>4, <1>6, <2>1, <2>2, <2>3 DEF Allowed, PointOK, TwoSockets, OnAccepted
  <2>5. InUse = {}
    BY <2>1, <2>4 DEF InUse
  <2>6. Code[pc].fail \subseteq {"done"}
    BY <1>2, <2>3 DEF PointOK
  <2>7. \A p \in Code[pc].fail : Fits(p, f, s)
    BY <2>5, <2>6 DEF Fits, OneSocket, TwoSockets, OnAccepted
  <2>8. \A p \in Code[pc].fail : Fits(p, f, s)'
    BY <1>5, <2>7
  <2> QED
    BY <1>0, <1>2, <1>3, <1>4, <2>3, <2>8, CallFails
<1>8. CASE pc \in TwoSockets
  <2>1. sock2 \in Socks /\ socks[sock2].status = "CONNECTED" /\ Fd = sock2
    BY <1>2, <1>8, AtTwo
  <2>2. type \in {"mREAD", "mCLOSE"}
    BY <1>2, <1>4, <1>8 DEF PointOK, TwoSockets, OneSocket
  <2>3. FALSE
    BY <1>1, <1>4, <1>6, <2>1, <2>2 DEF Allowed
  <2> QED
    BY <2>3
<1> QED
  BY <1>2, <1>4, <1>7, <1>8 DEF PointOK, OneSocket, TwoSockets, OnAccepted

LEMMA SocketRunning == ASSUME Program, UNCHANGED progVars, Socket PROVE Running'
<1>0. PICK k : k = FindFreeSock
  OBVIOUS
<1>1. /\ Take("mSOCKET")
      /\ \/ /\ k # 0
            /\ socks' = [socks EXCEPT ![k].status = "UNBOUND", ![k].app = TRUE, ![k].connection.protocol = call.protocol]
            /\ Answer(k, "EOK")
         \/ k = 0
  BY <1>0 DEF Socket
<1>2. /\ call # Idle /\ UNCHANGED call /\ ~asked' /\ answers = <<>> /\ call.type = "mSOCKET"
      /\ Fits(pc, fd, sock2) /\ Called /\ PointOK(pc, Code[pc]) /\ SocksOK /\ SocketsOK
  BY <1>1, Requested DEF Ordered, WellTyped
<1>3. pc = "socket" /\ call.protocol = Transport
  BY <1>2, AtPoint DEF Called
<1>4. InUse = {}
  BY <1>2, <1>3 DEF Fits
<1>5. 1 \in Socks
  BY SocksAssumption DEF Socks
<1>6. k # 0 /\ k \in Socks /\ socks[k].status = "FREE"
  BY <1>0, <1>4, <1>5, FreeSocket DEF InUse
<1>7. /\ Others(k) /\ socks'[k].status = "UNBOUND"
      /\ socks'[k].connection = [socks[k].connection EXCEPT !.protocol = call.protocol]
  BY <1>1, <1>2, <1>6, SocketMade DEF SocketStep
<1>8. socks'[k].connection.protocol = Transport
  <2>1. socks[k].connection \in Connections
    BY <1>2, <1>6, SocketConnection
  <2> QED
    BY <1>3, <1>7, <2>1 DEF Connections
<1>9. InUse' = {k}
  BY <1>4, <1>6, <1>7, InUseStep
<1>10. Answer(k, "EOK")
  BY <1>1, <1>6
<1>11. answers' # <<>> /\ answers'[1].sock = k /\ answers'[1].error = "EOK"
  BY <1>2, <1>10, FirstAnswer DEF Answer
<1> QED
  <2>1. PICK j, e, f, s : j = k /\ e = "EOK" /\ f = k /\ s = sock2
    OBVIOUS
  <2>2. \A p \in Code[pc].ok : Fits(p, f, s)'
    <3> SUFFICES ASSUME NEW p \in Code[pc].ok PROVE Fits(p, f, s)'
      OBVIOUS
    <3>1. p \in OneSocket /\ "UNBOUND" \in Resting(p) /\ p # "write"
      BY <1>2, <1>3 DEF PointOK, OneSocket, Resting, TwoSockets, OnAccepted
    <3>2. /\ f \in Socks /\ socks'[f].status \in Resting(p) /\ socks'[f].connection.protocol = Transport
          /\ InUse' \subseteq {f}
      BY <1>6, <1>7, <1>8, <1>9, <2>1, <3>1
    <3> QED
      BY <3>1, <3>2, FitsOne
  <2>3. /\ f = (IF pc = "socket" THEN j ELSE fd) /\ s = (IF pc = "accept" /\ e = "EOK" THEN j ELSE sock2)
        /\ \A p \in IF e = "EOK" THEN Code[pc].ok ELSE Code[pc].fail : Fits(p, f, s)'
        /\ answers'[1].sock = j /\ answers'[1].error = e /\ e # "EINVALID_OP"
    BY <1>3, <1>11, <2>1, <2>2
  <2> QED
    BY <1>2, <1>11, <2>3, CallAnswers

(* A call that is refused for want of a port leaves the sockets as they are. *)
LEMMA NoPortRunning ==
  ASSUME Program, UNCHANGED progVars, NEW type \in {"mBIND", "mCONNECT"}, Take(type), NEW src, NEW port, NoPort(src, port)
  PROVE  Running'
<1>0. PICK f, s : f = fd /\ s = sock2
  OBVIOUS
<1>1. Answer(call.sock, "ERESOURCE_UNAVAIL") /\ UNCHANGED socks
  BY DEF NoPort
<1>2. /\ call # Idle /\ UNCHANGED call /\ ~asked' /\ answers = <<>> /\ call.type = type
      /\ Fits(pc, fd, sock2) /\ PointOK(pc, Code[pc])
  <2>1. type # "none"
    OBVIOUS
  <2> QED
    BY <2>1, Requested
<1>3. answers' # <<>> /\ answers'[1].error = "ERESOURCE_UNAVAIL"
  BY <1>1, <1>2, FirstAnswer DEF Answer
<1>4. pc # "socket" /\ type = Code[pc].type
  BY <1>2, AtPoint
<1>5. pc \in {"bind", "connect"} /\ Code[pc].fail \subseteq {"close", "undefined", "exit"}
  BY <1>2, <1>4 DEF PointOK, OnAccepted
<1>6. \A p, x, y : Fits(p, x, y)' <=> Fits(p, x, y)
  BY <1>1, AlikeFits DEF Alike
<1>7. \A p \in Code[pc].fail : Fits(p, f, s)
  BY <1>0, <1>2, <1>5 DEF Fits, OneSocket, TwoSockets, OnAccepted, Resting, SocketOf
<1>8. \A p \in Code[pc].fail : Fits(p, f, s)'
  BY <1>6, <1>7
<1>9. PICK e : e = "ERESOURCE_UNAVAIL"
  OBVIOUS
<1>10. answers'[1].error = e /\ e # "EOK" /\ (e = "EINVALID_OP" => pc \in {"close", "file"})
  BY <1>3, <1>9
<1> QED
  BY <1>0, <1>2, <1>3, <1>4, <1>8, <1>10, CallFails

LEMMA BindRunning == ASSUME Program, UNCHANGED progVars, Bind PROVE Running'
<1>0. PICK k, p, c, f, s : /\ k = call.sock /\ p = ResolveSrcPort(call.src, call.port)
                     /\ c = [socks[k].connection EXCEPT !.src = "me", !.srcport = p]
                     /\ f = fd /\ s = sock2
  OBVIOUS
<1>1. /\ Take("mBIND") /\ Allowed("mBIND", k)
      /\ \/ NoPort(call.src, call.port)
         \/ /\ p # 0
            /\ \/ /\ c.protocol = "udp"
                  /\ socks' = [socks EXCEPT ![k].connection = c]
                  /\ UNCHANGED answers
               \/ /\ c.protocol = "tcp"
                  /\ socks' = [socks EXCEPT ![k].connection = c, ![k].status = "BOUND"]
                  /\ Answer(k, "EOK")
  BY <1>0 DEF Bind
<1>2. /\ call # Idle /\ UNCHANGED call /\ ~asked' /\ answers = <<>> /\ call.type = "mBIND"
      /\ Fits(pc, fd, sock2) /\ PointOK(pc, Code[pc]) /\ Ordered /\ SocksOK
  BY <1>1, Requested DEF Ordered, WellTyped
<1>3. pc = "bind" /\ k = fd
  BY <1>0, <1>2, AtPoint DEF PointOK, OneSocket, OnAccepted
<1>4. /\ k \in Socks /\ socks[k].status = "UNBOUND" /\ socks[k].connection.protocol = Transport /\ InUse = {k}
      /\ socks[k].connection \in Connections
  BY <1>2, <1>3, AtOne, SocketConnection DEF OneSocket, Resting
<1>5. c.protocol = Transport
  BY <1>0, <1>4 DEF Connections
<1>6. ASSUME NEW status \in {"UNBOUND", "BOUND"}, ConnectionStep(k, c, status)
      PROVE  /\ socks'[k].status = status /\ socks'[k].connection = c /\ InUse' = {k}
  <2>1. Others(k) /\ socks'[k].status = status /\ socks'[k].connection = c
    BY <1>2, <1>4, <1>6, ConnectionSet
  <2>2. status # "FREE"
    OBVIOUS
  <2> QED
    BY <1>4, <2>1, <2>2, InUseStep
<1>7. CASE NoPort(call.src, call.port)
  BY <1>1, <1>7, NoPortRunning
<1>8. CASE /\ c.protocol = "udp" /\ socks' = [socks EXCEPT ![k].connection = c] /\ UNCHANGED answers
  <2>1. ConnectionStep(k, c, "UNBOUND")
    BY <1>2, <1>4, <1>8 DEF ConnectionStep, SocksOK, SockRecords
  <2>2. socks'[k].status = "UNBOUND" /\ socks'[k].connection = c /\ InUse' = {k}
    BY <1>6, <2>1
  <2>3. Fits("bind", f, s)'
    <3>1. /\ "bind" \in OneSocket /\ f \in Socks /\ socks'[f].status \in Resting("bind")
          /\ socks'[f].connection.protocol = Transport /\ InUse' \subseteq {f}
      BY <1>0, <1>3, <1>4, <1>5, <2>2 DEF OneSocket, Resting
    <3> QED
      BY <3>1, FitsOne
  <2>4. UNCHANGED <<prog, pc, fd, sock2>> /\ Transport' = Transport
    BY SameProgram
  <2>5. Fits(pc, fd, sock2)' /\ (Transport = "udp")'
    BY <1>0, <1>3, <1>5, <1>8, <2>3, <2>4
  <2>6. Pends'
    BY <1>2, <2>5 DEF Pends
  <2> QED
    BY <1>2, <1>8, <2>6, CallPends
<1>9. CASE /\ c.protocol = "tcp"
           /\ socks' = [socks EXCEPT ![k].connection = c, ![k].status = "BOUND"]
           /\ Answer(k, "EOK")
  <2>1. ConnectionStep(k, c, "BOUND")
    BY <1>9 DEF ConnectionStep
  <2>2. socks'[k].status = "BOUND" /\ socks'[k].connection = c /\ InUse' = {k}
    BY <1>6, <2>1
  <2>3. answers' # <<>> /\ answers'[1].error = "EOK"
    BY <1>2, <1>9, FirstAnswer DEF Answer
  <2>4. \A q \in Code[pc].ok : Fits(q, f, s)'
    <3> SUFFICES ASSUME NEW q \in Code[pc].ok PROVE Fits(q, f, s)'
      OBVIOUS
    <3>1. prog # "http_client" /\ prog # "udp_server" /\ q \in {"connect", "listen"}
      BY <1>2, <1>3, <1>5, <1>9 DEF PointOK, Transport, TwoSockets, OnAccepted
    <3>2. /\ q \in OneSocket /\ q # "write" /\ f \in Socks /\ socks'[f].status \in Resting(q)
          /\ socks'[f].connection.protocol = Transport /\ InUse' \subseteq {f}
      BY <1>0, <1>3, <1>4, <1>5, <2>2, <3>1 DEF OneSocket, Resting
    <3> QED
      BY <3>2, FitsOne
  <2> QED
    BY <1>0, <1>2, <1>3, <2>3, <2>4, CallSucceeds
<1> QED
  BY <1>1, <1>7, <1>8, <1>9

LEMMA ListenRunning == ASSUME Program, UNCHANGED progVars, Listen PROVE Running'
<1>0. PICK k, f, s : k = call.sock /\ f = fd /\ s = sock2
  OBVIOUS
<1>1. /\ Take("mLISTEN") /\ Allowed("mLISTEN", k)
      /\ \/ socks[k].connection.protocol = "udp"
         \/ /\ socks' = [socks EXCEPT ![k].connection.dest = "any", ![k].status = "LISTENING"]
            /\ Answer(k, "EOK")
  BY <1>0 DEF Listen
<1>2. /\ call # Idle /\ UNCHANGED call /\ ~asked' /\ answers = <<>> /\ call.type = "mLISTEN"
      /\ Fits(pc, fd, sock2) /\ PointOK(pc, Code[pc]) /\ Ordered /\ SocksOK
  BY <1>1, Requested DEF Ordered, WellTyped
<1>3. pc = "listen" /\ k = fd /\ Transport = "tcp" /\ Code[pc].ok \subseteq {"accept"}
  BY <1>0, <1>2, AtPoint DEF PointOK, OneSocket, OnAccepted
<1>4. /\ k \in Socks /\ socks[k].status = "BOUND" /\ socks[k].connection.protocol = Transport /\ InUse = {k}
      /\ socks[k].connection \in Connections
  BY <1>2, <1>3, AtOne, SocketConnection DEF OneSocket, Resting
<1>5. PICK c : c = [socks[k].connection EXCEPT !.dest = "any"]
  OBVIOUS
<1>6. c.protocol = Transport
  BY <1>4, <1>5 DEF Connections
<1>7. ConnectionStep(k, c, "LISTENING") /\ Answer(k, "EOK")
  <2>1. socks \in [Socks -> SockRecords] /\ socks[k] \in SockRecords
    BY <1>2, <1>4 DEF SocksOK
  <2> QED
    BY <1>1, <1>3, <1>4, <1>5, <2>1 DEF ConnectionStep, SockRecords
<1>8. Others(k) /\ socks'[k].status = "LISTENING" /\ socks'[k].connection = c
  BY <1>2, <1>4, <1>7, ConnectionSet
<1>9. InUse' = {k}
  BY <1>4, <1>8, InUseStep
<1>10. answers' # <<>> /\ answers'[1].error = "EOK"
  BY <1>2, <1>7, FirstAnswer DEF Answer
<1>11. Fits("accept", f, s)'
  <2>1. /\ "accept" \in OneSocket /\ f \in Socks /\ socks'[f].status \in Resting("accept")
        /\ socks'[f].connection.protocol = Transport /\ InUse' \subseteq {f}
    BY <1>0, <1>3, <1>4, <1>6, <1>8, <1>9 DEF OneSocket, Resting
  <2> QED
    BY <2>1, FitsOne
<1>12. \A p \in Code[pc].ok : Fits(p, f, s)'
  BY <1>3, <1>11
<1> QED
  BY <1>0, <1>2, <1>3, <1>10, <1>12, CallSucceeds

LEMMA AcceptRunning == ASSUME Program, UNCHANGED progVars, Accept PROVE Running'
<1>0. PICK k : k = call.sock
  OBVIOUS
<1>1. Take("mACCEPT") /\ SetStatus(k, "ACCEPT_PENDING") /\ UNCHANGED answers
  BY <1>0 DEF Accept
<1>2. /\ call # Idle /\ UNCHANGED call /\ ~asked' /\ answers = <<>> /\ call.type = "mACCEPT"
      /\ Fits(pc, fd, sock2) /\ PointOK(pc, Code[pc]) /\ SocksOK
  BY <1>1, Requested DEF Ordered, WellTyped
<1>3. pc = "accept" /\ k = fd
  BY <1>0, <1>2, AtPoint DEF PointOK, OneSocket, OnAccepted
<1>4. k \in Socks /\ socks[k].status = "LISTENING" /\ socks[k].connection.protocol = Transport /\ InUse = {k}
  BY <1>2, <1>3, AtOne DEF OneSocket, Resting
<1>5. /\ Others(k) /\ socks'[k].status = "ACCEPT_PENDING" /\ socks'[k].connection = socks[k].connection
  BY <1>1, <1>2, <1>4, StatusSet
<1>6. InUse' = {k}
  BY <1>4, <1>5, InUseStep
<1>7. UNCHANGED <<prog, pc, fd, sock2>> /\ Transport' = Transport
  BY SameProgram
<1>8. (SocketOf(fd, {"ACCEPT_PENDING", "LISTENING"}) /\ InUse = {fd})'
  BY <1>3, <1>4, <1>5, <1>6, <1>7 DEF SocketOf
<1>9. Pends'
  BY <1>2, <1>8 DEF Pends
<1> QED
  BY <1>1, <1>2, <1>9, CallPends

LEMMA ConnectRunning == ASSUME Program, UNCHANGED progVars, Connect PROVE Running'
<1>0. PICK k, p, c : /\ k = call.sock
                     /\ p = (IF socks[k].status = "UNBOUND" THEN ResolveSrcPort("any", PORT_NONE) ELSE socks[k].connection.srcport)
                     /\ c = [socks[k].connection EXCEPT !.src = "me", !.srcport = p, !.dest = call.dest]
  OBVIOUS
<1>1. /\ Take("mCONNECT")
      /\ \/ NoPort("any", PORT_NONE)
         \/ /\ socks' = [socks EXCEPT ![k].connection = c,
                                      ![k].status = IF c.protocol = "udp" THEN "CONNECTED" ELSE "CONNECT_PENDING"]
            /\ UNCHANGED answers
  BY <1>0 DEF Connect
<1>2. /\ call # Idle /\ UNCHANGED call /\ ~asked' /\ answers = <<>> /\ call.type = "mCONNECT"
      /\ Fits(pc, fd, sock2) /\ PointOK(pc, Code[pc]) /\ Ordered /\ SocksOK
  BY <1>1, Requested DEF Ordered, WellTyped
<1>3. pc = "connect" /\ k = fd
  BY <1>0, <1>2, AtPoint DEF PointOK, OneSocket, OnAccepted
<1>4. /\ k \in Socks /\ socks[k].status # "FREE" /\ socks[k].connection.protocol = Transport /\ InUse = {k}
      /\ socks[k].connection \in Connections
  BY <1>2, <1>3, AtOne, SocketConnection DEF OneSocket, Resting
<1>5. call.dest # "any"
  BY <1>2, PeersAssumption DEF Ordered, WellTyped, CallOK
<1>6. c.protocol = Transport /\ c.dest # "any"
  BY <1>0, <1>4, <1>5 DEF Connections
<1>7. CASE NoPort("any", PORT_NONE)
  BY <1>1, <1>7, NoPortRunning
<1>8. CASE /\ socks' = [socks EXCEPT ![k].connection = c,
                                     ![k].status = IF c.protocol = "udp" THEN "CONNECTED" ELSE "CONNECT_PENDING"]
           /\ UNCHANGED answers
  <2>1. PICK status : status = IF c.protocol = "udp" THEN "CONNECTED" ELSE "CONNECT_PENDING"
    OBVIOUS
  <2>2. ConnectionStep(k, c, status)
    BY <1>8, <2>1 DEF ConnectionStep
  <2>3. Others(k) /\ socks'[k].status = status /\ socks'[k].connection = c
    BY <1>2, <1>4, <2>2, ConnectionSet
  <2>4. InUse' = {k}
    BY <1>4, <2>1, <2>3, InUseStep
  <2>5. UNCHANGED <<prog, pc, fd, sock2>> /\ Transport' = Transport
    BY SameProgram
  <2>6. /\ SocketOf(fd, IF Transport = "udp" THEN {"CONNECTED"} ELSE {"CONNECT_PENDING"})'
        /\ (socks[fd].connection.dest # "any" /\ InUse = {fd})'
    BY <1>3, <1>4, <1>6, <2>1, <2>3, <2>4, <2>5 DEF SocketOf
  <2>7. Pends'
    BY <1>2, <2>6 DEF Pends
  <2> QED
    BY <1>2, <1>8, <2>7, CallPends
<1> QED
  BY <1>1, <1>7, <1>8

(* The socket of a read or a write waits.                                   *)
LEMMA TransferPends ==
  ASSUME Program, UNCHANGED progVars, NEW type \in {"mREAD", "mWRITE"}, Take(type), Allowed(type, call.sock),
         SetStatus(call.sock, IF type = "mREAD" THEN "READ_PENDING" ELSE "WRITE_PENDING"), UNCHANGED answers
  PROVE  Running'
<1>0. PICK k, status : k = call.sock /\ status = (IF type = "mREAD" THEN "READ_PENDING" ELSE "WRITE_PENDING")
  OBVIOUS
<1>1. type # "none" /\ type # "mSOCKET"
  OBVIOUS
<1>2. /\ call # Idle /\ UNCHANGED call /\ ~asked' /\ answers = <<>> /\ call.type = type
      /\ Fits(pc, fd, sock2) /\ PointOK(pc, Code[pc]) /\ SocksOK /\ SocketsOK /\ k \in Socks
  BY <1>0, <1>1, Requested, TakeFacts
<1>3. pc # "socket" /\ type = Code[pc].type /\ k = Fd
  BY <1>0, <1>1, <1>2, AtPoint
<1>4. /\ Others(k) /\ socks'[k].status = status /\ socks'[k].connection = socks[k].connection
  BY <1>0, <1>2, StatusSet
<1>5. socks[k].app /\ socks[k].status # "FREE"
  BY <1>0, <1>2 DEF Allowed, SocketsOK, SockOK
<1>6. InUse' = InUse
  <2>1. status # "FREE" /\ k \in InUse
    BY <1>0, <1>2, <1>5 DEF InUse
  <2> QED
    BY <1>2, <1>4, <2>1, InUseStep
<1>7. UNCHANGED <<prog, pc, fd, sock2>> /\ Transport' = Transport /\ Fd' = Fd
  BY SameProgram
<1>8. CASE pc \in OneSocket
  <2>1. /\ k = fd /\ InUse = {fd} /\ socks[fd].connection.protocol = Transport
        /\ pc = "write" => socks[fd].connection.dest # "any"
    BY <1>2, <1>3, <1>5, <1>8, AtOne
  <2>2. pc \notin TwoSockets
    BY <1>8 DEF OneSocket, TwoSockets, OnAccepted
  <2>3. SocketOf(Fd, {status})'
    BY <1>2, <1>3, <1>4, <1>7, <2>1 DEF SocketOf
  <2>4. (InUse = {fd} /\ (pc = "write" => socks[fd].connection.dest # "any"))'
    BY <1>4, <1>6, <1>7, <2>1
  <2>5. Pends'
    BY <1>0, <1>1, <1>2, <1>7, <2>2, <2>3, <2>4 DEF Pends
  <2> QED
    BY <1>2, <2>5, CallPends
<1>9. CASE pc \in TwoSockets
  <2>1. /\ fd \in Socks /\ socks[fd].status = "LISTENING" /\ socks[fd].connection.protocol = Transport
        /\ sock2 \in Socks /\ socks[sock2].status = "CONNECTED" /\ socks[sock2].connection.protocol = Transport
        /\ fd # sock2 /\ InUse = {fd, sock2}
    BY <1>2, <1>9, AtTwo
  <2>2. k = sock2
    <3>1. k \in {fd, sock2}
      BY <1>2, <1>5, <2>1 DEF InUse
    <3>2. k # fd
      BY <1>0, <2>1 DEF Allowed
    <3> QED
      BY <3>1, <3>2
  <2>3. pc \notin OneSocket
    BY <1>9 DEF OneSocket, TwoSockets, OnAccepted
  <2>4. socks'[fd] = socks[fd]
    BY <1>4, <2>1, <2>2 DEF Others
  <2>5. SocketOf(Fd, {status})' /\ SocketOf(fd, {"LISTENING"})'
    BY <1>2, <1>3, <1>4, <1>7, <2>1, <2>2, <2>4 DEF SocketOf
  <2>6. (Fd = sock2 /\ fd # sock2 /\ InUse = {fd, sock2})'
    BY <1>3, <1>6, <1>7, <2>1, <2>2
  <2>7. Pends'
    BY <1>0, <1>1, <1>2, <1>7, <2>3, <2>5, <2>6 DEF Pends
  <2> QED
    BY <1>2, <2>7, CallPends
<1> QED
  BY <1>2, <1>3, <1>8, <1>9 DEF PointOK, OneSocket, TwoSockets, OnAccepted

LEMMA ReadRunning == ASSUME Program, UNCHANGED progVars, Read PROVE Running'
<1>0. PICK f, s : f = fd /\ s = sock2
  OBVIOUS
<1>1. /\ Take("mREAD") /\ Allowed("mREAD", call.sock)
      /\ \/ Answer(call.sock, "EOK") /\ UNCHANGED socks
         \/ SetStatus(call.sock, "READ_PENDING") /\ UNCHANGED answers
  BY DEF Read
<1>2. CASE SetStatus(call.sock, "READ_PENDING") /\ UNCHANGED answers
  BY <1>1, <1>2, TransferPends
<1>3. CASE Answer(call.sock, "EOK") /\ UNCHANGED socks
  <2>1. /\ call # Idle /\ UNCHANGED call /\ ~asked' /\ answers = <<>> /\ call.type = "mREAD"
        /\ Fits(pc, fd, sock2) /\ PointOK(pc, Code[pc])
    BY <1>1, Requested
  <2>2. answers' # <<>> /\ answers'[1].error = "EOK"
    BY <1>3, <2>1, FirstAnswer DEF Answer
  <2>3. Code[pc].type = "mREAD" /\ pc # "socket"
    BY <2>1, AtPoint
  <2>4. \/ pc = "read" /\ Code[pc].ok \subseteq {"read", "close"}
        \/ pc \in TwoSockets /\ Code[pc].ok \subseteq TwoSockets
    BY <2>1, <2>3 DEF PointOK, TwoSockets, OnAccepted
  <2>5. \A p \in Code[pc].ok : Fits(p, f, s)
    BY <1>0, <2>1, <2>4 DEF Fits, OneSocket, TwoSockets, OnAccepted, Resting, SocketOf
  <2>6. \A p, x, y : Fits(p, x, y)' <=> Fits(p, x, y)
    BY <1>3, AlikeFits DEF Alike
  <2>7. \A p \in Code[pc].ok : Fits(p, f, s)'
    BY <2>5, <2>6
  <2>8. pc \notin {"socket", "accept"}
    BY <2>4 DEF TwoSockets, OnAccepted
  <2> QED
    BY <1>0, <2>1, <2>2, <2>7, <2>8, CallSucceeds
<1> QED
  BY <1>1, <1>2, <1>3

LEMMA WriteRunning == ASSUME Program, UNCHANGED progVars, Write PROVE Running'
<1>1. /\ Take("mWRITE") /\ Allowed("mWRITE", call.sock)
      /\ SetStatus(call.sock, "WRITE_PENDING") /\ UNCHANGED answers
  BY DEF Write
<1> QED
  BY <1>1, TransferPends

LEMMA CloseRunning == ASSUME Program, UNCHANGED progVars, Close PROVE Running'
<1>0. PICK k, f, s : k = call.sock /\ f = fd /\ s = sock2
  OBVIOUS
<1>1. /\ Take("mCLOSE") /\ CloseSocket(k) /\ Answer(k, "EOK")
  BY <1>0 DEF Close
<1>2. /\ call # Idle /\ UNCHANGED call /\ ~asked' /\ answers = <<>> /\ call.type = "mCLOSE"
      /\ Fits(pc, fd, sock2) /\ PointOK(pc, Code[pc]) /\ SocksOK
  BY <1>1, Requested DEF Ordered, WellTyped
<1>3. answers' # <<>> /\ answers'[1].error = "EOK"
  BY <1>1, <1>2, FirstAnswer DEF Answer
<1>4. Code[pc].type = "mCLOSE" /\ pc # "socket" /\ k = Fd
  BY <1>0, <1>2, AtPoint
<1>5. CASE pc = "close"
  <2>1. k \in Socks /\ k = fd /\ InUse \subseteq {k} /\ Code[pc].ok \subseteq {"done"}
    BY <1>2, <1>4, <1>5, AtOne DEF PointOK, OneSocket, OnAccepted
  <2>2. Others(k) /\ socks'[k].status = "FREE"
    BY <1>1, <1>2, <2>1, SocketClosed
  <2>3. InUse' = {}
    BY <2>1, <2>2, InUseStep
  <2>4. \A p \in Code[pc].ok : Fits(p, f, s)'
    BY <2>1, <2>3, FitsDone
  <2> QED
    BY <1>0, <1>2, <1>3, <1>5, <2>4, CallSucceeds
<1>6. CASE pc = "close2"
  <2>1. /\ f \in Socks /\ socks[f].status = "LISTENING" /\ socks[f].connection.protocol = Transport
        /\ k \in Socks /\ f # k /\ InUse = {f, k} /\ Code[pc].ok \subseteq {"close"}
    BY <1>0, <1>2, <1>4, <1>6, AtTwo DEF PointOK, TwoSockets, OnAccepted, OneSocket
  <2>2. Others(k) /\ socks'[k].status = "FREE"
    BY <1>1, <1>2, <2>1, SocketClosed
  <2>3. InUse' = {f} /\ socks'[f] = socks[f]
    BY <2>1, <2>2, InUseStep DEF Others
  <2>4. Fits("close", f, s)'
    <3>1. /\ "close" \in OneSocket /\ socks'[f].status \in Resting("close")
          /\ socks'[f].connection.protocol = Transport /\ InUse' \subseteq {f}
      BY <2>1, <2>3 DEF OneSocket, Resting
    <3> QED
      BY <2>1, <3>1, FitsOne
  <2>5. \A p \in Code[pc].ok : Fits(p, f, s)'
    BY <2>1, <2>4
  <2>6. pc \notin {"socket", "accept"}
    BY <1>6
  <2> QED
    BY <1>0, <1>2, <1>3, <2>5, <2>6, CallSucceeds
<1> QED
  BY <1>2, <1>4, <1>5, <1>6 DEF PointOK, OnAccepted

LEMMA RequestRunning == ASSUME Program, UNCHANGED progVars, ProcessAppRequest PROVE Running'
<1>1. ~Stub
  <2> SUFFICES ASSUME NEW type \in Stubs, Take(type) PROVE FALSE
    BY DEF Stub
  <2>1. type # "none" /\ type # "mSOCKET"
    BY DEF Stubs
  <2>2. call # Idle /\ call.type = type /\ PointOK(pc, Code[pc])
    BY <2>1, Requested
  <2>3. pc # "socket" /\ Code[pc].type = type
    BY <2>1, <2>2, AtPoint
  <2> QED
    BY <2>2, <2>3 DEF PointOK, Stubs, OnAccepted
<1>2. CASE \E type \in {"mBIND", "mLISTEN", "mACCEPT", "mCONNECT", "mREAD", "mWRITE", "mCLOSE"} : Refuse(type)
  BY <1>2, RefuseRunning
<1> QED
  BY <1>1, <1>2, SocketRunning, BindRunning, ListenRunning, AcceptRunning, ConnectRunning, ReadRunning,
     WriteRunning, CloseRunning DEF ProcessAppRequest

-----------------------------------------------------------------------------
(* The answers that come from below.                                        *)
LEMMA Awaited ==
  ASSUME Program, NEW type, type \notin {"none", "mSOCKET"}, NEW k, Waiting(type, k)
  PROVE  /\ call # Idle /\ ~asked /\ answers = <<>> /\ call.type = type /\ Pends
         /\ pc # "socket" /\ Code[pc].type = type /\ Fd = k /\ PointOK(pc, Code[pc])
<1>1. call.type = type /\ call.sock = k /\ ~asked /\ answers = <<>>
  BY DEF Waiting
<1>2. call # Idle
  BY <1>1 DEF Idle
<1> QED
  BY <1>1, <1>2, AtPoint DEF Program, Running

(* An answer that leaves the second socket of the program alone.            *)
LEMMA AnswerTold ==
  ASSUME Program, UNCHANGED <<call, asked, progVars>>, NEW type, type \notin {"none", "mSOCKET"},
         NEW k, Waiting(type, k), NEW e, e # "EINVALID_OP", Message(type, k, e), type # "mACCEPT" \/ e # "EOK",
         NEW f, f = fd, NEW s, s = sock2,
         \A p \in IF e = "EOK" THEN Code[pc].ok ELSE Code[pc].fail : Fits(p, f, s)'
  PROVE  Running'
<1>1. /\ call # Idle /\ ~asked /\ answers = <<>> /\ call.type = type
      /\ pc # "socket" /\ Code[pc].type = type /\ PointOK(pc, Code[pc])
  BY Awaited
<1>2. answers' # <<>> /\ answers'[1].sock = k /\ answers'[1].error = e
  BY <1>1, FirstAnswer
<1>3. pc = "accept" => e # "EOK"
  BY <1>1 DEF PointOK, TwoSockets, OnAccepted
<1>4. /\ ~asked' /\ f = (IF pc = "socket" THEN k ELSE fd) /\ s = (IF pc = "accept" /\ e = "EOK" THEN k ELSE sock2)
  BY <1>1, <1>3
<1> QED
  BY <1>1, <1>2, <1>4, CallAnswers

LEMMA TransferTold ==
  ASSUME Program, UNCHANGED <<call, asked, progVars>>, NEW type \in {"mREAD", "mWRITE"},
         NEW k \in Socks, Waiting(type, k), NEW e, e # "EINVALID_OP", Message(type, k, e),
         Others(k), socks'[k].status = "CONNECTED", socks'[k].connection = socks[k].connection
  PROVE  Running'
<1>0. PICK f, s : f = fd /\ s = sock2
  OBVIOUS
<1>1. /\ type \notin {"none", "mSOCKET", "mACCEPT"}
  OBVIOUS
<1>2. /\ call.type = type /\ Pends /\ pc # "socket" /\ Code[pc].type = type /\ Fd = k /\ PointOK(pc, Code[pc])
  BY <1>1, Awaited
<1>3. socks[k].status # "FREE" /\ socks[k].connection.protocol = Transport
  BY <1>2 DEF Pends, SocketOf
<1>4. InUse' = InUse
  <2>1. k \in InUse
    BY <1>3 DEF InUse
  <2> QED
    BY <2>1, InUseStep
<1>5. CASE pc \in OneSocket
  <2>1. k = fd /\ InUse = {fd} /\ (pc = "write" => socks[fd].connection.dest # "any")
    BY <1>2, <1>5 DEF Pends, Fd, OneSocket, OnAccepted
  <2>2. ASSUME NEW p \in Code[pc].ok \cup Code[pc].fail PROVE Fits(p, f, s)'
    <3>1. CASE p = "exit"
      BY <3>1, FitsEnd
    <3>2. CASE p # "exit"
      <4>1. /\ p \in OneSocket /\ "CONNECTED" \in Resting(p) /\ (p = "write" => pc = "write")
        BY <1>2, <1>5, <2>2, <3>2 DEF PointOK, OneSocket, TwoSockets, OnAccepted, Resting
      <4>2. f \in Socks /\ socks'[f].status \in Resting(p) /\ socks'[f].connection.protocol = Transport
            /\ InUse' \subseteq {f} /\ (p = "write" => socks'[f].connection.dest # "any")
        BY <1>0, <1>3, <1>4, <2>1, <4>1
      <4> QED
        BY <4>1, <4>2, FitsOne
    <3> QED
      BY <3>1, <3>2
  <2> QED
    BY <1>0, <1>1, <2>2, AnswerTold
<1>6. CASE pc \in TwoSockets
  <2>1. /\ SocketOf(fd, {"LISTENING"}) /\ Fd = sock2 /\ fd # sock2 /\ InUse = {fd, sock2}
    BY <1>2, <1>6 DEF Pends
  <2>2. /\ f \in Socks /\ socks[f].status = "LISTENING" /\ socks[f].connection.protocol = Transport
        /\ s = k /\ f # s /\ InUse' = {f, s}
    BY <1>0, <1>2, <1>4, <2>1 DEF SocketOf
  <2>3. socks'[f] = socks[f]
    BY <2>2 DEF Others
  <2>4. \A p \in TwoSockets : Fits(p, f, s)'
    BY <1>3, <2>2, <2>3, FitsTwo
  <2>5. Code[pc].ok \cup Code[pc].fail \subseteq TwoSockets
    BY <1>2, <1>6 DEF PointOK, TwoSockets, OnAccepted
  <2>6. \A p \in Code[pc].ok \cup Code[pc].fail : Fits(p, f, s)'
    BY <2>4, <2>5
  <2> QED
    BY <1>0, <1>1, <2>6, AnswerTold
<1> QED
  BY <1>2, <1>5, <1>6 DEF PointOK, OneSocket, TwoSockets, OnAccepted

LEMMA ConnectTold ==
  ASSUME Program, UNCHANGED <<call, asked, progVars>>,
         NEW k \in Socks, Waiting("mCONNECT", k), NEW e, e # "EINVALID_OP", Message("mCONNECT", k, e), Others(k),
         \/ e # "EOK" /\ socks'[k].status = "FREE"
         \/ e = "EOK" /\ socks'[k].status = "CONNECTED" /\ socks'[k].connection = socks[k].connection
  PROVE  Running'
<1>0. PICK f, s : f = fd /\ s = sock2
  OBVIOUS
<1>1. PICK type : type = "mCONNECT"
  OBVIOUS
<1>2. type \notin {"none", "mSOCKET", "mACCEPT"} /\ Waiting(type, k) /\ Message(type, k, e)
  BY <1>1
<1>3. /\ call.type = type /\ Pends /\ pc # "socket" /\ Code[pc].type = type /\ Fd = k /\ PointOK(pc, Code[pc])
  BY <1>2, Awaited
<1>4. pc = "connect" /\ k = fd /\ Code[pc].ok \subseteq {"write", "close"} /\ Code[pc].fail \subseteq {"close"}
  BY <1>1, <1>3 DEF PointOK, Fd, TwoSockets, OnAccepted
<1>5. socks[k].status # "FREE" /\ socks[k].connection.protocol = Transport /\ socks[k].connection.dest # "any" /\ InUse = {k}
  BY <1>1, <1>3, <1>4 DEF Pends, SocketOf
<1>6. InUse' \subseteq {k}
  BY <1>5, InUseStep
<1>7. ASSUME NEW p \in IF e = "EOK" THEN Code[pc].ok ELSE Code[pc].fail PROVE Fits(p, f, s)'
  <2>1. p \in OneSocket /\ f \in Socks /\ socks'[f].status \in Resting(p) /\ InUse' \subseteq {f}
        /\ (socks'[f].status # "FREE" => socks'[f].connection.protocol = Transport)
        /\ (p = "write" => socks'[f].connection.dest # "any")
    BY <1>0, <1>4, <1>5, <1>6, <1>7 DEF OneSocket, Resting
  <2> QED
    BY <2>1, FitsOne
<1> QED
  BY <1>0, <1>2, <1>7, AnswerTold

LEMMA BindTold ==
  ASSUME Program, UNCHANGED <<call, asked, progVars>>,
         NEW k \in Socks, Waiting("mBIND", k), NEW e, e # "EINVALID_OP", Message("mBIND", k, e), Others(k),
         \/ e # "EOK" /\ socks'[k].status = "FREE"
         \/ e = "EOK" /\ socks'[k].status = "BOUND" /\ socks'[k].connection = socks[k].connection
  PROVE  Running'
<1>0. PICK f, s : f = fd /\ s = sock2
  OBVIOUS
<1>1. PICK type : type = "mBIND"
  OBVIOUS
<1>2. type \notin {"none", "mSOCKET", "mACCEPT"} /\ Waiting(type, k) /\ Message(type, k, e)
  BY <1>1
<1>3. /\ call.type = type /\ Pends /\ pc # "socket" /\ Code[pc].type = type /\ Fd = k /\ PointOK(pc, Code[pc])
  BY <1>2, Awaited
<1>4. /\ pc = "bind" /\ k = fd /\ prog # "http_client"
      /\ Code[pc].ok \subseteq IF prog = "udp_server" THEN {"read"} ELSE {"connect", "listen"}
      /\ Code[pc].fail \subseteq {"close", "undefined", "exit"} /\ Fits(pc, fd, sock2)
  BY <1>1, <1>3 DEF PointOK, Fd, TwoSockets, OnAccepted, Pends
<1>5. socks[k].status # "FREE" /\ socks[k].connection.protocol = Transport /\ InUse = {k}
  BY <1>4, AtOne DEF OneSocket, Resting
<1>6. InUse' \subseteq {k}
  BY <1>5, InUseStep
<1>7. ASSUME NEW p \in IF e = "EOK" THEN Code[pc].ok ELSE Code[pc].fail PROVE Fits(p, f, s)'
  <2>1. CASE p \in {"exit", "undefined"}
    BY <2>1, FitsEnd
  <2>2. CASE p \notin {"exit", "undefined"}
    <3>1. p \in OneSocket /\ p # "write" /\ f \in Socks /\ socks'[f].status \in Resting(p) /\ InUse' \subseteq {f}
          /\ (socks'[f].status # "FREE" => socks'[f].connection.protocol = Transport)
      BY <1>0, <1>4, <1>5, <1>6, <1>7, <2>2 DEF OneSocket, Resting
    <3> QED
      BY <3>1, FitsOne
  <2> QED
    BY <2>1, <2>2
<1> QED
  BY <1>0, <1>2, <1>7, AnswerTold

(* What an accept that waits knows.                                         *)
LEMMA AcceptAwaited ==
  ASSUME Program, NEW k, Waiting("mACCEPT", k)
  PROVE  /\ call # Idle /\ ~asked /\ answers = <<>> /\ call.type = "mACCEPT" /\ pc = "accept" /\ k = fd
         /\ Code[pc].ok \subseteq {"read2"} /\ Code[pc].fail \subseteq {"undefined"} /\ Transport = "tcp"
         /\ k \in Socks /\ socks[k].connection.protocol = Transport /\ InUse = {k}
<1>1. PICK type : type = "mACCEPT"
  OBVIOUS
<1>2. type \notin {"none", "mSOCKET"} /\ Waiting(type, k)
  BY <1>1
<1>3. /\ call # Idle /\ ~asked /\ answers = <<>> /\ call.type = type /\ Pends
      /\ Code[pc].type = type /\ Fd = k /\ PointOK(pc, Code[pc]) /\ pc # "socket"
  BY <1>2, Awaited
<1>4. /\ pc = "accept" /\ k = fd /\ Transport = "tcp"
      /\ Code[pc].ok \subseteq {"read2"} /\ Code[pc].fail \subseteq {"undefined"}
  BY <1>1, <1>3 DEF PointOK, Fd, TwoSockets, OnAccepted
<1>5. SocketOf(fd, {"ACCEPT_PENDING", "LISTENING"}) /\ InUse = {fd}
  BY <1>1, <1>3 DEF Pends
<1> QED
  BY <1>1, <1>3, <1>4, <1>5 DEF SocketOf

LEMMA AcceptFailed ==
  ASSUME Program, UNCHANGED <<call, asked, progVars>>,
         NEW k, Waiting("mACCEPT", k), NEW e, e # "EINVALID_OP", e # "EOK", Message("mACCEPT", k, e)
  PROVE  Running'
<1>0. PICK f, s, type : f = fd /\ s = sock2 /\ type = "mACCEPT"
  OBVIOUS
<1>1. Code[pc].fail \subseteq {"undefined"}
  BY AcceptAwaited
<1>2. \A p \in IF e = "EOK" THEN Code[pc].ok ELSE Code[pc].fail : Fits(p, f, s)'
  BY <1>1, FitsEnd
<1>3. type \notin {"none", "mSOCKET"} /\ Waiting(type, k) /\ Message(type, k, e)
  BY <1>0
<1> QED
  BY <1>0, <1>2, <1>3, AnswerTold

LEMMA AcceptSilent ==
  ASSUME Program, UNCHANGED <<call, asked, answers, progVars>>, NEW k, Waiting("mACCEPT", k),
         Others(k), socks'[k].status = "LISTENING", socks'[k].connection = socks[k].connection
  PROVE  Running'
<1>1. /\ call # Idle /\ ~asked /\ answers = <<>> /\ call.type = "mACCEPT" /\ k = fd
      /\ k \in Socks /\ socks[k].connection.protocol = Transport /\ InUse = {k}
  BY AcceptAwaited
<1>2. InUse' = {k}
  BY <1>1, InUseStep
<1>3. UNCHANGED <<prog, pc, fd, sock2>> /\ Transport' = Transport
  BY SameProgram
<1>4. (SocketOf(fd, {"ACCEPT_PENDING", "LISTENING"}) /\ InUse = {fd})'
  BY <1>1, <1>2, <1>3 DEF SocketOf
<1>5. Pends'
  BY <1>1, <1>4 DEF Pends
<1> QED
  BY <1>1, <1>5, CallPends

LEMMA AcceptTold ==
  ASSUME Program, UNCHANGED <<call, asked, progVars>>, NEW k, Waiting("mACCEPT", k),
         NEW j \in Socks, j # k, socks[j].status = "FREE", Message("mACCEPT", j, "EOK"),
         \A i \in Socks : i # k /\ i # j => socks'[i] = socks[i],
         socks'[k].status = "LISTENING", socks'[k].connection = socks[k].connection,
         socks'[j].status = "CONNECTED", socks'[j].connection.protocol = "tcp"
  PROVE  Running'
<1>0. PICK f, s, e : f = k /\ s = j /\ e = "EOK"
  OBVIOUS
<1>1. /\ call # Idle /\ ~asked /\ answers = <<>> /\ pc = "accept" /\ k = fd /\ Code[pc].ok \subseteq {"read2"}
      /\ k \in Socks /\ socks[k].connection.protocol = Transport /\ InUse = {k} /\ Transport = "tcp"
  BY AcceptAwaited
<1>2. InUse' = {f, s}
  BY <1>0, <1>1 DEF InUse
<1>3. Fits("read2", f, s)'
  <2>1. "read2" \in TwoSockets
    BY DEF TwoSockets, OnAccepted
  <2>2. /\ f \in Socks /\ s \in Socks /\ f # s
        /\ socks'[f].status = "LISTENING" /\ socks'[f].connection.protocol = Transport
        /\ socks'[s].status = "CONNECTED" /\ socks'[s].connection.protocol = Transport
    BY <1>0, <1>1
  <2> QED
    BY <1>2, <2>1, <2>2, FitsTwo
<1>4. answers' # <<>> /\ answers'[1].sock = j /\ answers'[1].error = e
  BY <1>0, <1>1, FirstAnswer
<1>5. /\ f = (IF pc = "socket" THEN j ELSE fd) /\ s = (IF pc = "accept" /\ e = "EOK" THEN j ELSE sock2)
      /\ \A p \in IF e = "EOK" THEN Code[pc].ok ELSE Code[pc].fail : Fits(p, f, s)'
      /\ ~asked' /\ e # "EINVALID_OP"
  BY <1>0, <1>1, <1>3
<1> QED
  BY <1>1, <1>4, <1>5, CallAnswers

LEMMA DataRunning ==
  ASSUME Program, UNCHANGED <<call, asked, progVars>>, NEW below, NEW m, m.error # "EINVALID_OP",
         NEW k \in Socks, Data(below, m, k)
  PROVE  Running'
<1>1. SocksOK
  BY DEF Program, Ordered, WellTyped
<1>2. CASE socks' = [socks EXCEPT ![k].bin = @ + 1] /\ UNCHANGED answers
  <2>1. Alike
    BY <1>1, <1>2 DEF SocksOK, SockRecords, Alike
  <2> QED
    BY <1>2, <2>1, AlikeRunning
<1>3. CASE UNCHANGED <<socks, answers>>
  <2>1. Alike
    BY <1>3 DEF Alike
  <2> QED
    BY <1>3, <2>1, AlikeRunning
<1>4. CASE socks[k].status = "READ_PENDING" /\ Message("mREAD", k, m.error) /\ SetStatus(k, "CONNECTED")
  <2>1. /\ Others(k) /\ socks'[k].status = "CONNECTED" /\ socks'[k].connection = socks[k].connection
    BY <1>1, <1>4, StatusSet
  <2>2. Waiting("mREAD", k)
    BY <1>4 DEF Program, Ordered, CallsOK, PendingOK
  <2>3. PICK type \in {"mREAD", "mWRITE"}, e \in {m.error} : type = "mREAD" /\ e = m.error
    OBVIOUS
  <2>4. Waiting(type, k) /\ Message(type, k, e) /\ e # "EINVALID_OP"
    BY <1>4, <2>2, <2>3
  <2> QED
    BY <2>1, <2>4, TransferTold
<1> QED
  BY <1>2, <1>3, <1>4 DEF Data

LEMMA AcceptedRunning ==
  ASSUME Program, UNCHANGED <<call, asked, progVars>>, NEW m, m.error # "EINVALID_OP", m.connection \in Connections,
         NEW k \in Socks, Takes(k, m.connection), Accepted(m, k)
  PROVE  Running'
<1>0. PICK j : j = FindFreeSock
  OBVIOUS
<1>1. SocksOK /\ socks[k].status = "ACCEPT_PENDING" /\ SockOK(socks[k]) /\ Waiting("mACCEPT", k)
  <2>1. socks[k].status = "ACCEPT_PENDING"
    BY DEF Accepted
  <2> QED
    BY <2>1 DEF Program, Ordered, WellTyped, SocketsOK, CallsOK, PendingOK
<1>2. m.connection.protocol = "tcp"
  <2>1. socks[k].connection.protocol = "tcp"
    BY <1>1 DEF SockOK
  <2> QED
    BY <2>1 DEF Takes, Connections
<1>3. PICK back : back = [socks EXCEPT ![k].status = "LISTENING"]
  OBVIOUS
<1>4. /\ back[k].status = "LISTENING" /\ back[k].connection = socks[k].connection
      /\ \A i \in Socks : i # k => back[i] = socks[i]
      /\ DOMAIN back = Socks
  BY <1>1, <1>3 DEF SocksOK, SockRecords
<1>5. PICK new : new = [SockRecord EXCEPT !.status = "CONNECTED", !.connection = m.connection, !.app = TRUE]
  OBVIOUS
<1>6. new.status = "CONNECTED" /\ new.connection = m.connection
  BY <1>5 DEF SockRecord
<1>7. \/ m.error # "EOK" /\ socks' = back /\ Message("mACCEPT", k, m.error)
      \/ j # 0 /\ socks' = [back EXCEPT ![j] = new] /\ Message("mACCEPT", j, "EOK")
      \/ socks' = back /\ UNCHANGED answers
  BY <1>0, <1>3, <1>5 DEF Accepted
<1>8. CASE m.error # "EOK" /\ socks' = back /\ Message("mACCEPT", k, m.error)
  <2>1. PICK e : e = m.error
    OBVIOUS
  <2>2. e # "EINVALID_OP" /\ e # "EOK" /\ Message("mACCEPT", k, e)
    BY <1>8, <2>1
  <2> QED
    BY <1>1, <2>2, AcceptFailed
<1>9. CASE j # 0 /\ socks' = [back EXCEPT ![j] = new] /\ Message("mACCEPT", j, "EOK")
  <2>1. j \in Socks /\ socks[j].status = "FREE" /\ j # k
    BY <1>0, <1>1, <1>9, FreeSocket
  <2>2. /\ \A i \in Socks : i # k /\ i # j => socks'[i] = socks[i]
        /\ socks'[k].status = "LISTENING" /\ socks'[k].connection = socks[k].connection
        /\ socks'[j].status = "CONNECTED" /\ socks'[j].connection.protocol = "tcp"
    BY <1>2, <1>4, <1>6, <1>9, <2>1
  <2> QED
    BY <1>1, <1>9, <2>1, <2>2, AcceptTold
<1>10. CASE socks' = back /\ UNCHANGED answers
  <2>1. Others(k) /\ socks'[k].status = "LISTENING" /\ socks'[k].connection = socks[k].connection
    BY <1>4, <1>10 DEF Others
  <2> QED
    BY <1>1, <1>10, <2>1, AcceptSilent
<1> QED
  BY <1>7, <1>8, <1>9, <1>10

LEMMA ConnectedRunning ==
  ASSUME Program, UNCHANGED <<call, asked, progVars>>, NEW m, m.error # "EINVALID_OP",
         NEW k \in Socks, Takes(k, m.connection), Connected(m, k)
  PROVE  Running'
<1>1. /\ socks[k].status = "CONNECT_PENDING" /\ Message("mCONNECT", k, m.error)
      /\ \/ m.error # "EOK" /\ CloseSocket(k)
         \/ m.error = "EOK" /\ ConnectionStep(k, m.connection, "CONNECTED")
  BY DEF Connected, ConnectionStep
<1>2. SocksOK /\ Waiting("mCONNECT", k)
  BY <1>1 DEF Program, Ordered, WellTyped, CallsOK, PendingOK
<1>3. socks[k].connection = m.connection
  BY <1>1 DEF Takes
<1>4. /\ Others(k)
      /\ \/ m.error # "EOK" /\ socks'[k].status = "FREE"
         \/ m.error = "EOK" /\ socks'[k].status = "CONNECTED" /\ socks'[k].connection = socks[k].connection
  BY <1>1, <1>2, <1>3, SocketClosed, ConnectionSet
<1>5. PICK e : e = m.error
  OBVIOUS
<1> QED
  BY <1>1, <1>2, <1>4, <1>5, ConnectTold

(* No message of a queue refuses a socket's state.                          *)
LEMMA HeadNoRefusal ==
  ASSUME WellTyped, NoRefusal
  PROVE  /\ fromTcp # <<>> => Head(fromTcp).error # "EINVALID_OP"
         /\ fromUdp # <<>> => Head(fromUdp).error # "EINVALID_OP"
<1>1. Queue(fromTcp) /\ Queue(fromUdp)
  BY DEF WellTyped, TcpOK, UdpOK, Queue
<1>2. /\ fromTcp # <<>> => Head(fromTcp) \in Range(fromTcp)
      /\ fromUdp # <<>> => Head(fromUdp) \in Range(fromUdp)
  BY <1>1, QueueTail
<1> QED
  BY <1>2 DEF NoRefusal

LEMMA TcpWriteRunning == ASSUME Program, UNCHANGED progVars, HandleTCPWrite PROVE Running'
<1>0. PICK m, k : m = Head(fromTcp) /\ k = FindConnection(m.connection)
  OBVIOUS
<1>1. /\ fromTcp # <<>>
      /\ \/ NoMatch("tcp", m)
         \/ k # 0 /\ (Accepted(m, k) \/ Connected(m, k))
         \/ k # 0 /\ Data("tcp", m, k)
      /\ UNCHANGED <<call, asked>>
  BY <1>0 DEF HandleTCPWrite
<1>2. WellTyped /\ NoRefusal /\ TcpOK /\ UdpOK
  BY DEF Program, Ordered, WellTyped
<1>3. m.error # "EINVALID_OP"
  BY <1>0, <1>1, <1>2, HeadNoRefusal
<1>4. m.connection \in Connections
  <2>1. m \in Messages
    BY <1>0, <1>1, <1>2, HeadMessage
  <2> QED
    BY <2>1 DEF Messages
<1>5. k # 0 => k \in Socks /\ Takes(k, m.connection)
  BY <1>0, ConnectionFound
<1>6. CASE NoMatch("tcp", m)
  <2>1. Alike /\ UNCHANGED answers
    BY <1>6 DEF NoMatch, Alike
  <2> QED
    BY <1>1, <2>1, AlikeRunning
<1>7. CASE k # 0 /\ Accepted(m, k)
  BY <1>1, <1>3, <1>4, <1>5, <1>7, AcceptedRunning
<1>8. CASE k # 0 /\ Connected(m, k)
  BY <1>1, <1>3, <1>5, <1>8, ConnectedRunning
<1>9. CASE k # 0 /\ Data("tcp", m, k)
  BY <1>1, <1>3, <1>5, <1>9, DataRunning
<1> QED
  BY <1>1, <1>6, <1>7, <1>8, <1>9

LEMMA UdpWriteRunning == ASSUME Program, UNCHANGED progVars, HandleUDPWrite PROVE Running'
<1>0. PICK m, k : m = Head(fromUdp) /\ k = FindConnection(m.connection)
  OBVIOUS
<1>1. /\ fromUdp # <<>> /\ (NoMatch("udp", m) \/ (k # 0 /\ Data("udp", m, k))) /\ UNCHANGED <<call, asked>>
  BY <1>0 DEF HandleUDPWrite
<1>2. WellTyped /\ NoRefusal
  BY DEF Program, Ordered
<1>3. m.error # "EINVALID_OP"
  BY <1>0, <1>1, <1>2, HeadNoRefusal
<1>4. CASE NoMatch("udp", m)
  <2>1. Alike /\ UNCHANGED answers
    BY <1>4 DEF NoMatch, Alike
  <2> QED
    BY <1>1, <2>1, AlikeRunning
<1>5. CASE k # 0 /\ Data("udp", m, k)
  <2>1. k \in Socks
    BY <1>0, <1>5, ConnectionFound
  <2> QED
    BY <1>1, <1>3, <1>5, <2>1, DataRunning
<1> QED
  BY <1>1, <1>4, <1>5

LEMMA TcpStatusRunning == ASSUME Program, UNCHANGED progVars, HandleTCPStatus PROVE Running'
<1>1. PICK m, r : m = Head(fromTcp) /\ r = Head(tcpq)
  OBVIOUS
<1>2. fromTcp # <<>> /\ tcpq # <<>> /\ UNCHANGED <<call, asked>>
  BY DEF HandleTCPStatus
<1>3. /\ WellTyped /\ SocksOK /\ NoRefusal /\ CallsOK /\ OpeningOK /\ Queue(tcpq) /\ Queue(fromTcp)
      /\ \A x \in Open(tcpq) : TcpRequestOK(x)
  BY Queues DEF Program, Ordered, WellTyped, TcpPartOK
<1>4. m.error # "EINVALID_OP"
  BY <1>1, <1>2, <1>3, HeadNoRefusal
<1>5. r \in Range(tcpq) /\ m \in Range(fromTcp)
  BY <1>1, <1>2, <1>3, QueueTail
<1>6. r.sock \in Socks
  BY <1>3, <1>5, Queues
<1>7. r.type \in Opens => m.error = "EOK"
  BY <1>2, <1>3, <1>5, ComesFromTcp DEF Told
<1>8. CASE r.type = "WRITE" /\ Message("mWRITE", r.sock, m.error) /\ SetStatus(r.sock, "CONNECTED")
  <2>1. PICK k \in Socks, e \in {m.error}, type \in {"mREAD", "mWRITE"} : k = r.sock /\ e = m.error /\ type = "mWRITE"
    BY <1>6
  <2>2. socks[k].status = "WRITE_PENDING"
    <3>1. r \in Open(tcpq)
      BY <1>5, <1>8 DEF Open
    <3> QED
      BY <1>3, <1>8, <2>1, <3>1 DEF TcpRequestOK
  <2>3. Waiting(type, k) /\ SetStatus(k, "CONNECTED") /\ Message(type, k, e) /\ e # "EINVALID_OP"
    BY <1>3, <1>4, <1>8, <2>1, <2>2 DEF CallsOK, PendingOK
  <2>4. Others(k) /\ socks'[k].status = "CONNECTED" /\ socks'[k].connection = socks[k].connection
    BY <1>3, <2>3, StatusSet
  <2> QED
    BY <1>2, <2>3, <2>4, TransferTold
<1>9. CASE UNCHANGED <<socks, answers>>
  <2>1. Alike
    BY <1>9 DEF Alike
  <2> QED
    BY <1>2, <1>9, <2>1, AlikeRunning
<1> QED
  BY <1>1, <1>7, <1>8, <1>9 DEF HandleTCPStatus, Opens

LEMMA UdpStatusRunning == ASSUME Program, UNCHANGED progVars, HandleUDPStatus PROVE Running'
<1>0. PICK m, r, status, of :
        /\ m = Head(fromUdp) /\ r = Head(udpq)
        /\ status = IF socks[r.sock].connection.dest = "any" THEN "BOUND" ELSE "CONNECTED"
        /\ of = IF r.type = "WRITE" THEN "mWRITE" ELSE IF status = "BOUND" THEN "mBIND" ELSE "mCONNECT"
  OBVIOUS
<1>1. fromUdp # <<>> /\ udpq # <<>> /\ UNCHANGED <<call, asked>>
  BY DEF HandleUDPStatus
<1>2. WellTyped /\ SocksOK /\ NoRefusal /\ UdpPartOK /\ CallsOK /\ Queue(udpq)
  BY Queues DEF Program, Ordered, WellTyped
<1>3. m.error # "EINVALID_OP"
  BY <1>0, <1>1, <1>2, HeadNoRefusal
<1>4. r.sock \in Socks /\ (r.type # "CLOSE" => UdpRequestOK(r))
  <2>1. r \in Range(udpq)
    BY <1>0, <1>1, <1>2, QueueTail
  <2> QED
    BY <1>2, <2>1, Queues DEF UdpPartOK, Open
<1>5. PICK k \in Socks, e \in {m.error} : k = r.sock /\ e = m.error
  BY <1>4
<1>6. e # "EINVALID_OP"
  BY <1>3, <1>5
<1>7. \/ r.type = "FORWARD" /\ e # "EOK" /\ Message(of, k, e) /\ CloseSocket(k)
      \/ (r.type = "WRITE" \/ (r.type = "FORWARD" /\ e = "EOK")) /\ Message(of, k, e) /\ SetStatus(k, status)
      \/ UNCHANGED <<socks, answers>>
  BY <1>0, <1>5 DEF HandleUDPStatus
<1>8. CASE r.type = "FORWARD" /\ Message(of, k, e)
           /\ ((e # "EOK" /\ CloseSocket(k)) \/ (e = "EOK" /\ SetStatus(k, status)))
  <2>1. /\ Others(k)
        /\ \/ e # "EOK" /\ socks'[k].status = "FREE"
           \/ e = "EOK" /\ socks'[k].status = status /\ socks'[k].connection = socks[k].connection
    BY <1>2, <1>8, SocketClosed, StatusSet
  <2>2. CASE of = "mBIND"
    <3>1. status = "BOUND" /\ Waiting("mBIND", k) /\ Message("mBIND", k, e)
      BY <1>0, <1>4, <1>5, <1>8, <2>2 DEF UdpRequestOK
    <3> QED
      BY <1>1, <1>6, <2>1, <3>1, BindTold
  <2>3. CASE of = "mCONNECT"
    <3>1. status = "CONNECTED" /\ Waiting("mCONNECT", k) /\ Message("mCONNECT", k, e)
      BY <1>0, <1>4, <1>5, <1>8, <2>3 DEF UdpRequestOK
    <3> QED
      BY <1>1, <1>6, <2>1, <3>1, ConnectTold
  <2> QED
    BY <1>0, <1>8, <2>2, <2>3
<1>9. CASE r.type = "WRITE" /\ Message(of, k, e) /\ SetStatus(k, status)
  <2>1. PICK type \in {"mREAD", "mWRITE"} : type = "mWRITE"
    OBVIOUS
  <2>2. socks[k].status = "WRITE_PENDING" /\ socks[k].connection.protocol = "udp"
    BY <1>4, <1>5, <1>9 DEF UdpRequestOK
  <2>3. Waiting(type, k) /\ Message(type, k, e) /\ type \notin {"none", "mSOCKET"}
    BY <1>0, <1>2, <1>9, <2>1, <2>2 DEF CallsOK, PendingOK
  <2>4. socks[k].connection.dest # "any"
    <3>1. /\ call.type = type /\ Pends /\ pc # "socket" /\ Code[pc].type = type /\ Fd = k /\ PointOK(pc, Code[pc])
      BY <2>3, Awaited
    <3>2. CASE pc \in TwoSockets
      <4>1. SocketOf(fd, {"LISTENING"}) /\ SocketOf(k, {"WRITE_PENDING"})
        BY <2>1, <3>1, <3>2 DEF Pends
      <4>2. socks[fd].connection.protocol = "tcp"
        <5>1. fd \in Socks /\ socks[fd].status = "LISTENING"
          BY <4>1 DEF SocketOf
        <5> QED
          BY <5>1 DEF Program, Ordered, SocketsOK, SockOK
      <4> QED
        BY <2>2, <4>1, <4>2 DEF SocketOf
    <3>3. CASE pc = "write"
      BY <2>1, <3>1, <3>3 DEF Pends, OneSocket, Fd, OnAccepted
    <3> QED
      BY <2>1, <3>1, <3>2, <3>3 DEF PointOK, TwoSockets, OnAccepted
  <2>5. SetStatus(k, "CONNECTED")
    BY <1>0, <1>5, <1>9, <2>4
  <2>6. Others(k) /\ socks'[k].status = "CONNECTED" /\ socks'[k].connection = socks[k].connection
    BY <1>2, <2>5, StatusSet
  <2> QED
    BY <1>1, <1>6, <2>3, <2>6, TransferTold
<1>10. CASE UNCHANGED <<socks, answers>>
  <2>1. Alike
    BY <1>10 DEF Alike
  <2> QED
    BY <1>1, <1>10, <2>1, AlikeRunning
<1> QED
  BY <1>7, <1>8, <1>9, <1>10

(* The modules below leave the sockets and the application alone.           *)
LEMMA BelowLeaves == ASSUME Below \/ Crash \/ UNCHANGED vars PROVE UNCHANGED <<socks, call, asked, answers>>
<1>1. CASE Crash \/ UNCHANGED vars
  BY <1>1 DEF Crash, vars, appVars
<1>2. CASE UdpRequest \/ TcpRequest \/ TcpTimeout
  BY <1>2 DEF UdpRequest, TcpRequest, TcpTimeout, appVars
<1>3. ASSUME NEW port, NEW peer, UdpDatagram(port, peer) \/ TcpSegment(port, peer)
      PROVE  UNCHANGED <<socks, call, asked, answers>>
  BY <1>3 DEF UdpDatagram, TcpSegment, appVars
<1>4. ASSUME NEW peer, HandleICMPWrite(peer) PROVE UNCHANGED <<socks, call, asked, answers>>
  BY <1>4 DEF HandleICMPWrite, NoMatch
<1> QED
  BY <1>1, <1>2, <1>3, <1>4 DEF Below, Segment

StackStep == SockStep \/ Below \/ Crash \/ UNCHANGED vars

LEMMA StackRunning == ASSUME Program, UNCHANGED progVars, StackStep PROVE Running'
<1>1. CASE ProcessAppRequest
  BY <1>1, RequestRunning
<1>2. CASE HandleTCPWrite \/ HandleTCPStatus
  BY <1>2, TcpWriteRunning, TcpStatusRunning
<1>3. CASE HandleUDPWrite \/ HandleUDPStatus
  BY <1>3, UdpWriteRunning, UdpStatusRunning
<1>4. CASE Below \/ Crash \/ UNCHANGED vars
  <2>1. UNCHANGED <<socks, call, asked, answers>>
    BY <1>4, BelowLeaves
  <2>2. Alike
    BY <2>1 DEF Alike
  <2> QED
    BY <2>1, <2>2, AlikeRunning
<1> QED
  BY <1>1, <1>2, <1>3, <1>4 DEF StackStep, SockStep

-----------------------------------------------------------------------------
(* Nothing is sent to TCP but by a call on a socket of TCP.                 *)
LEMMA SendsToTcp ==
  ASSUME Ordered, ProcessAppRequest
  PROVE  \/ UNCHANGED tcpVars
         \/ call.type = "mACCEPT"
         \/ /\ call.type \in {"mCONNECT", "mWRITE", "mCLOSE"}
            /\ socks[call.sock].status # "FREE" /\ socks[call.sock].connection.protocol = "tcp"
<1>1. PICK k : k = call.sock
  OBVIOUS
<1>2. CASE \/ \E type \in {"mBIND", "mLISTEN", "mACCEPT", "mCONNECT", "mREAD", "mWRITE", "mCLOSE"} : Refuse(type)
           \/ Socket \/ Bind \/ Listen \/ Read \/ Stub
  BY <1>2 DEF Refuse, Socket, Bind, NoPort, Listen, Read, Stub
<1>3. CASE Accept
  BY <1>3 DEF Accept, Take
<1>4. ASSUME NEW type \in {"mCONNECT", "mWRITE", "mCLOSE"}, Take(type), Allowed(type, k)
      PROVE  call.type = type /\ socks[k].connection \in Connections /\ socks[k].status # "FREE"
  <2>1. type \notin {"none", "mSOCKET"}
    OBVIOUS
  <2> QED
    BY <1>1, <1>4, <2>1, CalledSocket DEF Take, Allowed, SockOK
<1>5. CASE Connect
  <2>1. PICK p, c :
          /\ p = (IF socks[k].status = "UNBOUND" THEN ResolveSrcPort("any", PORT_NONE) ELSE socks[k].connection.srcport)
          /\ c = [socks[k].connection EXCEPT !.src = "me", !.srcport = p, !.dest = call.dest]
    OBVIOUS
  <2>2. /\ Take("mCONNECT") /\ Allowed("mCONNECT", k)
        /\ UNCHANGED tcpVars \/ c.protocol = "tcp"
    BY <1>1, <1>5, <2>1 DEF Connect, NoPort, SendRequest
  <2>3. call.type = "mCONNECT" /\ socks[k].connection \in Connections /\ socks[k].status # "FREE"
    BY <1>4, <2>2
  <2>4. c.protocol = socks[k].connection.protocol
    BY <2>1, <2>3 DEF Connections
  <2> QED
    BY <1>1, <2>2, <2>3, <2>4
<1>6. CASE Write \/ Close
  <2>1. /\ \/ Take("mWRITE") /\ Allowed("mWRITE", k)
           \/ Take("mCLOSE") /\ Allowed("mCLOSE", k)
        /\ UNCHANGED tcpVars \/ socks[k].connection.protocol = "tcp"
    BY <1>1, <1>6 DEF Write, Close, SendRequest
  <2> QED
    BY <1>1, <1>4, <2>1
<1> QED
  BY <1>2, <1>3, <1>5, <1>6 DEF ProcessAppRequest

LEMMA RequestQuiet == ASSUME Program, UNCHANGED progVars, ProcessAppRequest PROVE Quiet'
<1> SUFFICES ASSUME Unopened' PROVE TcpQuiet'
  BY DEF Quiet
<1>1. UNCHANGED <<prog, pc, fd, sock2>> /\ Transport' = Transport
  BY SameProgram
<1>2. PICK type : type # "none" /\ Take(type)
  BY DEF ProcessAppRequest, Refuse, Socket, Bind, Listen, Accept, Connect, Read, Write, Close, Stub, Stubs
<1>3. /\ call # Idle /\ UNCHANGED call /\ ~asked' /\ call.type = type
      /\ Fits(pc, fd, sock2) /\ Ordered /\ Called /\ PointOK(pc, Code[pc])
  BY <1>2, Requested
<1>4. Transport = "udp" \/ pc \in {"socket", "bind", "listen"}
  BY <1>1, <1>3 DEF Unopened
<1>5. TcpQuiet
  BY <1>4 DEF Program, Quiet, Unopened
<1>6. SocketsOK
  BY <1>3 DEF Ordered
<1>7. UNCHANGED tcpVars
  <2>1. CASE pc \in {"socket", "bind", "listen"}
    <3>1. call.type \in {"mSOCKET", "mBIND", "mLISTEN"}
      BY <1>3, <2>1 DEF Called, PointOK, TwoSockets, OnAccepted
    <3> QED
      BY <1>3, <3>1, SendsToTcp
  <2>2. CASE Transport = "udp" /\ pc \notin {"socket", "bind", "listen"}
    <3>1. pc \in OneSocket /\ call.type # "mACCEPT" /\ call.sock = Fd
      BY <1>3, <2>2 DEF Called, PointOK, OneSocket
    <3>2. socks[call.sock].status # "FREE" => socks[call.sock].connection.protocol = "udp"
      BY <1>3, <2>2, <3>1, AtOne
    <3> QED
      BY <1>3, <3>1, <3>2, SendsToTcp
  <2> QED
    BY <1>4, <2>1, <2>2
<1> QED
  BY <1>5, <1>7 DEF TcpQuiet, tcpVars

LEMMA StackQuiet == ASSUME Program, UNCHANGED progVars, StackStep PROVE Quiet'
<1>1. CASE ProcessAppRequest
  BY <1>1, RequestQuiet
<1>2. CASE ~ProcessAppRequest
  <2> SUFFICES ASSUME Unopened' PROVE TcpQuiet'
    BY DEF Quiet
  <2>1. UNCHANGED <<call, asked>>
    BY <1>2, BelowLeaves DEF StackStep, SockStep, HandleTCPWrite, HandleTCPStatus, HandleUDPWrite, HandleUDPStatus
  <2>2. UNCHANGED pc /\ Transport' = Transport
    BY SameProgram
  <2>3. TcpQuiet
    BY <2>1, <2>2 DEF Unopened, Program, Quiet
  <2>4. UNCHANGED tcpVars
    <3>1. CASE HandleUDPWrite \/ HandleUDPStatus
      BY <3>1 DEF HandleUDPWrite, HandleUDPStatus
    <3>2. CASE Below \/ UNCHANGED vars
      BY <2>3, <3>2, QuietBelow DEF vars
    <3> QED
      BY <1>2, <2>3, <3>1, <3>2, QuietStack DEF StackStep, SockStep
  <2> QED
    BY <2>3, <2>4 DEF TcpQuiet, tcpVars
<1> QED
  BY <1>1, <1>2

-----------------------------------------------------------------------------
(* What TCP and UDP send up.                                                *)
Accepting(queue) == \A m \in Range(queue) : m.error # "EINVALID_OP"

LEMMA AcceptingStep ==
  ASSUME NEW queue, Queue(queue), Accepting(queue)
  PROVE  /\ queue # <<>> => Accepting(Tail(queue))
         /\ \A type, c, e : e # "EINVALID_OP" => Accepting(Append(queue, Srr(type, c, e)))
<1>1. ASSUME queue # <<>> PROVE Accepting(Tail(queue))
  BY <1>1, QueueTail DEF Accepting
<1>2. ASSUME NEW type, NEW c, NEW e, e # "EINVALID_OP" PROVE Accepting(Append(queue, Srr(type, c, e)))
  <2>1. PICK x : x = Srr(type, c, e)
    OBVIOUS
  <2>2. Range(Append(queue, x)) = Range(queue) \cup {x}
    BY QueueAppend
  <2>3. x.error = e
    BY <2>1 DEF Srr
  <2> QED
    BY <1>2, <2>1, <2>2, <2>3 DEF Accepting
<1> QED
  BY <1>1, <1>2

LEMMA TcpAccepting ==
  ASSUME WellTyped, NoRefusal
  PROVE  /\ HandleTCPWrite \/ HandleTCPStatus => Accepting(fromTcp)'
         /\ TcpRequest \/ TcpTimeout \/ (\E port, peer : TcpSegment(port, peer)) => Accepting(fromTcp)'
         /\ UNCHANGED fromTcp => Accepting(fromTcp)'
<1>1. Queue(fromTcp) /\ Accepting(fromTcp)
  BY DEF WellTyped, TcpOK, Queue, Accepting, NoRefusal
<1>2. PICK queue : queue = fromTcp
  OBVIOUS
<1>3. /\ queue # <<>> => Accepting(Tail(queue))
      /\ \A type, c, e : e # "EINVALID_OP" => Accepting(Append(queue, Srr(type, c, e)))
  BY <1>1, <1>2, AcceptingStep
<1>4. /\ fromTcp # <<>> /\ fromTcp' = Tail(fromTcp) => Accepting(fromTcp')
      /\ \A type, c, e : e # "EINVALID_OP" /\ fromTcp' = Append(fromTcp, Srr(type, c, e)) => Accepting(fromTcp')
      /\ fromTcp' = fromTcp => Accepting(fromTcp')
  BY <1>1, <1>2, <1>3
<1>5. HandleTCPWrite \/ HandleTCPStatus => fromTcp # <<>> /\ fromTcp' = Tail(fromTcp)
  BY DEF HandleTCPWrite, HandleTCPStatus
<1>6. TcpRequest => Accepting(fromTcp')
  <2>1. ASSUME TcpRequest
        PROVE  fromTcp' = fromTcp \/ \E c, e : e # "EINVALID_OP" /\ TcpStatus(c, e)
    BY <2>1 DEF TcpRequest, TcpOpens, TcpHandles, TcpIgnores
  <2> QED
    BY <1>4, <2>1 DEF TcpStatus
<1>7. ASSUME NEW port, NEW peer, TcpSegment(port, peer) PROVE Accepting(fromTcp')
  <2>1. \/ fromTcp' = fromTcp
        \/ \E c : TcpStatus(c, "EOK") \/ TcpWrite(c)
    BY <1>7 DEF TcpSegment
  <2> QED
    BY <1>4, <2>1 DEF TcpStatus, TcpWrite
<1>8. TcpTimeout => Accepting(fromTcp')
  BY <1>4 DEF TcpTimeout
<1> QED
  BY <1>4, <1>5, <1>6, <1>7, <1>8

LEMMA UdpAccepting ==
  ASSUME WellTyped, NoRefusal
  PROVE  /\ HandleUDPWrite \/ HandleUDPStatus => Accepting(fromUdp)'
         /\ UdpRequest \/ (\E port, peer : UdpDatagram(port, peer)) => Accepting(fromUdp)'
         /\ UNCHANGED fromUdp => Accepting(fromUdp)'
<1>1. Queue(fromUdp) /\ Accepting(fromUdp)
  BY DEF WellTyped, UdpOK, Queue, Accepting, NoRefusal
<1>2. PICK queue : queue = fromUdp
  OBVIOUS
<1>3. /\ queue # <<>> => Accepting(Tail(queue))
      /\ \A type, c, e : e # "EINVALID_OP" => Accepting(Append(queue, Srr(type, c, e)))
  BY <1>1, <1>2, AcceptingStep
<1>4. /\ fromUdp # <<>> /\ fromUdp' = Tail(fromUdp) => Accepting(fromUdp')
      /\ \A type, c, e : e # "EINVALID_OP" /\ fromUdp' = Append(fromUdp, Srr(type, c, e)) => Accepting(fromUdp')
      /\ fromUdp' = fromUdp => Accepting(fromUdp')
  BY <1>1, <1>2, <1>3
<1>5. HandleUDPWrite \/ HandleUDPStatus => fromUdp # <<>> /\ fromUdp' = Tail(fromUdp)
  BY DEF HandleUDPWrite, HandleUDPStatus
<1>6. UdpRequest => Accepting(fromUdp')
  <2>1. ASSUME UdpRequest
        PROVE  \/ fromUdp' = fromUdp
               \/ \E c, e : e # "EINVALID_OP" /\ fromUdp' = Append(fromUdp, Srr("STATUS", c, e))
    BY <2>1 DEF UdpRequest, UdpReply
  <2> QED
    BY <1>4, <2>1
<1>7. ASSUME NEW port, NEW peer, UdpDatagram(port, peer) PROVE Accepting(fromUdp')
  <2>1. \E c : fromUdp' = Append(fromUdp, Srr("WRITE", c, "EOK"))
    BY <1>7 DEF UdpDatagram
  <2> QED
    BY <1>4, <2>1
<1> QED
  BY <1>4, <1>5, <1>6, <1>7

LEMMA RequestsSendDown == ASSUME ProcessAppRequest PROVE UNCHANGED <<fromTcp, fromUdp>>
<1>1. CASE \E type \in {"mBIND", "mLISTEN", "mACCEPT", "mCONNECT", "mREAD", "mWRITE", "mCLOSE"} : Refuse(type)
  BY <1>1 DEF Refuse, tcpVars, udpVars
<1>2. CASE Socket \/ Listen \/ Read \/ Stub
  BY <1>2 DEF Socket, Listen, Read, Stub, tcpVars, udpVars
<1>3. CASE Bind
  BY <1>3 DEF Bind, NoPort, SendUDPRequest, tcpVars, udpVars
<1>4. CASE Accept
  BY <1>4 DEF Accept, SendTCPRequest, udpVars
<1>5. CASE Connect
  BY <1>5 DEF Connect, NoPort, SendRequest, SendTCPRequest, SendUDPRequest, tcpVars, udpVars
<1>6. CASE Write \/ Close
  BY <1>6 DEF Write, Close, SendRequest, SendTCPRequest, SendUDPRequest, tcpVars, udpVars
<1> QED
  BY <1>1, <1>2, <1>3, <1>4, <1>5, <1>6 DEF ProcessAppRequest

LEMMA StackNoRefusal == ASSUME WellTyped, NoRefusal, StackStep \/ UNCHANGED <<fromTcp, fromUdp>> PROVE NoRefusal'
<1>1. CASE UNCHANGED <<fromTcp, fromUdp>>
  BY <1>1 DEF NoRefusal
<1>2. CASE ProcessAppRequest
  BY <1>1, <1>2, RequestsSendDown
<1>3. CASE HandleTCPWrite \/ HandleTCPStatus \/ TcpRequest \/ TcpTimeout \/ (\E port, peer : TcpSegment(port, peer))
  <2>1. UNCHANGED fromUdp
    BY <1>3 DEF HandleTCPWrite, HandleTCPStatus, TcpRequest, TcpTimeout, TcpSegment, udpVars
  <2> QED
    BY <1>3, <2>1, TcpAccepting, UdpAccepting DEF NoRefusal, Accepting
<1>4. CASE HandleUDPWrite \/ HandleUDPStatus \/ UdpRequest \/ (\E port, peer : UdpDatagram(port, peer))
  <2>1. UNCHANGED fromTcp
    BY <1>4 DEF HandleUDPWrite, HandleUDPStatus, UdpRequest, UdpDatagram, tcpVars
  <2> QED
    BY <1>4, <2>1, TcpAccepting, UdpAccepting DEF NoRefusal, Accepting
<1>5. CASE (\E peer \in Peers : HandleICMPWrite(peer)) \/ Crash \/ UNCHANGED vars
  <2>1. UNCHANGED <<fromTcp, fromUdp>>
    BY <1>5 DEF HandleICMPWrite, Crash, vars, tcpVars, udpVars
  <2> QED
    BY <1>1, <2>1
<1> QED
  BY <1>1, <1>2, <1>3, <1>4, <1>5 DEF StackStep, SockStep, Below, Segment
-----------------------------------------------------------------------------
(* The program calls, and returns.                                          *)
LEMMA ProgramAsks ==
  ASSUME Program, ProgramCalls
  PROVE  /\ call = Idle /\ answers = <<>> /\ asked' /\ UNCHANGED <<answers, calls, prog, pc, fd, sock2>>
         /\ UNCHANGED <<socks, ports, tcpVars, udpVars, progVars>>
         /\ pc \in DOMAIN Code /\ PointOK(pc, Code[pc]) /\ Issue(Code[pc].type) /\ Fits(pc, fd, sock2)
<1>1. UNCHANGED <<socks, ports, tcpVars, udpVars, progVars, calls>> /\ pc \notin Ends /\ Issue(Code[pc].type)
  BY DEF ProgramCalls
<1>2. UNCHANGED <<prog, pc, fd, sock2>>
  BY <1>1, SameProgram
<1>3. call = Idle /\ asked' /\ UNCHANGED answers
  BY <1>1 DEF Issue, minet_socket, minet_bind, minet_connect, minet_listen, minet_accept, minet_read, minet_write,
     minet_close, Call, MinetSend
<1>4. answers = <<>>
  BY <1>3 DEF Program, Ordered, CallsOK, PhaseOK
<1>5. pc \in DOMAIN Code /\ Fits(pc, fd, sock2)
  BY <1>1, <1>3 DEF Program, Running
<1>6. PointOK(pc, Code[pc])
  BY <1>5, Points DEF Program
<1> QED
  BY <1>1, <1>2, <1>3, <1>4, <1>5, <1>6

LEMMA ProgramCalled == ASSUME Program, ProgramCalls PROVE Called' /\ call' # Idle /\ CallOK'
<1>1. /\ UNCHANGED <<prog, pc, fd, sock2, progVars>> /\ pc \in DOMAIN Code /\ PointOK(pc, Code[pc]) /\ Issue(Code[pc].type)
      /\ Fits(pc, fd, sock2)
  BY ProgramAsks
<1>2. Code' = Code /\ Transport' = Transport /\ Fd' = Fd
  BY <1>1, SameProgram
<1>3. PICK type : type = Code[pc].type
  OBVIOUS
<1>4. CASE pc = "socket"
  <2>1. type = Transport /\ type \in {"udp", "tcp"}
    BY <1>1, <1>3, <1>4 DEF PointOK, Transport
  <2>2. call' = [type |-> "mSOCKET", sock |-> 0, protocol |-> type]
    BY <1>1, <1>3, <2>1 DEF Issue, minet_socket, MinetSend
  <2> QED
    BY <1>1, <1>2, <1>4, <2>1, <2>2 DEF Called, CallOK, Idle, Protocols
<1>5. CASE pc # "socket"
  <2>1. type \in {"mBIND", "mCONNECT", "mLISTEN", "mACCEPT", "mREAD", "mWRITE", "mCLOSE"} /\ pc \in OneSocket \cup TwoSockets
    BY <1>1, <1>3, <1>5 DEF PointOK, OneSocket, TwoSockets, OnAccepted
  <2>2. Fd \in Socks
    BY <1>1, <2>1, AtOne, AtTwo
  <2>3. call'.type = type /\ call'.sock = Fd /\ (type = "mCONNECT" => call'.dest \in Peers)
    BY <1>1, <1>3, <2>1 DEF Issue, minet_bind, minet_connect, minet_listen, minet_accept, minet_read, minet_write,
       minet_close, Call, MinetSend
  <2> QED
    BY <1>1, <1>2, <1>3, <1>5, <2>1, <2>2, <2>3 DEF Called, CallOK, Idle
<1> QED
  BY <1>4, <1>5

LEMMA ProgramCallsOrdered == ASSUME Program, ProgramCalls PROVE Ordered' /\ WellTyped' /\ Quiet'
<1>1. /\ call = Idle /\ answers = <<>> /\ asked' = TRUE /\ UNCHANGED <<answers, calls>>
      /\ UNCHANGED <<socks, ports, tcpVars, udpVars>> /\ UNCHANGED <<progVars, prog, pc>> /\ PointOK(pc, Code[pc])
  <2>1. asked' = TRUE
    BY DEF ProgramCalls, Issue, minet_socket, minet_bind, minet_connect, minet_listen, minet_accept, minet_read,
       minet_write, minet_close, Call, MinetSend
  <2> QED
    BY <2>1, ProgramAsks
<1>2. call' # Idle /\ CallOK' /\ Called'
  BY ProgramCalled
<1>3. Ordered /\ WellTyped
  BY DEF Program, Ordered
<1>4. WellTyped'
  BY <1>1, <1>2, <1>3, TcpUnchanged, UdpUnchanged DEF WellTyped, SocksOK
<1>5. Code' = Code /\ Transport' = Transport
  BY <1>1, SameProgram
<1>6. /\ call'.type # "none"
      /\ call'.type \in {"mACCEPT", "mCONNECT"} => pc \in {"accept", "connect"}
  BY <1>1, <1>2, <1>5 DEF Called, PointOK, Transport
<1>7. TcpQuiet => TcpQuiet'
  BY <1>1 DEF TcpQuiet, tcpVars
<1>8. pc \in {"accept", "connect"} => TcpQuiet
  BY <1>1 DEF Program, Quiet, Unopened
<1>9. BeforeOpening'
  BY <1>6, <1>7, <1>8 DEF BeforeOpening
<1>10. TablesOK'
  BY <1>1, <1>3 DEF Ordered, TablesOK
<1>11. Quiet'
  BY <1>1, <1>5, <1>7 DEF Program, Quiet, Unopened
<1> QED
  BY <1>1, <1>3, <1>4, <1>6, <1>9, <1>10, <1>11, AskOrdered

LEMMA ProgramCallsRunning == ASSUME Program, ProgramCalls PROVE Running'
<1>1. /\ answers' = <<>> /\ asked' /\ UNCHANGED <<socks, progVars, prog, pc, fd, sock2>> /\ pc \in DOMAIN Code
      /\ Fits(pc, fd, sock2)
  BY ProgramAsks
<1>2. Code' = Code
  BY <1>1, SameProgram
<1>3. Alike
  BY <1>1 DEF Alike
<1>4. Fits(pc, fd, sock2)'
  BY <1>1, <1>3, AlikeFits
<1> QED
  BY <1>1, <1>2, <1>4, ProgramCalled DEF Running

LEMMA ProgramReturnsRunning == ASSUME Program, ProgramReturns, Ordered' PROVE Running' /\ Quiet'
<1>1. PICK a, ok : a = answers[1] /\ ok = (a.error = "EOK")
  OBVIOUS
<1>2. AppReturns /\ UNCHANGED <<prog, socks>> /\ answers # <<>> /\ call' = Idle
  BY DEF ProgramReturns, AppReturns, MinetReceive
<1>3. answers' = <<>> /\ ~asked'
  BY <1>2 DEF Ordered, CallsOK, PhaseOK
<1>4. call # Idle /\ AnswerFits(a)
  BY <1>1, <1>2 DEF Program, Running
<1>5. Head(answers) = a
  <2>1. answers = <<answers[1]>>
    BY <1>2 DEF Program, Ordered, CallsOK, PhaseOK
  <2>2. \A x : Head(<<x>>) = x
    OBVIOUS
  <2> QED
    BY <1>1, <2>1, <2>2
<1>6. PICK p, f, s :
        /\ p = pc' /\ f = fd' /\ s = sock2'
        /\ p \in (IF ok THEN Code[pc].ok ELSE Code[pc].fail)
        /\ f = IF pc = "socket" THEN a.sock ELSE fd
        /\ s = IF pc = "accept" /\ ok THEN a.sock ELSE sock2
  BY <1>1, <1>5 DEF ProgramReturns
<1>7. Fits(p, f, s)
  BY <1>1, <1>4, <1>6 DEF AnswerFits
<1>8. p \in DOMAIN Code \cup Ends
  BY <1>4, <1>6, AtPoint
<1>9. Code' = Code /\ Transport' = Transport /\ InUse' = InUse
  BY <1>2 DEF Code, Transport, InUse
<1>10. Resting(p)' = Resting(p)
  BY <1>2 DEF Resting
<1>11. \A k, statuses : SocketOf(k, statuses)' <=> SocketOf(k, statuses)
  BY <1>2, <1>9 DEF SocketOf
<1>12. Fits(p, f, s)'
  BY <1>2, <1>7, <1>9, <1>10, <1>11 DEF Fits
<1>13. Fits(pc, fd, sock2)'
  BY <1>6, <1>12
<1>14. Running'
  BY <1>2, <1>3, <1>6, <1>8, <1>9, <1>13 DEF Running
<1>15. TcpQuiet => TcpQuiet'
  BY <1>2 DEF AppReturns, TcpQuiet, tcpVars
<1>16. Unopened' => Unopened
  <2> SUFFICES ASSUME p \in {"socket", "bind", "listen", "accept", "connect"} PROVE Unopened
    BY <1>6, <1>9 DEF Unopened
  <2>1. PointOK(pc, Code[pc])
    BY <1>4, AtPoint
  <2> QED
    BY <1>6, <2>1 DEF PointOK, TwoSockets, Unopened
<1> QED
  BY <1>14, <1>15, <1>16 DEF Program, Quiet

-----------------------------------------------------------------------------
(* A program and the stack: what holds of both.                             *)
AppInv == Ordered /\ UdpQueueOK /\ NoRefusal /\ alive \in BOOLEAN /\ InProgram

LEMMA AppInitInv == AppInit => AppInv
<1> SUFFICES ASSUME AppInit PROVE AppInv
  OBVIOUS
<1>1. Ordered /\ TcpQuiet /\ UdpQueueOK
  BY InitOrdered, InitQueue DEF AppInit
<1>2. NoRefusal /\ alive \in BOOLEAN
  BY QueueLiterals DEF AppInit, Init, NoRefusal
<1>3. CASE prog # "any"
  <2>1. pc = "socket" /\ prog \in Programs /\ call = Idle /\ answers = <<>>
    BY DEF AppInit, Init
  <2>2. "socket" \in DOMAIN Code
    BY <1>3, <2>1, ProgramsAssumption DEF Code, udp_server, udp_client, tcp_server, tcp_client, http_client,
       http_server1, icmp_app
  <2>3. InUse = {}
    BY DEF AppInit, Init, InUse, SockRecord
  <2>4. Fits(pc, fd, sock2)
    BY <2>1, <2>3 DEF Fits, OneSocket, TwoSockets
  <2>5. Running
    BY <2>1, <2>2, <2>4 DEF Running
  <2> QED
    BY <1>1, <1>2, <1>3, <2>1, <2>5 DEF AppInv, InProgram, Quiet
<1>4. CASE prog = "any"
  <2>1. \A k \in Socks : socks[k].connection.protocol # "tcp"
    BY DEF AppInit, Init, SockRecord, NoConnection
  <2>2. pc = "socket" /\ call.type # "mSOCKET"
    BY DEF AppInit, Init, Idle
  <2> QED
    BY <1>1, <1>2, <1>4, <2>1, <2>2 DEF AppInv, InProgram, UdpOnly
<1> QED
  BY <1>3, <1>4

LEMMA AppStackStep ==
  ASSUME AppInv, "http_server1" \notin Programs, StackStep, UNCHANGED progVars
  PROVE  Ordered' /\ UdpQueueOK' /\ NoRefusal' /\ InProgram'
<1>1. Ordered /\ WellTyped /\ UdpQueueOK /\ NoRefusal /\ InProgram
  BY DEF AppInv, Ordered
<1>2. WellTyped'
  BY <1>1, StackTyped, TypesUnchanged DEF StackStep
<1>3. Ordered'
  BY <1>1, <1>2, StackOrdered DEF StackStep
<1>4. UdpQueueOK'
  <2>1. CASE UNCHANGED vars
    BY <1>1, <2>1, QueueSame DEF vars, udpVars
  <2> QED
    BY <1>1, <1>2, <2>1, StackQueued DEF StackStep
<1>5. NoRefusal'
  BY <1>1, StackNoRefusal
<1>6. UNCHANGED <<prog, pc>>
  BY SameProgram
<1>7. CASE prog # "any"
  <2>1. Program
    BY <1>1, <1>7 DEF Program, InProgram
  <2>2. Running' /\ Quiet'
    BY <2>1, StackRunning, StackQuiet
  <2> QED
    BY <1>1, <1>3, <1>4, <1>5, <1>6, <1>7, <2>2 DEF InProgram
<1>8. CASE prog = "any"
  <2>1. UdpOnly'
    BY <1>1, <1>8, UdpOnlyStack DEF InProgram, StackStep
  <2> QED
    BY <1>1, <1>3, <1>4, <1>5, <1>6, <1>8, <2>1 DEF InProgram
<1> QED
  BY <1>7, <1>8

LEMMA AppStep ==
  ASSUME AppProtocols = {"udp"}, "http_server1" \notin Programs, AppInv, [AppNext]_<<vars, progVars>>
  PROVE  AppInv'
<1>1. Ordered /\ WellTyped /\ UdpQueueOK /\ NoRefusal /\ InProgram
  BY DEF AppInv, Ordered
<1>2. prog # "any" => Program
  BY <1>1 DEF Program, InProgram
<1>3. alive' \in BOOLEAN
  BY DEF AppInv, AppNext, Stack, Runs, Crash, vars
<1>4. CASE ProgramCalls
  <2>1. prog # "any" /\ UNCHANGED <<prog, tcpVars, udpVars>>
    BY <1>4 DEF ProgramCalls, progVars
  <2>2. Ordered' /\ Running' /\ Quiet'
    BY <1>2, <1>4, <2>1, ProgramCallsOrdered, ProgramCallsRunning
  <2>3. NoRefusal' /\ UdpQueueOK'
    BY <1>1, <2>1, StackNoRefusal, QueueSame DEF tcpVars, udpVars
  <2> QED
    BY <1>1, <1>3, <2>1, <2>2, <2>3 DEF AppInv, InProgram
<1>5. CASE ProgramReturns
  <2>1. prog # "any" /\ UNCHANGED <<prog, tcpVars, udpVars>> /\ AppReturns
    BY <1>5 DEF ProgramReturns, AppReturns
  <2>2. WellTyped'
    BY <1>1, <2>1, AppTyped
  <2>3. Ordered'
    BY <1>1, <2>1, <2>2, ReturnOrdered
  <2>4. Running' /\ Quiet'
    BY <1>2, <1>5, <2>1, <2>3, ProgramReturnsRunning
  <2>5. NoRefusal' /\ UdpQueueOK'
    BY <1>1, <2>1, StackNoRefusal, QueueSame DEF tcpVars, udpVars
  <2> QED
    BY <1>1, <1>3, <2>1, <2>3, <2>4, <2>5 DEF AppInv, InProgram
<1>6. CASE StackStep /\ UNCHANGED progVars
  BY <1>3, <1>6, AppStackStep DEF AppInv
<1>7. CASE prog = "any" /\ (AppCalls \/ AppReturns) /\ UNCHANGED progVars
  <2>1. UdpOnly /\ UNCHANGED <<tcpVars, udpVars>>
    BY <1>1, <1>7 DEF InProgram, AppCalls, AppReturns
  <2>2. WellTyped'
    BY <1>1, <1>7, AppTyped
  <2>3. Ordered' /\ UdpOnly'
    BY <1>1, <1>7, <2>1, <2>2, UdpCalls
  <2>4. NoRefusal' /\ UdpQueueOK'
    BY <1>1, <2>1, StackNoRefusal, QueueSame DEF tcpVars, udpVars
  <2>5. prog' = "any" /\ pc' = "socket"
    BY <1>1, <1>7 DEF InProgram, progVars
  <2> QED
    BY <1>3, <2>3, <2>4, <2>5 DEF AppInv, InProgram
<1> QED
  BY <1>4, <1>5, <1>6, <1>7 DEF AppNext, Stack, Runs, StackStep

LEMMA AppSpecInv == ASSUME AppProtocols = {"udp"}, "http_server1" \notin Programs PROVE AppSpec => []AppInv
<1>1. AppInv /\ [AppNext]_<<vars, progVars>> => AppInv'
  BY AppStep
<1> QED
  BY <1>1, AppInitInv, PTL DEF AppSpec

(* Over TCP as tcp_module.cc has it, with every segment that may come, and  *)
(* over UDP, what the runs check of the socket module holds under           *)
(* udp_server, udp_client, tcp_server, tcp_client, http_client and          *)
(* icmp_app, and under an application that calls anything on UDP, however   *)
(* many calls they make: tables of their types, the n-th STATUS of UDP for  *)
(* the n-th request, one answer to each call and no other, no call          *)
(* forgotten.  http_server1, the only one that opens a connection after it  *)
(* has closed one, is left to the run.                                      *)
THEOREM ProgramsAnswered ==
  ASSUME AppProtocols = {"udp"}, "http_server1" \notin Programs
  PROVE  AppSpec => [](TypeOK /\ StatusInOrder /\ AnswersTheCall /\ CallNotForgotten)
<1>1. AppInv => TypeOK /\ StatusInOrder /\ AnswersTheCall /\ CallNotForgotten
  BY OrderedTypes, QueueInOrder DEF AppInv, Ordered, CallsOK
<1> QED
  BY <1>1, AppSpecInv, PTL

(* udp_server, udp_client, tcp_server, tcp_client, http_client and icmp_app *)
(* make no call that the state of their socket forbids (sock_module.cc      *)
(* 664-1030), whatever comes from the network, but for the close of a       *)
(* socket that a failed connect has closed (tcp_client.cc 85,               *)
(* http_client.cc 85).                                                      *)
THEOREM CallsNotRefused ==
  ASSUME AppProtocols = {"udp"}, "http_server1" \notin Programs
  PROVE  AppSpec => []NotRefused
<1>1. AppInv => NotRefused
  <2> SUFFICES ASSUME AppInv, prog # "any", answers # <<>>, answers[1].error = "EINVALID_OP"
               PROVE  pc \in {"close", "file"}
    BY DEF NotRefused
  <2> QED
    BY DEF AppInv, InProgram, Running, AnswerFits
<1> QED
  BY <1>1, AppSpecInv, PTL

(* A program that has returned from main has closed its sockets, and        *)
(* tcp_server has none open but the one it accepts on when it calls accept: *)
(* none leaks whatever fails in between and whatever TCP leaves unanswered. *)
THEOREM SocketsClosed ==
  ASSUME AppProtocols = {"udp"}, "http_server1" \notin Programs
  PROVE  AppSpec => []NoSocketLeft
<1>1. AppInv => NoSocketLeft
  <2> SUFFICES ASSUME AppInv PROVE NoSocketLeft
    OBVIOUS
  <2>1. CASE prog # "any"
    <3>1. Program
      BY <2>1 DEF AppInv, InProgram, Program
    <3>2. ASSUME pc = "done" PROVE InUse = {}
      <4>1. call = Idle
        <5>1. call # Idle => PointOK(pc, Code[pc])
          BY <3>1, AtPoint
        <5> QED
          BY <3>2, <5>1 DEF PointOK, TwoSockets, OnAccepted
      <4> QED
        BY <3>1, <3>2, <4>1 DEF Program, Running, Fits
    <3>3. ASSUME pc = "accept", call = Idle PROVE InUse = {fd}
      <4>1. Fits(pc, fd, sock2)
        BY <3>1, <3>3 DEF Program, Running
      <4>2. fd \in Socks /\ socks[fd].status = "LISTENING" /\ InUse \subseteq {fd}
        BY <3>3, <4>1, AtOne DEF OneSocket, Resting
      <4> QED
        BY <4>2 DEF InUse
    <3> QED
      BY <3>2, <3>3 DEF NoSocketLeft
  <2>2. CASE prog = "any"
    BY <2>2 DEF AppInv, InProgram, NoSocketLeft
  <2> QED
    BY <2>1, <2>2
<1> QED
  BY <1>1, AppSpecInv, PTL
=============================================================================
