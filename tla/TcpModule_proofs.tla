-------------------------- MODULE TcpModule_proofs -------------------------
(***************************************************************************)
(* Proofs about TcpModule, for all sizes, tries and bounds, with every     *)
(* order, loss and repetition of packets.                                  *)
(***************************************************************************)
EXTENDS TcpModule, TLAPS

(* What every connection in a clist has. *)
Sound(c) ==
  /\ c \in Connections
  /\ c.last_acked <= c.last_sent
  /\ c.tmr => c.st \notin {"none", "LISTEN", "SYN_SENT"}

(* What does not concern the connections. *)
RestOK ==
  /\ net \subseteq Packets
  /\ delivered \in [Hosts -> SUBSET net]
  /\ \A h \in Hosts : \A p \in delivered[h] : p.to = h
  /\ opens \in [Hosts -> 0 .. MaxOpens]
  /\ owed \in [Hosts -> -MaxOwed .. MaxOwed]

ConnOK == conn \in [Hosts -> Connections] /\ \A h \in Hosts : Sound(conn[h])
Inv == ConnOK /\ RestOK

(* A packet that createPacket makes has the type of a packet. *)
LEMMA PacketType ==
  ASSUME NEW h \in Hosts, NEW c \in Connections, NEW header, NEW len \in {0, 4}, NEW pos \in Nat
  PROVE  Packet(h, c, header, len, pos) \in Packets
<1>1. Peer(h) \in Hosts
  BY DEF Peer, Hosts
<1>2. FlagsOf(header) \in SUBSET {"SYN", "ACK", "PSH", "FIN", "RST"}
  BY DEF FlagsOf
<1>3. c.last_acked + 1 \in Nat /\ c.last_recvd \in Nat
  BY DEF Connections
<1> QED
  BY <1>1, <1>2, <1>3 DEF Packet, Packets

LEMMA ControlType ==
  ASSUME NEW h \in Hosts, NEW c \in Connections, NEW header
  PROVE  Control(h, c, header) \subseteq Packets
BY PacketType DEF Control

(* SetLastAcked keeps a connection sound, whatever is acknowledged. *)
LEMMA SetLastAckedSound ==
  ASSUME NEW c, Sound(c), NEW newack \in Nat
  PROVE  Sound(SetLastAcked(c, newack)) /\ SetLastAcked(c, newack).st = c.st
<1>1. CASE Acknowledges(c, newack)
  <2>1. newack > c.last_acked /\ newack <= c.last_sent + 1
    BY <1>1 DEF Acknowledges, Sound, Connections
  <2>2. newack - 1 \in Nat /\ newack - 1 <= c.last_sent
    BY <2>1 DEF Sound, Connections
  <2> QED
    BY <1>1, <2>2 DEF SetLastAcked, Sound, Connections
<1>2. CASE ~Acknowledges(c, newack)
  BY <1>2 DEF SetLastAcked
<1> QED
  BY <1>1, <1>2

(* A new connection is sound. *)
LEMMA NewSound ==
  ASSUME NEW st \in {"none", "LISTEN", "SYN_SENT"}, NEW bound \in BOOLEAN
  PROVE  Sound(NewConnection(st, bound))
BY BoundsAssumption DEF NewConnection, Sound, Connections, States

(* One more sequence number used, and a state that may have a timer. *)
LEMMA LongerSound ==
  ASSUME NEW c, Sound(c), NEW st \in {"SYN_RCVD", "FIN_WAIT1"}
  PROVE  Sound([c EXCEPT !.st = st, !.last_sent = @ + 1])
<1>1. c.last_sent + 1 \in Nat \ {0} /\ c.last_acked <= c.last_sent + 1
  BY DEF Sound, Connections
<1>2. ASSUME NEW n \in Nat \ {0}, c.last_acked <= n
      PROVE  Sound([c EXCEPT !.st = st, !.last_sent = n])
  BY <1>2 DEF Sound, Connections, States
<1> QED
  BY <1>1, <1>2

(* A connection whose SYN is answered. *)
LEMMA AnsweredSound ==
  ASSUME NEW c, Sound(c), NEW n \in Nat
  PROVE  Sound([c EXCEPT !.st = "SYN_RCVD", !.last_acked = c.last_sent - 1,
                         !.last_recvd = n, !.tmr = TRUE, !.bound = TRUE])
<1>1. c.last_sent - 1 \in Nat /\ c.last_sent - 1 <= c.last_sent
  BY DEF Sound, Connections
<1>2. ASSUME NEW k \in Nat, k <= c.last_sent
      PROVE  Sound([c EXCEPT !.st = "SYN_RCVD", !.last_acked = k,
                             !.last_recvd = n, !.tmr = TRUE, !.bound = TRUE])
  BY <1>2 DEF Sound, Connections, States
<1> QED
  BY <1>1, <1>2

(* The two halves of a step: the connection, and the rest. *)
LEMMA UpdateKeeps ==
  ASSUME ConnOK, NEW h \in Hosts, NEW c, Sound(c), Update(h, c)
  PROVE  ConnOK'
BY DEF ConnOK, Update, Sound

LEMMA SendKeeps ==
  ASSUME RestOK, NEW packets, packets \subseteq Packets, Send(packets),
         UNCHANGED delivered, opens' \in [Hosts -> 0 .. MaxOpens],
         owed' \in [Hosts -> -MaxOwed .. MaxOwed]
  PROVE  RestOK'
BY DEF RestOK, Send

LEMMA UnansweredType ==
  ASSUME RestOK, NEW h \in Hosts, Unanswered(h)
  PROVE  owed' \in [Hosts -> -MaxOwed .. MaxOwed]
BY BoundsAssumption DEF RestOK, Unanswered

LEMMA StatusType ==
  ASSUME RestOK, NEW h \in Hosts, owed[h] > -MaxOwed, owed' = [owed EXCEPT ![h] = @ - 1]
  PROVE  owed' \in [Hosts -> -MaxOwed .. MaxOwed]
BY BoundsAssumption DEF RestOK

LEMMA OpensType ==
  ASSUME RestOK, NEW h \in Hosts, Opens(h)
  PROVE  opens' \in [Hosts -> 0 .. MaxOpens]
BY BoundsAssumption DEF RestOK, Opens

-----------------------------------------------------------------------------
(* handle_sock keeps the invariant: one step for each kind of request. *)
LEMMA RequestKeeps ==
  ASSUME Inv, NEW h \in Hosts, Request(h)
  PROVE  Inv'
<1>1. ConnOK /\ RestOK /\ Sound(conn[h]) /\ conn[h] \in Connections
  BY DEF Inv, ConnOK, Sound
<1>2. CASE Connect(h)
  <2> DEFINE c == NewConnection("SYN_SENT", TRUE)
  <2>1. Sound(c) /\ Sound([c EXCEPT !.last_sent = 2])
    <3>1. Sound(c) /\ c.last_acked = 1
      BY NewSound DEF NewConnection
    <3> HIDE DEF c
    <3> QED
      BY <3>1 DEF Sound, Connections
  <2>2. Control(h, c, 1) \subseteq Packets
    BY <2>1, ControlType DEF Sound
  <2>3. ConnOK'
    BY <1>1, <1>2, <2>1, UpdateKeeps DEF Connect
  <2>4. owed' \in [Hosts -> -MaxOwed .. MaxOwed]
    BY <1>1, <1>2 DEF Connect, Answered, RestOK
  <2>5. RestOK'
    BY <1>1, <1>2, <2>2, <2>4, OpensType, SendKeeps DEF Connect
  <2> QED
    BY <2>3, <2>5 DEF Inv
<1>3. CASE Accept(h)
  <2>1. ConnOK'
    BY <1>1, <1>3, NewSound, UpdateKeeps DEF Accept
  <2>2. RestOK'
    BY <1>1, <1>3, OpensType, UnansweredType DEF Accept, RestOK
  <2> QED
    BY <2>1, <2>2 DEF Inv
<1>4. CASE RequestWhileListening(h)
  <2>1. Sound([conn[h] EXCEPT !.st = "SYN_SENT"])
    BY <1>1, <1>4 DEF RequestWhileListening, Sound, Connections, States
  <2>2. ConnOK'
    BY <1>1, <1>4, <2>1, UpdateKeeps DEF RequestWhileListening
  <2>3. opens' \in [Hosts -> 0 .. MaxOpens] /\ UNCHANGED delivered
    BY <1>1, <1>4 DEF RequestWhileListening, RestOK
  <2>4. RestOK'
    BY <1>1, <1>4, <2>3, ControlType, UnansweredType, SendKeeps DEF RequestWhileListening
  <2> QED
    BY <2>2, <2>4 DEF Inv
<1>5. CASE RequestIgnored(h) \/ CloseIgnored(h)
  <2>1. ConnOK'
    BY <1>1, <1>5 DEF RequestIgnored, CloseIgnored, ConnOK, Sound
  <2>2. RestOK'
    BY <1>1, <1>5, UnansweredType DEF RequestIgnored, CloseIgnored, RestOK
  <2> QED
    BY <2>1, <2>2 DEF Inv
<1>6. ASSUME NEW n \in WriteSizes, Write(h, n)
      PROVE  Inv'
  <2> DEFINE c == conn[h]
             segments == Segments(h, c, n)
  <2>1. n \in Nat \ {0} /\ c.last_sent \in Nat \ {0}
    BY <1>1, SizesAssumption DEF Connections
  <2>2. Sound([c EXCEPT !.last_sent = @ + n])
    BY <1>1, <2>1 DEF Sound, Connections
  <2>3. segments \subseteq Packets
    <3>1. ASSUME NEW start \in Starts(n)
          PROVE  Packet(h, c, SegmentSize(n, start), 4, c.last_sent + 1 + start) \in Packets
      <4>1. c.last_sent + 1 + start \in Nat
        BY <2>1 DEF Starts
      <4> QED
        BY <1>1, <4>1, PacketType
    <3> QED
      BY <3>1 DEF Segments
  <2>4. ConnOK'
    BY <1>1, <1>6, <2>2, UpdateKeeps DEF Write
  <2>5. Send(segments) /\ UNCHANGED <<delivered, opens, owed>>
    BY <1>6 DEF Write, Answered
  <2>6. RestOK'
    BY <1>1, <2>3, <2>5, SendKeeps DEF RestOK
  <2> QED
    BY <2>4, <2>6 DEF Inv
<1>7. CASE CloseActive(h)
  <2>1. Sound([conn[h] EXCEPT !.st = "FIN_WAIT1", !.last_sent = @ + 1])
    BY <1>1, LongerSound
  <2>2. ConnOK'
    BY <1>1, <1>7, <2>1, UpdateKeeps DEF CloseActive
  <2>3. opens' \in [Hosts -> 0 .. MaxOpens] /\ UNCHANGED delivered
    BY <1>1, <1>7 DEF CloseActive, RestOK
  <2>4. RestOK'
    BY <1>1, <1>7, <2>3, ControlType, UnansweredType, SendKeeps DEF CloseActive
  <2> QED
    BY <2>2, <2>4 DEF Inv
<1>8. CASE CloseConnecting(h) \/ CloseClosing(h)
  <2>1. ConnOK'
    BY <1>1, <1>8, NewSound, UpdateKeeps DEF CloseConnecting, CloseClosing, Erased
  <2>2. RestOK'
    BY <1>1, <1>8, UnansweredType DEF CloseConnecting, CloseClosing, Answered, RestOK
  <2> QED
    BY <2>1, <2>2 DEF Inv
<1> QED
  BY <1>2, <1>3, <1>4, <1>5, <1>6, <1>7, <1>8 DEF Request

(* handle_timeout keeps the invariant. *)
LEMMA TimeoutKeeps ==
  ASSUME Inv, NEW h \in Hosts, Timeout(h)
  PROVE  Inv'
<1>1. ConnOK /\ RestOK /\ Sound(conn[h]) /\ conn[h] \in Connections
  BY DEF Inv, ConnOK, Sound
<1>2. CASE ResendSynAck(h)
  <2>1. Sound([conn[h] EXCEPT !.tries = @ - 1])
    BY <1>1, <1>2 DEF ResendSynAck, Sound, Connections
  <2>2. ConnOK'
    BY <1>1, <1>2, <2>1, UpdateKeeps DEF ResendSynAck
  <2>3. RestOK'
    <3>1. Send(Control(h, conn[h], 3)) /\ UNCHANGED <<delivered, opens, owed>>
      BY <1>2 DEF ResendSynAck
    <3>2. opens' \in [Hosts -> 0 .. MaxOpens] /\ owed' \in [Hosts -> -MaxOwed .. MaxOwed]
      BY <1>1, <3>1 DEF RestOK
    <3> QED
      BY <1>1, <3>1, <3>2, ControlType, SendKeeps
  <2> QED
    BY <2>2, <2>3 DEF Inv
<1>3. CASE GiveUpSynAck(h) \/ StopTimer(h)
  <2>1. Sound([conn[h] EXCEPT !.tmr = FALSE, !.st = "LISTEN"]) /\ Sound([conn[h] EXCEPT !.tmr = FALSE])
    BY <1>1 DEF Sound, Connections, States
  <2>2. ConnOK'
    BY <1>1, <1>3, <2>1, UpdateKeeps DEF GiveUpSynAck, StopTimer
  <2>3. RestOK'
    BY <1>1, <1>3 DEF GiveUpSynAck, StopTimer, RestOK
  <2> QED
    BY <2>2, <2>3 DEF Inv
<1> QED
  BY <1>2, <1>3 DEF Timeout

(* handle_mux keeps the invariant: one step for each state and kind of packet. *)
LEMMA ReceiveKeeps ==
  ASSUME Inv, NEW h \in Hosts, NEW p \in net, p.to = h, Receive(h, p)
  PROVE  Inv'
<1>1. /\ ConnOK /\ RestOK /\ Sound(conn[h]) /\ conn[h] \in Connections
      /\ opens \in [Hosts -> 0 .. MaxOpens] /\ owed \in [Hosts -> -MaxOwed .. MaxOwed]
  BY DEF Inv, ConnOK, RestOK, Sound
<1>2. p.seq \in Nat /\ p.ack \in Nat /\ p.len \in Nat
  BY <1>1 DEF RestOK, Packets
<1>3. CASE ReceiveSyn(h, p)
  <2> DEFINE c == [conn[h] EXCEPT !.st = "SYN_RCVD", !.last_acked = conn[h].last_sent - 1,
                             !.last_recvd = p.seq + 1, !.tmr = TRUE, !.bound = TRUE]
  <2>1. Sound(c)
    <3>1. p.seq + 1 \in Nat
      BY <1>2
    <3> QED
      BY <1>1, <3>1, AnsweredSound
  <2>2. c \in Connections
    BY <2>1 DEF Sound
  <2>3. ConnOK'
    BY <1>1, <1>3, <2>1, UpdateKeeps DEF ReceiveSyn
  <2>4. owed' \in [Hosts -> -MaxOwed .. MaxOwed] /\ UNCHANGED <<delivered, opens>>
    BY <1>1, <1>3, StatusType DEF ReceiveSyn
  <2>5. RestOK'
    BY <1>1, <1>3, <2>2, <2>4, ControlType, SendKeeps DEF ReceiveSyn
  <2> QED
    BY <2>3, <2>5 DEF Inv
<1>4. CASE ReceiveFinListening(h, p) \/ RefuseData(h, p)
  <2>1. Control(h, conn[h], 6) \subseteq Packets /\ Control(h, conn[h], 2) \subseteq Packets
    BY <1>1, ControlType
  <2>2. UNCHANGED <<conn, delivered, opens, owed>>
    BY <1>4 DEF ReceiveFinListening, RefuseData
  <2>3. ConnOK'
    BY <1>1, <2>2 DEF ConnOK, Sound
  <2>4. RestOK'
    BY <1>1, <1>4, <2>1, <2>2, SendKeeps DEF ReceiveFinListening, RefuseData
  <2> QED
    BY <2>3, <2>4 DEF Inv
<1>5. CASE ReceiveAckOfSyn(h, p)
  <2>1. Sound([conn[h] EXCEPT !.st = "ESTABLISHED"])
    BY <1>1 DEF Sound, Connections, States
  <2>2. ConnOK'
    BY <1>1, <1>2, <1>5, <2>1, SetLastAckedSound, UpdateKeeps DEF ReceiveAckOfSyn
  <2>3. RestOK'
    BY <1>1, <1>5 DEF ReceiveAckOfSyn, RestOK
  <2> QED
    BY <2>2, <2>3 DEF Inv
<1>6. CASE ReceiveSynAck(h, p)
  <2> DEFINE r == [conn[h] EXCEPT !.last_recvd = p.seq + 1]
             c == SetLastAcked(r, p.ack)
  <2>1. Sound(r)
    BY <1>1, <1>2 DEF Sound, Connections
  <2>2. Sound(c) /\ c.st = "SYN_SENT" /\ c \in Connections
    BY <1>2, <1>6, <2>1, SetLastAckedSound DEF Sound, ReceiveSynAck, Connections
  <2>3. Sound([c EXCEPT !.st = "ESTABLISHED"])
    BY <2>2 DEF Sound, Connections, States
  <2>4. Update(h, [c EXCEPT !.st = "ESTABLISHED"]) /\ Send(Control(h, c, 2)) /\ UNCHANGED <<delivered, opens, owed>>
    BY <1>6 DEF ReceiveSynAck
  <2>5. ConnOK'
    BY <1>1, <2>3, <2>4, UpdateKeeps
  <2>6. RestOK'
    BY <1>1, <2>2, <2>4, ControlType, SendKeeps
  <2> QED
    BY <2>5, <2>6 DEF Inv
<1>7. CASE ReceiveSynCrossing(h, p)
  <2> DEFINE c == [conn[h] EXCEPT !.last_recvd = p.seq]
  <2>1. Sound(c) /\ c \in Connections
    BY <1>1, <1>2 DEF Sound, Connections
  <2>2. Sound([c EXCEPT !.st = "SYN_RCVD", !.last_sent = @ + 1])
    BY <2>1, LongerSound
  <2>3. /\ Update(h, [c EXCEPT !.st = "SYN_RCVD", !.last_sent = @ + 1])
        /\ Send(Control(h, c, 2)) /\ UNCHANGED <<delivered, opens, owed>>
    BY <1>7 DEF ReceiveSynCrossing
  <2>4. ConnOK'
    BY <1>1, <2>2, <2>3, UpdateKeeps
  <2>5. RestOK'
    BY <1>1, <2>1, <2>3, ControlType, SendKeeps
  <2> QED
    BY <2>4, <2>5 DEF Inv
<1>8. CASE ReceiveFinConnecting(h, p)
  <2> DEFINE c == [conn[h] EXCEPT !.last_recvd = p.seq + 1]
  <2>1. c \in Connections
    BY <1>1, <1>2 DEF Connections
  <2>2. ConnOK'
    BY <1>1, <1>8, NewSound, UpdateKeeps DEF ReceiveFinConnecting, Erased
  <2>3. owed' \in [Hosts -> -MaxOwed .. MaxOwed] /\ UNCHANGED <<delivered, opens>>
    BY <1>1, <1>8, StatusType DEF ReceiveFinConnecting
  <2>4. RestOK'
    BY <1>1, <1>8, <2>1, <2>3, ControlType, SendKeeps DEF ReceiveFinConnecting
  <2> QED
    BY <2>2, <2>4 DEF Inv
<1>9. CASE ReceiveData(h, p)
  <2> DEFINE r == [conn[h] EXCEPT !.last_recvd = p.seq + p.len]
             c == SetLastAcked(r, p.ack)
  <2>1. Sound(r)
    BY <1>1, <1>2 DEF Sound, Connections
  <2>2. Sound(c) /\ c \in Connections
    BY <1>2, <2>1, SetLastAckedSound DEF Sound
  <2>3. /\ Update(h, c) /\ Send(Control(h, c, 2)) /\ UNCHANGED <<opens, owed>>
        /\ delivered' = [delivered EXCEPT ![h] = @ \cup {p}]
    BY <1>9 DEF ReceiveData
  <2>4. ConnOK'
    BY <1>1, <2>2, <2>3, UpdateKeeps
  <2>5. RestOK'
    <3>1. net' \subseteq Packets /\ net \subseteq net'
      BY <1>1, <2>2, <2>3, ControlType DEF Send, RestOK
    <3>2. delivered' \in [Hosts -> SUBSET net']
      BY <1>1, <2>3, <3>1 DEF RestOK
    <3>3. \A g \in Hosts : \A q \in delivered'[g] : q.to = g
      BY <1>1, <2>3 DEF RestOK
    <3> QED
      BY <1>1, <2>3, <3>1, <3>2, <3>3 DEF RestOK
  <2> QED
    BY <2>4, <2>5 DEF Inv
<1>10. CASE ReceiveFin(h, p)
  <2> DEFINE c == [conn[h] EXCEPT !.last_recvd = p.seq + 1]
  <2>1. Sound(c) /\ c \in Connections
    BY <1>1, <1>2 DEF Sound, Connections
  <2> HIDE DEF c
  <2>2. Sound([c EXCEPT !.st = "LAST_ACK"])
    BY <2>1 DEF Sound, Connections, States
  <2>3. /\ Update(h, [c EXCEPT !.st = "LAST_ACK"])
        /\ Send(Control(h, c, 6)) /\ UNCHANGED <<delivered, opens, owed>>
    BY <1>10 DEF ReceiveFin, c
  <2>4. ConnOK'
    BY <1>1, <2>2, <2>3, UpdateKeeps
  <2>5. RestOK'
    BY <1>1, <2>1, <2>3, ControlType, SendKeeps
  <2> QED
    BY <2>4, <2>5 DEF Inv
<1>11. CASE ReceiveAck(h, p)
  <2> DEFINE r == [conn[h] EXCEPT !.last_recvd = p.seq + p.len]
             t == [conn[h] EXCEPT !.tries = 0]
  <2>1. Sound(r) /\ Sound(t)
    BY <1>1, <1>2 DEF Sound, Connections
  <2>2. Sound(SetLastAcked(r, p.ack))
    BY <1>2, <2>1, SetLastAckedSound
  <2>3. ConnOK'
    BY <1>1, <1>11, <2>1, <2>2, UpdateKeeps DEF ReceiveAck
  <2>4. RestOK'
    BY <1>1, <1>11 DEF ReceiveAck, RestOK
  <2> QED
    BY <2>3, <2>4 DEF Inv
<1>12. CASE ReceiveLastAck(h, p)
  <2>1. Sound([conn[h] EXCEPT !.st = "CLOSING"])
    BY <1>1 DEF Sound, Connections, States
  <2>2. ConnOK'
    BY <1>1, <1>12, <2>1, UpdateKeeps DEF ReceiveLastAck
  <2>3. RestOK'
    BY <1>1, <1>12 DEF ReceiveLastAck, RestOK
  <2> QED
    BY <2>2, <2>3 DEF Inv
<1> QED
  BY <1>3, <1>4, <1>5, <1>6, <1>7, <1>8, <1>9, <1>10, <1>11, <1>12 DEF Receive

-----------------------------------------------------------------------------
LEMMA InvInit == Init => Inv
<1> SUFFICES ASSUME Init PROVE Inv
  OBVIOUS
<1>1. ConnOK
  <2>1. Sound(Erased)
    BY NewSound DEF Erased
  <2> QED
    BY <2>1 DEF Init, ConnOK, Sound
<1>2. RestOK
  BY BoundsAssumption DEF Init, RestOK
<1> QED
  BY <1>1, <1>2 DEF Inv

LEMMA InvNext == Inv /\ [Next]_vars => Inv'
<1> SUFFICES ASSUME Inv, [Next]_vars PROVE Inv'
  OBVIOUS
<1>1. CASE UNCHANGED vars
  BY <1>1 DEF vars, Inv, ConnOK, RestOK, Sound
<1>2. ASSUME NEW h \in Hosts, Request(h) \/ Timeout(h)
      PROVE  Inv'
  BY <1>2, RequestKeeps, TimeoutKeeps
<1>3. ASSUME NEW h \in Hosts, NEW p \in net, p.to = h, Receive(h, p)
      PROVE  Inv'
  BY <1>3, ReceiveKeeps
<1> QED
  BY <1>1, <1>2, <1>3 DEF Next

(* The type invariant holds: sequence numbers stay above zero, and the      *)
(* timer never runs in LISTEN or SYN_SENT, whatever packets arrive.         *)
THEOREM TcpTypeCorrect == Spec => []TypeOK
<1>1. Inv => TypeOK
  BY DEF Inv, ConnOK, RestOK, TypeOK, Sound
<1> QED
  BY <1>1, InvInit, InvNext, PTL DEF Spec

(* last_sent - last_acked never wraps, whatever acknowledgements arrive.    *)
THEOREM AckNeverAhead == Spec => []AckedWasSent
<1>1. Inv => AckedWasSent
  BY DEF Inv, ConnOK, AckedWasSent, Sound
<1> QED
  BY <1>1, InvInit, InvNext, PTL DEF Spec

-----------------------------------------------------------------------------
(* Why only CLOSE closes: FIN_WAIT1 has no way out, and there is no FIN     *)
(* before a host has reached it.                                            *)
IsFin(p) == "FIN" \in p.flags
SomeFin == \E p \in net : IsFin(p)
SomeClosed == \E h \in Hosts : conn[h].st = "FIN_WAIT1"
FinMeansClosed == SomeFin => SomeClosed

LEMMA FinHeader ==
  ASSUME NEW header, "FIN" \in FlagsOf(header)
  PROVE  header \in {5, 6}
BY DEF FlagsOf

(* Control packets that are no FIN. *)
LEMMA NoFinSent ==
  ASSUME NEW h, NEW c, NEW header \in {1, 2, 3}, Send(Control(h, c, header))
  PROVE  SomeFin' => SomeFin
<1>1. ASSUME NEW p \in Control(h, c, header)
      PROVE  ~IsFin(p)
  <2>1. p.flags = FlagsOf(header)
    BY DEF Control, Packet
  <2> QED
    BY <2>1, FinHeader DEF IsFin
<1> QED
  BY <1>1 DEF Send, SomeFin

(* FIN_WAIT1 is never left, and a FIN is sent only on a CLOSE or a FIN.     *)
LEMMA ClosedForGood ==
  ASSUME NoFinSegment, Inv, [Next]_vars
  PROVE  /\ \A g \in Hosts : conn[g].st = "FIN_WAIT1" => conn'[g].st = "FIN_WAIT1"
         /\ SomeFin' => SomeFin \/ SomeClosed'
         /\ \A g \in Hosts : conn'[g].st \in {"LAST_ACK", "CLOSING"} =>
              \/ conn[g].st \in {"LAST_ACK", "CLOSING"}
              \/ SomeFin /\ conn[g].st = "ESTABLISHED"
<1> DEFINE Goal == /\ \A g \in Hosts : conn[g].st = "FIN_WAIT1" => conn'[g].st = "FIN_WAIT1"
                   /\ SomeFin' => SomeFin \/ SomeClosed'
                   /\ \A g \in Hosts : conn'[g].st \in {"LAST_ACK", "CLOSING"} =>
                        \/ conn[g].st \in {"LAST_ACK", "CLOSING"}
                        \/ SomeFin /\ conn[g].st = "ESTABLISHED"
<1>0. conn \in [Hosts -> Connections] /\ \A h \in Hosts : Sound(conn[h])
  BY DEF Inv, ConnOK
<1>1. CASE UNCHANGED vars
  BY <1>1 DEF vars, SomeFin
<1>2. ASSUME NEW h \in Hosts, Request(h)
      PROVE  Goal
  <2>1. CASE Connect(h) \/ RequestWhileListening(h)
    <3>1. SomeFin' => SomeFin
      BY <2>1, NoFinSent DEF Connect, RequestWhileListening
    <3> QED
      BY <1>0, <2>1, <3>1 DEF Connect, RequestWhileListening, Update, NewConnection, Connections
  <2>2. CASE Accept(h) \/ CloseConnecting(h) \/ CloseClosing(h)
    BY <1>0, <2>2 DEF Accept, CloseConnecting, CloseClosing, Update, Erased, NewConnection, SomeFin, Connections
  <2>3. CASE RequestIgnored(h) \/ CloseIgnored(h)
    BY <2>3 DEF RequestIgnored, CloseIgnored, SomeFin
  <2>4. ASSUME NEW n \in WriteSizes, Write(h, n)
        PROVE  Goal
    <3> DEFINE c == conn[h]
               segments == Segments(h, c, n)
    <3>1. ASSUME NEW p \in segments
          PROVE  ~IsFin(p)
      <4>1. PICK start \in Starts(n) : p.flags = FlagsOf(SegmentSize(n, start))
        BY DEF Segments, Packet
      <4> QED
        BY <4>1, FinHeader DEF IsFin, NoFinSegment
    <3>2. Send(segments)
      BY <2>4 DEF Write
    <3>3. SomeFin' => SomeFin
      BY <3>1, <3>2 DEF Send, SomeFin
    <3>4. conn'[h].st = "ESTABLISHED" /\ \A g \in Hosts \ {h} : conn'[g] = conn[g]
      BY <1>0, <2>4 DEF Write, Update, Connections
    <3> QED
      BY <2>4, <3>3, <3>4 DEF Write
  <2>5. CASE CloseActive(h)
    <3>1. conn'[h].st = "FIN_WAIT1" /\ \A g \in Hosts \ {h} : conn'[g] = conn[g]
      BY <1>0, <2>5 DEF CloseActive, Update, Connections
    <3> QED
      BY <3>1 DEF SomeClosed
  <2> QED
    BY <1>2, <2>1, <2>2, <2>3, <2>4, <2>5 DEF Request
<1>3. ASSUME NEW h \in Hosts, NEW p \in net, Receive(h, p)
      PROVE  Goal
  <2>0. p.seq \in Nat
    BY DEF Inv, RestOK, Packets
  <2>1. p.ack \in Nat
    BY DEF Inv, RestOK, Packets
  <2>2. CASE ReceiveSyn(h, p) \/ ReceiveSynCrossing(h, p) \/ RefuseData(h, p)
    <3>1. SomeFin' => SomeFin
      BY <2>2, NoFinSent DEF ReceiveSyn, ReceiveSynCrossing, RefuseData
    <3>2. CASE ReceiveSyn(h, p) \/ ReceiveSynCrossing(h, p)
      <4>1. conn[h].st \in {"LISTEN", "SYN_SENT"} /\ conn'[h].st = "SYN_RCVD"
        <5>1. \A c \in Connections, i, j \in Int :
                [c EXCEPT !.st = "SYN_RCVD", !.last_acked = i, !.last_recvd = j,
                          !.tmr = TRUE, !.bound = TRUE].st = "SYN_RCVD"
          BY DEF Connections
        <5>2. \A c \in Connections, i, j \in Int :
                [[c EXCEPT !.last_recvd = i] EXCEPT !.st = "SYN_RCVD", !.last_sent = j].st = "SYN_RCVD"
          BY DEF Connections
        <5>3. CASE ReceiveSyn(h, p)
          <6>1. conn[h].last_sent - 1 \in Int /\ p.seq + 1 \in Int
            BY <1>0, <2>0 DEF Connections
          <6>2. conn'[h] = [conn[h] EXCEPT !.st = "SYN_RCVD", !.last_acked = conn[h].last_sent - 1,
                              !.last_recvd = p.seq + 1, !.tmr = TRUE, !.bound = TRUE]
            BY <1>0, <5>3 DEF ReceiveSyn, Update
          <6> QED
            BY <1>0, <5>1, <5>3, <6>1, <6>2 DEF ReceiveSyn
        <5>4. CASE ReceiveSynCrossing(h, p)
          BY <1>0, <2>0, <5>2, <5>4 DEF ReceiveSynCrossing, Update, Connections
        <5> QED
          BY <3>2, <5>3, <5>4
      <4>2. \A g \in Hosts \ {h} : conn'[g] = conn[g]
        BY <1>0, <3>2 DEF ReceiveSyn, ReceiveSynCrossing, Update
      <4> QED
        BY <3>1, <4>1, <4>2
    <3>3. CASE RefuseData(h, p)
      BY <3>1, <3>3 DEF RefuseData
    <3> QED
      BY <2>2, <3>2, <3>3
  <2>3. CASE ReceiveFinListening(h, p) \/ ReceiveFinConnecting(h, p)
    <3>1. SomeFin
      BY <2>3 DEF ReceiveFinListening, ReceiveFinConnecting, SomeFin, IsFin
    <3> QED
      BY <1>0, <2>3, <3>1 DEF ReceiveFinListening, ReceiveFinConnecting, Update, Erased, NewConnection, Connections
  <2>4. CASE ReceiveFin(h, p)
    <3>1. SomeFin
      BY <2>4 DEF ReceiveFin, SomeFin, IsFin
    <3> QED
      BY <1>0, <2>4, <3>1 DEF ReceiveFin, Update, Connections
  <2>5. CASE ReceiveAckOfSyn(h, p) \/ ReceiveLastAck(h, p)
    <3>1. SetLastAcked([conn[h] EXCEPT !.st = "ESTABLISHED"], p.ack).st = "ESTABLISHED"
      BY <1>0, <2>1 DEF SetLastAcked, Connections
    <3> QED
      BY <1>0, <2>5, <3>1 DEF ReceiveAckOfSyn, ReceiveLastAck, Update, Connections, SomeFin
  <2>6. CASE ReceiveSynAck(h, p)
    <3> DEFINE c == SetLastAcked([conn[h] EXCEPT !.last_recvd = p.seq + 1], p.ack)
    <3>1. c \in Connections
      <4>1. Sound([conn[h] EXCEPT !.last_recvd = p.seq + 1])
        BY <1>0, <2>0 DEF Sound, Connections
      <4> QED
        BY <2>1, <4>1, SetLastAckedSound DEF Sound
    <3>2. SomeFin' => SomeFin
      BY <2>6, NoFinSent DEF ReceiveSynAck
    <3>3. conn'[h].st = "ESTABLISHED" /\ \A g \in Hosts \ {h} : conn'[g] = conn[g]
      <4>1. Update(h, [c EXCEPT !.st = "ESTABLISHED"])
        BY <2>6 DEF ReceiveSynAck
      <4> HIDE DEF c
      <4> QED
        BY <1>0, <3>1, <4>1 DEF Update, Connections
    <3> QED
      BY <2>6, <3>2, <3>3 DEF ReceiveSynAck
  <2>7. CASE ReceiveData(h, p) \/ ReceiveAck(h, p)
    <3>1. SomeFin' => SomeFin
      BY <2>7, NoFinSent DEF ReceiveData, ReceiveAck, SomeFin
    <3>2. SetLastAcked([conn[h] EXCEPT !.last_recvd = p.seq + p.len], p.ack).st = conn[h].st
      BY <1>0 DEF SetLastAcked, Connections
    <3>3. conn'[h].st = "ESTABLISHED" /\ \A g \in Hosts \ {h} : conn'[g] = conn[g]
      BY <1>0, <2>7, <3>2 DEF ReceiveData, ReceiveAck, Update, Connections
    <3> QED
      BY <2>7, <3>1, <3>3 DEF ReceiveData, ReceiveAck
  <2> QED
    BY <1>3, <2>2, <2>3, <2>4, <2>5, <2>6, <2>7 DEF Receive
<1>4. ASSUME NEW h \in Hosts, Timeout(h)
      PROVE  Goal
  <2>1. SomeFin' => SomeFin
    BY <1>4, NoFinSent DEF Timeout, ResendSynAck, GiveUpSynAck, StopTimer, SomeFin
  <2> QED
    BY <1>0, <1>4, <2>1 DEF Timeout, ResendSynAck, GiveUpSynAck, StopTimer, Update, Connections
<1> QED
  BY <1>1, <1>2, <1>3, <1>4 DEF Next

LEMMA CloseNext ==
  ASSUME NoFinSegment, Inv, OnlyCloseCloses, FinMeansClosed, [Next]_vars
  PROVE  OnlyCloseCloses' /\ FinMeansClosed'
<1>1. SomeClosed => SomeClosed'
  BY ClosedForGood DEF SomeClosed
<1>2. FinMeansClosed'
  BY <1>1, ClosedForGood DEF FinMeansClosed
<1>3. ASSUME NEW g \in Hosts, conn'[g].st \in {"LAST_ACK", "CLOSING"}
      PROVE  conn'[Peer(g)].st = "FIN_WAIT1"
  <2>1. Peer(g) \in Hosts
    BY DEF Peer, Hosts
  <2>2. conn[Peer(g)].st = "FIN_WAIT1"
    <3>1. CASE conn[g].st \in {"LAST_ACK", "CLOSING"}
      BY <3>1 DEF OnlyCloseCloses
    <3>2. CASE SomeFin /\ conn[g].st = "ESTABLISHED"
      <4>1. PICK h \in Hosts : conn[h].st = "FIN_WAIT1"
        BY <3>2 DEF FinMeansClosed, SomeClosed
      <4>2. h # g
        BY <3>2, <4>1
      <4> QED
        BY <4>1, <4>2 DEF Peer, Hosts
    <3> QED
      BY <1>3, <3>1, <3>2, ClosedForGood
  <2> QED
    BY <2>1, <2>2, ClosedForGood
<1> QED
  BY <1>2, <1>3 DEF OnlyCloseCloses

(* While no write is cut into a segment that createPacket takes for a FIN,  *)
(* a host closes its side only after its peer was told to CLOSE.            *)
THEOREM ClosesOnlyOnClose ==
  ASSUME NoFinSegment
  PROVE  Spec => []OnlyCloseCloses
<1>1. Init => OnlyCloseCloses /\ FinMeansClosed
  BY DEF Init, Erased, NewConnection, OnlyCloseCloses, FinMeansClosed, SomeFin
<1>2. Inv /\ OnlyCloseCloses /\ FinMeansClosed /\ [Next]_vars => (OnlyCloseCloses /\ FinMeansClosed)'
  BY CloseNext
<1> QED
  BY <1>1, <1>2, InvInit, InvNext, PTL DEF Spec

-----------------------------------------------------------------------------
(* Why what is acknowledged was delivered, while each host opens at most    *)
(* once and every segment says what it is.  The numbers of a host's         *)
(* segments: those of one that connects start at 3, after its SYN, which is *)
(* sent with 2; those of one that accepts start at 2.                       *)
Connects(h) == \E p \in net : p.to = Peer(h) /\ p.flags = {"SYN"} /\ p.seq = 2
Base(h) == IF Connects(h) THEN 3 ELSE 2

(* A number x of a host whose segments start at base: it is not after the   *)
(* first segment, or after a number of segments of four bytes, which are    *)
(* all in D, what was delivered of that host.                               *)
Reached(base, D, x) ==
  x > base => \E k \in 0 .. x : /\ x = base + 4 * k
                                /\ \A j \in 0 .. k - 1 : \E q \in D : q.seq = base + 4 * j

(* The connection of a host that connects, and of one that accepts.         *)
Role(base, c) ==
  IF base = 3
    THEN /\ c.st # "LISTEN" /\ ~ c.tmr
         /\ c.st = "SYN_SENT" => c.last_acked = 1 /\ c.last_sent = 2
         /\ c.st = "SYN_RCVD" => c.last_sent = 3
    ELSE /\ c.st \in {"LISTEN", "SYN_SENT"} => c.last_sent = 1 /\ (c.bound => c.last_acked = 0)
         /\ c.st = "SYN_RCVD" =>
              \/ c.tmr /\ c.last_sent = 1 /\ c.last_acked = 0 /\ c.last_recvd = 3
              \/ ~ c.tmr /\ c.last_sent = 2

(* Where a connection of host h stands, when D was delivered to h.          *)
Standing(h, c, D) ==
  /\ Role(Base(h), c)
  /\ c.st = "ESTABLISHED" => c.last_acked + 1 >= Base(h)
  /\ Reached(Base(h), delivered[Peer(h)], c.last_acked + 1)
  /\ c.st \notin {"LAST_ACK", "CLOSING"} => Reached(Base(Peer(h)), D, c.last_recvd)

(* The packets of a host whose segments start at base.                      *)
Formed(base, p) ==
  /\ Data(p) => p.flags = {"PSH", "ACK"} /\ p.len = 4 /\ p.seq >= base
  /\ ~ Data(p) /\ "ACK" \in p.flags => p.len = 0
  /\ "SYN" \in p.flags =>
       IF base = 3 THEN p.seq = 2 /\ p.flags = {"SYN"}
       ELSE p.seq = 1 /\ "FIN" \notin p.flags /\ ("ACK" \in p.flags => p.ack = 3)

(* A packet of host h in state st, when D was delivered to h.               *)
SentBy(h, st, D, p) ==
  /\ p.to = Peer(h)
  /\ Formed(Base(h), p)
  /\ Reached(Base(h), delivered[Peer(h)], p.seq)
  /\ "FIN" \notin p.flags => Reached(Base(Peer(h)), D, p.ack)
  /\ "FIN" \in p.flags => IF "ACK" \in p.flags THEN conn[Peer(h)].st = "FIN_WAIT1"
                          ELSE st = "FIN_WAIT1"

(* A host that has not opened has not sent, and nothing of it is received.  *)
Unopened(h) ==
  opens[h] = 0 => /\ conn[h] = Erased /\ conn[Peer(h)].last_recvd = 0
                  /\ \A p \in net : p.to = h /\ p.ack = 0

(* Nothing happens before a host connects.                                  *)
Untouched(c) == ~ c.bound /\ c.st # "ESTABLISHED"
SomeoneConnects == (\E h \in Hosts : Connects(h)) \/ (net = {} /\ \A h \in Hosts : Untouched(conn[h]))

Chained ==
  /\ SomeoneConnects
  /\ \A h \in Hosts : /\ Unopened(h)
                      /\ Connects(h) => opens[h] # 0
                      /\ Standing(h, conn[h], delivered[h])
  /\ \A p \in net : SentBy(Peer(p.to), conn[Peer(p.to)].st, delivered[Peer(p.to)], p)

LEMMA Peers ==
  ASSUME NEW h \in Hosts
  PROVE  /\ Peer(h) \in Hosts /\ Peer(h) # h /\ Peer(Peer(h)) = h
         /\ \A g \in Hosts : g = h \/ g = Peer(h)
BY HostsAssumption DEF Peer, Hosts

LEMMA BaseValues == \A h : Base(h) \in {2, 3} /\ (Base(h) = 3 <=> Connects(h))
BY DEF Base

LEMMA ReachedLow ==
  ASSUME NEW base \in Nat, NEW D, NEW x \in Nat, x <= base
  PROVE  Reached(base, D, x)
BY DEF Reached

LEMMA ReachedMore ==
  ASSUME NEW base, NEW D, NEW E, D \subseteq E, NEW x, Reached(base, D, x)
  PROVE  Reached(base, E, x)
BY DEF Reached

(* Delivery of the next segment.                                            *)
LEMMA ReachedNext ==
  ASSUME NEW base \in Nat, NEW D, NEW p, p.seq \in Nat, p.seq >= base, Reached(base, D, p.seq)
  PROVE  Reached(base, D \cup {p}, p.seq + 4)
<1>1. PICK x \in Nat : x = p.seq
  OBVIOUS
<1>2. PICK k \in Nat : /\ x = base + 4 * k
                       /\ \A j \in 0 .. k - 1 : \E q \in D : q.seq = base + 4 * j
  <2>1. CASE x = base
    <3>1. x = base + 4 * 0 /\ 0 .. 0 - 1 = {}
      BY <2>1
    <3> QED
      BY <3>1
  <2>2. CASE x > base
    BY <1>1, <2>2 DEF Reached
  <2> QED
    BY <1>1, <2>1, <2>2
<1>3. x + 4 = base + 4 * (k + 1) /\ k + 1 \in 0 .. x + 4
  BY <1>1, <1>2
<1>4. ASSUME NEW j \in 0 .. (k + 1) - 1 PROVE \E q \in D \cup {p} : q.seq = base + 4 * j
  <2>1. j \in 0 .. k - 1 \/ j = k
    BY <1>2
  <2> QED
    BY <1>1, <1>2, <2>1
<1> QED
  BY <1>1, <1>3, <1>4 DEF Reached

(* A segment before a number that is reached was delivered.                 *)
LEMMA ReachedDelivered ==
  ASSUME NEW base \in Nat, NEW D, NEW x \in Nat, NEW y \in Nat,
         Reached(base, D, x), Reached(base, D, y), y >= base, y < x
  PROVE  \E q \in D : q.seq = y
<1>1. PICK k \in 0 .. x : /\ x = base + 4 * k
                          /\ \A j \in 0 .. k - 1 : \E q \in D : q.seq = base + 4 * j
  BY DEF Reached
<1>2. PICK j \in Nat : y = base + 4 * j
  <2>1. CASE y = base
    <3>1. y = base + 4 * 0
      BY <2>1
    <3> QED
      BY <3>1
  <2>2. CASE y > base
    BY <2>2 DEF Reached
  <2> QED
    BY <2>1, <2>2
<1>3. j \in 0 .. k - 1
  BY <1>1, <1>2
<1> QED
  BY <1>1, <1>2, <1>3

(* Two of the numbers that are never reached.                               *)
LEMMA NotReached ==
  ASSUME NEW D
  PROVE  ~ Reached(3, D, 4) /\ ~ Reached(2, D, 3)
<1>1. \A k \in Nat : 4 # 3 + 4 * k /\ 3 # 2 + 4 * k
  OBVIOUS
<1> QED
  BY <1>1 DEF Reached

(* What a step of h may leave: the connection c, and with D delivered.      *)
Allowed(h, c, D) ==
  /\ c \in Connections
  /\ Standing(h, c, D)
  /\ conn[h].st = "FIN_WAIT1" => c.st = "FIN_WAIT1"
  /\ opens[Peer(h)] = 0 => c.last_recvd = 0
  /\ SomeoneConnects /\ ((\A g \in Hosts : ~ Connects(g)) => Untouched(c))

(* A packet it may send, in state st.                                       *)
Sendable(h, st, D, p) ==
  /\ SentBy(h, st, D, p)
  /\ ~ (p.flags = {"SYN"} /\ p.seq = 2)
  /\ opens[Peer(h)] = 0 => p.ack = 0
  /\ \E g \in Hosts : Connects(g)

LEMMA SameRoles ==
  ASSUME NEW P, net' = net \cup P, \A p \in P : ~ (p.flags = {"SYN"} /\ p.seq = 2)
  PROVE  \A g \in Hosts : (Connects(g)' <=> Connects(g)) /\ Base(g)' = Base(g)
<1>1. ASSUME NEW g \in Hosts PROVE Connects(g)' <=> Connects(g)
  BY DEF Connects
<1> QED
  BY <1>1 DEF Base

LEMMA ChainedStep ==
  ASSUME Inv, Chained, NEW h \in Hosts, NEW c, NEW P, NEW D,
         conn' = [conn EXCEPT ![h] = c], net' = net \cup P,
         delivered' = [delivered EXCEPT ![h] = D], delivered[h] \subseteq D,
         opens'[h] # 0, opens'[Peer(h)] = opens[Peer(h)],
         Allowed(h, c, D), \A p \in P : Sendable(h, c.st, D, p)
  PROVE  Chained'
<1> DEFINE g == Peer(h)
<1>1. /\ conn \in [Hosts -> Connections] /\ delivered \in [Hosts -> SUBSET net]
      /\ \A p \in net : p.to \in Hosts
  BY DEF Inv, ConnOK, RestOK, Packets
<1>2. g \in Hosts /\ g # h /\ Peer(g) = h /\ \A k \in Hosts : k = h \/ k = g
  BY Peers
<1>3. \A k \in Hosts : (Connects(k)' <=> Connects(k)) /\ Base(k)' = Base(k)
  BY SameRoles DEF Sendable
<1>4. conn'[h] = c /\ conn'[g] = conn[g] /\ delivered'[h] = D /\ delivered'[g] = delivered[g]
  BY <1>1, <1>2
<1>5. SomeoneConnects'
  <2>1. CASE \E k \in Hosts : Connects(k)
    BY <1>3, <2>1 DEF SomeoneConnects
  <2>2. CASE \A k \in Hosts : ~ Connects(k)
    <3>1. P = {}
      BY <2>2 DEF Sendable
    <3>2. net = {} /\ \A k \in Hosts : Untouched(conn[k])
      BY <2>2 DEF Chained, SomeoneConnects
    <3>3. Untouched(c)
      BY <2>2 DEF Allowed
    <3> QED
      BY <1>2, <1>4, <3>1, <3>2, <3>3 DEF SomeoneConnects
  <2> QED
    BY <2>1, <2>2
<1>6. Unopened(h)' /\ Unopened(g)'
  <2>1. Unopened(h)'
    BY DEF Unopened
  <2>2. ASSUME opens[g] = 0
        PROVE  /\ conn'[g] = Erased /\ conn'[h].last_recvd = 0
               /\ \A p \in net' : p.to = g /\ p.ack = 0
    <3>1. conn[g] = Erased /\ \A p \in net : p.to = g /\ p.ack = 0
      BY <1>2, <2>2 DEF Chained, Unopened
    <3>2. c.last_recvd = 0
      BY <2>2 DEF Allowed
    <3>3. \A p \in P : p.to = g /\ p.ack = 0
      BY <2>2 DEF Sendable, SentBy
    <3> QED
      BY <1>4, <3>1, <3>2, <3>3
  <2>3. Unopened(g)'
    BY <1>2, <2>2 DEF Unopened, Erased, NewConnection
  <2> QED
    BY <2>1, <2>3
<1>7. \A k \in Hosts : Connects(k)' => opens'[k] # 0
  BY <1>2, <1>3 DEF Chained
<1>8. Standing(h, c, D)'
  <2>1. Standing(h, c, D)
    BY DEF Allowed
  <2> QED
    BY <1>2, <1>3, <1>4, <2>1 DEF Standing
<1>9. Standing(g, conn[g], delivered[g])'
  <2>1. PICK cg, Dg : cg = conn[g] /\ Dg = delivered[g]
    OBVIOUS
  <2>2. Standing(g, cg, Dg)
    BY <1>2, <2>1 DEF Chained
  <2>3. Reached(Base(g), D, cg.last_acked + 1)
    BY <1>2, <2>2, ReachedMore DEF Standing
  <2>4. Standing(g, cg, Dg)'
    BY <1>2, <1>3, <1>4, <2>2, <2>3 DEF Standing
  <2>5. conn'[g] = cg /\ delivered'[g] = Dg
    BY <1>4, <2>1
  <2> QED
    BY <2>4, <2>5
<1>10. ASSUME NEW p \in P PROVE SentBy(h, c.st, D, p)'
  <2>1. SentBy(h, c.st, D, p)
    BY DEF Sendable
  <2> QED
    BY <1>2, <1>3, <1>4, <2>1 DEF SentBy
<1>11. ASSUME NEW p \in net PROVE SentBy(Peer(p.to), conn[Peer(p.to)].st, delivered[Peer(p.to)], p)'
  <2>1. p.to \in Hosts
    BY <1>1
  <2>2. CASE p.to = g
    <3>1. SentBy(h, conn[h].st, delivered[h], p)
      BY <1>2, <2>2 DEF Chained
    <3>2. "FIN" \notin p.flags => Reached(Base(g), D, p.ack)
      BY <3>1, ReachedMore DEF SentBy
    <3>3. conn[h].st = "FIN_WAIT1" => c.st = "FIN_WAIT1"
      BY DEF Allowed
    <3>4. SentBy(h, c.st, D, p)
      BY <3>1, <3>2, <3>3 DEF SentBy
    <3>5. SentBy(h, c.st, D, p)'
      BY <1>2, <1>3, <1>4, <3>4 DEF SentBy
    <3> QED
      BY <1>2, <1>4, <2>2, <3>5
  <2>3. CASE p.to = h
    <3>1. PICK sg, Dg : sg = conn[g].st /\ Dg = delivered[g]
      OBVIOUS
    <3>2. SentBy(g, sg, Dg, p)
      BY <2>3, <3>1 DEF Chained
    <3>3. Reached(Base(g), D, p.seq)
      BY <1>2, <3>2, ReachedMore DEF SentBy
    <3>4. conn[h].st = "FIN_WAIT1" => c.st = "FIN_WAIT1"
      BY DEF Allowed
    <3>5. SentBy(g, sg, Dg, p)'
      BY <1>2, <1>3, <1>4, <3>2, <3>3, <3>4 DEF SentBy
    <3>6. conn'[g].st = sg /\ delivered'[g] = Dg
      BY <1>4, <3>1
    <3> QED
      BY <2>3, <3>5, <3>6
  <2> QED
    BY <1>2, <2>1, <2>2, <2>3
<1>12. \A p \in net' : SentBy(Peer(p.to), conn[Peer(p.to)].st, delivered[Peer(p.to)], p)'
  <2>1. ASSUME NEW p \in P PROVE SentBy(Peer(p.to), conn[Peer(p.to)].st, delivered[Peer(p.to)], p)'
    <3>1. p.to = g
      BY DEF Sendable, SentBy
    <3> QED
      BY <1>2, <1>4, <1>10, <3>1
  <2> QED
    BY <1>11, <2>1
<1>13. \A k \in Hosts : /\ Unopened(k)'
                        /\ Connects(k)' => opens'[k] # 0
                        /\ Standing(k, conn[k], delivered[k])'
  <2>1. Standing(h, conn[h], delivered[h])'
    BY <1>4, <1>8
  <2> QED
    BY <1>2, <1>6, <1>7, <1>9, <2>1
<1> HIDE DEF g
<1> QED
  BY <1>5, <1>12, <1>13 DEF Chained

(* The packets without data.                                                *)
LEMMA Flags ==
  /\ FlagsOf(1) = {"SYN"} /\ FlagsOf(2) = {"ACK"} /\ FlagsOf(3) = {"SYN", "ACK"}
  /\ FlagsOf(4) = {"PSH", "ACK"} /\ FlagsOf(5) = {"FIN"} /\ FlagsOf(6) = {"FIN", "ACK"}
  /\ {"ACK"} # {"SYN"} /\ {"SYN", "ACK"} # {"SYN"} /\ {"PSH", "ACK"} # {"SYN"}
  /\ {"FIN"} # {"SYN"} /\ {"FIN", "ACK"} # {"SYN"}
BY DEF FlagsOf

(* The numbers a packet takes from the connection c.                        *)
Quotes(h, c, D) ==
  /\ Reached(Base(h), delivered[Peer(h)], c.last_acked + 1)
  /\ Reached(Base(Peer(h)), D, c.last_recvd)
  /\ opens[Peer(h)] = 0 => c.last_recvd = 0

LEMMA ControlPacket ==
  ASSUME NEW h, NEW c, NEW header, NEW p \in Control(h, c, header)
  PROVE  /\ p.to = Peer(h) /\ p.flags = FlagsOf(header)
         /\ p.seq = c.last_acked + 1 /\ p.ack = c.last_recvd /\ p.len = 0 /\ c.bound
BY DEF Control, Packet

LEMMA AckSendable ==
  ASSUME NEW h, NEW c, NEW D, NEW st, Quotes(h, c, D), \E g \in Hosts : Connects(g)
  PROVE  \A p \in Control(h, c, 2) : Sendable(h, st, D, p)
<1> TAKE p \in Control(h, c, 2)
<1>1. /\ p.to = Peer(h) /\ p.flags = {"ACK"}
      /\ p.seq = c.last_acked + 1 /\ p.ack = c.last_recvd /\ p.len = 0
  BY ControlPacket, Flags
<1>2. Formed(Base(h), p)
  BY <1>1 DEF Formed, Data
<1> QED
  BY <1>1, <1>2, Flags DEF Sendable, SentBy, Quotes

LEMMA SynSendable ==
  ASSUME NEW h, NEW c, NEW D, NEW st, Quotes(h, c, D), \E g \in Hosts : Connects(g),
         NEW header \in {1, 3}, Base(h) = 2, c.bound => c.last_acked = 0,
         header = 3 => c.last_recvd = 3
  PROVE  \A p \in Control(h, c, header) : Sendable(h, st, D, p)
<1> TAKE p \in Control(h, c, header)
<1>1. /\ p.to = Peer(h) /\ p.flags = FlagsOf(header)
      /\ p.seq = c.last_acked + 1 /\ p.ack = c.last_recvd /\ p.len = 0 /\ c.bound
  BY ControlPacket
<1>2. p.seq = 1
  BY <1>1
<1>3. /\ "PSH" \notin p.flags /\ "FIN" \notin p.flags
      /\ "ACK" \in p.flags => p.ack = 3
  <2>1. CASE header = 1
    BY <1>1, <2>1, Flags
  <2>2. CASE header = 3
    BY <1>1, <2>2, Flags
  <2> QED
    BY <2>1, <2>2
<1>4. Formed(Base(h), p)
  BY <1>1, <1>2, <1>3 DEF Formed, Data
<1> QED
  BY <1>1, <1>2, <1>3, <1>4 DEF Sendable, SentBy, Quotes

LEMMA FinSendable ==
  ASSUME NEW h, NEW c, NEW D, Quotes(h, c, D), \E g \in Hosts : Connects(g)
  PROVE  \A p \in Control(h, c, 5) : Sendable(h, "FIN_WAIT1", D, p)
<1> TAKE p \in Control(h, c, 5)
<1>1. /\ p.to = Peer(h) /\ p.flags = {"FIN"}
      /\ p.seq = c.last_acked + 1 /\ p.ack = c.last_recvd /\ p.len = 0
  BY ControlPacket, Flags
<1>2. Formed(Base(h), p)
  BY <1>1 DEF Formed, Data
<1> QED
  BY <1>1, <1>2, Flags DEF Sendable, SentBy, Quotes

LEMMA FinAckSendable ==
  ASSUME NEW h, NEW c, NEW D, NEW st, \E g \in Hosts : Connects(g),
         Reached(Base(h), delivered[Peer(h)], c.last_acked + 1),
         conn[Peer(h)].st = "FIN_WAIT1", opens[Peer(h)] # 0
  PROVE  \A p \in Control(h, c, 6) : Sendable(h, st, D, p)
<1> TAKE p \in Control(h, c, 6)
<1>1. /\ p.to = Peer(h) /\ p.flags = {"FIN", "ACK"}
      /\ p.seq = c.last_acked + 1 /\ p.ack = c.last_recvd /\ p.len = 0
  BY ControlPacket, Flags
<1>2. Formed(Base(h), p)
  BY <1>1 DEF Formed, Data
<1> QED
  BY <1>1, <1>2, Flags DEF Sendable, SentBy

(* What the invariant says of a host with a connection.                     *)
LEMMA OpenHost ==
  ASSUME Inv, Chained, NEW h \in Hosts, conn[h].st # "none"
  PROVE  /\ opens[h] # 0 /\ Standing(h, conn[h], delivered[h])
         /\ conn[h] \in Connections /\ Sound(conn[h])
         /\ opens[Peer(h)] = 0 => conn[h].last_recvd = 0
         /\ conn[h].st \notin {"LAST_ACK", "CLOSING"} => Quotes(h, conn[h], delivered[h])
         /\ (\A g \in Hosts : ~ Connects(g)) => Untouched(conn[h])
         /\ SomeoneConnects
<1>1. opens[h] # 0
  BY DEF Chained, Unopened, Erased, NewConnection
<1>2. Standing(h, conn[h], delivered[h]) /\ SomeoneConnects
  BY DEF Chained
<1>3. opens[Peer(h)] = 0 => conn[h].last_recvd = 0
  BY Peers DEF Chained, Unopened
<1>4. (\A g \in Hosts : ~ Connects(g)) => Untouched(conn[h])
  BY <1>2 DEF SomeoneConnects
<1>5. conn[h] \in Connections /\ Sound(conn[h])
  BY DEF Inv, ConnOK
<1> QED
  BY <1>1, <1>2, <1>3, <1>4, <1>5 DEF Quotes, Standing

(* Whoever is bound or established knows of a host that connects.               *)
LEMMA BoundConnects ==
  ASSUME Inv, Chained, NEW h \in Hosts, conn[h].bound \/ conn[h].st = "ESTABLISHED"
  PROVE  \E g \in Hosts : Connects(g)
BY DEF Chained, SomeoneConnects, Untouched

LEMMA ArrivalConnects ==
  ASSUME Inv, Chained, NEW h \in Hosts, NEW p \in net, p.to = h
  PROVE  /\ \E g \in Hosts : Connects(g)
         /\ opens[Peer(h)] # 0
         /\ SentBy(Peer(h), conn[Peer(h)].st, delivered[Peer(h)], p)
         /\ p.seq \in Nat /\ p.ack \in Nat /\ p.len \in Nat
<1>1. \E g \in Hosts : Connects(g)
  BY DEF Chained, SomeoneConnects
<1>2. opens[Peer(h)] # 0
  BY Peers DEF Chained, Unopened
<1>3. SentBy(Peer(h), conn[Peer(h)].st, delivered[Peer(h)], p)
  BY DEF Chained
<1>4. p.seq \in Nat /\ p.ack \in Nat /\ p.len \in Nat
  BY DEF Inv, RestOK, Packets
<1> QED
  BY <1>1, <1>2, <1>3, <1>4

(* Requests.  A connection that is erased, a request without effect.        *)
LEMMA ErasedAllowed ==
  ASSUME Inv, Chained, NEW h \in Hosts, conn[h].st \notin {"none", "FIN_WAIT1"}
  PROVE  Allowed(h, Erased, delivered[h])
<1>1. Erased \in Connections
  BY BoundsAssumption DEF Erased, NewConnection, Connections, States
<1>2. /\ Erased.st = "none" /\ Erased.last_acked = 1 /\ Erased.last_recvd = 0
      /\ ~ Erased.tmr /\ ~ Erased.bound
  BY DEF Erased, NewConnection
<1>3. Base(h) \in {2, 3} /\ Base(Peer(h)) \in {2, 3}
  BY BaseValues
<1> HIDE DEF Erased
<1>4. Role(Base(h), Erased)
  BY <1>2 DEF Role
<1>5. Reached(Base(h), delivered[Peer(h)], 2) /\ Reached(Base(Peer(h)), delivered[h], 0)
  BY <1>3, ReachedLow
<1>6. Standing(h, Erased, delivered[h])
  BY <1>2, <1>4, <1>5 DEF Standing
<1> QED
  BY <1>1, <1>2, <1>6, OpenHost DEF Allowed, Untouched

LEMMA CloseErases ==
  ASSUME Inv, Chained, NEW h \in Hosts, CloseConnecting(h) \/ CloseClosing(h)
  PROVE  Chained'
<1>1. conn[h].st \notin {"none", "FIN_WAIT1"}
  BY DEF CloseConnecting, CloseClosing
<1>2. Allowed(h, Erased, delivered[h]) /\ opens[h] # 0
  BY <1>1, ErasedAllowed, OpenHost
<1>3. PICK c, D, P : c = Erased /\ D = delivered[h] /\ P = {}
  OBVIOUS
<1>4. /\ conn' = [conn EXCEPT ![h] = c] /\ net' = net \cup P /\ opens' = opens
      /\ delivered' = [delivered EXCEPT ![h] = D]
  BY <1>3 DEF CloseConnecting, CloseClosing, Update, Inv, RestOK
<1>5. /\ opens'[h] # 0 /\ opens'[Peer(h)] = opens[Peer(h)]
      /\ delivered[h] \subseteq D /\ Allowed(h, c, D)
      /\ \A p \in P : Sendable(h, c.st, D, p)
  BY <1>2, <1>3, <1>4
<1> QED
  BY <1>4, <1>5, ChainedStep

LEMMA Unchanged ==
  ASSUME Chained, UNCHANGED <<conn, net, delivered, opens>>
  PROVE  Chained'
<1>1. \A h : Connects(h)' <=> Connects(h)
  BY DEF Connects
<1>2. \A h : Base(h)' = Base(h)
  BY <1>1 DEF Base
<1>3. SomeoneConnects'
  BY <1>1 DEF Chained, SomeoneConnects
<1>4. \A h \in Hosts : Unopened(h)' /\ (Connects(h)' => opens'[h] # 0)
  BY <1>1 DEF Chained, Unopened
<1>5. \A h \in Hosts : Standing(h, conn[h], delivered[h])'
  BY <1>2 DEF Chained, Standing
<1>6. \A p \in net' : SentBy(Peer(p.to), conn[Peer(p.to)].st, delivered[Peer(p.to)], p)'
  BY <1>2 DEF Chained, SentBy
<1> QED
  BY <1>3, <1>4, <1>5, <1>6 DEF Chained

(* A host that listens and gets another request sends a SYN, if it knows    *)
(* to whom: it does after a SYN that it gave up to answer.                  *)
LEMMA ListenChained ==
  ASSUME Inv, Chained, NEW h \in Hosts, RequestWhileListening(h)
  PROVE  Chained'
<1>1. PICK c, D, P : c = [conn[h] EXCEPT !.st = "SYN_SENT"] /\ D = delivered[h] /\ P = Control(h, conn[h], 1)
  OBVIOUS
<1>2. conn[h].st = "LISTEN" /\ conn[h] \in Connections
  BY OpenHost DEF RequestWhileListening
<1>3. /\ opens[h] # 0 /\ Standing(h, conn[h], delivered[h]) /\ Quotes(h, conn[h], delivered[h])
      /\ opens[Peer(h)] = 0 => conn[h].last_recvd = 0
      /\ (\A g \in Hosts : ~ Connects(g)) => Untouched(conn[h])
      /\ SomeoneConnects
  BY <1>2, OpenHost
<1>4. Base(h) = 2 /\ (conn[h].bound => conn[h].last_acked = 0) /\ conn[h].last_sent = 1
  BY <1>2, <1>3, BaseValues DEF Standing, Role
<1>5. /\ c \in Connections /\ c.st = "SYN_SENT" /\ c.last_acked = conn[h].last_acked
      /\ c.last_sent = conn[h].last_sent /\ c.bound = conn[h].bound /\ c.last_recvd = conn[h].last_recvd
  BY <1>1, <1>2 DEF Connections, States
<1>6. Standing(h, c, D)
  <2>1. Role(Base(h), c)
    BY <1>4, <1>5 DEF Role
  <2> QED
    BY <1>1, <1>3, <1>5, <2>1 DEF Standing, Quotes
<1>7. Allowed(h, c, D)
  BY <1>2, <1>3, <1>5, <1>6 DEF Allowed, Untouched
<1>8. \A p \in P : Sendable(h, c.st, D, p)
  <2>1. CASE conn[h].bound
    BY <1>1, <1>3, <1>4, <2>1, BoundConnects, SynSendable
  <2>2. CASE ~ conn[h].bound
    BY <1>1, <2>2 DEF Control
  <2> QED
    BY <2>1, <2>2
<1>9. /\ conn' = [conn EXCEPT ![h] = c] /\ net' = net \cup P /\ opens' = opens
      /\ delivered' = [delivered EXCEPT ![h] = D]
  BY <1>1 DEF RequestWhileListening, Update, Send, Inv, RestOK
<1>10. opens'[h] # 0 /\ opens'[Peer(h)] = opens[Peer(h)] /\ delivered[h] \subseteq D
  BY <1>1, <1>3, <1>9
<1> QED
  BY <1>7, <1>8, <1>9, <1>10, ChainedStep

LEMMA CloseActiveChained ==
  ASSUME Inv, Chained, NEW h \in Hosts, CloseActive(h)
  PROVE  Chained'
<1>1. PICK c, D, P : /\ c = [conn[h] EXCEPT !.st = "FIN_WAIT1", !.last_sent = @ + 1]
                     /\ D = delivered[h] /\ P = Control(h, conn[h], 5)
  OBVIOUS
<1>2. conn[h].st \in {"SYN_RCVD", "ESTABLISHED"} /\ conn[h] \in Connections
  BY OpenHost DEF CloseActive
<1>3. /\ opens[h] # 0 /\ Standing(h, conn[h], delivered[h]) /\ Quotes(h, conn[h], delivered[h])
      /\ opens[Peer(h)] = 0 => conn[h].last_recvd = 0
      /\ (\A g \in Hosts : ~ Connects(g)) => Untouched(conn[h])
      /\ SomeoneConnects
  BY <1>2, OpenHost
<1>4. /\ c \in Connections /\ c.st = "FIN_WAIT1" /\ c.last_acked = conn[h].last_acked
      /\ c.bound = conn[h].bound /\ c.last_recvd = conn[h].last_recvd /\ c.tmr = conn[h].tmr
  <2>1. PICK n \in Nat \ {0} : n = conn[h].last_sent + 1
    BY <1>2 DEF Connections
  <2>2. c = [conn[h] EXCEPT !.st = "FIN_WAIT1", !.last_sent = n]
    BY <1>1, <2>1
  <2> QED
    BY <1>2, <2>2 DEF Connections, States
<1>5. Standing(h, c, D)
  <2>1. Base(h) = 3 => ~ conn[h].tmr
    BY <1>3 DEF Standing, Role
  <2>2. Role(Base(h), c)
    BY <1>4, <2>1 DEF Role
  <2> QED
    BY <1>1, <1>3, <1>4, <2>2 DEF Standing, Quotes
<1>6. Allowed(h, c, D)
  BY <1>3, <1>4, <1>5 DEF Allowed, Untouched
<1>7. \A p \in P : Sendable(h, c.st, D, p)
  <2>1. CASE conn[h].bound
    BY <1>1, <1>3, <1>4, <2>1, BoundConnects, FinSendable
  <2>2. CASE ~ conn[h].bound
    BY <1>1, <2>2 DEF Control
  <2> QED
    BY <2>1, <2>2
<1>8. /\ conn' = [conn EXCEPT ![h] = c] /\ net' = net \cup P /\ opens' = opens
      /\ delivered' = [delivered EXCEPT ![h] = D]
  BY <1>1 DEF CloseActive, Update, Send, Inv, RestOK
<1>9. opens'[h] # 0 /\ opens'[Peer(h)] = opens[Peer(h)] /\ delivered[h] \subseteq D
  BY <1>1, <1>3, <1>8
<1> QED
  BY <1>6, <1>7, <1>8, <1>9, ChainedStep

LEMMA FirstOpen ==
  ASSUME Inv, Chained, MaxOpens <= 1, NEW h \in Hosts, Opens(h)
  PROVE  /\ opens[h] = 0 /\ opens'[h] # 0 /\ opens'[Peer(h)] = opens[Peer(h)]
         /\ conn[h] = Erased /\ conn[Peer(h)].last_recvd = 0 /\ Base(h) = 2
         /\ \A p \in net : p.to = h /\ p.ack = 0
<1>1. opens \in [Hosts -> 0 .. MaxOpens] /\ opens[h] \in Int
  BY BoundsAssumption DEF Inv, RestOK
<1>2. opens[h] = 0 /\ opens'[h] # 0 /\ opens'[Peer(h)] = opens[Peer(h)]
  <2>1. opens[h] < 1 /\ opens[h] >= 0
    BY <1>1, BoundsAssumption DEF Opens
  <2>2. opens[h] = 0
    BY <1>1, <2>1
  <2> QED
    BY <1>1, <2>2, Peers DEF Opens
<1>3. ~ Connects(h)
  BY <1>2 DEF Chained
<1> QED
  BY <1>2, <1>3 DEF Chained, Unopened, Base

LEMMA AcceptChained ==
  ASSUME Inv, Chained, MaxOpens <= 1, NEW h \in Hosts, Accept(h)
  PROVE  Chained'
<1>1. PICK c, D, P : c = NewConnection("LISTEN", FALSE) /\ D = delivered[h] /\ P = {}
  OBVIOUS
<1>2. /\ opens'[h] # 0 /\ opens'[Peer(h)] = opens[Peer(h)]
      /\ conn[h] = Erased /\ Base(h) = 2
  BY FirstOpen DEF Accept
<1>3. /\ c \in Connections /\ c.st = "LISTEN" /\ ~ c.bound /\ c.last_acked = 1
      /\ c.last_sent = 1 /\ c.last_recvd = 0
  BY <1>1, BoundsAssumption DEF NewConnection, Connections, States
<1>4. Standing(h, c, D)
  <2>1. Role(Base(h), c)
    BY <1>2, <1>3 DEF Role
  <2>2. Reached(Base(h), delivered[Peer(h)], 2) /\ Reached(Base(Peer(h)), D, 0)
    BY BaseValues, ReachedLow
  <2> QED
    BY <1>3, <2>1, <2>2 DEF Standing
<1>5. conn[h].st # "FIN_WAIT1"
  BY <1>2 DEF Erased, NewConnection
<1>6. Allowed(h, c, D)
  BY <1>3, <1>4, <1>5 DEF Allowed, Chained, Untouched
<1>7. /\ conn' = [conn EXCEPT ![h] = c] /\ net' = net \cup P
      /\ delivered' = [delivered EXCEPT ![h] = D] /\ delivered[h] \subseteq D
  BY <1>1 DEF Accept, Update, Inv, RestOK
<1>8. \A p \in P : Sendable(h, c.st, D, p)
  BY <1>1
<1> QED
  BY <1>2, <1>6, <1>7, <1>8, ChainedStep

(* CONNECT decides the numbers of the segments of h, before there are any.  *)
LEMMA ConnectChained ==
  ASSUME Inv, Chained, MaxOpens <= 1, NEW h \in Hosts, Connect(h)
  PROVE  Chained'
<1>1. PICK g : g = Peer(h)
  OBVIOUS
<1>2. g \in Hosts /\ g # h /\ Peer(g) = h /\ \A k \in Hosts : k = h \/ k = g
  BY <1>1, Peers
<1>3. PICK c, s : c = [NewConnection("SYN_SENT", TRUE) EXCEPT !.last_sent = 2]
                  /\ s = Packet(h, NewConnection("SYN_SENT", TRUE), 1, 0, 0)
  OBVIOUS
<1>4. /\ c.st = "SYN_SENT" /\ ~ c.tmr /\ c.bound /\ c.last_acked = 1
      /\ c.last_sent = 2 /\ c.last_recvd = 0
  BY <1>3 DEF NewConnection
<1>5. s.to = g /\ s.flags = {"SYN"} /\ s.seq = 2 /\ s.ack = 0 /\ s.len = 0
  BY <1>1, <1>3, Flags DEF NewConnection, Packet
<1>6. conn' = [conn EXCEPT ![h] = c] /\ net' = net \cup {s} /\ UNCHANGED delivered
  BY <1>3 DEF Connect, Update, Send, Control, NewConnection
<1>7. /\ opens'[h] # 0 /\ opens'[g] = opens[g] /\ conn[h] = Erased
      /\ conn[g].last_recvd = 0 /\ Base(h) = 2 /\ \A p \in net : p.to = h /\ p.ack = 0
  BY <1>1, FirstOpen DEF Connect
<1>8. conn'[h] = c /\ conn'[g] = conn[g]
  BY <1>2, <1>6 DEF Inv, ConnOK
<1>9. Connects(h)' /\ (Connects(g)' <=> Connects(g))
  BY <1>1, <1>2, <1>5, <1>6 DEF Connects
<1>10. Base(h)' = 3 /\ Base(g)' = Base(g)
  BY <1>9 DEF Base
<1>11. SomeoneConnects'
  BY <1>9 DEF SomeoneConnects
<1>12. Unopened(h)' /\ Unopened(g)'
  <2>1. Unopened(h)'
    BY <1>7 DEF Unopened
  <2>2. opens[g] = 0 => conn[g] = Erased /\ \A p \in net : p.to = g /\ p.ack = 0
    BY <1>2 DEF Chained, Unopened
  <2>3. Unopened(g)'
    BY <1>2, <1>4, <1>5, <1>6, <1>7, <1>8, <2>2 DEF Unopened, Erased, NewConnection
  <2> QED
    BY <2>1, <2>3
<1>13. \A k \in Hosts : Connects(k)' => opens'[k] # 0
  BY <1>2, <1>7, <1>9 DEF Chained
<1>14. \A D : \A b \in {2, 3} : Reached(b, D, 0) /\ Reached(b, D, 2)
  BY ReachedLow
<1>15. Base(g) \in {2, 3}
  BY BaseValues
<1>16. Standing(h, conn[h], delivered[h])'
  <2>1. Role(3, c)
    BY <1>4 DEF Role
  <2>2. Reached(3, delivered'[g], 2) /\ Reached(Base(g), delivered'[h], 0)
    BY <1>14, <1>15
  <2> QED
    BY <1>1, <1>4, <1>8, <1>10, <2>1, <2>2 DEF Standing
<1>17. Standing(g, conn[g], delivered[g])'
  <2>1. Standing(g, conn[g], delivered[g])
    BY <1>2 DEF Chained
  <2>2. Reached(3, delivered[g], 0)
    BY <1>14
  <2> QED
    BY <1>2, <1>6, <1>7, <1>8, <1>10, <2>1, <2>2 DEF Standing
<1>18. ASSUME NEW p \in net'
       PROVE  SentBy(Peer(p.to), conn[Peer(p.to)].st, delivered[Peer(p.to)], p)'
  <2>1. CASE p = s
    <3>1. Formed(3, p)
      BY <1>5, <2>1 DEF Formed, Data
    <3>2. Reached(3, delivered[g], 2) /\ Reached(Base(g), delivered[h], 0)
      BY <1>14, <1>15
    <3>3. "FIN" \notin p.flags
      BY <1>5, <2>1
    <3> QED
      BY <1>1, <1>2, <1>5, <1>6, <1>10, <2>1, <3>1, <3>2, <3>3 DEF SentBy
  <2>2. CASE p \in net
    <3>1. p.to = h /\ p.ack = 0
      BY <1>7, <2>2
    <3>2. SentBy(g, conn[g].st, delivered[g], p)
      BY <1>1, <2>2, <3>1 DEF Chained
    <3>3. conn[h].st # "FIN_WAIT1"
      BY <1>7 DEF Erased, NewConnection
    <3>4. Reached(3, delivered[g], 0)
      BY <1>14
    <3> QED
      BY <1>1, <1>2, <1>6, <1>8, <1>10, <3>1, <3>2, <3>3, <3>4 DEF SentBy
  <2> QED
    BY <1>6, <2>1, <2>2
<1> QED
  BY <1>2, <1>11, <1>12, <1>13, <1>16, <1>17, <1>18 DEF Chained

(* No segment has a size that createPacket takes for the header of a packet *)
(* without data.                                                            *)
NoControlSegment ==
  \A n \in WriteSizes : \A start \in Starts(n) : SegmentSize(n, start) \notin {1, 2, 3, 5, 6}

LEMMA SegmentFlags ==
  ASSUME NEW size \in Nat \ {0}, size \notin {1, 2, 3, 5, 6}
  PROVE  \/ size = 4 /\ FlagsOf(size) = {"PSH", "ACK"}
         \/ FlagsOf(size) \in {{}, {"RST"}}
<1>1. CASE size = 4
  BY <1>1, Flags
<1>2. CASE size = 7
  BY <1>2 DEF FlagsOf
<1>3. CASE size \notin {4, 7}
  BY <1>3 DEF FlagsOf
<1> QED
  BY <1>1, <1>2, <1>3

LEMMA WriteChained ==
  ASSUME Inv, Chained, NoControlSegment, NEW h \in Hosts, NEW n \in WriteSizes, Write(h, n)
  PROVE  Chained'
<1>1. PICK c, D, P, last :
        /\ last = conn[h].last_sent + n /\ c = [conn[h] EXCEPT !.last_sent = last] /\ D = delivered[h]
        /\ P = Segments(h, conn[h], n)
  OBVIOUS
<1>2. conn[h].st = "ESTABLISHED" /\ conn[h] \in Connections
  BY OpenHost DEF Write
<1>3. /\ opens[h] # 0 /\ Standing(h, conn[h], delivered[h]) /\ Quotes(h, conn[h], delivered[h])
      /\ opens[Peer(h)] = 0 => conn[h].last_recvd = 0
      /\ SomeoneConnects
  BY <1>2, OpenHost
<1>4. \E g \in Hosts : Connects(g)
  BY <1>2, BoundConnects
<1>5. /\ c \in Connections /\ c.st = "ESTABLISHED" /\ c.last_acked = conn[h].last_acked
      /\ c.tmr = conn[h].tmr /\ c.last_recvd = conn[h].last_recvd
  <2>1. last \in Nat \ {0}
    BY <1>1, <1>2, SizesAssumption DEF Connections
  <2> QED
    BY <1>1, <1>2, <2>1 DEF Connections
<1>6. Standing(h, c, D)
  <2>1. Role(Base(h), c)
    BY <1>2, <1>3, <1>5 DEF Standing, Role
  <2> QED
    BY <1>1, <1>2, <1>3, <1>5, <2>1 DEF Standing
<1>7. Allowed(h, c, D)
  BY <1>2, <1>3, <1>4, <1>5, <1>6 DEF Allowed
<1>8. ASSUME NEW p \in P PROVE Sendable(h, c.st, D, p)
  <2>1. PICK start \in Starts(n) : p = Packet(h, conn[h], SegmentSize(n, start), 4, conn[h].last_sent + 1 + start)
    BY <1>1 DEF Segments
  <2>2. PICK size : size = SegmentSize(n, start)
    OBVIOUS
  <2>3. size \in Nat \ {0} /\ size \notin {1, 2, 3, 5, 6}
    <3>1. size \notin {1, 2, 3, 5, 6}
      BY <2>2 DEF NoControlSegment
    <3>2. n \in Nat \ {0} /\ start \in 0 .. n - 1
      BY SizesAssumption DEF Starts
    <3>3. size \in Nat \ {0}
      BY <2>2, <3>2, SizesAssumption DEF SegmentSize
    <3> QED
      BY <3>1, <3>3
  <2>4. /\ p.to = Peer(h) /\ p.flags = FlagsOf(size) /\ p.seq = conn[h].last_acked + 1
        /\ p.ack = conn[h].last_recvd /\ p.len = 4
    BY <2>1, <2>2 DEF Packet
  <2>5. p.seq >= Base(h)
    BY <1>2, <1>3, <2>4 DEF Standing
  <2>6. p.flags = {"PSH", "ACK"} \/ p.flags \in {{}, {"RST"}}
    BY <2>3, <2>4, SegmentFlags
  <2>7. Formed(Base(h), p) /\ "FIN" \notin p.flags /\ p.flags # {"SYN"}
    <3>1. CASE p.flags = {"PSH", "ACK"}
      BY <2>4, <2>5, <3>1, Flags DEF Formed, Data
    <3>2. CASE p.flags \in {{}, {"RST"}}
      <4>1. "PSH" \notin p.flags /\ "ACK" \notin p.flags /\ "SYN" \notin p.flags /\ "FIN" \notin p.flags
        BY <3>2
      <4> QED
        BY <4>1 DEF Formed, Data
    <3> QED
      BY <2>6, <3>1, <3>2
  <2> QED
    BY <1>1, <1>3, <1>4, <2>4, <2>7 DEF Sendable, SentBy, Quotes
<1>9. /\ conn' = [conn EXCEPT ![h] = c] /\ net' = net \cup P /\ opens' = opens
      /\ delivered' = [delivered EXCEPT ![h] = D]
  BY <1>1 DEF Write, Update, Send, Inv, RestOK
<1>10. opens'[h] # 0 /\ opens'[Peer(h)] = opens[Peer(h)] /\ delivered[h] \subseteq D
  BY <1>1, <1>3, <1>9
<1> QED
  BY <1>7, <1>8, <1>9, <1>10, ChainedStep

(* The timer.                                                               *)
LEMMA ResendChained ==
  ASSUME Inv, Chained, NEW h \in Hosts, ResendSynAck(h)
  PROVE  Chained'
<1>1. PICK c, D, P, left :
        /\ left = conn[h].tries - 1 /\ c = [conn[h] EXCEPT !.tries = left]
        /\ D = delivered[h] /\ P = Control(h, conn[h], 3)
  OBVIOUS
<1>2. conn[h].st = "SYN_RCVD" /\ conn[h].tmr /\ conn[h].tries > 0 /\ conn[h] \in Connections
  BY OpenHost DEF ResendSynAck
<1>3. /\ opens[h] # 0 /\ Standing(h, conn[h], delivered[h]) /\ Quotes(h, conn[h], delivered[h])
      /\ opens[Peer(h)] = 0 => conn[h].last_recvd = 0
      /\ (\A g \in Hosts : ~ Connects(g)) => Untouched(conn[h])
      /\ SomeoneConnects
  BY <1>2, OpenHost
<1>4. Base(h) = 2 /\ conn[h].last_acked = 0 /\ conn[h].last_recvd = 3
  BY <1>2, <1>3, BaseValues DEF Standing, Role
<1>5. /\ c \in Connections /\ c.st = "SYN_RCVD" /\ c.last_acked = conn[h].last_acked
      /\ c.last_sent = conn[h].last_sent /\ c.bound = conn[h].bound
      /\ c.last_recvd = conn[h].last_recvd /\ c.tmr = conn[h].tmr
  <2>1. left \in Nat
    BY <1>1, <1>2 DEF Connections
  <2> QED
    BY <1>1, <1>2, <2>1 DEF Connections
<1>6. Standing(h, c, D)
  <2>1. Role(Base(h), c)
    BY <1>2, <1>3, <1>5 DEF Standing, Role
  <2> QED
    BY <1>1, <1>2, <1>3, <1>5, <2>1 DEF Standing
<1>7. Allowed(h, c, D)
  BY <1>2, <1>3, <1>5, <1>6 DEF Allowed, Untouched
<1>8. \A p \in P : Sendable(h, c.st, D, p)
  <2>1. CASE conn[h].bound
    BY <1>1, <1>3, <1>4, <2>1, BoundConnects, SynSendable
  <2>2. CASE ~ conn[h].bound
    BY <1>1, <2>2 DEF Control
  <2> QED
    BY <2>1, <2>2
<1>9. /\ conn' = [conn EXCEPT ![h] = c] /\ net' = net \cup P /\ opens' = opens
      /\ delivered' = [delivered EXCEPT ![h] = D]
  BY <1>1 DEF ResendSynAck, Update, Send, Inv, RestOK
<1>10. opens'[h] # 0 /\ opens'[Peer(h)] = opens[Peer(h)] /\ delivered[h] \subseteq D
  BY <1>1, <1>3, <1>9
<1> QED
  BY <1>7, <1>8, <1>9, <1>10, ChainedStep

LEMMA StopChained ==
  ASSUME Inv, Chained, NEW h \in Hosts, GiveUpSynAck(h) \/ StopTimer(h)
  PROVE  Chained'
<1>1. PICK c, D, P : /\ D = delivered[h] /\ P = {}
                     /\ \/ /\ conn[h].st = "SYN_RCVD" /\ conn[h].tmr
                           /\ c = [conn[h] EXCEPT !.tmr = FALSE, !.st = "LISTEN"]
                        \/ conn[h].st = "ESTABLISHED" /\ c = [conn[h] EXCEPT !.tmr = FALSE]
                     /\ conn' = [conn EXCEPT ![h] = c]
  BY DEF GiveUpSynAck, StopTimer, Update
<1>2. conn[h] \in Connections /\ conn[h].st \in {"SYN_RCVD", "ESTABLISHED"}
  BY <1>1, OpenHost
<1>3. /\ opens[h] # 0 /\ Standing(h, conn[h], delivered[h])
      /\ opens[Peer(h)] = 0 => conn[h].last_recvd = 0
      /\ (\A g \in Hosts : ~ Connects(g)) => Untouched(conn[h])
      /\ SomeoneConnects
  BY <1>2, OpenHost
<1>4. /\ c \in Connections /\ c.last_acked = conn[h].last_acked /\ ~ c.tmr
      /\ c.last_sent = conn[h].last_sent /\ c.bound = conn[h].bound
      /\ c.last_recvd = conn[h].last_recvd
      /\ c.st = IF conn[h].st = "SYN_RCVD" THEN "LISTEN" ELSE "ESTABLISHED"
  BY <1>1, <1>2 DEF Connections, States
<1>5. Standing(h, c, D)
  <2>1. CASE conn[h].st = "SYN_RCVD"
    <3>1. conn[h].tmr /\ Base(h) = 2 /\ conn[h].last_sent = 1 /\ conn[h].last_acked = 0
      BY <1>1, <1>3, <2>1, BaseValues DEF Standing, Role
    <3>2. Role(Base(h), c)
      BY <1>4, <2>1, <3>1 DEF Role
    <3> QED
      BY <1>1, <1>3, <1>4, <2>1, <3>2 DEF Standing
  <2>2. CASE conn[h].st = "ESTABLISHED"
    <3>1. Role(Base(h), c)
      BY <1>4, <2>2 DEF Role
    <3> QED
      BY <1>1, <1>3, <1>4, <2>2, <3>1 DEF Standing
  <2> QED
    BY <1>2, <2>1, <2>2
<1>6. Allowed(h, c, D)
  BY <1>2, <1>3, <1>4, <1>5 DEF Allowed, Untouched
<1>7. /\ net' = net \cup P /\ opens' = opens /\ delivered' = [delivered EXCEPT ![h] = D]
  BY <1>1 DEF GiveUpSynAck, StopTimer, Inv, RestOK
<1>8. /\ opens'[h] # 0 /\ opens'[Peer(h)] = opens[Peer(h)] /\ delivered[h] \subseteq D
      /\ \A p \in P : Sendable(h, c.st, D, p)
  BY <1>1, <1>3, <1>7
<1> QED
  BY <1>1, <1>6, <1>7, <1>8, ChainedStep

(* Arrivals.  What a handler has to show; c is the connection it leaves, D  *)
(* what was delivered to h then, P what it sends.                           *)
LEMMA ArrivalStep ==
  ASSUME Inv, Chained, NEW h \in Hosts, NEW p \in net, p.to = h,
         conn[h].st \notin {"none", "FIN_WAIT1"},
         NEW c \in Connections, NEW D, NEW P, delivered[h] \subseteq D, Standing(h, c, D),
         \A q \in P : Sendable(h, c.st, D, q),
         conn' = [conn EXCEPT ![h] = c], net' = net \cup P,
         delivered' = [delivered EXCEPT ![h] = D], opens' = opens
  PROVE  Chained'
<1>1. (\E g \in Hosts : Connects(g)) /\ opens[Peer(h)] # 0
  BY ArrivalConnects
<1>2. opens[h] # 0
  BY OpenHost
<1>3. Allowed(h, c, D)
  BY <1>1 DEF Allowed, Chained
<1>4. opens'[h] # 0 /\ opens'[Peer(h)] = opens[Peer(h)]
  BY <1>2
<1> QED
  BY <1>3, <1>4, ChainedStep

(* An acknowledgement that is taken for one leaves a number that was        *)
(* reached, and none that is smaller.                                       *)
LEMMA AckedReached ==
  ASSUME NEW h \in Hosts, NEW c \in Connections, NEW n \in Nat, c.last_acked <= c.last_sent,
         NEW D, Reached(Base(h), D, c.last_acked + 1), Reached(Base(h), D, n),
         NEW d, d = SetLastAcked(c, n)
  PROVE  /\ d \in Connections /\ d.st = c.st /\ d.bound = c.bound /\ d.last_sent = c.last_sent
         /\ d.last_recvd = c.last_recvd /\ d.tmr = c.tmr
         /\ d.last_acked >= c.last_acked /\ Reached(Base(h), D, d.last_acked + 1)
<1>1. CASE Acknowledges(c, n)
  <2>1. n > c.last_acked /\ c.last_acked \in Nat
    BY <1>1 DEF Acknowledges, Connections
  <2>2. PICK m \in Nat : m = n - 1 /\ m >= c.last_acked /\ m + 1 = n
    BY <2>1
  <2>3. d = [c EXCEPT !.last_acked = m]
    BY <1>1, <2>2 DEF SetLastAcked
  <2> QED
    BY <2>2, <2>3 DEF Connections
<1>2. CASE ~ Acknowledges(c, n)
  <2>1. d = c /\ c.last_acked \in Nat
    BY <1>2 DEF SetLastAcked, Connections
  <2> QED
    BY <2>1
<1> QED
  BY <1>1, <1>2

(* A host that answered no FIN yet gets no FIN with an ACK, and a FIN alone *)
(* of a peer that was told to close.                                        *)
LEMMA FinArrives ==
  ASSUME Inv, Chained, NEW h \in Hosts, NEW p \in net, p.to = h,
         "FIN" \in p.flags, conn[h].st # "FIN_WAIT1"
  PROVE  "ACK" \notin p.flags /\ conn[Peer(h)].st = "FIN_WAIT1"
BY ArrivalConnects, Peers DEF SentBy

(* Somebody connects, and not the host that takes a first segment as 2.     *)
LEMMA OtherConnects ==
  ASSUME NEW h \in Hosts, \E g \in Hosts : Connects(g), Base(h) = 2
  PROVE  Base(Peer(h)) = 3
<1>1. ~ Connects(h)
  BY BaseValues
<1>2. Connects(Peer(h))
  BY <1>1, Peers
<1> QED
  BY <1>2, BaseValues

LEMMA SynChained ==
  ASSUME Inv, Chained, NEW h \in Hosts, NEW p \in net, p.to = h, ReceiveSyn(h, p)
  PROVE  Chained'
<1>1. PICK c, D, P, acked, recvd :
        /\ acked = conn[h].last_sent - 1 /\ recvd = p.seq + 1
        /\ c = [conn[h] EXCEPT !.st = "SYN_RCVD", !.last_acked = acked,
                               !.last_recvd = recvd, !.tmr = TRUE, !.bound = TRUE]
        /\ D = delivered[h] /\ P = Control(h, c, 3)
  OBVIOUS
<1>2. conn[h].st = "LISTEN" /\ "SYN" \in p.flags
  BY DEF ReceiveSyn
<1>3. conn[h] \in Connections /\ Standing(h, conn[h], delivered[h])
  BY <1>2, OpenHost
<1>4. (\E g \in Hosts : Connects(g)) /\ opens[Peer(h)] # 0
      /\ SentBy(Peer(h), conn[Peer(h)].st, delivered[Peer(h)], p)
  BY ArrivalConnects
<1>5. Base(h) = 2 /\ conn[h].last_sent = 1 /\ Base(Peer(h)) = 3
  <2>1. Base(h) = 2
    BY <1>2, <1>3, BaseValues DEF Standing, Role
  <2>2. conn[h].last_sent = 1
    BY <1>2, <1>3, <2>1 DEF Standing, Role
  <2> QED
    BY <1>4, <2>1, <2>2, OtherConnects
<1>6. p.seq = 2
  BY <1>2, <1>4, <1>5 DEF SentBy, Formed
<1>7. acked = 0 /\ recvd = 3
  BY <1>1, <1>5, <1>6
<1>8. /\ c \in Connections /\ c.st = "SYN_RCVD" /\ c.last_acked = 0 /\ c.last_sent = 1
      /\ c.last_recvd = 3 /\ c.tmr
  <2>1. PICK b : b = conn[h] /\ b \in Connections /\ b.last_sent = 1
    BY <1>3, <1>5
  <2>2. c = [b EXCEPT !.st = "SYN_RCVD", !.last_acked = 0, !.last_recvd = 3, !.tmr = TRUE, !.bound = TRUE]
    BY <1>1, <1>7, <2>1
  <2> QED
    BY <2>1, <2>2 DEF Connections, States
<1>9. Reached(2, delivered[Peer(h)], 1) /\ Reached(3, D, 3)
  BY ReachedLow
<1>10. Standing(h, c, D)
  <2>1. Role(2, c)
    BY <1>8 DEF Role
  <2> QED
    BY <1>5, <1>8, <1>9, <2>1 DEF Standing
<1>11. Quotes(h, c, D)
  BY <1>4, <1>5, <1>8, <1>9 DEF Quotes
<1>12. \A q \in P : Sendable(h, c.st, D, q)
  <2>1. (c.bound => c.last_acked = 0) /\ c.last_recvd = 3 /\ \E g \in Hosts : Connects(g)
    BY <1>4, <1>8
  <2>2. \A q \in Control(h, c, 3) : Sendable(h, c.st, D, q)
    BY <1>5, <1>11, <2>1, SynSendable
  <2> QED
    BY <1>1, <2>2
<1>13. /\ conn' = [conn EXCEPT ![h] = c] /\ net' = net \cup P /\ opens' = opens
       /\ delivered' = [delivered EXCEPT ![h] = D]
  BY <1>1 DEF ReceiveSyn, Update, Send, Inv, RestOK
<1>14. /\ conn[h].st \notin {"none", "FIN_WAIT1"} /\ c \in Connections
       /\ delivered[h] \subseteq D
  BY <1>1, <1>2, <1>8
<1> QED
  BY <1>10, <1>12, <1>13, <1>14, ArrivalStep

(* The answers that change nothing: to a FIN in LISTEN, to refused data.    *)
LEMMA AnswerChained ==
  ASSUME Inv, Chained, NEW h \in Hosts, NEW p \in net, p.to = h,
         ReceiveFinListening(h, p) \/ RefuseData(h, p)
  PROVE  Chained'
<1>1. PICK c, D : c = conn[h] /\ D = delivered[h]
  OBVIOUS
<1>2. /\ c \in Connections /\ Standing(h, c, D) /\ Quotes(h, c, D)
      /\ conn[h].st \in {"LISTEN", "ESTABLISHED"}
  BY <1>1, OpenHost DEF ReceiveFinListening, RefuseData
<1>3. (\E g \in Hosts : Connects(g)) /\ opens[Peer(h)] # 0
  BY ArrivalConnects
<1>4. PICK P : net' = net \cup P /\ \A q \in P : Sendable(h, c.st, D, q)
  <2>1. CASE ReceiveFinListening(h, p)
    <3>1. conn[Peer(h)].st = "FIN_WAIT1"
      BY <2>1, FinArrives DEF ReceiveFinListening
    <3>2. net' = net \cup Control(h, c, 6)
      BY <1>1, <2>1 DEF ReceiveFinListening, Send
    <3>3. \A q \in Control(h, c, 6) : Sendable(h, c.st, D, q)
      BY <1>2, <1>3, <3>1, FinAckSendable DEF Quotes
    <3> QED
      BY <3>2, <3>3
  <2>2. CASE RefuseData(h, p)
    <3>1. net' = net \cup Control(h, c, 2)
      BY <1>1, <2>2 DEF RefuseData, Send
    <3>2. \A q \in Control(h, c, 2) : Sendable(h, c.st, D, q)
      BY <1>2, <1>3, AckSendable
    <3> QED
      BY <3>1, <3>2
  <2> QED
    BY <2>1, <2>2
<1>5. /\ conn' = [conn EXCEPT ![h] = c] /\ opens' = opens
      /\ delivered' = [delivered EXCEPT ![h] = D]
  BY <1>1 DEF ReceiveFinListening, RefuseData, Inv, ConnOK, RestOK
<1> QED
  BY <1>1, <1>2, <1>4, <1>5, ArrivalStep

(* SYN_RCVD.                                                                *)
LEMMA AckOfSynChained ==
  ASSUME Inv, Chained, NEW h \in Hosts, NEW p \in net, p.to = h, ReceiveAckOfSyn(h, p)
  PROVE  Chained'
<1>1. PICK b, c, D, P : /\ b = [conn[h] EXCEPT !.st = "ESTABLISHED"] /\ c = SetLastAcked(b, p.ack)
                        /\ D = delivered[h] /\ P = {}
  OBVIOUS
<1>2. conn[h].st = "SYN_RCVD" /\ "ACK" \in p.flags /\ conn[h].last_sent + 1 = p.ack
  BY DEF ReceiveAckOfSyn
<1>3. /\ conn[h] \in Connections /\ Sound(conn[h]) /\ Standing(h, conn[h], delivered[h])
      /\ Quotes(h, conn[h], delivered[h])
  BY <1>2, OpenHost
<1>4. /\ Reached(Base(h), delivered[Peer(h)], p.ack) /\ p.ack \in Nat
  <2>1. SentBy(Peer(h), conn[Peer(h)].st, delivered[Peer(h)], p) /\ p.ack \in Nat
    BY ArrivalConnects
  <2>2. "FIN" \notin p.flags
    BY <1>2, FinArrives
  <2> QED
    BY <2>1, <2>2, Peers DEF SentBy
<1>5. Base(h) = 2 /\ conn[h].tmr /\ conn[h].last_sent = 1 /\ conn[h].last_acked = 0
  <2>1. CASE Base(h) = 3
    <3>1. p.ack = 4
      BY <1>2, <1>3, <2>1 DEF Standing, Role
    <3> QED
      BY <1>4, <2>1, <3>1, NotReached
  <2>2. CASE Base(h) = 2
    <3>1. conn[h].last_sent = 2 => p.ack = 3
      BY <1>2
    <3>2. conn[h].last_sent # 2
      BY <1>4, <2>2, <3>1, NotReached
    <3> QED
      BY <1>2, <1>3, <2>2, <3>2 DEF Standing, Role
  <2> QED
    BY <2>1, <2>2, BaseValues
<1>6. /\ b \in Connections /\ b.st = "ESTABLISHED" /\ b.last_acked = 0 /\ b.last_sent = 1
      /\ b.last_recvd = conn[h].last_recvd
  BY <1>1, <1>3, <1>5 DEF Connections, States
<1>7. c = [b EXCEPT !.last_acked = 1]
  <2>1. p.ack = 2 /\ p.ack - 1 = 1
    BY <1>2, <1>5
  <2> QED
    BY <1>1, <1>6, <2>1 DEF SetLastAcked, Acknowledges
<1>8. /\ c \in Connections /\ c.st = "ESTABLISHED" /\ c.last_acked = 1
      /\ c.last_recvd = conn[h].last_recvd
  BY <1>6, <1>7 DEF Connections
<1>9. Standing(h, c, D)
  <2>1. Role(2, c)
    BY <1>8 DEF Role
  <2>2. Reached(2, delivered[Peer(h)], 2)
    BY ReachedLow
  <2> QED
    BY <1>1, <1>3, <1>5, <1>8, <2>1, <2>2 DEF Standing, Quotes
<1>10. /\ conn[h].st \notin {"none", "FIN_WAIT1"} /\ delivered[h] \subseteq D
       /\ \A q \in P : Sendable(h, c.st, D, q)
  BY <1>1, <1>2
<1>11. /\ conn' = [conn EXCEPT ![h] = c] /\ net' = net \cup P /\ opens' = opens
       /\ delivered' = [delivered EXCEPT ![h] = D]
  BY <1>1 DEF ReceiveAckOfSyn, Update, Inv, RestOK
<1> QED
  BY <1>8, <1>9, <1>10, <1>11, ArrivalStep

(* SYN_SENT.                                                                *)
LEMMA SynAckChained ==
  ASSUME Inv, Chained, NEW h \in Hosts, NEW p \in net, p.to = h, ReceiveSynAck(h, p)
  PROVE  Chained'
<1>1. PICK recvd, b, d, c, D, P :
        /\ recvd = p.seq + 1 /\ b = [conn[h] EXCEPT !.last_recvd = recvd]
        /\ d = SetLastAcked(b, p.ack) /\ c = [d EXCEPT !.st = "ESTABLISHED"]
        /\ D = delivered[h] /\ P = Control(h, d, 2)
  OBVIOUS
<1>2. conn[h].st = "SYN_SENT" /\ "SYN" \in p.flags /\ "ACK" \in p.flags
  BY DEF ReceiveSynAck
<1>3. /\ conn[h] \in Connections /\ Sound(conn[h]) /\ Standing(h, conn[h], delivered[h])
      /\ Quotes(h, conn[h], delivered[h])
  BY <1>2, OpenHost
<1>4. /\ (\E g \in Hosts : Connects(g)) /\ opens[Peer(h)] # 0
      /\ Formed(Base(Peer(h)), p)
  BY ArrivalConnects DEF SentBy
<1>5. Base(Peer(h)) = 2 /\ p.seq = 1 /\ p.ack = 3
  <2>1. {"SYN"} # p.flags
    BY <1>2
  <2>2. Base(Peer(h)) # 3
    BY <1>2, <1>4, <2>1 DEF Formed
  <2> QED
    BY <1>2, <1>4, <2>2, BaseValues DEF Formed
<1>6. Base(h) = 3
  BY <1>4, <1>5, OtherConnects, Peers, BaseValues
<1>7. conn[h].last_acked = 1 /\ conn[h].last_sent = 2 /\ ~ conn[h].tmr
  BY <1>2, <1>3, <1>6 DEF Standing, Role
<1>8. recvd = 2
  BY <1>1, <1>5
<1>9. /\ b \in Connections /\ b.last_acked = 1 /\ b.last_sent = 2 /\ ~ b.tmr /\ b.last_recvd = 2
  BY <1>1, <1>3, <1>7, <1>8 DEF Connections
<1>10. d = [b EXCEPT !.last_acked = 2]
  <2>1. 3 - 1 = 2
    OBVIOUS
  <2> QED
    BY <1>1, <1>5, <1>9, <2>1 DEF SetLastAcked, Acknowledges
<1>11. d \in Connections /\ d.last_acked = 2 /\ d.last_recvd = 2 /\ ~ d.tmr
  BY <1>9, <1>10 DEF Connections
<1>12. /\ c \in Connections /\ c.st = "ESTABLISHED" /\ c.last_acked = 2 /\ c.last_recvd = 2 /\ ~ c.tmr
  BY <1>1, <1>11 DEF Connections, States
<1>13. Reached(3, delivered[Peer(h)], 3) /\ Reached(2, D, 2)
  BY ReachedLow
<1>14. Standing(h, c, D)
  <2>1. Role(3, c)
    BY <1>12 DEF Role
  <2> QED
    BY <1>5, <1>6, <1>12, <1>13, <2>1 DEF Standing
<1>15. Quotes(h, d, D)
  BY <1>4, <1>5, <1>6, <1>11, <1>13 DEF Quotes
<1>16. \A q \in P : Sendable(h, c.st, D, q)
  BY <1>1, <1>4, <1>15, AckSendable
<1>17. conn[h].st \notin {"none", "FIN_WAIT1"} /\ delivered[h] \subseteq D
  BY <1>1, <1>2
<1>18. /\ conn' = [conn EXCEPT ![h] = c] /\ net' = net \cup P /\ opens' = opens
       /\ delivered' = [delivered EXCEPT ![h] = D]
  BY <1>1 DEF ReceiveSynAck, Update, Send, Inv, RestOK
<1> QED
  BY <1>12, <1>14, <1>16, <1>17, <1>18, ArrivalStep

LEMMA CrossingChained ==
  ASSUME Inv, Chained, NEW h \in Hosts, NEW p \in net, p.to = h, ReceiveSynCrossing(h, p)
  PROVE  Chained'
<1>1. PICK next, b, c, D, P :
        /\ next = conn[h].last_sent + 1 /\ b = [conn[h] EXCEPT !.last_recvd = p.seq]
        /\ c = [b EXCEPT !.st = "SYN_RCVD", !.last_sent = next]
        /\ D = delivered[h] /\ P = Control(h, b, 2)
  OBVIOUS
<1>2. conn[h].st = "SYN_SENT"
  BY DEF ReceiveSynCrossing
<1>3. /\ conn[h] \in Connections /\ Sound(conn[h]) /\ Standing(h, conn[h], delivered[h])
      /\ Quotes(h, conn[h], delivered[h])
  BY <1>2, OpenHost
<1>4. /\ (\E g \in Hosts : Connects(g)) /\ opens[Peer(h)] # 0 /\ p.seq \in Nat
      /\ Reached(Base(Peer(h)), D, p.seq)
  BY <1>1, ArrivalConnects, Peers DEF SentBy
<1>5. /\ ~ conn[h].tmr
      /\ Base(h) = 3 => next = 3
      /\ Base(h) = 2 => next = 2
  <2>1. ~ conn[h].tmr
    BY <1>2, <1>3 DEF Sound
  <2>2. Base(h) = 3 => conn[h].last_sent = 2
    BY <1>2, <1>3 DEF Standing, Role
  <2>3. Base(h) = 2 => conn[h].last_sent = 1
    BY <1>2, <1>3 DEF Standing, Role
  <2> QED
    BY <1>1, <2>1, <2>2, <2>3
<1>6. next \in Nat \ {0}
  BY <1>1, <1>3 DEF Connections
<1>7. /\ b \in Connections /\ b.last_acked = conn[h].last_acked /\ b.last_recvd = p.seq
      /\ b.tmr = conn[h].tmr
  BY <1>1, <1>3, <1>4 DEF Connections
<1>8. /\ c \in Connections /\ c.st = "SYN_RCVD" /\ c.last_acked = conn[h].last_acked
      /\ c.last_recvd = p.seq /\ c.last_sent = next /\ c.tmr = conn[h].tmr
  BY <1>1, <1>6, <1>7 DEF Connections, States
<1>9. Quotes(h, b, D)
  BY <1>3, <1>4, <1>7 DEF Quotes
<1>10. Standing(h, c, D)
  <2>1. Role(Base(h), c)
    BY <1>5, <1>8, BaseValues DEF Role
  <2> QED
    BY <1>4, <1>8, <1>3, <2>1 DEF Standing, Quotes
<1>11. \A q \in P : Sendable(h, c.st, D, q)
  BY <1>1, <1>4, <1>9, AckSendable
<1>12. conn[h].st \notin {"none", "FIN_WAIT1"} /\ delivered[h] \subseteq D
  BY <1>1, <1>2
<1>13. /\ conn' = [conn EXCEPT ![h] = c] /\ net' = net \cup P /\ opens' = opens
       /\ delivered' = [delivered EXCEPT ![h] = D]
  <2>1. c = [b EXCEPT !.st = "SYN_RCVD", !.last_sent = @ + 1]
    BY <1>1, <1>3 DEF Connections
  <2> QED
    BY <1>1, <2>1 DEF ReceiveSynCrossing, Update, Send, Inv, RestOK
<1> QED
  BY <1>8, <1>10, <1>11, <1>12, <1>13, ArrivalStep

(* ESTABLISHED.                                                             *)
LEMMA DataChained ==
  ASSUME Inv, Chained, NEW h \in Hosts, NEW p \in net, p.to = h, ReceiveData(h, p)
  PROVE  Chained'
<1>1. PICK recvd, b, c, D, P :
        /\ recvd = p.seq + p.len /\ b = [conn[h] EXCEPT !.last_recvd = recvd]
        /\ c = SetLastAcked(b, p.ack) /\ D = delivered[h] \cup {p} /\ P = Control(h, c, 2)
  OBVIOUS
<1>2. conn[h].st = "ESTABLISHED" /\ Data(p)
  BY DEF ReceiveData, Data
<1>3. /\ conn[h] \in Connections /\ Sound(conn[h]) /\ Standing(h, conn[h], delivered[h])
      /\ Quotes(h, conn[h], delivered[h])
  BY <1>2, OpenHost
<1>4. /\ (\E g \in Hosts : Connects(g)) /\ opens[Peer(h)] # 0
      /\ SentBy(Peer(h), conn[Peer(h)].st, delivered[Peer(h)], p) /\ p.seq \in Nat /\ p.ack \in Nat
  BY ArrivalConnects
<1>5. p.flags = {"PSH", "ACK"} /\ p.len = 4 /\ p.seq >= Base(Peer(h))
  BY <1>2, <1>4 DEF SentBy, Formed
<1>6. Reached(Base(Peer(h)), delivered[h], p.seq) /\ Reached(Base(h), delivered[Peer(h)], p.ack)
  <2>1. "FIN" \notin p.flags
    BY <1>5
  <2> QED
    BY <1>4, <2>1, Peers DEF SentBy
<1>7. Reached(Base(Peer(h)), D, recvd) /\ recvd \in Nat
  <2>1. recvd = p.seq + 4
    BY <1>1, <1>5
  <2> QED
    BY <1>1, <1>4, <1>5, <1>6, <2>1, ReachedNext, BaseValues
<1>8. /\ b \in Connections /\ b.st = "ESTABLISHED" /\ b.last_acked = conn[h].last_acked
      /\ b.last_sent = conn[h].last_sent /\ b.last_recvd = recvd /\ b.tmr = conn[h].tmr
  BY <1>1, <1>2, <1>3, <1>7 DEF Connections
<1>9. /\ c \in Connections /\ c.st = "ESTABLISHED" /\ c.last_recvd = recvd /\ c.tmr = conn[h].tmr
      /\ c.last_acked >= conn[h].last_acked
      /\ Reached(Base(h), delivered[Peer(h)], c.last_acked + 1)
  <2>1. b.last_acked <= b.last_sent /\ Reached(Base(h), delivered[Peer(h)], b.last_acked + 1)
    BY <1>3, <1>8 DEF Sound, Quotes
  <2>3. c = SetLastAcked(b, p.ack) /\ p.ack \in Nat /\ b \in Connections
        /\ Reached(Base(h), delivered[Peer(h)], p.ack)
    BY <1>1, <1>4, <1>6, <1>8
  <2>4. /\ c \in Connections /\ c.st = b.st /\ c.last_recvd = b.last_recvd /\ c.tmr = b.tmr
        /\ c.last_acked >= b.last_acked
        /\ Reached(Base(h), delivered[Peer(h)], c.last_acked + 1)
    BY <2>1, <2>3, AckedReached
  <2> QED
    BY <1>8, <2>4
<1>10. Standing(h, c, D)
  <2>1. Role(Base(h), c)
    BY <1>2, <1>3, <1>9 DEF Standing, Role
  <2>2. c.last_acked + 1 >= Base(h)
    <3>1. conn[h].last_acked + 1 >= Base(h) /\ conn[h].last_acked \in Nat /\ c.last_acked \in Nat
      BY <1>2, <1>3, <1>9 DEF Standing, Connections
    <3> QED
      BY <1>9, <3>1, BaseValues
  <2> QED
    BY <1>7, <1>9, <2>1, <2>2 DEF Standing
<1>11. Quotes(h, c, D)
  BY <1>4, <1>7, <1>9 DEF Quotes
<1>12. \A q \in P : Sendable(h, c.st, D, q)
  BY <1>1, <1>4, <1>11, AckSendable
<1>13. conn[h].st \notin {"none", "FIN_WAIT1"} /\ delivered[h] \subseteq D
  BY <1>1, <1>2
<1>14. /\ conn' = [conn EXCEPT ![h] = c] /\ net' = net \cup P /\ opens' = opens
       /\ delivered' = [delivered EXCEPT ![h] = D]
  BY <1>1 DEF ReceiveData, Update, Send
<1> QED
  BY <1>9, <1>10, <1>12, <1>13, <1>14, ArrivalStep

LEMMA AckChained ==
  ASSUME Inv, Chained, NEW h \in Hosts, NEW p \in net, p.to = h, ReceiveAck(h, p)
  PROVE  Chained'
<1>1. PICK recvd, b, c, D, P :
        /\ recvd = p.seq + p.len /\ b = [conn[h] EXCEPT !.last_recvd = recvd]
        /\ c = IF p.ack = conn[h].last_acked THEN [conn[h] EXCEPT !.tries = 0]
               ELSE SetLastAcked(b, p.ack)
        /\ D = delivered[h] /\ P = {}
  OBVIOUS
<1>2. /\ conn[h].st = "ESTABLISHED" /\ ~ Data(p) /\ "FIN" \notin p.flags /\ "ACK" \in p.flags
  BY DEF ReceiveAck, Data
<1>3. /\ conn[h] \in Connections /\ Sound(conn[h]) /\ Standing(h, conn[h], delivered[h])
      /\ Quotes(h, conn[h], delivered[h])
  BY <1>2, OpenHost
<1>4. /\ p.seq \in Nat /\ p.ack \in Nat /\ p.len = 0
      /\ Reached(Base(Peer(h)), delivered[h], p.seq) /\ Reached(Base(h), delivered[Peer(h)], p.ack)
  BY <1>2, ArrivalConnects, Peers DEF SentBy, Formed
<1>5. recvd = p.seq
  BY <1>1, <1>4
<1>6. /\ b \in Connections /\ b.st = "ESTABLISHED" /\ b.last_acked = conn[h].last_acked
      /\ b.last_sent = conn[h].last_sent /\ b.last_recvd = p.seq /\ b.tmr = conn[h].tmr
  BY <1>1, <1>2, <1>3, <1>4, <1>5 DEF Connections
<1>7. /\ c \in Connections /\ c.st = "ESTABLISHED" /\ c.tmr = conn[h].tmr
      /\ c.last_acked >= conn[h].last_acked
      /\ Reached(Base(h), delivered[Peer(h)], c.last_acked + 1)
      /\ Reached(Base(Peer(h)), D, c.last_recvd)
  <2>1. CASE p.ack = conn[h].last_acked
    <3>1. c = [conn[h] EXCEPT !.tries = 0]
      BY <1>1, <2>1
    <3>2. /\ c \in Connections /\ c.st = "ESTABLISHED" /\ c.tmr = conn[h].tmr
          /\ c.last_acked = conn[h].last_acked /\ c.last_recvd = conn[h].last_recvd
      BY <1>2, <1>3, <3>1 DEF Connections
    <3>3. c.last_acked >= conn[h].last_acked
      BY <3>2 DEF Connections
    <3> QED
      BY <1>1, <1>3, <3>2, <3>3 DEF Quotes
  <2>2. CASE p.ack # conn[h].last_acked
    <3>1. c = SetLastAcked(b, p.ack)
      BY <1>1, <2>2
    <3>2. b.last_acked <= b.last_sent /\ Reached(Base(h), delivered[Peer(h)], b.last_acked + 1)
      BY <1>3, <1>6 DEF Sound, Quotes
    <3>3. c = SetLastAcked(b, p.ack) /\ p.ack \in Nat /\ b \in Connections
          /\ Reached(Base(h), delivered[Peer(h)], p.ack)
      BY <1>4, <1>6, <3>1
    <3>4. /\ c \in Connections /\ c.st = b.st /\ c.last_recvd = b.last_recvd /\ c.tmr = b.tmr
          /\ c.last_acked >= b.last_acked
          /\ Reached(Base(h), delivered[Peer(h)], c.last_acked + 1)
      BY <3>2, <3>3, AckedReached
    <3> QED
      BY <1>1, <1>4, <1>6, <3>4
  <2> QED
    BY <2>1, <2>2
<1>8. Standing(h, c, D)
  <2>1. Role(Base(h), c)
    BY <1>2, <1>3, <1>7 DEF Standing, Role
  <2>2. c.last_acked + 1 >= Base(h)
    <3>1. conn[h].last_acked + 1 >= Base(h) /\ conn[h].last_acked \in Nat /\ c.last_acked \in Nat
      BY <1>2, <1>3, <1>7 DEF Standing, Connections
    <3> QED
      BY <1>7, <3>1, BaseValues
  <2> QED
    BY <1>7, <2>1, <2>2 DEF Standing
<1>9. /\ conn[h].st \notin {"none", "FIN_WAIT1"} /\ delivered[h] \subseteq D
      /\ \A q \in P : Sendable(h, c.st, D, q)
  BY <1>1, <1>2
<1>10. /\ conn' = [conn EXCEPT ![h] = c] /\ net' = net \cup P /\ opens' = opens
       /\ delivered' = [delivered EXCEPT ![h] = D]
  BY <1>1 DEF ReceiveAck, Update, Inv, RestOK
<1> QED
  BY <1>7, <1>8, <1>9, <1>10, ArrivalStep

LEMMA FinChained ==
  ASSUME Inv, Chained, NEW h \in Hosts, NEW p \in net, p.to = h, ReceiveFin(h, p)
  PROVE  Chained'
<1>1. PICK recvd, b, c, D, P :
        /\ recvd = p.seq + 1 /\ b = [conn[h] EXCEPT !.last_recvd = recvd]
        /\ c = [b EXCEPT !.st = "LAST_ACK"] /\ D = delivered[h] /\ P = Control(h, b, 6)
  OBVIOUS
<1>2. conn[h].st = "ESTABLISHED" /\ "FIN" \in p.flags
  BY DEF ReceiveFin
<1>3. /\ conn[h] \in Connections /\ Standing(h, conn[h], delivered[h])
  BY <1>2, OpenHost
<1>4. /\ (\E g \in Hosts : Connects(g)) /\ opens[Peer(h)] # 0 /\ p.seq \in Nat
      /\ conn[Peer(h)].st = "FIN_WAIT1"
  BY <1>2, ArrivalConnects, FinArrives
<1>5. recvd \in Nat
  BY <1>1, <1>4
<1>6. b \in Connections /\ b.last_acked = conn[h].last_acked /\ b.tmr = conn[h].tmr
  BY <1>1, <1>3, <1>5 DEF Connections
<1>7. /\ c \in Connections /\ c.st = "LAST_ACK" /\ c.last_acked = conn[h].last_acked
      /\ c.tmr = conn[h].tmr
  BY <1>1, <1>6 DEF Connections, States
<1>8. Standing(h, c, D)
  <2>1. Role(Base(h), c)
    BY <1>3, <1>7 DEF Standing, Role
  <2> QED
    BY <1>3, <1>7, <2>1 DEF Standing
<1>9. \A q \in P : Sendable(h, c.st, D, q)
  <2>1. Reached(Base(h), delivered[Peer(h)], b.last_acked + 1)
    BY <1>3, <1>6 DEF Standing
  <2> QED
    BY <1>1, <1>4, <2>1, FinAckSendable
<1>10. conn[h].st \notin {"none", "FIN_WAIT1"} /\ delivered[h] \subseteq D
  BY <1>1, <1>2
<1>11. /\ conn' = [conn EXCEPT ![h] = c] /\ net' = net \cup P /\ opens' = opens
       /\ delivered' = [delivered EXCEPT ![h] = D]
  BY <1>1 DEF ReceiveFin, Update, Send, Inv, RestOK
<1> QED
  BY <1>7, <1>8, <1>9, <1>10, <1>11, ArrivalStep

(* LAST_ACK.                                                                *)
LEMMA LastAckChained ==
  ASSUME Inv, Chained, NEW h \in Hosts, NEW p \in net, p.to = h, ReceiveLastAck(h, p)
  PROVE  Chained'
<1>1. PICK c, D, P : c = [conn[h] EXCEPT !.st = "CLOSING"] /\ D = delivered[h] /\ P = {}
  OBVIOUS
<1>2. conn[h].st = "LAST_ACK"
  BY DEF ReceiveLastAck
<1>3. conn[h] \in Connections /\ Standing(h, conn[h], delivered[h])
  BY <1>2, OpenHost
<1>4. /\ c \in Connections /\ c.st = "CLOSING" /\ c.last_acked = conn[h].last_acked
      /\ c.tmr = conn[h].tmr
  BY <1>1, <1>3 DEF Connections, States
<1>5. Standing(h, c, D)
  <2>1. Role(Base(h), c)
    BY <1>3, <1>4 DEF Standing, Role
  <2> QED
    BY <1>3, <1>4, <2>1 DEF Standing
<1>6. /\ conn[h].st \notin {"none", "FIN_WAIT1"} /\ delivered[h] \subseteq D
      /\ \A q \in P : Sendable(h, c.st, D, q)
  BY <1>1, <1>2
<1>7. /\ conn' = [conn EXCEPT ![h] = c] /\ net' = net \cup P /\ opens' = opens
      /\ delivered' = [delivered EXCEPT ![h] = D]
  BY <1>1 DEF ReceiveLastAck, Update, Inv, RestOK
<1> QED
  BY <1>4, <1>5, <1>6, <1>7, ArrivalStep

LEMMA ChainedInit == Init => Chained
<1> SUFFICES ASSUME Init PROVE Chained
  OBVIOUS
<1>1. net = {} /\ \A h \in Hosts : /\ conn[h] = Erased /\ delivered[h] = {} /\ opens[h] = 0
  BY DEF Init
<1>2. \A h : ~ Connects(h) /\ Base(h) = 2
  BY <1>1 DEF Connects, Base
<1>3. /\ Erased.st = "none" /\ Erased.last_acked = 1 /\ Erased.last_recvd = 0
      /\ ~ Erased.tmr /\ ~ Erased.bound
  BY DEF Erased, NewConnection
<1>4. \A D : Reached(2, D, 0) /\ Reached(2, D, 2)
  BY ReachedLow
<1>5. SomeoneConnects
  BY <1>1, <1>3 DEF SomeoneConnects, Untouched
<1>6. \A h \in Hosts : Unopened(h)
  BY <1>1, <1>3, Peers DEF Unopened
<1>7. ASSUME NEW h \in Hosts PROVE Standing(h, conn[h], delivered[h])
  <2>1. Role(2, Erased)
    BY <1>3 DEF Role
  <2> QED
    BY <1>1, <1>2, <1>3, <1>4, <2>1 DEF Standing
<1> QED
  BY <1>1, <1>2, <1>5, <1>6, <1>7 DEF Chained

LEMMA ChainedNext ==
  ASSUME Inv, Chained, MaxOpens <= 1, NoControlSegment, [Next]_vars
  PROVE  Chained'
<1>1. CASE UNCHANGED vars
  BY <1>1, Unchanged DEF vars
<1>2. ASSUME NEW h \in Hosts, Request(h) PROVE Chained'
  <2>1. CASE RequestIgnored(h) \/ CloseIgnored(h)
    BY <2>1, Unchanged DEF RequestIgnored, CloseIgnored
  <2> QED
    BY <1>2, <2>1, ConnectChained, AcceptChained, ListenChained, WriteChained, CloseActiveChained,
       CloseErases DEF Request
<1>3. ASSUME NEW h \in Hosts, NEW p \in net, p.to = h, Receive(h, p) PROVE Chained'
  <2>1. ~ ReceiveFinConnecting(h, p)
    BY <1>3, FinArrives DEF ReceiveFinConnecting
  <2> QED
    BY <1>3, <2>1, SynChained, AnswerChained, AckOfSynChained, SynAckChained, CrossingChained,
       DataChained, FinChained, AckChained, LastAckChained DEF Receive
<1>4. ASSUME NEW h \in Hosts, Timeout(h) PROVE Chained'
  BY <1>4, ResendChained, StopChained DEF Timeout
<1> QED
  BY <1>1, <1>2, <1>3, <1>4 DEF Next

(* What a host takes for acknowledged its peer has delivered, whatever is   *)
(* lost, doubled or reordered: while each host opens at most once and no    *)
(* segment has a size that createPacket takes for SYN, ACK, FIN or two of   *)
(* them.                                                                    *)
THEOREM AckedDataDelivered ==
  ASSUME MaxOpens <= 1, NoControlSegment
  PROVE  Spec => []AckedWasDelivered
<1>1. Inv /\ Chained => AckedWasDelivered
  <2> SUFFICES ASSUME Inv, Chained, NEW h \in Hosts, NEW p \in net,
                      p.to = Peer(h), Data(p), p.seq + p.len <= conn[h].last_acked + 1
               PROVE  \E q \in delivered[Peer(h)] : q.seq = p.seq
    BY DEF AckedWasDelivered
  <2>1. SentBy(h, conn[h].st, delivered[h], p) /\ Standing(h, conn[h], delivered[h])
    BY Peers DEF Chained
  <2>2. p.len = 4 /\ p.seq >= Base(h) /\ Reached(Base(h), delivered[Peer(h)], p.seq)
    BY <2>1 DEF SentBy, Formed
  <2>3. PICK x : x = conn[h].last_acked + 1
    OBVIOUS
  <2>4. x \in Nat /\ p.seq \in Nat /\ Reached(Base(h), delivered[Peer(h)], x)
    BY <2>1, <2>3 DEF Inv, ConnOK, RestOK, Connections, Packets, Standing
  <2>5. p.seq < x
    BY <2>2, <2>3, <2>4
  <2> QED
    BY <2>2, <2>4, <2>5, ReachedDelivered, BaseValues
<1>2. Init => Inv /\ Chained
  BY InvInit, ChainedInit
<1>3. Inv /\ Chained /\ [Next]_vars => Inv' /\ Chained'
  BY InvNext, ChainedNext
<1> QED
  BY <1>1, <1>2, <1>3, PTL DEF Spec
=============================================================================
