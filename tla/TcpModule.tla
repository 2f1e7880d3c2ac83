----------------------------- MODULE TcpModule -----------------------------
(***************************************************************************)
(* tcp_module.cc with TCPState: the TCP of two hosts, A and B, that talk   *)
(* over one pair of ports, and the IP packets between them.                *)
(*                                                                         *)
(* A host holds at most one connection in its clist: a request of the      *)
(* socket module matches by wildcards (Connection::Matches), so one        *)
(* connection of the port answers for all of them.                         *)
(*                                                                         *)
(* Packets are lost, doubled and reordered: net is the set of all packets  *)
(* ever sent, and any of them may arrive at any time, again or never.      *)
(*                                                                         *)
(* The SendBuffer is left out: SendData extracts all it has added, so it   *)
(* is empty between two events, and with it what handle_timeout resends.   *)
(* So are rwnd, which is set and never read, and the window, a constant.   *)
(* The states CLOSED, SYN_SENT1, SEND_DATA, FIN_WAIT2 and TIME_WAIT are    *)
(* never entered, and CLOSE_WAIT is left by the handler that enters it.    *)
(***************************************************************************)
EXTENDS Integers, FiniteSets

CONSTANTS
  A, B,        \* the two hosts
  WriteSizes,  \* sizes of the buffers that applications write
  MSS,         \* TCP_MAXIMUM_SEGMENT_SIZE
  Tries,       \* timer tries of a new connection
  MaxSent,     \* bound on last_sent, an unsigned of 32 bits
  MaxOpens,    \* bound on the opens (CONNECT or ACCEPT) of a host
  MaxOwed      \* bound on the requests that wait for a STATUS, and on the
               \* STATUS without a request

ASSUME HostsAssumption == A # B
ASSUME SizesAssumption == WriteSizes \subseteq Nat \ {0} /\ MSS \in Nat \ {0}
ASSUME BoundsAssumption ==
  Tries \in Nat /\ MaxSent \in Nat /\ MaxOpens \in Nat /\ MaxOwed \in Nat

Hosts == {A, B}
Peer(h) == IF h = A THEN B ELSE A

VARIABLES
  conn,        \* the connection of each host
  net,         \* every packet sent
  delivered,   \* the data segments whose bytes went to the socket module
  opens,       \* number of opens
  owed         \* requests minus STATUS: how many the socket module waits for

vars == <<conn, net, delivered, opens, owed>>

States == {"none", "LISTEN", "SYN_RCVD", "SYN_SENT", "ESTABLISHED", "FIN_WAIT1", "LAST_ACK", "CLOSING"}

(* ConnectionToStateMapping<TCPState>; "none": the clist has no connection, *)
(* bound: the connection names its peer.                                    *)
Connections == [st : States, bound : BOOLEAN, last_acked : Nat, last_sent : Nat \ {0},
                last_recvd : Nat, tmr : BOOLEAN, tries : Nat]

(* TCPState(1, st, 3), with the timer off. *)
NewConnection(st, bound) ==
  [st |-> st, bound |-> bound, last_acked |-> 1, last_sent |-> 1, last_recvd |-> 0,
   tmr |-> FALSE, tries |-> Tries]
Erased == NewConnection("none", FALSE)

(* The flags that createPacket sets for its argument "header". *)
FlagsOf(header) ==
  CASE header = 1 -> {"SYN"}
    [] header = 2 -> {"ACK"}
    [] header = 3 -> {"SYN", "ACK"}
    [] header = 4 -> {"PSH", "ACK"}
    [] header = 5 -> {"FIN"}
    [] header = 6 -> {"FIN", "ACK"}
    [] header = 7 -> {"RST"}
    [] OTHER -> {}

(* createPacket: the sequence number is last_acked + 1 whatever has been    *)
(* sent.  len is the size the IP header tells, pos the place of the bytes   *)
(* in what the host has written, which no header tells.                     *)
Packet(h, c, header, len, pos) ==
  [to |-> Peer(h), flags |-> FlagsOf(header), seq |-> c.last_acked + 1, ack |-> c.last_recvd,
   len |-> len, pos |-> pos]

(* A packet of a connection that does not name its peer reaches nobody. *)
Control(h, c, header) == IF c.bound THEN {Packet(h, c, header, 0, 0)} ELSE {}
Send(packets) == net' = net \cup packets

Update(h, c) == conn' = [conn EXCEPT ![h] = c]

(* TCPState::SetLastAcked *)
Acknowledges(c, newack) ==
  IF c.last_acked <= c.last_sent
    THEN newack > c.last_acked /\ newack <= c.last_sent + 1
    ELSE \/ newack > c.last_acked /\ newack > c.last_sent
         \/ newack < c.last_acked /\ newack <= c.last_sent + 1

(* Fault: the number of the next byte is taken for the last one. *)
SetLastAckedToNext(c, newack) ==
  IF Acknowledges(c, newack) THEN [c EXCEPT !.last_acked = newack] ELSE c

SetLastAcked(c, newack) ==
  IF Acknowledges(c, newack) THEN [c EXCEPT !.last_acked = newack - 1] ELSE c

Init ==
  /\ conn = [h \in Hosts |-> Erased]
  /\ net = {}
  /\ delivered = [h \in Hosts |-> {}]
  /\ opens = [h \in Hosts |-> 0]
  /\ owed = [h \in Hosts |-> 0]

-----------------------------------------------------------------------------
(* handle_sock.  The request waits in the socket module until a STATUS.     *)
(* WRITE and CLOSE without a connection are answered with an error and      *)
(* change nothing; the socket module answers FORWARD itself, and its STATUS *)
(* changes nothing here.                                                    *)
Unanswered(h) == owed[h] < MaxOwed /\ owed' = [owed EXCEPT ![h] = @ + 1]
Answered(h) == UNCHANGED owed

Opens(h) == opens[h] < MaxOpens /\ opens' = [opens EXCEPT ![h] = @ + 1]

(* CONNECT: a SYN is sent (twice), and a STATUS returned. *)
Connect(h) ==
  LET c == NewConnection("SYN_SENT", TRUE)
  IN  /\ conn[h].st = "none"
      /\ Opens(h)
      /\ Update(h, [c EXCEPT !.last_sent = 2])
      /\ Send(Control(h, c, 1))
      /\ Answered(h)
      /\ UNCHANGED delivered

(* ACCEPT: no STATUS yet. *)
Accept(h) ==
  /\ conn[h].st = "none"
  /\ Opens(h)
  /\ Update(h, NewConnection("LISTEN", FALSE))
  /\ Unanswered(h)
  /\ UNCHANGED <<net, delivered>>

(* Any request on a connection that listens makes it send a SYN. *)
RequestWhileListening(h) ==
  /\ conn[h].st = "LISTEN"
  /\ Update(h, [conn[h] EXCEPT !.st = "SYN_SENT"])
  /\ Send(Control(h, conn[h], 1))
  /\ Unanswered(h)
  /\ UNCHANGED <<delivered, opens>>

(* SendData cuts n bytes into segments that start at Starts(n).             *)
(* createPacket's arguments are swapped: every segment tells a length of 4, *)
(* and the number of its bytes selects its flags.  A WRITE of more bytes    *)
(* than the buffer holds is answered with EBUF_SPACE and changes nothing.   *)
Starts(n) == {start \in 0 .. n - 1 : start % MSS = 0}
SegmentSize(n, start) == IF n - start < MSS THEN n - start ELSE MSS
Segments(h, c, n) ==
  IF c.bound
    THEN {Packet(h, c, SegmentSize(n, start), 4, c.last_sent + 1 + start) : start \in Starts(n)}
    ELSE {}

Write(h, n) ==
  LET c == conn[h]
  IN  /\ c.st = "ESTABLISHED"
      /\ n <= 100 * MSS                \* TCP_BUFFER_SIZE
      /\ c.last_sent + n <= MaxSent
      /\ Update(h, [c EXCEPT !.last_sent = @ + n])
      /\ Send(Segments(h, c, n))
      /\ Answered(h)
      /\ UNCHANGED <<delivered, opens>>

(* Fault: CLOSE sends the FIN and leaves the connection open. *)
CloseActiveStays(h) ==
  LET c == conn[h]
  IN  /\ c.st \in {"SYN_RCVD", "ESTABLISHED"}
      /\ Update(h, [c EXCEPT !.last_sent = @ + 1])
      /\ Send(Control(h, c, 5))
      /\ Unanswered(h)
      /\ UNCHANGED <<delivered, opens>>

(* CLOSE, by the state of the connection; only the last is answered. *)
CloseActive(h) ==
  LET c == conn[h]
  IN  /\ c.st \in {"SYN_RCVD", "ESTABLISHED"}
      /\ Update(h, [c EXCEPT !.st = "FIN_WAIT1", !.last_sent = @ + 1])
      /\ Send(Control(h, c, 5))
      /\ Unanswered(h)
      /\ UNCHANGED <<delivered, opens>>

CloseConnecting(h) ==
  /\ conn[h].st = "SYN_SENT"
  /\ Update(h, Erased)
  /\ Unanswered(h)
  /\ UNCHANGED <<net, delivered, opens>>

CloseClosing(h) ==
  /\ conn[h].st = "CLOSING"
  /\ Update(h, Erased)
  /\ Answered(h)
  /\ UNCHANGED <<net, delivered, opens>>

CloseIgnored(h) ==
  /\ conn[h].st \in {"FIN_WAIT1", "LAST_ACK"}
  /\ Unanswered(h)
  /\ UNCHANGED <<conn, net, delivered, opens>>

(* ACCEPT, CONNECT or WRITE that the state has no case for. *)
RequestIgnored(h) ==
  /\ conn[h].st \in {"SYN_RCVD", "SYN_SENT", "ESTABLISHED", "FIN_WAIT1", "LAST_ACK", "CLOSING"}
  /\ Unanswered(h)
  /\ UNCHANGED <<conn, net, delivered, opens>>

-----------------------------------------------------------------------------
(* handle_mux, for a packet p that arrives at host h. *)

(* LISTEN: a SYN is answered by SYN and ACK (twice), a FIN by FIN and ACK.  *)
ReceiveSyn(h, p) ==
  LET c == [conn[h] EXCEPT !.st = "SYN_RCVD", !.last_acked = conn[h].last_sent - 1,
                           !.last_recvd = p.seq + 1, !.tmr = TRUE, !.bound = TRUE]
  IN  /\ conn[h].st = "LISTEN" /\ "SYN" \in p.flags
      /\ Update(h, c)
      /\ Send(Control(h, c, 3))
      /\ owed[h] > -MaxOwed /\ owed' = [owed EXCEPT ![h] = @ - 1]
      /\ UNCHANGED <<delivered, opens>>

ReceiveFinListening(h, p) ==
  /\ conn[h].st = "LISTEN" /\ "SYN" \notin p.flags /\ "FIN" \in p.flags
  /\ Send(Control(h, conn[h], 6))
  /\ UNCHANGED <<conn, delivered, opens, owed>>

(* SYN_RCVD: the ACK of our SYN establishes the connection. *)
ReceiveAckOfSyn(h, p) ==
  LET c == [conn[h] EXCEPT !.st = "ESTABLISHED"]
  IN  /\ conn[h].st = "SYN_RCVD" /\ "ACK" \in p.flags
      /\ conn[h].last_sent + 1 = p.ack
      /\ Update(h, SetLastAcked(c, p.ack))
      /\ UNCHANGED <<net, delivered, opens, owed>>

(* SYN_SENT *)
ReceiveSynAck(h, p) ==
  LET c == SetLastAcked([conn[h] EXCEPT !.last_recvd = p.seq + 1], p.ack)
  IN  /\ conn[h].st = "SYN_SENT" /\ {"SYN", "ACK"} \subseteq p.flags
      /\ Update(h, [c EXCEPT !.st = "ESTABLISHED"])
      /\ Send(Control(h, c, 2))
      /\ UNCHANGED <<delivered, opens, owed>>

ReceiveSynCrossing(h, p) ==
  LET c == [conn[h] EXCEPT !.last_recvd = p.seq]
  IN  /\ conn[h].st = "SYN_SENT" /\ "SYN" \in p.flags /\ "ACK" \notin p.flags
      /\ Update(h, [c EXCEPT !.st = "SYN_RCVD", !.last_sent = @ + 1])
      /\ Send(Control(h, c, 2))
      /\ UNCHANGED <<delivered, opens, owed>>

ReceiveFinConnecting(h, p) ==
  LET c == [conn[h] EXCEPT !.last_recvd = p.seq + 1]
  IN  /\ conn[h].st = "SYN_SENT" /\ {"FIN", "ACK"} \subseteq p.flags
      /\ Update(h, Erased)
      /\ Send(Control(h, c, 6))
      /\ owed[h] > -MaxOwed /\ owed' = [owed EXCEPT ![h] = @ - 1]
      /\ UNCHANGED <<delivered, opens>>

(* ESTABLISHED: data in order goes to the socket module. *)
ReceiveData(h, p) ==
  LET c == SetLastAcked([conn[h] EXCEPT !.last_recvd = p.seq + p.len], p.ack)
  IN  /\ conn[h].st = "ESTABLISHED" /\ "PSH" \in p.flags
      /\ p.seq = conn[h].last_recvd
      /\ Update(h, c)
      /\ Send(Control(h, c, 2))
      /\ delivered' = [delivered EXCEPT ![h] = @ \cup {p}]
      /\ UNCHANGED <<opens, owed>>

(* Fault: last_recvd moves before the checksum was looked at. *)
RefuseDataLate(h, p) ==
  LET c == [conn[h] EXCEPT !.last_recvd = p.seq + p.len]
  IN  /\ conn[h].st = "ESTABLISHED" /\ "PSH" \in p.flags
      /\ Update(h, c)
      /\ Send(Control(h, c, 2))
      /\ UNCHANGED <<delivered, opens, owed>>

(* Data out of order, or with a wrong checksum. *)
RefuseData(h, p) ==
  /\ conn[h].st = "ESTABLISHED" /\ "PSH" \in p.flags
  /\ Send(Control(h, conn[h], 2))
  /\ UNCHANGED <<conn, delivered, opens, owed>>

ReceiveFin(h, p) ==
  LET c == [conn[h] EXCEPT !.last_recvd = p.seq + 1]
  IN  /\ conn[h].st = "ESTABLISHED" /\ "PSH" \notin p.flags /\ "FIN" \in p.flags
      /\ Update(h, [c EXCEPT !.st = "LAST_ACK"])
      /\ Send(Control(h, c, 6))
      /\ UNCHANGED <<delivered, opens, owed>>

(* A packet with an ACK only; a SYN and ACK that comes again is one too. *)
ReceiveAck(h, p) ==
  LET c == conn[h]
  IN  /\ c.st = "ESTABLISHED" /\ p.flags \cap {"PSH", "FIN"} = {} /\ "ACK" \in p.flags
      /\ Update(h, IF p.ack = c.last_acked
                     THEN [c EXCEPT !.tries = 0]
                     ELSE SetLastAcked([c EXCEPT !.last_recvd = p.seq + p.len], p.ack))
      /\ UNCHANGED <<net, delivered, opens, owed>>

ReceiveLastAck(h, p) ==
  /\ conn[h].st = "LAST_ACK" /\ "ACK" \in p.flags
  /\ Update(h, [conn[h] EXCEPT !.st = "CLOSING"])
  /\ UNCHANGED <<net, delivered, opens, owed>>

-----------------------------------------------------------------------------
(* handle_timeout, for an active timer.  The timer never runs in SYN_SENT   *)
(* (TypeOK); with something unacknowledged, an established connection only  *)
(* starts its timer again, because its SendBuffer is empty.                 *)

(* Fault: a try is not counted. *)
ResendSynAckForever(h) ==
  LET c == conn[h]
  IN  /\ c.tmr /\ c.st = "SYN_RCVD" /\ c.tries > 0
      /\ Send(Control(h, c, 3))
      /\ UNCHANGED <<conn, delivered, opens, owed>>

ResendSynAck(h) ==
  LET c == conn[h]
  IN  /\ c.tmr /\ c.st = "SYN_RCVD" /\ c.tries > 0
      /\ Update(h, [c EXCEPT !.tries = @ - 1])
      /\ Send(Control(h, c, 3))
      /\ UNCHANGED <<delivered, opens, owed>>

(* Fault: the timer is left on. *)
GiveUpSynAckTimerOn(h) ==
  LET c == conn[h]
  IN  /\ c.tmr /\ c.st = "SYN_RCVD" /\ c.tries = 0
      /\ Update(h, [c EXCEPT !.st = "LISTEN"])
      /\ UNCHANGED <<net, delivered, opens, owed>>

GiveUpSynAck(h) ==
  LET c == conn[h]
  IN  /\ c.tmr /\ c.st = "SYN_RCVD" /\ c.tries = 0
      /\ Update(h, [c EXCEPT !.tmr = FALSE, !.st = "LISTEN"])
      /\ UNCHANGED <<net, delivered, opens, owed>>

StopTimer(h) ==
  LET c == conn[h]
  IN  /\ c.tmr /\ c.st = "ESTABLISHED" /\ c.last_acked >= c.last_sent
      /\ Update(h, [c EXCEPT !.tmr = FALSE])
      /\ UNCHANGED <<net, delivered, opens, owed>>

-----------------------------------------------------------------------------
Request(h) ==
  \/ Connect(h) \/ Accept(h) \/ RequestWhileListening(h) \/ RequestIgnored(h)
  \/ \E n \in WriteSizes : Write(h, n)
  \/ CloseActive(h) \/ CloseConnecting(h) \/ CloseClosing(h) \/ CloseIgnored(h)

Receive(h, p) ==
  \/ ReceiveSyn(h, p) \/ ReceiveFinListening(h, p) \/ ReceiveAckOfSyn(h, p)
  \/ ReceiveSynAck(h, p) \/ ReceiveSynCrossing(h, p) \/ ReceiveFinConnecting(h, p)
  \/ ReceiveData(h, p) \/ RefuseData(h, p) \/ ReceiveFin(h, p) \/ ReceiveAck(h, p)
  \/ ReceiveLastAck(h, p)

Timeout(h) == ResendSynAck(h) \/ GiveUpSynAck(h) \/ StopTimer(h)

Next ==
  \E h \in Hosts :
    \/ Request(h)
    \/ \E p \in net : p.to = h /\ Receive(h, p)
    \/ Timeout(h)

Spec == Init /\ [][Next]_vars

(* handle_timeout runs when no event came for a second; the hosts are taken *)
(* to be idle that long again and again.                                    *)
FairSpec == Spec /\ \A h \in Hosts : WF_vars(Timeout(h))
-----------------------------------------------------------------------------
Packets == [to : Hosts, flags : SUBSET {"SYN", "ACK", "PSH", "FIN", "RST"}, seq : Nat, ack : Nat,
            len : {0, 4}, pos : Nat]

(* Types: the sequence numbers never wrap below zero; segments that go to   *)
(* the application were sent to this host; the timer is off while there is  *)
(* no connection, and in LISTEN and SYN_SENT.                               *)
TypeOK ==
  /\ conn \in [Hosts -> Connections]
  /\ net \subseteq Packets
  /\ delivered \in [Hosts -> SUBSET net]
  /\ \A h \in Hosts : \A p \in delivered[h] : p.to = h
  /\ \A h \in Hosts : conn[h].tmr => conn[h].st \notin {"none", "LISTEN", "SYN_SENT"}
  /\ opens \in [Hosts -> 0 .. MaxOpens]
  /\ owed \in [Hosts -> -MaxOwed .. MaxOwed]

(* last_sent - last_acked, the size handle_timeout extracts, is an unsigned *)
(* that never wraps, whatever acknowledgements arrive.                      *)
AckedWasSent == \A h \in Hosts : conn[h].last_acked <= conn[h].last_sent

(* No segment has a size that createPacket takes for F_FIN or F_FINACK. *)
NoFinSegment == \A n \in WriteSizes : \A start \in Starts(n) : SegmentSize(n, start) \notin {5, 6}

(* A host closes its side only while its peer has been told to CLOSE: no    *)
(* stale packet and no data make it leave ESTABLISHED (tcp_module.cc 316).  *)
OnlyCloseCloses ==
  \A h \in Hosts : conn[h].st \in {"LAST_ACK", "CLOSING"} => conn[Peer(h)].st = "FIN_WAIT1"

Data(p) == "PSH" \in p.flags

(* What a host takes for acknowledged its peer has delivered: there is a    *)
(* segment of the same sequence number that went to the application.  The   *)
(* peer's last_recvd may be set back and forward by packets that carry no   *)
(* data, and still never passes a segment that was not delivered.           *)
AckedWasDelivered ==
  \A h \in Hosts, p \in net :
    p.to = Peer(h) /\ Data(p) /\ p.seq + p.len <= conn[h].last_acked + 1 =>
      \E q \in delivered[Peer(h)] : q.seq = p.seq

(* The same of the bytes themselves: no write is lost once a later          *)
(* acknowledgement counts it as received.                                   *)
AckedBytesWereDelivered ==
  \A h \in Hosts, p \in net :
    p.to = Peer(h) /\ Data(p) /\ p.pos + p.len <= conn[h].last_acked + 1 =>
      p \in delivered[Peer(h)]

(* No request gets two STATUS: the socket module takes the request of a     *)
(* STATUS from a queue, which is never empty then.                          *)
NoSurplusStatus == \A h \in Hosts : owed[h] >= 0

(* A host that has answered a SYN does not wait forever for the last ACK.   *)
AcceptorSettles ==
  \A h \in Hosts : (conn[h].st = "SYN_RCVD" /\ conn[h].tmr) ~> conn[h].st # "SYN_RCVD"
=============================================================================
