------------------------- MODULE DeviceDriver_proofs -------------------------
(* Theorems about RawEthernetPacketBuffer and the driver built on it, for   *)
(* every size of its queues and every capacity of its pipes.                *)
EXTENDS DeviceDriver, TLAPS

(* The modulo of the code, without modulo. *)
LEMMA AfterWraps ==
  ASSUME NEW size \in Nat \ {0}, NEW b \in Buffers(size), NEW i \in 0 .. size - 1
  PROVE  After(b, i) = IF i + 1 = size THEN 0 ELSE i + 1
<1>1. b.bufsize = size
  BY DEF Buffers
<1>2. CASE i + 1 = size
  <2>1. size % size = 0
    OBVIOUS
  <2> QED
    BY <1>1, <1>2, <2>1 DEF After
<1>3. CASE i + 1 # size
  <2>1. (i + 1) % size = i + 1
    BY <1>3
  <2> QED
    BY <1>1, <1>3, <2>1 DEF After
<1> QED
  BY <1>2, <1>3

(* An empty ring is well formed. *)
LEMMA NewBufferWellFormed ==
  ASSUME NEW size \in Nat \ {0}
  PROVE  WellFormed(NewBuffer(size), size) /\ Contents(NewBuffer(size)) = <<>>
  BY DEF NewBuffer, WellFormed, Buffers, Contents, Occupancy

(* A ring is full exactly when it holds all but one of its slots. *)
LEMMA FullMeansFull ==
  ASSUME NEW size \in Nat \ {0}, NEW b \in Buffers(size)
  PROVE  IsFull(b) <=> Occupancy(b) = size - 1
<1>1. /\ b.curin \in 0 .. size - 1 /\ b.curout \in 0 .. size - 1
      /\ b.bufsize = size
  BY DEF Buffers
<1> QED
  BY <1>1, AfterWraps DEF IsFull, Occupancy

(* The contents of a well-formed ring are a sequence of packets. *)
LEMMA ContentsIsSeq ==
  ASSUME NEW size \in Nat \ {0}, NEW b, WellFormed(b, size)
  PROVE  /\ Contents(b) \in Seq(Packets)
         /\ Len(Contents(b)) = Occupancy(b)
         /\ Occupancy(b) \in 0 .. size - 1
         /\ \A i \in 1 .. Occupancy(b) : Contents(b)[i] = b.packet[Slot(b, i)]
         /\ IsEmpty(b) <=> Contents(b) = <<>>
<1>1. /\ b.curin \in 0 .. size - 1 /\ b.curout \in 0 .. size - 1
      /\ b.bufsize = size
  BY DEF WellFormed, Buffers
<1>2. Occupancy(b) \in 0 .. size - 1
  BY <1>1 DEF Occupancy
<1>3. Contents(b) \in Seq(Packets) /\ Len(Contents(b)) = Occupancy(b)
  BY <1>2 DEF Contents, WellFormed
<1>4. \A i \in 1 .. Occupancy(b) : Contents(b)[i] = b.packet[Slot(b, i)]
  BY DEF Contents
<1>5. IsEmpty(b) <=> Occupancy(b) = 0
  BY <1>1 DEF IsEmpty, Occupancy
<1> QED
  BY <1>2, <1>3, <1>4, <1>5

(* PushPacket appends a packet, or drops it when the ring is full. *)
LEMMA PushAppends ==
  ASSUME NEW size \in Nat \ {0}, NEW b, WellFormed(b, size), NEW p \in Packets
  PROVE  /\ WellFormed(PushPacket(b, p), size)
         /\ IF Len(Contents(b)) = size - 1
              THEN Contents(PushPacket(b, p)) = Contents(b)
              ELSE Contents(PushPacket(b, p)) = Append(Contents(b), p)
<1>1. /\ b \in Buffers(size)
      /\ b.curin \in 0 .. size - 1 /\ b.curout \in 0 .. size - 1
      /\ b.bufsize = size
      /\ b.packet \in [0 .. size - 1 -> Packets \cup {NoPacket}]
  BY DEF WellFormed, Buffers
<1>2. Len(Contents(b)) = Occupancy(b) /\ Occupancy(b) \in 0 .. size - 1
  BY ContentsIsSeq
<1>3. CASE IsFull(b)
  BY <1>1, <1>2, <1>3, FullMeansFull DEF PushPacket
<1>4. CASE ~IsFull(b)
  <2> DEFINE c == [bufsize |-> b.bufsize, packet |-> [b.packet EXCEPT ![b.curin] = p],
                   curin |-> After(b, b.curin), curout |-> b.curout]
             n == Occupancy(b)
  <2>1. PushPacket(b, p) = c
    BY <1>4 DEF PushPacket
  <2>2. n # size - 1
    BY <1>1, <1>4, FullMeansFull
  <2>3. After(b, b.curin) = IF b.curin + 1 = size THEN 0 ELSE b.curin + 1
    BY <1>1, AfterWraps
  <2>4. c = [bufsize |-> size, packet |-> [b.packet EXCEPT ![b.curin] = p],
             curin |-> After(b, b.curin), curout |-> b.curout]
    BY <1>1
  <2> HIDE DEF c
  <2>5. c \in Buffers(size)
    <3>1. After(b, b.curin) \in 0 .. size - 1
      BY <1>1, <2>3
    <3>2. [b.packet EXCEPT ![b.curin] = p] \in [0 .. size - 1 -> Packets \cup {NoPacket}]
      BY <1>1
    <3> QED
      BY <1>1, <2>4, <3>1, <3>2 DEF Buffers
  <2>6. Occupancy(c) = n + 1
    <3>1. n = IF b.curin >= b.curout THEN b.curin - b.curout ELSE b.curin - b.curout + size
      BY <1>1 DEF Occupancy
    <3>2. Occupancy(c) = IF After(b, b.curin) >= b.curout THEN After(b, b.curin) - b.curout
                         ELSE After(b, b.curin) - b.curout + size
      BY <2>4 DEF Occupancy
    <3> QED
      BY <1>1, <2>2, <2>3, <3>1, <3>2
  <2> DEFINE At(i) == IF b.curout + i - 1 < size THEN b.curout + i - 1 ELSE b.curout + i - 1 - size
  <2>a. \A i : Slot(b, i) = At(i) /\ Slot(c, i) = At(i)
    BY <1>1, <2>4 DEF Slot
  <2>b. n = IF b.curin >= b.curout THEN b.curin - b.curout ELSE b.curin - b.curout + size
    BY <1>1 DEF Occupancy
  <2>7. \A i \in 1 .. n : Slot(c, i) = Slot(b, i) /\ Slot(b, i) # b.curin /\ Slot(b, i) \in 0 .. size - 1
    <3> SUFFICES ASSUME NEW i \in 1 .. n
                 PROVE  At(i) # b.curin /\ At(i) \in 0 .. size - 1
      BY <2>a
    <3>1. i \in Nat /\ i >= 1 /\ i <= n
      BY <1>2
    <3> HIDE DEF n
    <3> QED
      BY <1>1, <2>2, <2>b, <3>1
  <2>8. Slot(c, n + 1) = b.curin
    <3>1. n \in Nat
      BY <1>2
    <3>2. At(n + 1) = b.curin
      <4> HIDE DEF n
      <4> QED
        BY <1>1, <2>2, <2>b, <3>1
    <3> QED
      BY <2>a, <3>2
  <2>9. /\ \A i \in 1 .. n : c.packet[Slot(c, i)] = b.packet[Slot(b, i)]
        /\ c.packet[Slot(c, n + 1)] = p
    BY <1>1, <2>4, <2>7, <2>8
  <2>10. WellFormed(c, size)
    BY <1>2, <2>5, <2>6, <2>9 DEF WellFormed
  <2>11. Contents(c) = Append(Contents(b), p)
    <3>1. Contents(b) \in Seq(Packets) /\ Len(Contents(b)) = n
      BY ContentsIsSeq
    <3>2. Contents(c) \in Seq(Packets) /\ Len(Contents(c)) = n + 1
      BY <2>6, <2>10, ContentsIsSeq
    <3>3. \A i \in 1 .. n + 1 : Contents(c)[i] = Append(Contents(b), p)[i]
      <4> SUFFICES ASSUME NEW i \in 1 .. n + 1
                   PROVE  Contents(c)[i] = Append(Contents(b), p)[i]
        OBVIOUS
      <4>1. Contents(c)[i] = c.packet[Slot(c, i)]
        BY <2>6, <2>10, ContentsIsSeq
      <4>2. CASE i = n + 1
        BY <1>2, <2>9, <3>1, <4>1, <4>2
      <4>3. CASE i \in 1 .. n
        BY <1>2, <2>9, <3>1, <4>1, <4>3, ContentsIsSeq
      <4> QED
        BY <1>2, <4>2, <4>3
    <3> QED
      BY <3>1, <3>2, <3>3
  <2> QED
    BY <1>2, <2>1, <2>2, <2>10, <2>11
<1> QED
  BY <1>3, <1>4

(* PullPacket of a ring that is not empty takes its oldest packet. *)
LEMMA PullTakesHead ==
  ASSUME NEW size \in Nat \ {0}, NEW b, WellFormed(b, size), ~IsEmpty(b)
  PROVE  /\ WellFormed(PullPacket(b), size)
         /\ Front(b) \in Packets
         /\ Contents(b) # <<>>
         /\ Front(b) = Head(Contents(b))
         /\ Contents(PullPacket(b)) = Tail(Contents(b))
<1> DEFINE c == PullPacket(b)
           n == Occupancy(b)
<1>1. /\ b \in Buffers(size)
      /\ b.curin \in 0 .. size - 1 /\ b.curout \in 0 .. size - 1
      /\ b.bufsize = size
  BY DEF WellFormed, Buffers
<1>2. n \in 1 .. size - 1
  BY <1>1 DEF IsEmpty, Occupancy
<1>3. After(b, b.curout) = IF b.curout + 1 = size THEN 0 ELSE b.curout + 1
  BY <1>1, AfterWraps
<1>4. /\ c.bufsize = size /\ c.curin = b.curin /\ c.curout = After(b, b.curout)
      /\ c.packet = b.packet
  BY <1>1 DEF Buffers, PullPacket
<1>5. c \in Buffers(size)
  BY <1>1, <1>3, <1>4 DEF Buffers, PullPacket
<1>6. Occupancy(c) = n - 1
  BY <1>1, <1>2, <1>3, <1>4 DEF Occupancy
<1>7. \A i \in 1 .. n - 1 : Slot(c, i) = Slot(b, i + 1)
  <2> SUFFICES ASSUME NEW i \in 1 .. n - 1
               PROVE  Slot(c, i) = Slot(b, i + 1)
    OBVIOUS
  <2>1. i \in Nat /\ i >= 1 /\ i < size
    BY <1>2
  <2>2. Slot(b, i + 1) = IF b.curout + i < size THEN b.curout + i ELSE b.curout + i - size
    BY <1>1, <2>1 DEF Slot
  <2>3. Slot(c, i) = IF c.curout + i - 1 < size THEN c.curout + i - 1 ELSE c.curout + i - 1 - size
    BY <1>1, <1>4 DEF Slot
  <2> QED
    BY <1>1, <1>3, <1>4, <2>1, <2>2, <2>3
<1>8. Slot(b, 1) = b.curout
  BY <1>1 DEF Slot
<1>9. WellFormed(c, size)
  BY <1>2, <1>4, <1>5, <1>6, <1>7 DEF WellFormed
<1>10. /\ Contents(b) \in Seq(Packets) /\ Len(Contents(b)) = n
       /\ \A i \in 1 .. n : Contents(b)[i] = b.packet[Slot(b, i)]
  BY ContentsIsSeq
<1>11. /\ Contents(c) \in Seq(Packets) /\ Len(Contents(c)) = n - 1
       /\ \A i \in 1 .. n - 1 : Contents(c)[i] = b.packet[Slot(b, i + 1)]
  BY <1>4, <1>6, <1>7, <1>9, ContentsIsSeq
<1>12. /\ Front(b) \in Packets
       /\ Front(b) = Head(Contents(b))
       /\ Contents(b) # <<>>
  BY <1>2, <1>8, <1>10 DEF Front, WellFormed
<1>13. Contents(c) = Tail(Contents(b))
  BY <1>2, <1>10, <1>11
<1> QED
  BY <1>9, <1>12, <1>13
-----------------------------------------------------------------------------
(* Who may be sending: the handler never runs in main's critical section,   *)
(* and a packet is available only between the two halves of a send.         *)
Exclusive ==
  /\ isr # "off" => ~blocked
  /\ outgoing # NoPacket <=> (isr = "write" \/ pc = "write")

DInv == TypeOK /\ Exclusive

(* The driver starts with empty queues, the signal not blocked. *)
LEMMA InitDInv == Init => DInv
<1>1. /\ WellFormed(NewBuffer(InputSize), InputSize)
      /\ WellFormed(NewBuffer(OutputSize), OutputSize)
  BY SizesAssumption, NewBufferWellFormed
<1>2. 0 \in 0 .. AnswerRoom
  BY RoomAssumption
<1>3. ASSUME Init PROVE TypeOK
  <2>1. /\ readerfd \in Seq(Packets) /\ writerfd \in Seq(Packets)
        /\ muxin \in Seq(Packets) /\ muxout \in Seq(Packets)
        /\ answers \in 0 .. AnswerRoom
    BY <1>2, <1>3 DEF Init
  <2>2. WellFormed(input_queue, InputSize) /\ WellFormed(output_queue, OutputSize)
    BY <1>1, <1>3 DEF Init
  <2>3. pending \in BOOLEAN /\ blocked \in BOOLEAN /\ wrapped \in BOOLEAN /\ ~blocked
    BY <1>3 DEF Init
  <2>4. /\ pc = "compare" /\ isr = "off" /\ readerpc = "capture" /\ writerpc = "read"
        /\ ready = {} /\ outgoing = NoPacket
    BY <1>3 DEF Init
  <2> QED
    BY <2>1, <2>2, <2>3, <2>4 DEF TypeOK
<1>4. Init => Exclusive
  BY DEF Init, Exclusive
<1> QED
  BY <1>3, <1>4 DEF DInv

(* A send that starts makes the outgoing packet a packet. *)
LEMMA InitiateSendType ==
  ASSUME TypeOK, InitiateSend
  PROVE  /\ outgoing' \in Packets /\ outgoing' # NoPacket
         /\ WellFormed(output_queue', OutputSize)
<1>1. WellFormed(output_queue, OutputSize) /\ ~IsEmpty(output_queue)
  BY DEF TypeOK, InitiateSend
<1> QED
  BY <1>1, PullTakesHead, SizesAssumption, NoPacketAssumption DEF InitiateSend

(* A step of a child process or of ethernet_mux keeps DInv; so does ... *)
LEMMA EnvironmentKeepsDInv ==
  ASSUME DInv, ReaderWrite \/ ReaderKill \/ WriterRead \/ WriterAnswer \/ MuxWrite \/ MuxRead
  PROVE  DInv'
<1> USE DEF DInv, TypeOK, Exclusive, reader, handler, transmit, writer, mux, loop
<1>1. CASE ReaderWrite
  BY <1>1 DEF ReaderWrite
<1>2. CASE ReaderKill
  BY <1>2 DEF ReaderKill
<1>3. CASE WriterRead
  BY <1>3 DEF WriterRead
<1>4. CASE WriterAnswer
  BY <1>4, RoomAssumption DEF WriterAnswer
<1>5. CASE MuxWrite
  BY <1>5 DEF MuxWrite
<1>6. CASE MuxRead
  BY <1>6 DEF MuxRead
<1> QED
  BY <1>1, <1>2, <1>3, <1>4, <1>5, <1>6

(* ... a step of the signal handler. *)
LEMMA HandlerKeepsDInv == ASSUME DInv, Handler PROVE DInv'
<1> USE DEF DInv, Exclusive, reader, handler, transmit, writer, mux, loop
<1>1. CASE TakeSignal
  BY <1>1 DEF TakeSignal, TypeOK
<1>2. CASE IsrPoll
  <2>1. WellFormed(input_queue', InputSize) /\ readerfd' \in Seq(Packets)
    <3>1. CASE readerfd # <<>>
      <4>1. Head(readerfd) \in Packets /\ Tail(readerfd) \in Seq(Packets)
        BY <3>1 DEF TypeOK
      <4>2. readerfd' = Tail(readerfd) /\ input_queue' = PushPacket(input_queue, Head(readerfd))
        BY <1>2, <3>1 DEF IsrPoll
      <4>3. WellFormed(input_queue, InputSize)
        BY DEF TypeOK
      <4>4. WellFormed(PushPacket(input_queue, Head(readerfd)), InputSize)
        BY <4>1, <4>3, PushAppends, SizesAssumption
      <4> QED
        BY <4>1, <4>2, <4>4
    <3>2. CASE readerfd = <<>>
      BY <1>2, <3>2 DEF IsrPoll, TypeOK
    <3> QED
      BY <3>1, <3>2
  <2>2. answers' \in 0 .. AnswerRoom /\ isr' \in {"poll", "send"}
    BY <1>2, RoomAssumption DEF IsrPoll, TypeOK
  <2> QED
    BY <1>2, <2>1, <2>2 DEF IsrPoll, TypeOK
<1>3. CASE IsrReturn
  BY <1>3 DEF IsrReturn, TypeOK
<1>4. CASE IsrSend
  <2>1. CASE InitiateSend /\ isr' = "write"
    BY <1>4, <2>1, InitiateSendType DEF IsrSend, TypeOK
  <2>2. CASE IsEmpty(output_queue) /\ isr' = "poll" /\ UNCHANGED <<outgoing, output_queue>>
    BY <1>4, <2>2 DEF IsrSend, TypeOK
  <2> QED
    BY <1>4, <2>1, <2>2 DEF IsrSend
<1>5. CASE IsrWrite
  <2>1. outgoing \in Packets
    BY <1>5 DEF IsrWrite, TypeOK
  <2>2. writerfd' \in Seq(Packets)
    BY <1>5, <2>1 DEF IsrWrite, WriteNextPacket, TypeOK
  <2> QED
    BY <1>5, <2>2 DEF IsrWrite, WriteNextPacket, TypeOK
<1> QED
  BY <1>1, <1>2, <1>3, <1>4, <1>5 DEF Handler

(* ... a step of main's loop. *)
LEMMA MainKeepsDInv == ASSUME DInv, Main PROVE DInv'
<1> USE DEF DInv, Exclusive, reader, handler, transmit, writer, mux, loop
<1>1. CASE Compare
  BY <1>1 DEF Compare, TypeOK
<1>2. CASE Subtract
  BY <1>2 DEF Subtract, TypeOK
<1>3. CASE Select
  BY <1>3 DEF Select, TypeOK
<1>4. CASE Block
  BY <1>4 DEF Block, TypeOK
<1>5. CASE Output
  <2>1. WellFormed(input_queue', InputSize) /\ muxout' \in Seq(Packets)
    <3>1. CASE "muxout" \in ready /\ ~IsEmpty(input_queue)
      <4>1. /\ Front(input_queue) \in Packets
            /\ WellFormed(PullPacket(input_queue), InputSize)
        BY <3>1, PullTakesHead, SizesAssumption DEF TypeOK
      <4>2. /\ muxout' = Append(muxout, Front(input_queue))
            /\ input_queue' = PullPacket(input_queue)
        BY <1>5, <3>1 DEF Output
      <4>3. muxout \in Seq(Packets)
        BY DEF TypeOK
      <4>4. Append(muxout, Front(input_queue)) \in Seq(Packets)
        BY <4>1, <4>3
      <4> QED
        BY <4>1, <4>2, <4>4
    <3>2. CASE ~("muxout" \in ready /\ ~IsEmpty(input_queue))
      BY <1>5, <3>2 DEF Output, TypeOK
    <3> QED
      BY <3>1, <3>2
  <2> QED
    BY <1>5, <2>1 DEF Output, TypeOK
<1>6. CASE Input
  <2>1. Head(muxin) \in Packets /\ muxin' \in Seq(Packets)
    BY <1>6 DEF Input, TypeOK
  <2>2. WellFormed(output_queue', OutputSize)
    BY <1>6, <2>1, PushAppends, SizesAssumption DEF Input, TypeOK
  <2> QED
    BY <1>6, <2>1, <2>2 DEF Input, TypeOK
<1>7. CASE Send
  <2>1. CASE InitiateSend /\ pc' = "write"
    BY <1>7, <2>1, InitiateSendType DEF Send, TypeOK
  <2>2. CASE IsEmpty(output_queue) /\ pc' = "unblock" /\ UNCHANGED <<outgoing, output_queue>>
    BY <1>7, <2>2 DEF Send, TypeOK
  <2> QED
    BY <1>7, <2>1, <2>2 DEF Send
<1>8. CASE Write
  <2>1. outgoing \in Packets
    BY <1>8 DEF Write, TypeOK
  <2>2. writerfd' \in Seq(Packets)
    BY <1>8, <2>1 DEF Write, WriteNextPacket, TypeOK
  <2> QED
    BY <1>8, <2>2 DEF Write, WriteNextPacket, TypeOK
<1>9. CASE Unblock
  BY <1>9 DEF Unblock, TypeOK
<1> QED
  BY <1>1, <1>2, <1>3, <1>4, <1>5, <1>6, <1>7, <1>8, <1>9 DEF Main

(* DInv holds whatever interrupts what. *)
LEMMA DriverInvariant == Spec => []DInv
<1>1. DInv /\ [Next]_vars => DInv'
  <2> SUFFICES ASSUME DInv, [Next]_vars PROVE DInv'
    OBVIOUS
  <2>1. CASE UNCHANGED vars
    BY <2>1 DEF vars, DInv, TypeOK, Exclusive
  <2> QED
    BY <2>1, EnvironmentKeepsDInv, HandlerKeepsDInv, MainKeepsDInv DEF Next
<1> QED
  BY <1>1, InitDInv, PTL DEF Spec

(* Types hold, and both rings stay well formed. *)
THEOREM DriverTypeCorrect == Spec => []TypeOK
  BY DriverInvariant, PTL DEF DInv

(* The assertion of EthernetInitiateSend holds whatever the handler         *)
(* interrupts.                                                              *)
THEOREM SendNeverOverlaps == Spec => []NeverBusy
<1>1. DInv => NeverBusy
  BY DEF DInv, TypeOK, Exclusive, NeverBusy, Sending
<1> QED
  BY <1>1, DriverInvariant, PTL

(* What select told main is only ever made truer by the others: ethernet_mux *)
(* adds to the one FIFO and takes from the other.                            *)
LEMMA StepKeepsReady ==
  ASSUME DInv, NeverStuckBlocked, [Next]_vars
  PROVE  NeverStuckBlocked'
<1> USE DEF reader, handler, transmit, writer, mux, loop, NeverStuckBlocked
<1>1. muxin \in Seq(Packets) /\ muxout \in Seq(Packets)
  BY DEF DInv, TypeOK
<1>2. CASE ReaderWrite \/ ReaderKill \/ WriterRead \/ WriterAnswer
  BY <1>2 DEF ReaderWrite, ReaderKill, WriterRead, WriterAnswer
<1>3. CASE MuxWrite
  <2>1. muxin' # <<>>
    BY <1>1, <1>3 DEF MuxWrite
  <2> QED
    BY <1>3, <2>1 DEF MuxWrite
<1>4. CASE MuxRead
  <2>1. Len(muxout') < Len(muxout) /\ Len(muxout) \in Nat /\ Len(muxout') \in Nat
    BY <1>1, <1>4 DEF MuxRead
  <2>2. Len(muxout) < MuxRoom => Len(muxout') < MuxRoom
    BY <2>1, RoomAssumption
  <2> QED
    BY <1>4, <2>2 DEF MuxRead
<1>5. CASE Handler
  BY <1>5 DEF Handler, TakeSignal, IsrPoll, IsrReturn, IsrSend, IsrWrite
<1>6. CASE Main
  <2>1. CASE Compare \/ Subtract \/ Block \/ Send \/ Write \/ Unblock
    BY <2>1 DEF Compare, Subtract, Block, Send, Write, Unblock
  <2>2. CASE Select
    BY <2>2 DEF Select
  <2>3. CASE Output
    BY <2>3 DEF Output
  <2>4. CASE Input
    BY <2>4 DEF Input
  <2> QED
    BY <1>6, <2>1, <2>2, <2>3, <2>4 DEF Main
<1>7. CASE UNCHANGED vars
  BY <1>7 DEF vars
<1> QED
  BY <1>2, <1>3, <1>4, <1>5, <1>6, <1>7 DEF Next

(* Main never waits for ethernet_mux while the signal is blocked, for all   *)
(* sizes of the queues and FIFOs.                                           *)
THEOREM DriverNeverStuck == Spec => []NeverStuckBlocked
<1>1. Init => NeverStuckBlocked
  BY DEF Init, NeverStuckBlocked
<1> QED
  BY <1>1, StepKeepsReady, DriverInvariant, PTL DEF Spec
-----------------------------------------------------------------------------
(* The driver implements the drop-tail queue, in each direction.            *)

(* What each step does to the input direction. *)
LEMMA IncomingStep ==
  ASSUME DInv, [Next]_vars
  PROVE  [Incoming!Next]_<<readerfd, Contents(input_queue), muxout>>
<1> USE DEF reader, handler, transmit, writer, mux, loop
<1> DEFINE q == Contents(input_queue)
           moved == <<readerfd, q, muxout>>
<1>0. /\ WellFormed(input_queue, InputSize) /\ readerfd \in Seq(Packets)
      /\ InputSize \in Nat \ {0}
  BY SizesAssumption DEF DInv, TypeOK
<1>1. CASE ReaderWrite
  <2>1. Incoming!Feed
    BY <1>1 DEF ReaderWrite, Incoming!Feed
  <2> QED
    BY <2>1 DEF Incoming!Next
<1>2. CASE MuxRead
  <2>1. Incoming!Take
    BY <1>2 DEF MuxRead, Incoming!Take
  <2> QED
    BY <2>1 DEF Incoming!Next
<1>3. CASE IsrPoll
  <2>1. CASE readerfd # <<>>
    <3>1. /\ readerfd' = Tail(readerfd)
          /\ input_queue' = PushPacket(input_queue, Head(readerfd))
          /\ muxout' = muxout
      BY <1>3, <2>1 DEF IsrPoll
    <3>2. Head(readerfd) \in Packets
      BY <1>0, <2>1
    <3>3. CASE Len(q) = InputSize - 1
      <4>1. q' = q
        BY <1>0, <3>1, <3>2, <3>3, PushAppends
      <4>2. Incoming!Drop
        BY <2>1, <3>1, <3>3, <4>1 DEF Incoming!Drop
      <4> QED
        BY <4>2 DEF Incoming!Next
    <3>4. CASE Len(q) # InputSize - 1
      <4>1. q' = Append(q, Head(readerfd))
        BY <1>0, <3>1, <3>2, <3>4, PushAppends
      <4>2. Len(q) < InputSize - 1
        BY <1>0, <3>4, ContentsIsSeq
      <4>3. Incoming!Enqueue
        BY <2>1, <3>1, <4>1, <4>2 DEF Incoming!Enqueue
      <4> QED
        BY <4>3 DEF Incoming!Next
    <3> QED
      BY <3>3, <3>4
  <2>2. CASE readerfd = <<>>
    BY <1>3, <2>2 DEF IsrPoll
  <2> QED
    BY <2>1, <2>2
<1>4. CASE Output
  <2>1. CASE "muxout" \in ready /\ ~IsEmpty(input_queue)
    <3>1. /\ muxout' = Append(muxout, Front(input_queue))
          /\ input_queue' = PullPacket(input_queue)
          /\ readerfd' = readerfd
      BY <1>4, <2>1 DEF Output
    <3>2. q # <<>> /\ Front(input_queue) = Head(q) /\ q' = Tail(q)
      BY <1>0, <2>1, <3>1, PullTakesHead
    <3>3. Incoming!Dequeue
      BY <3>1, <3>2 DEF Incoming!Dequeue
    <3> QED
      BY <3>3 DEF Incoming!Next
  <2>2. CASE ~("muxout" \in ready /\ ~IsEmpty(input_queue))
    BY <1>4, <2>2 DEF Output
  <2> QED
    BY <2>1, <2>2
<1>5. ASSUME UNCHANGED <<readerfd, input_queue, muxout>> PROVE UNCHANGED moved
  BY <1>5
<1> QED
  BY <1>1, <1>2, <1>3, <1>4, <1>5
  DEF Next, Handler, Main, vars, ReaderKill, WriterRead, WriterAnswer, MuxWrite, TakeSignal,
      IsrReturn, IsrSend, IsrWrite, Compare, Subtract, Select, Block, Input, Send, Write, Unblock

(* Frames reach ethernet_mux in order, and are lost only to a full queue. *)
THEOREM InputImplementsQueue == Spec => InputIsQueue
<1>1. Init => Incoming!Init
  <2> SUFFICES ASSUME Init PROVE Incoming!Init
    OBVIOUS
  <2>1. Contents(input_queue) = <<>>
    BY SizesAssumption, NewBufferWellFormed DEF Init
  <2> QED
    BY <2>1 DEF Init, Incoming!Init
<1> QED
  BY <1>1, IncomingStep, DriverInvariant, PTL DEF Spec, InputIsQueue, Incoming!Spec

(* What the driver has handed to the writer, the outgoing packet included. *)
Handed == IF outgoing = NoPacket THEN writerfd ELSE Append(writerfd, outgoing)

(* The first half of a send moves the head of the queue to the writer. *)
LEMMA SendDequeues ==
  ASSUME DInv, outgoing = NoPacket, InitiateSend, UNCHANGED <<muxin, writerfd>>
  PROVE  Outgoing!Dequeue
<1>1. /\ WellFormed(output_queue, OutputSize) /\ ~IsEmpty(output_queue)
      /\ OutputSize \in Nat \ {0}
  BY SizesAssumption DEF DInv, TypeOK, InitiateSend
<1>2. /\ Contents(output_queue) # <<>>
      /\ Front(output_queue) = Head(Contents(output_queue))
      /\ Contents(output_queue') = Tail(Contents(output_queue))
  BY <1>1, PullTakesHead DEF InitiateSend
<1>3. outgoing' = Front(output_queue) /\ outgoing' # NoPacket
  BY InitiateSendType DEF DInv, InitiateSend
<1> QED
  BY <1>2, <1>3 DEF Outgoing!Dequeue

(* What each step does to the output direction. *)
LEMMA OutgoingStep ==
  ASSUME DInv, [Next]_vars
  PROVE  [Outgoing!Next]_<<muxin, Contents(output_queue), Handed>>
<1> USE DEF reader, handler, transmit, writer, mux, loop
<1> DEFINE q == Contents(output_queue)
           moved == <<muxin, q, Handed>>
<1>0. /\ WellFormed(output_queue, OutputSize) /\ muxin \in Seq(Packets)
      /\ writerfd \in Seq(Packets) /\ outgoing \in Packets \cup {NoPacket}
      /\ OutputSize \in Nat \ {0}
  BY SizesAssumption DEF DInv, TypeOK
<1>1. CASE MuxWrite
  <2>1. Outgoing!Feed
    BY <1>1 DEF MuxWrite, Outgoing!Feed
  <2> QED
    BY <2>1 DEF Outgoing!Next
<1>2. CASE WriterRead
  <2>1. /\ writerfd # <<>> /\ writerfd' = Tail(writerfd)
        /\ UNCHANGED <<muxin, output_queue, outgoing>>
    BY <1>2 DEF WriterRead
  <2>2. CASE outgoing = NoPacket
    BY <2>1, <2>2 DEF Outgoing!Take, Outgoing!Next
  <2>3. CASE outgoing # NoPacket
    <3>1. outgoing \in Packets
      BY <1>0, <2>3
    <3>2. /\ Append(writerfd, outgoing) # <<>>
          /\ Tail(Append(writerfd, outgoing)) = Append(Tail(writerfd), outgoing)
      BY <1>0, <2>1, <3>1
    <3>3. Outgoing!Take
      BY <2>1, <2>3, <3>2 DEF Outgoing!Take
    <3> QED
      BY <3>3 DEF Outgoing!Next
  <2> QED
    BY <2>2, <2>3
<1>3. CASE Input
  <2>1. /\ muxin # <<>> /\ muxin' = Tail(muxin)
        /\ output_queue' = PushPacket(output_queue, Head(muxin))
        /\ Handed' = Handed
    BY <1>3 DEF Input, Handed
  <2>2. Head(muxin) \in Packets
    BY <1>0, <2>1
  <2>3. CASE Len(q) = OutputSize - 1
    <3>1. q' = q
      BY <1>0, <2>1, <2>2, <2>3, PushAppends
    <3>2. Outgoing!Drop
      BY <2>1, <2>3, <3>1 DEF Outgoing!Drop, Handed
    <3> QED
      BY <3>2 DEF Outgoing!Next
  <2>4. CASE Len(q) # OutputSize - 1
    <3>1. q' = Append(q, Head(muxin))
      BY <1>0, <2>1, <2>2, <2>4, PushAppends
    <3>2. Len(q) < OutputSize - 1
      BY <1>0, <2>4, ContentsIsSeq
    <3>3. Outgoing!Enqueue
      BY <2>1, <3>1, <3>2 DEF Outgoing!Enqueue, Handed
    <3> QED
      BY <3>3 DEF Outgoing!Next
  <2> QED
    BY <2>3, <2>4
<1>4. CASE IsrSend \/ Send
  <2>1. CASE InitiateSend
    <3>1. outgoing = NoPacket
      BY <1>4, <2>1 DEF DInv, TypeOK, Exclusive, IsrSend, Send
    <3>2. UNCHANGED <<muxin, writerfd>>
      BY <1>4 DEF IsrSend, Send
    <3>3. Outgoing!Dequeue
      BY <2>1, <3>1, <3>2, SendDequeues
    <3> QED
      BY <3>3 DEF Outgoing!Next
  <2>2. CASE ~InitiateSend
    BY <1>4, <2>2 DEF IsrSend, Send, Handed
  <2> QED
    BY <2>1, <2>2
<1>5. CASE IsrWrite \/ Write
  <2>1. outgoing # NoPacket
    BY <1>5 DEF DInv, Exclusive, IsrWrite, Write
  <2>2. /\ writerfd' = Append(writerfd, outgoing) /\ outgoing' = NoPacket
        /\ UNCHANGED <<muxin, output_queue>>
    BY <1>5 DEF IsrWrite, Write, WriteNextPacket
  <2> QED
    BY <2>1, <2>2 DEF Handed
<1>6. ASSUME UNCHANGED <<muxin, output_queue, outgoing, writerfd>> PROVE UNCHANGED moved
  BY <1>6 DEF Handed
<1> QED
  BY <1>1, <1>2, <1>3, <1>4, <1>5, <1>6
  DEF Next, Handler, Main, vars, ReaderWrite, ReaderKill, WriterAnswer, MuxRead, TakeSignal,
      IsrPoll, IsrReturn, Compare, Subtract, Select, Block, Output, Unblock

(* Packets reach the writer in order, and are lost only to a full queue,    *)
(* although main and the handler both start sends.                          *)
THEOREM OutputImplementsQueue == Spec => OutputIsQueue
<1>1. Init => Outgoing!Init
  <2> SUFFICES ASSUME Init PROVE Outgoing!Init
    OBVIOUS
  <2>1. Contents(output_queue) = <<>>
    BY SizesAssumption, NewBufferWellFormed DEF Init
  <2> QED
    BY <2>1 DEF Init, Outgoing!Init
<1> QED
  BY <1>1, OutgoingStep, DriverInvariant, PTL
  DEF Spec, OutputIsQueue, Outgoing!Spec, Handed
=============================================================================
