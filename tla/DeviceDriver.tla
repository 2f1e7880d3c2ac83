---------------------------- MODULE DeviceDriver ----------------------------
(***************************************************************************)
(* The signal-driven device driver (lowlevel/device_driver.cc and the      *)
(* Ethernet layer of libminet/ethernet.cc) with its reader and writer      *)
(* child processes.                                                        *)
(*                                                                         *)
(* The reader hands every captured frame to the driver over a socket pair  *)
(* and then raises SIGUSR1.  The signal handler drains both socket pairs:  *)
(* it queues the frames (MyISR, PACKET_READY) and starts the next send for *)
(* every answer of the writer (DMA_DONE or DMA_FAIL).  The main loop moves *)
(* frames from the input queue to ethernet_mux and packets of ethernet_mux *)
(* to the output queue, with the signal blocked only while it does so.     *)
(*                                                                         *)
(* The handler interrupts the main loop between any two of its steps where *)
(* the signal is not blocked; readers, writer and ethernet_mux run beside  *)
(* both.  The kill of the writer has its arguments swapped, so an answer   *)
(* of the writer raises no signal.  The pipes between the processes hold   *)
(* so much and no more; who writes to a full one waits.                    *)
(***************************************************************************)
EXTENDS PacketBuffer

CONSTANTS
  InputSize,    \* argv[1], slots of the input queue
  OutputSize,   \* argv[2], slots of the output queue
  SourceRoom,   \* packets that fit into the pipes from reader and ethernet_mux
  MuxRoom,      \* packets that fit into the FIFO to ethernet_mux
  WriterRoom,   \* packets that fit into the socket pair to the writer
  AnswerRoom    \* answers that fit into the socket pair from the writer

ASSUME SizesAssumption == InputSize \in Nat \ {0} /\ OutputSize \in Nat \ {0}
ASSUME RoomAssumption ==
  SourceRoom \in Nat /\ MuxRoom \in Nat /\ WriterRoom \in Nat /\ AnswerRoom \in Nat

VARIABLES
  readerfd,     \* frames the reader has written and the driver has not read
  readerpc,     \* "capture" or "kill": the reader is about to do
  pending,      \* SIGUSR1 is pending; a second one is not counted
  blocked,      \* SIGUSR1 is blocked by main
  isr,          \* EthernetInputHandler: "off", "poll", "send" or "write"
  input_queue, output_queue,
  outgoing,     \* EthernetOutgoingPacket; NoPacket: none is available
  writerfd,     \* packets written to the writer, oldest first
  writerpc,     \* "read" or "answer": the writer is about to do
  answers,      \* number of the writer's answers that were not read
  muxin,        \* packets in the FIFO from ethernet_mux
  muxout,       \* packets in the FIFO to ethernet_mux
  pc,           \* the next step of main's loop
  wrapped,      \* Numitems has compared and not yet subtracted: curin < curout
  ready         \* the fd_sets: which descriptors select was asked, then told

vars == <<readerfd, readerpc, pending, blocked, isr, input_queue, output_queue, outgoing,
          writerfd, writerpc, answers, muxin, muxout, pc, wrapped, ready>>

(* Variables by the part that owns them. *)
reader == <<readerfd, readerpc>>
handler == <<pending, isr>>
transmit == <<outgoing, writerfd>>
writer == <<writerpc, answers>>
loop == <<pc, wrapped, ready, blocked>>
mux == <<muxin, muxout>>

Init ==
  /\ readerfd = <<>> /\ readerpc = "capture"
  /\ pending = FALSE /\ blocked = FALSE /\ isr = "off"
  /\ input_queue = NewBuffer(InputSize)
  /\ output_queue = NewBuffer(OutputSize)
  /\ outgoing = NoPacket /\ writerfd = <<>> /\ writerpc = "read" /\ answers = 0
  /\ muxin = <<>> /\ muxout = <<>>
  /\ pc = "compare" /\ wrapped = FALSE /\ ready = {}

-----------------------------------------------------------------------------
(* The reader: PacketHandler writes the frame, then signals its parent. *)
ReaderWrite ==
  /\ readerpc = "capture"
  /\ Len(readerfd) < SourceRoom
  /\ \E p \in Packets : readerfd' = Append(readerfd, p)
  /\ readerpc' = "kill"
  /\ UNCHANGED <<handler, input_queue, output_queue, transmit, writer, mux, loop>>

ReaderKill ==
  /\ readerpc = "kill"
  /\ pending' = TRUE
  /\ readerpc' = "capture"
  /\ UNCHANGED <<readerfd, isr, input_queue, output_queue, transmit, writer, mux, loop>>

(* The writer sends a packet and then answers, or discards one that is not *)
(* ours and does not answer.                                                *)
WriterRead ==
  /\ writerpc = "read" /\ writerfd # <<>>
  /\ writerfd' = Tail(writerfd)
  /\ writerpc' \in {"read", "answer"}
  /\ UNCHANGED <<reader, handler, input_queue, output_queue, outgoing, answers, mux, loop>>

WriterAnswer ==
  /\ writerpc = "answer" /\ answers < AnswerRoom
  /\ answers' = answers + 1
  /\ writerpc' = "read"
  /\ UNCHANGED <<reader, handler, input_queue, output_queue, transmit, mux, loop>>

(* ethernet_mux, at the other end of both FIFOs. *)
MuxWrite ==
  /\ Len(muxin) < SourceRoom
  /\ \E p \in Packets : muxin' = Append(muxin, p)
  /\ UNCHANGED <<reader, handler, input_queue, output_queue, transmit, writer, muxout, loop>>

MuxRead ==
  /\ muxout # <<>>
  /\ muxout' = Tail(muxout)
  /\ UNCHANGED <<reader, handler, input_queue, output_queue, transmit, writer, muxin, loop>>

-----------------------------------------------------------------------------
(* The signal handler. *)

(* Fault: the handler may also interrupt the critical section. *)
TakeSignalAnywhere ==
  /\ pending /\ isr = "off"
  /\ pending' = FALSE
  /\ isr' = "poll"
  /\ pc' = IF pc = "select" THEN "compare" ELSE pc
  /\ UNCHANGED <<reader, input_queue, output_queue, transmit, writer, mux, wrapped, ready, blocked>>

(* The signal is delivered unless it is blocked, by main or because its     *)
(* handler runs.  It interrupts a select, which fails with EINTR.           *)
TakeSignal ==
  /\ pending /\ ~blocked /\ isr = "off"
  /\ pending' = FALSE
  /\ isr' = "poll"
  /\ pc' = IF pc = "select" THEN "compare" ELSE pc
  /\ UNCHANGED <<reader, input_queue, output_queue, transmit, writer, mux, wrapped, ready, blocked>>

(* Fault: the handler returns after it has looked once. *)
IsrPollOnce ==
  /\ isr = "poll"
  /\ IF readerfd # <<>>
       THEN /\ readerfd' = Tail(readerfd)
            /\ input_queue' = PushPacket(input_queue, Head(readerfd))
       ELSE UNCHANGED <<readerfd, input_queue>>
  /\ IF answers > 0
       THEN answers' = answers - 1 /\ isr' = "send"
       ELSE isr' = "off" /\ UNCHANGED answers
  /\ UNCHANGED <<readerpc, pending, output_queue, transmit, writerpc, mux, loop>>

(* One turn of EthernetInputHandler: a frame from the reader is queued or,  *)
(* when the input queue is full, dropped; an answer of the writer, good or  *)
(* bad, starts the next send.                                               *)
IsrPoll ==
  /\ isr = "poll"
  /\ readerfd # <<>> \/ answers > 0
  /\ IF readerfd # <<>>
       THEN /\ readerfd' = Tail(readerfd)
            /\ input_queue' = PushPacket(input_queue, Head(readerfd))
       ELSE UNCHANGED <<readerfd, input_queue>>
  /\ IF answers > 0
       THEN answers' = answers - 1 /\ isr' = "send"
       ELSE UNCHANGED <<answers, isr>>
  /\ UNCHANGED <<readerpc, pending, output_queue, transmit, writerpc, mux, loop>>

(* Nothing left to read: the handler returns. *)
IsrReturn ==
  /\ isr = "poll"
  /\ readerfd = <<>> /\ answers = 0
  /\ isr' = "off"
  /\ UNCHANGED <<reader, pending, input_queue, output_queue, transmit, writer, mux, loop>>

(* Fault: the packet is sent and stays in the queue. *)
InitiateSendKeeps ==
  /\ ~IsEmpty(output_queue)
  /\ outgoing' = Front(output_queue)
  /\ UNCHANGED output_queue

(* SendNextPacket, in its two halves: EthernetInitiateSend copies the next  *)
(* packet of the output queue and declares it available, then               *)
(* EthernetWriteNextPacket writes it to the writer.                         *)
InitiateSend ==
  /\ ~IsEmpty(output_queue)
  /\ outgoing' = Front(output_queue)
  /\ output_queue' = PullPacket(output_queue)

WriteNextPacket ==
  /\ Len(writerfd) < WriterRoom
  /\ writerfd' = Append(writerfd, outgoing)
  /\ outgoing' = NoPacket

IsrSend ==
  /\ isr = "send"
  /\ \/ InitiateSend /\ isr' = "write"
     \/ IsEmpty(output_queue) /\ isr' = "poll" /\ UNCHANGED <<outgoing, output_queue>>
  /\ UNCHANGED <<reader, pending, input_queue, writerfd, writer, mux, loop>>

IsrWrite ==
  /\ isr = "write"
  /\ WriteNextPacket
  /\ isr' = "poll"
  /\ UNCHANGED <<reader, pending, input_queue, output_queue, writer, mux, loop>>

-----------------------------------------------------------------------------
(* main's loop; it runs only while no handler does. *)

(* Numitems() of the input queue is not protected: the handler may run      *)
(* between its comparison and its subtraction and move curin.               *)
Compare ==
  /\ isr = "off" /\ pc = "compare"
  /\ wrapped' = (input_queue.curin < input_queue.curout)
  /\ pc' = "subtract"
  /\ UNCHANGED <<reader, handler, input_queue, output_queue, transmit, writer, mux, ready, blocked>>

(* muxout goes into the set only if the input queue seems to hold a frame. *)
Subtract ==
  /\ isr = "off" /\ pc = "subtract"
  /\ LET difference == input_queue.curin - input_queue.curout
         count == IF wrapped THEN input_queue.bufsize + difference - 1 ELSE difference
     IN  ready' = IF count # 0 THEN {"muxin", "muxout"} ELSE {"muxin"}
  /\ pc' = "select"
  /\ UNCHANGED <<reader, handler, input_queue, output_queue, transmit, writer, mux, wrapped, blocked>>

(* Fault: whatever select was asked about is taken to be ready. *)
SelectAssumed ==
  /\ isr = "off" /\ pc = "select"
  /\ \/ "muxin" \in ready /\ muxin # <<>>
     \/ "muxout" \in ready /\ Len(muxout) < MuxRoom
  /\ pc' = "block"
  /\ UNCHANGED <<reader, handler, input_queue, output_queue, transmit, writer, mux, wrapped, ready, blocked>>

(* select returns once one of the descriptors it was asked is ready. *)
Select ==
  /\ isr = "off" /\ pc = "select"
  /\ ready' = {fd \in ready : \/ fd = "muxin" /\ muxin # <<>>
                              \/ fd = "muxout" /\ Len(muxout) < MuxRoom}
  /\ ready' # {}
  /\ pc' = "block"
  /\ UNCHANGED <<reader, handler, input_queue, output_queue, transmit, writer, mux, wrapped, blocked>>

Block ==
  /\ isr = "off" /\ pc = "block"
  /\ blocked' = TRUE
  /\ pc' = "output"
  /\ UNCHANGED <<reader, handler, input_queue, output_queue, transmit, writer, mux, wrapped, ready>>

(* Pass the next frame on to ethernet_mux, if there is one. *)
Output ==
  /\ isr = "off" /\ pc = "output"
  /\ IF "muxout" \in ready /\ ~IsEmpty(input_queue)
       THEN /\ muxout' = Append(muxout, Front(input_queue))
            /\ input_queue' = PullPacket(input_queue)
       ELSE UNCHANGED <<muxout, input_queue>>
  /\ pc' = IF "muxin" \in ready THEN "input" ELSE "unblock"
  /\ UNCHANGED <<reader, handler, output_queue, transmit, writer, muxin, wrapped, ready, blocked>>

(* Queue, or when the output queue is full drop, a packet of ethernet_mux;  *)
(* a send starts if Numitems of the output queue is greater than zero.      *)
Input ==
  /\ isr = "off" /\ pc = "input"
  /\ muxin # <<>>
  /\ muxin' = Tail(muxin)
  /\ output_queue' = PushPacket(output_queue, Head(muxin))
  /\ pc' = IF Numitems(output_queue') # 0 THEN "send" ELSE "unblock"
  /\ UNCHANGED <<reader, handler, input_queue, transmit, writer, muxout, wrapped, ready, blocked>>

Send ==
  /\ isr = "off" /\ pc = "send"
  /\ \/ InitiateSend /\ pc' = "write"
     \/ IsEmpty(output_queue) /\ pc' = "unblock" /\ UNCHANGED <<outgoing, output_queue>>
  /\ UNCHANGED <<reader, handler, input_queue, writerfd, writer, mux, wrapped, ready, blocked>>

Write ==
  /\ isr = "off" /\ pc = "write"
  /\ WriteNextPacket
  /\ pc' = "unblock"
  /\ UNCHANGED <<reader, handler, input_queue, output_queue, writer, mux, wrapped, ready, blocked>>

Unblock ==
  /\ isr = "off" /\ pc = "unblock"
  /\ blocked' = FALSE
  /\ pc' = "compare"
  /\ UNCHANGED <<reader, handler, input_queue, output_queue, transmit, writer, mux, wrapped, ready>>

-----------------------------------------------------------------------------
Handler == TakeSignal \/ IsrPoll \/ IsrReturn \/ IsrSend \/ IsrWrite
Main == Compare \/ Subtract \/ Select \/ Block \/ Output \/ Input \/ Send \/ Write \/ Unblock

Next == ReaderWrite \/ ReaderKill \/ WriterRead \/ WriterAnswer \/ MuxWrite \/ MuxRead \/ Handler \/ Main

Spec == Init /\ [][Next]_vars

(* Each process runs on: reader, writer and driver take their next step     *)
(* when they can, and a signal that is pending again and again while it is  *)
(* not blocked is delivered.  ethernet_mux need not do anything.            *)
FairSpec ==
  /\ Spec
  /\ WF_vars(ReaderKill)
  /\ WF_vars(WriterRead) /\ WF_vars(WriterAnswer)
  /\ SF_vars(TakeSignal)
  /\ WF_vars(Handler)
  /\ WF_vars(Main)

-----------------------------------------------------------------------------
(* Types, and how the parts of the driver depend on each other: the signal  *)
(* is blocked in the critical section and nowhere else.                     *)
TypeOK ==
  /\ readerfd \in Seq(Packets) /\ readerpc \in {"capture", "kill"}
  /\ pending \in BOOLEAN /\ blocked \in BOOLEAN /\ isr \in {"off", "poll", "send", "write"}
  /\ WellFormed(input_queue, InputSize) /\ WellFormed(output_queue, OutputSize)
  /\ outgoing \in Packets \cup {NoPacket} /\ writerfd \in Seq(Packets)
  /\ writerpc \in {"read", "answer"} /\ answers \in 0 .. AnswerRoom
  /\ muxin \in Seq(Packets) /\ muxout \in Seq(Packets)
  /\ pc \in {"compare", "subtract", "select", "block", "output", "input", "send", "write", "unblock"}
  /\ wrapped \in BOOLEAN /\ ready \subseteq {"muxin", "muxout"}
  /\ blocked <=> pc \in {"output", "input", "send", "write", "unblock"}

(* assert(EthernetOutgoingPacketsAvailable==0) in EthernetInitiateSend      *)
(* never fails: main and the handler share the outgoing packet, and never   *)
(* meet in SendNextPacket.                                                  *)
Sending == (isr = "send" \/ (isr = "off" /\ pc = "send")) /\ ~IsEmpty(output_queue)
NeverBusy == Sending => outgoing = NoPacket

(* What main read of select still holds when it acts on it: it never waits  *)
(* in the critical section, with the signal blocked, for ethernet_mux.      *)
NeverStuckBlocked ==
  /\ pc = "input" => muxin # <<>>
  /\ pc \in {"block", "output"} => /\ "muxin" \in ready => muxin # <<>>
                                   /\ "muxout" \in ready => Len(muxout) < MuxRoom

(* The input direction is a drop-tail queue: the frames reach ethernet_mux  *)
(* in the order of their capture, each once, and are lost only when         *)
(* InputSize - 1 frames wait.                                               *)
Incoming == INSTANCE DropTailQueue WITH
  Capacity <- InputSize - 1, src <- readerfd, queue <- Contents(input_queue), dst <- muxout
InputIsQueue == Incoming!Spec

(* So is the output direction, whoever starts the sends. *)
Outgoing == INSTANCE DropTailQueue WITH
  Capacity <- OutputSize - 1, src <- muxin, queue <- Contents(output_queue),
  dst <- IF outgoing = NoPacket THEN writerfd ELSE Append(writerfd, outgoing)
OutputIsQueue == Outgoing!Spec

(* Main waits, with the signal blocked, for the writer to read, and the     *)
(* writer waits for the handler to read its answers.                        *)
Jammed ==
  /\ pc = "write" /\ Len(writerfd) = WriterRoom
  /\ writerpc = "answer" /\ answers = AnswerRoom

(* Signals of several frames merge into one, and none is raised while one   *)
(* is handled; still a frame that waits with the reader is always read,     *)
(* unless driver and writer wait for each other.                            *)
ReaderServed == []<>(readerfd = <<>> \/ isr = "poll" \/ Jammed)

(* writer.cc: the writer signals back to its parent that a write is done,   *)
(* so its answers are read.                                                 *)
AnswersRead == (answers > 0) ~> (answers = 0)

(* When main leaves its critical section a send was started or is under     *)
(* way: a packet never waits while the writer has nothing to do.            *)
SendStarted ==
  pc = "unblock" /\ "muxin" \in ready /\ isr = "off" =>
    IsEmpty(output_queue) \/ writerfd # <<>> \/ writerpc = "answer" \/ answers > 0
=============================================================================
