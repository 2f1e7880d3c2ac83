---------------------------- MODULE PacketBuffer ----------------------------
(***************************************************************************)
(* RawEthernetPacketBuffer of libminet: a ring of bufsize slots, filled at *)
(* curin and drained at curout.  A buffer is a record of the fields of the *)
(* struct; an operation is an operator on that record.                     *)
(***************************************************************************)
EXTENDS Integers, Sequences

CONSTANTS
  Packets,     \* the raw Ethernet packets
  NoPacket     \* what a slot, or a packet variable, holds before it is set

ASSUME NoPacketAssumption == NoPacket \notin Packets

NewBuffer(size) ==
  [bufsize |-> size, packet |-> [i \in 0 .. size - 1 |-> NoPacket], curin |-> 0, curout |-> 0]

(* Fault: the index does not wrap around. *)
AfterNoWrap(b, i) == i + 1

(* The index after i, as IsFull, PushPacket and PullPacket compute it. *)
After(b, i) == (i + 1) % b.bufsize

IsEmpty(b) == b.curout = b.curin

(* One slot is never used, so that a full ring differs from an empty one. *)
IsFull(b) == After(b, b.curin) = b.curout

(* Too small by one when the contents wrap around the end of the ring.  The *)
(* int is converted to size_t: what is not zero is greater than zero.       *)
Numitems(b) ==
  IF b.curin >= b.curout THEN b.curin - b.curout ELSE b.bufsize - (b.curout - b.curin) - 1

(* Fault: no check that the ring is full. *)
PushPacketUnchecked(b, p) ==
  [bufsize |-> b.bufsize, packet |-> [b.packet EXCEPT ![b.curin] = p],
   curin |-> After(b, b.curin), curout |-> b.curout]

(* PushPacket: a packet that finds the ring full (PACKETBUFFER_FULL) is     *)
(* lost, as both callers go on without it.                                  *)
PushPacket(b, p) ==
  IF IsFull(b) THEN b
  ELSE [bufsize |-> b.bufsize, packet |-> [b.packet EXCEPT ![b.curin] = p],
        curin |-> After(b, b.curin), curout |-> b.curout]

(* PullPacket of a ring that is not empty: the packet, and what is left. *)
Front(b) == b.packet[b.curout]
PullPacket(b) == [b EXCEPT !.curout = After(b, b.curout)]

-----------------------------------------------------------------------------
Buffers(size) == [bufsize : {size}, packet : [0 .. size - 1 -> Packets \cup {NoPacket}],
                  curin : 0 .. size - 1, curout : 0 .. size - 1]

(* What a ring holds, oldest packet first: the sequence it stands for. *)
Occupancy(b) ==
  IF b.curin >= b.curout THEN b.curin - b.curout ELSE b.curin - b.curout + b.bufsize
Slot(b, i) ==
  IF b.curout + i - 1 < b.bufsize THEN b.curout + i - 1 ELSE b.curout + i - 1 - b.bufsize
Contents(b) == [i \in 1 .. Occupancy(b) |-> b.packet[Slot(b, i)]]

(* A buffer whose occupied slots hold packets. *)
WellFormed(b, size) ==
  /\ b \in Buffers(size)
  /\ \A i \in 1 .. Occupancy(b) : b.packet[Slot(b, i)] \in Packets
=============================================================================
