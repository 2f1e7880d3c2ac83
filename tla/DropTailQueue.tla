---------------------------- MODULE DropTailQueue ----------------------------
(***************************************************************************)
(* What one direction of the device driver promises: packets go from src   *)
(* through a queue of at most Capacity packets to dst in the order they    *)
(* came, and a packet is lost only when it finds the queue full.           *)
(***************************************************************************)
EXTENDS Integers, Sequences

CONSTANTS
  Packets,
  Capacity

VARIABLES
  src,     \* packets on their way to the queue
  queue,
  dst      \* packets that have left the queue and were not taken yet

Init == src = <<>> /\ queue = <<>> /\ dst = <<>>

Feed == \E p \in Packets : src' = Append(src, p) /\ UNCHANGED <<queue, dst>>

Enqueue ==
  /\ src # <<>>
  /\ Len(queue) < Capacity
  /\ queue' = Append(queue, Head(src))
  /\ src' = Tail(src)
  /\ UNCHANGED dst

Drop ==
  /\ src # <<>>
  /\ Len(queue) = Capacity
  /\ src' = Tail(src)
  /\ UNCHANGED <<queue, dst>>

Dequeue ==
  /\ queue # <<>>
  /\ dst' = Append(dst, Head(queue))
  /\ queue' = Tail(queue)
  /\ UNCHANGED src

Take == dst # <<>> /\ dst' = Tail(dst) /\ UNCHANGED <<src, queue>>

Next == Feed \/ Enqueue \/ Drop \/ Dequeue \/ Take

Spec == Init /\ [][Next]_<<src, queue, dst>>
==============================================================================
