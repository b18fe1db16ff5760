---------------------------- MODULE PacketBuffer ----------------------------
(***************************************************************************)
(* The bounded FIFO between the network thread and the writer thread       *)
(* (include/ego_runtime/packet_buffer.hpp).  A full buffer never blocks or *)
(* refuses the producer: Push drops the oldest packets until the new one   *)
(* fits.  This module has no variables: a buffer is a value, and every     *)
(* operation of the class, which runs under the buffer's own mutex, is one *)
(* operator on it.                                                         *)
(***************************************************************************)
EXTENDS Lists

CONSTANTS
  Packet,     (* the packets that may be buffered                          *)
  SizeOf,     (* SizeOf[p]: the number of bytes of packet p                *)
  Capacity,   (* capacity_packets_                                         *)
  MaxBytes    (* max_bytes_                                                *)

ASSUME BufferAssumption ==
  /\ SizeOf \in [Packet -> Nat]
  /\ Capacity \in Nat
  /\ MaxBytes \in Nat

(* The fields of the class.                                                *)
Buffer == [queue: Seq(Packet), bytes: Nat, dropped: Nat, degraded: BOOLEAN]

EmptyBuffer == [queue |-> << >>, bytes |-> 0, dropped |-> 0, degraded |-> FALSE]

(* Bytes of the packets q[1..k].                                           *)
HeadBytes(q, k) == SumSeq([i \in 1..k |-> SizeOf[q[i]]])

(* Deviations from the operators that follow them, used to check that the  *)
(* properties of PacketBufferSpec can fail.                                *)
FitsAfterOneLess(b, p, k) ==
  \/ k = Len(b.queue)
  \/ /\ Len(b.queue) - k <= Capacity
     /\ (b.bytes - HeadBytes(b.queue, k)) + SizeOf[p] <= MaxBytes
FitsAfterStrict(b, p, k) ==
  \/ k = Len(b.queue)
  \/ /\ Len(b.queue) - k < Capacity
     /\ (b.bytes - HeadBytes(b.queue, k)) + SizeOf[p] < MaxBytes
FitsAfterByCount(b, p, k) ==
  \/ k = Len(b.queue)
  \/ Len(b.queue) - k < Capacity

(* The loop condition of Push is false after k packets are dropped: the    *)
(* queue is empty, or both limits leave room for p.                        *)
FitsAfter(b, p, k) ==
  \/ k = Len(b.queue)
  \/ /\ Len(b.queue) - k < Capacity
     /\ (b.bytes - HeadBytes(b.queue, k)) + SizeOf[p] <= MaxBytes

(* The loop drops k packets: it runs while its condition holds.            *)
Evicts(b, p, k) ==
  /\ k \in 0..Len(b.queue)
  /\ FitsAfter(b, p, k)
  /\ \A j \in 0..(k - 1) : ~FitsAfter(b, p, j)

PushDropsNewest(b, p, k) ==
  [queue    |-> Append(SubSeq(b.queue, 1, Len(b.queue) - k), p),
   bytes    |-> (b.bytes - HeadBytes(b.queue, k)) + SizeOf[p],
   dropped  |-> b.dropped + k,
   degraded |-> b.degraded \/ k > 0]
PushForgetsNew(b, p, k) ==
  [queue    |-> IF k > 0 THEN SubSeq(b.queue, k + 1, Len(b.queue)) ELSE Append(b.queue, p),
   bytes    |-> (b.bytes - HeadBytes(b.queue, k)) + SizeOf[p],
   dropped  |-> b.dropped + k,
   degraded |-> b.degraded \/ k > 0]
PushCountsOnce(b, p, k) ==
  [queue    |-> Append(SubSeq(b.queue, k + 1, Len(b.queue)), p),
   bytes    |-> (b.bytes - HeadBytes(b.queue, k)) + SizeOf[p],
   dropped  |-> IF k > 0 THEN b.dropped + 1 ELSE b.dropped,
   degraded |-> b.degraded \/ k > 0]

(* Push when the loop drops k packets; used with Evicts(b, p, k).          *)
Push(b, p, k) ==
  [queue    |-> Append(SubSeq(b.queue, k + 1, Len(b.queue)), p),
   bytes    |-> (b.bytes - HeadBytes(b.queue, k)) + SizeOf[p],
   dropped  |-> b.dropped + k,
   degraded |-> b.degraded \/ k > 0]

PopKeepsBytes(b) ==
  [queue |-> Tail(b.queue), bytes |-> b.bytes,
   dropped |-> b.dropped, degraded |-> b.degraded]

PopSubtractsTwice(b) ==
  [queue |-> Tail(b.queue), bytes |-> b.bytes - 2 * SizeOf[Head(b.queue)],
   dropped |-> b.dropped, degraded |-> b.degraded]

(* Pop of a nonempty buffer returns Head(b.queue) and leaves this one; of  *)
(* an empty buffer it returns nothing and changes nothing.                 *)
Pop(b) ==
  [queue |-> Tail(b.queue), bytes |-> b.bytes - SizeOf[Head(b.queue)],
   dropped |-> b.dropped, degraded |-> b.degraded]
=============================================================================
