-------------------------- MODULE PacketBufferSpec --------------------------
(***************************************************************************)
(* The packet buffer used by any number of threads: since each operation   *)
(* holds mu_, concurrent use is some sequence of Push and Pop steps.  The  *)
(* history variables record what was pushed, handed out and dropped; the   *)
(* code keeps only the counter dropped_.                                   *)
(***************************************************************************)
EXTENDS PacketBuffer

CONSTANT MaxPushes   (* bound of the model: pushes in one behaviour        *)

ASSUME PushesAssumption == MaxPushes \in Nat

VARIABLES
  buffer,   (* the PacketBuffer object                                     *)
  pushed,   (* every packet given to Push, in order                        *)
  popped,   (* positions in pushed of the packets Pop returned, in order   *)
  evicted   (* positions in pushed of the packets Push dropped, in order   *)

vars == <<buffer, pushed, popped, evicted>>

(* Position in pushed of the oldest packet of the queue, minus one.        *)
Gone == Len(pushed) - Len(buffer.queue)

Init ==
  /\ buffer = EmptyBuffer
  /\ pushed = << >>
  /\ popped = << >>
  /\ evicted = << >>

PushStep(p) ==
  /\ Len(pushed) < MaxPushes
  /\ \E k \in 0..Len(buffer.queue) :
       /\ Evicts(buffer, p, k)
       /\ buffer' = Push(buffer, p, k)
       /\ evicted' = evicted \o [i \in 1..k |-> Gone + i]
  /\ pushed' = Append(pushed, p)
  /\ UNCHANGED popped

PopStep ==
  /\ buffer.queue # << >>
  /\ buffer' = Pop(buffer)
  /\ popped' = Append(popped, Gone + 1)
  /\ UNCHANGED <<pushed, evicted>>

Next == PopStep \/ \E p \in Packet : PushStep(p)

Spec == Init /\ [][Next]_vars

-----------------------------------------------------------------------------
(* Type invariant: the buffer is a value of the class, the histories are   *)
(* sequences of packets and of positions.                                  *)
TypeOK ==
  /\ buffer \in Buffer
  /\ pushed \in Seq(Packet)
  /\ popped \in Seq(Nat)
  /\ evicted \in Seq(Nat)

(* The queue is the unbroken newest end of what was pushed, so dropping    *)
(* always takes the oldest packet and nothing in the middle disappears or  *)
(* changes place (packet_buffer.hpp:24-32, 40-42).                         *)
QueueIsNewest == buffer.queue = SubSeq(pushed, Gone + 1, Len(pushed))

(* Conservation: what left the buffer was either handed out or counted in  *)
(* dropped_, which the runtime report shows as buffer_dropped.             *)
Conservation == Gone = Len(popped) + buffer.dropped

(* The packet limit holds after every call; a capacity of zero still       *)
(* stores the newest packet, since the loop stops at an empty queue.       *)
PacketBound == Len(buffer.queue) <= Capacity \/ Len(buffer.queue) = 1

(* total_bytes_ is the exact size of the queue, so the unsigned            *)
(* subtractions of Push and Pop never wrap.                                *)
BytesExact == buffer.bytes = HeadBytes(buffer.queue, Len(buffer.queue))

(* The byte limit is exceeded only by a single packet larger than it.      *)
ByteBound == buffer.bytes <= MaxBytes \/ Len(buffer.queue) = 1

(* Each packet leaves the buffer once: it is handed out or dropped, never  *)
(* both, and both happen in arrival order.                                 *)
LeavesOnce ==
  LET Increasing(s) == \A i \in 1..(Len(s) - 1) : s[i] < s[i + 1]
      Members(s)    == {s[i] : i \in 1..Len(s)}
  IN  /\ Increasing(popped) /\ Increasing(evicted)
      /\ Members(popped) \cap Members(evicted) = {}
      /\ Members(popped) \cup Members(evicted) = 1..Gone

(* A push drops no packet it could have kept: with one drop fewer the      *)
(* buffer would be over one of its limits (packet_buffer.hpp:25).          *)
DropsOnlyIfFull ==
  [][ buffer'.dropped > buffer.dropped =>
        LET last == pushed[evicted'[Len(evicted')]]
        IN  \/ Len(buffer'.queue) >= Capacity
            \/ buffer'.bytes + SizeOf[last] > MaxBytes ]_vars
=============================================================================
