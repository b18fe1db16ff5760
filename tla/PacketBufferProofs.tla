------------------------- MODULE PacketBufferProofs -------------------------
(***************************************************************************)
(* For every set of packets, every packet limit (zero included) and every  *)
(* byte limit: the queue is the newest end of what was pushed, nothing     *)
(* leaves it unaccounted or twice, both limits hold, the byte counter is   *)
(* the exact size of the queue, and nothing is dropped without need.       *)
(*                                                                         *)
(* The proofs come in three layers.  BufferInv speaks of the queue and the *)
(* counter of drops; LeavesOnce is inductive beside it; the byte counter   *)
(* is a total over the queue, so its layer rests on the lemmas of ListFacts.*)
(***************************************************************************)
EXTENDS PacketBufferSpec, ListFacts

(* The fields the proofs speak of.                                         *)
Shape ==
  /\ buffer.queue \in Seq(Packet)
  /\ buffer.dropped \in Nat
  /\ pushed \in Seq(Packet)
  /\ popped \in Seq(Nat)

(* The inductive invariant.  The queue cannot be longer than the history   *)
(* it is cut from, which QueueIsNewest alone does not say.                 *)
BufferInv ==
  /\ Shape
  /\ Len(buffer.queue) <= Len(pushed)
  /\ QueueIsNewest
  /\ Conservation
  /\ PacketBound

-----------------------------------------------------------------------------
(* Sequences: the end of s from position g + 1, cut by k elements at the   *)
(* front and extended by e, is the end of s extended by e.                 *)
LEMMA EndOfAppend ==
  ASSUME NEW S, NEW s \in Seq(S), NEW e \in S, NEW a \in 1..(Len(s) + 1)
  PROVE  Append(SubSeq(s, a, Len(s)), e) = SubSeq(Append(s, e), a, Len(s) + 1)
<1> DEFINE n == Len(s)
           t == Append(s, e)
<1>1. n \in Nat /\ t \in Seq(S) /\ Len(t) = n + 1 /\ t[n + 1] = e
  BY AppendProperties, LenProperties
<1>2. t = s \o <<e>> /\ <<e>> \in Seq(S) /\ Len(<<e>>) = 1
  BY AppendIsConcat
<1>3. SubSeq(s, a, n) \in Seq(S)
  <2>1. \A i \in a..n : s[i] \in S
    BY <1>1, ElementOfSeq
  <2> QED BY <2>1, <1>1, SubSeqProperties
<1>4. SubSeq(t, a, n + 1) = SubSeq(t, a, n) \o <<e>>
  <2>1. a \in 1..Len(t) /\ n + 1 \in a..Len(t)
    BY <1>1
  <2>2. SubSeq(t, a, n + 1) = SubSeq(t, a, (n + 1) - 1) \o << t[n + 1] >>
    BY <1>1, <2>1, SubSeqRecursiveSecond
  <2>3. (n + 1) - 1 = n
    BY <1>1
  <2> QED BY <2>2, <2>3, <1>1
<1>5. SubSeq(t, a, n) = SubSeq(s, a, n)
  <2>1. CASE a <= n
    <3>1. a \in 1..Len(s) /\ n \in 1..Len(s)
      BY <1>1, <2>1
    <3>2. SubSeq(s \o <<e>>, a, n) = SubSeq(s, a, n)
      BY <1>2, <3>1, SubSeqOfConcat1
    <3> QED BY <1>2, <3>2
  <2>2. CASE n < a
    BY <1>1, <2>2, SubSeqEmpty
  <2> QED BY <1>1, <2>1, <2>2
<1>6. Append(SubSeq(s, a, n), e) = SubSeq(s, a, n) \o <<e>>
  BY <1>3, AppendIsConcat
<1> QED BY <1>4, <1>5, <1>6

(* The end of s from g + 1, cut by k elements, is the end from g + k + 1.  *)
LEMMA EndOfEnd ==
  ASSUME NEW S, NEW s \in Seq(S), NEW g \in 0..Len(s), NEW k \in 0..(Len(s) - g)
  PROVE  SubSeq(SubSeq(s, g + 1, Len(s)), k + 1, Len(s) - g)
           = SubSeq(s, g + k + 1, Len(s))
<1>1. Len(s) \in Nat
  BY LenProperties
<1>2. CASE k < Len(s) - g
  <2> DEFINE i == g + 1
             m == k + 1
             n == Len(s) - g
  <2>1. /\ i \in 1..Len(s) /\ Len(s) \in 1..Len(s)
        /\ m \in 1..(Len(s) - i + 1) /\ n \in 1..(Len(s) - i + 1)
    BY <1>1, <1>2
  <2>2. i + m - 1 = g + k + 1 /\ i + n - 1 = Len(s)
    BY <1>1
  <2> HIDE DEF i, m, n
  <2>3. SubSeq(SubSeq(s, i, Len(s)), m, n) = SubSeq(s, i + m - 1, i + n - 1)
    BY <2>1, SubSeqOfSubSeq
  <2>4. SubSeq(SubSeq(s, i, Len(s)), m, n) = SubSeq(s, g + k + 1, Len(s))
    BY <2>2, <2>3
  <2> QED BY <2>4 DEF i, m, n
<1>3. CASE k = Len(s) - g
  <2>1. Len(s) - g < k + 1 /\ Len(s) < g + k + 1
    BY <1>1, <1>3
  <2>2. SubSeq(SubSeq(s, g + 1, Len(s)), k + 1, Len(s) - g) = << >>
    BY <1>1, <2>1, SubSeqEmpty
  <2>3. SubSeq(s, g + k + 1, Len(s)) = << >>
    BY <1>1, <2>1, SubSeqEmpty
  <2> QED BY <2>2, <2>3
<1> QED BY <1>1, <1>2, <1>3

-----------------------------------------------------------------------------
LEMMA InitBuffer == Init => BufferInv
<1> SUFFICES ASSUME Init PROVE BufferInv
  OBVIOUS
<1>1. << >> \in Seq(Packet) /\ << >> \in Seq(Nat) /\ Len(<< >>) = 0
  OBVIOUS
<1>2. SubSeq(<< >>, 1, 0) = << >>
  BY SubSeqEmpty
<1> QED
  BY <1>1, <1>2, BufferAssumption
  DEF Init, BufferInv, Shape, EmptyBuffer, QueueIsNewest, Conservation, PacketBound, Gone

(* What BufferInv says of lengths, in one place.                           *)
LEMMA BufferLengths ==
  ASSUME BufferInv
  PROVE  /\ Len(buffer.queue) \in Nat /\ Len(pushed) \in Nat
         /\ Gone \in 0..Len(pushed)
         /\ Len(buffer.queue) = Len(pushed) - Gone
         /\ Gone = Len(popped) + buffer.dropped
         /\ Len(popped) \in Nat /\ buffer.dropped \in Nat /\ Capacity \in Nat
<1>1. Len(buffer.queue) \in Nat /\ Len(pushed) \in Nat /\ Len(popped) \in Nat
  BY LenProperties DEF BufferInv, Shape
<1>2. Len(buffer.queue) <= Len(pushed) /\ Gone = Len(pushed) - Len(buffer.queue)
  BY DEF BufferInv, Gone
<1>3. Gone \in 0..Len(pushed) /\ Len(buffer.queue) = Len(pushed) - Gone
  BY <1>1, <1>2
<1>4. Gone = Len(popped) + buffer.dropped /\ buffer.dropped \in Nat
  BY DEF BufferInv, Conservation, Shape
<1> QED BY <1>1, <1>3, <1>4, BufferAssumption

(* A push of p that drops k packets.                                       *)
LEMMA PushKeepsBuffer ==
  ASSUME BufferInv, NEW p \in Packet, PushStep(p)
  PROVE  BufferInv'
<1>k. PICK k \in 0..Len(buffer.queue) :
           Evicts(buffer, p, k) /\ buffer' = Push(buffer, p, k)
  BY DEF PushStep
<1> DEFINE q == buffer.queue
           L == Len(pushed)
           g == Gone
           kept == SubSeq(q, k + 1, Len(q))
<1>1. /\ L \in Nat /\ g \in 0..L /\ Len(q) = L - g /\ k \in 0..(L - g)
      /\ g = Len(popped) + buffer.dropped
      /\ Len(popped) \in Nat /\ buffer.dropped \in Nat /\ Capacity \in Nat
  BY BufferLengths
<1>0. q = SubSeq(pushed, g + 1, L)
  BY DEF BufferInv, QueueIsNewest
<1>2. pushed \in Seq(Packet) /\ popped \in Seq(Nat)
  BY DEF BufferInv, Shape
<1>3. buffer'.queue = Append(kept, p) /\ buffer'.dropped = buffer.dropped + k
  BY <1>k DEF Push
<1>4. pushed' = Append(pushed, p) /\ popped' = popped
  BY DEF PushStep
<1>5. pushed' \in Seq(Packet) /\ Len(pushed') = L + 1
  BY <1>2, <1>4, AppendProperties
<1>6. kept = SubSeq(pushed, g + k + 1, L)
  <2>1. kept = SubSeq(SubSeq(pushed, g + 1, L), k + 1, L - g)
    BY <1>0, <1>1
  <2>2. SubSeq(SubSeq(pushed, g + 1, L), k + 1, L - g) = SubSeq(pushed, g + k + 1, L)
    BY <1>1, <1>2, EndOfEnd
  <2> QED BY <2>1, <2>2
<1>7. buffer'.queue = SubSeq(pushed', g + k + 1, L + 1)
  <2>1. g + k + 1 \in 1..(L + 1)
    BY SMTT(20), <1>1
  <2>2. Append(SubSeq(pushed, g + k + 1, L), p) = SubSeq(Append(pushed, p), g + k + 1, L + 1)
    BY <1>2, <2>1, EndOfAppend
  <2> QED BY <1>3, <1>4, <1>6, <2>2
<1>8. buffer'.queue \in Seq(Packet) /\ Len(buffer'.queue) = L + 1 - (g + k)
  <2>0. L \in Nat /\ g \in Nat /\ k \in Nat /\ Len(pushed') = L + 1
    BY <1>1, <1>5
  <2>1. \A i \in (g + k + 1)..(L + 1) : pushed'[i] \in Packet
    <3> HIDE DEF g, L
    <3>1. TAKE i \in (g + k + 1)..(L + 1)
    <3>2. i \in 1..Len(pushed')
      BY <2>0
    <3> QED BY <3>2, <1>5, ElementOfSeq
  <2>2. g + k + 1 \in Int /\ L + 1 \in Int /\ g + k + 1 <= L + 1
    BY <1>1
  <2> HIDE DEF g, L
  <2>3. /\ SubSeq(pushed', g + k + 1, L + 1) \in Seq(Packet)
        /\ Len(SubSeq(pushed', g + k + 1, L + 1)) = (L + 1) - (g + k + 1) + 1
    BY <2>1, <2>2, SubSeqProperties
  <2>4. (L + 1) - (g + k + 1) + 1 = L + 1 - (g + k)
    <3>1. L \in Nat /\ g \in Nat /\ k \in Nat
      BY <1>1
    <3> QED BY <3>1
  <2> QED BY <1>7, <2>3, <2>4
<1> HIDE DEF kept, L, g
<1>9. Gone' = g + k
  <2>1. Gone' = Len(pushed') - Len(buffer'.queue)
    BY DEF Gone
  <2>2. Len(pushed') = L + 1 /\ Len(buffer'.queue) = L + 1 - (g + k)
    BY <1>5, <1>8
  <2>3. L \in Nat /\ g \in Nat /\ k \in Nat
    BY <1>1
  <2>4. (L + 1) - (L + 1 - (g + k)) = g + k
    BY <2>3
  <2> QED BY <2>1, <2>2, <2>4
<1>10. Shape'
  <2>1. buffer'.dropped \in Nat
    BY <1>1, <1>3
  <2> QED BY <2>1, <1>2, <1>4, <1>5, <1>8 DEF Shape
<1>11. Len(buffer'.queue) <= Len(pushed')
  <2>1. Len(pushed') = L + 1 /\ Len(buffer'.queue) = L + 1 - (g + k)
    BY <1>5, <1>8
  <2>2. L \in Nat /\ g \in Nat /\ k \in Nat
    BY <1>1
  <2>3. L + 1 - (g + k) <= L + 1
    BY <2>2
  <2> QED BY <2>1, <2>3
<1>12. QueueIsNewest'
  BY <1>5, <1>7, <1>9 DEF QueueIsNewest
<1>13. Conservation'
  BY <1>1, <1>3, <1>4, <1>9 DEF Conservation
<1>14. PacketBound'
  <2>1. Len(q) - k < Capacity \/ k = Len(q)
    BY <1>k DEF Evicts, FitsAfter
  <2>2. Len(buffer'.queue) = Len(q) - k + 1
    BY <1>1, <1>8
  <2> QED BY SMTT(20), <1>1, <2>1, <2>2 DEF PacketBound
<1> QED BY <1>10, <1>11, <1>12, <1>13, <1>14 DEF BufferInv

LEMMA PopKeepsBuffer ==
  ASSUME BufferInv, PopStep
  PROVE  BufferInv'
<1> DEFINE q == buffer.queue
           L == Len(pushed)
           g == Gone
<1>1. /\ L \in Nat /\ g \in 0..L /\ Len(q) = L - g
      /\ g = Len(popped) + buffer.dropped
      /\ Len(popped) \in Nat /\ buffer.dropped \in Nat /\ Capacity \in Nat
  BY BufferLengths
<1>0. q = SubSeq(pushed, g + 1, L)
  BY DEF BufferInv, QueueIsNewest
<1>2. q \in Seq(Packet) /\ pushed \in Seq(Packet) /\ popped \in Seq(Nat) /\ q # << >>
  BY DEF BufferInv, Shape, PopStep
<1>3. buffer'.queue = Tail(q) /\ buffer'.dropped = buffer.dropped /\ pushed' = pushed
  BY DEF PopStep, Pop
<1>4. Len(q) # 0 /\ Tail(q) \in Seq(Packet) /\ Len(Tail(q)) = Len(q) - 1
  BY <1>2, EmptySeq, HeadTailProperties
<1>5. popped' \in Seq(Nat) /\ Len(popped') = Len(popped) + 1
  <2>1. popped' = Append(popped, g + 1) /\ g + 1 \in Nat
    BY <1>1 DEF PopStep
  <2> QED BY <2>1, <1>2, AppendProperties
<1>6. Tail(q) = SubSeq(pushed, g + 1 + 1, L)
  <2>0. L \in Nat /\ g \in Nat /\ g <= L /\ L - g # 0
    BY <1>1, <1>4
  <2> HIDE DEF L, g, q
  <2>1. g + 1 \in 1..L /\ L \in (g + 1)..L
    BY <2>0
  <2> USE DEF L, g, q
  <2>2. Tail(SubSeq(pushed, g + 1, L)) = SubSeq(pushed, g + 1 + 1, L)
    BY <1>2, <2>1, HeadTailOfSubSeq
  <2> QED BY <1>0, <2>2
<1> HIDE DEF L, g
<1>7. Gone' = g + 1
  <2>1. Gone' = Len(pushed') - Len(buffer'.queue)
    BY DEF Gone
  <2>2. Len(pushed') = L
    BY <1>3 DEF L
  <2>3. Len(buffer'.queue) = L - g - 1
    BY <1>1, <1>3, <1>4
  <2>4. L \in Nat /\ g \in Nat
    BY <1>1
  <2>5. L - (L - g - 1) = g + 1
    BY <2>4
  <2> QED BY <2>1, <2>2, <2>3, <2>5
<1>8. Shape'
  BY <1>1, <1>2, <1>3, <1>4, <1>5 DEF Shape
<1>9. Len(buffer'.queue) <= Len(pushed')
  <2>1. Len(pushed') = L
    BY <1>3 DEF L
  <2>2. Len(buffer'.queue) = L - g - 1
    BY <1>1, <1>3, <1>4
  <2>3. L \in Nat /\ g \in Nat
    BY <1>1
  <2>4. L - g - 1 <= L
    BY <2>3
  <2> QED BY <2>1, <2>2, <2>4
<1>10. QueueIsNewest'
  BY <1>3, <1>6, <1>7 DEF QueueIsNewest, L
<1>11. Conservation'
  <2>1. Len(popped') = Len(popped) + 1 /\ buffer'.dropped = buffer.dropped
    BY <1>3, <1>5
  <2>2. Len(popped) + buffer.dropped + 1 = Len(popped) + 1 + buffer.dropped
    BY SMTT(20), <1>1
  <2>3. g = Len(popped) + buffer.dropped
    BY <1>1
  <2> QED BY <2>1, <2>2, <2>3, <1>7 DEF Conservation
<1>12. PacketBound'
  <2>1. Len(q) \in Nat /\ Len(buffer'.queue) = Len(q) - 1
    BY <1>1, <1>3, <1>4
  <2>2. PacketBound
    BY DEF BufferInv
  <2>3. Capacity \in Nat
    BY <1>1
  <2> HIDE DEF q
  <2>4. CASE Len(q) <= Capacity
    BY <2>1, <2>3, <2>4 DEF PacketBound
  <2>5. CASE Len(q) = 1 /\ Capacity = 0
    <3>1. Len(buffer'.queue) = 0
      BY <2>1, <2>5
    <3> QED BY <3>1, <2>3 DEF PacketBound
  <2>6. CASE Len(q) = 1 /\ Capacity > 0
    <3>1. Len(q) <= Capacity
      BY <2>3, <2>6
    <3> QED BY <2>4, <3>1
  <2> QED BY <2>2, <2>3, <2>4, <2>5, <2>6 DEF PacketBound, q
<1> QED BY <1>8, <1>9, <1>10, <1>11, <1>12 DEF BufferInv

LEMMA NextBuffer == BufferInv /\ [Next]_vars => BufferInv'
<1> SUFFICES ASSUME BufferInv, [Next]_vars PROVE BufferInv'
  OBVIOUS
<1>1. ASSUME NEW p \in Packet, PushStep(p) PROVE BufferInv'
  BY <1>1, PushKeepsBuffer
<1>2. CASE PopStep
  BY <1>2, PopKeepsBuffer
<1>3. CASE UNCHANGED vars
  BY <1>3 DEF vars, BufferInv, Shape, QueueIsNewest, Conservation, PacketBound, Gone
<1> QED BY <1>1, <1>2, <1>3 DEF Next

LEMMA BufferInvariant == Spec => []BufferInv
BY InitBuffer, NextBuffer, PTL DEF Spec

-----------------------------------------------------------------------------
(* The bytes of a whole sequence, element by element.                      *)
Sizes(q) == [i \in 1..Len(q) |-> SizeOf[q[i]]]

LEMMA SizesAreNumbers ==
  ASSUME NEW q \in Seq(Packet)
  PROVE  /\ Sizes(q) \in Seq(Nat) /\ Sizes(q) \in Seq(Int) /\ Len(Sizes(q)) = Len(q)
         /\ HeadBytes(q, Len(q)) = SumSeq(Sizes(q))
         /\ HeadBytes(q, Len(q)) \in Nat
<1>1. Len(q) \in Nat /\ \A i \in 1..Len(q) : SizeOf[q[i]] \in Nat
  BY LenProperties, ElementOfSeq, BufferAssumption
<1>2. Sizes(q) \in [1..Len(q) -> Nat]
  BY <1>1 DEF Sizes
<1>3. Sizes(q) \in Seq(Nat) /\ Len(Sizes(q)) = Len(q)
  BY <1>1, <1>2
<1> QED BY <1>3, NatSeqIsIntSeq, SumNat, Zenon DEF HeadBytes, Sizes

LEMMA SizesOfNone == Sizes(<< >>) = << >> /\ SumSeq(Sizes(<< >>)) = 0
<1>1. << >> \in Seq(Packet) /\ Len(<< >>) = 0
  OBVIOUS
<1>2. Sizes(<< >>) \in Seq(Nat) /\ Len(Sizes(<< >>)) = 0
  BY <1>1, SizesAreNumbers, Zenon
<1>3. Sizes(<< >>) = << >>
  BY <1>2, EmptySeq
<1> QED BY <1>3, SumEmpty

(* The bytes of a queue are those of its first k packets and of the rest.  *)
LEMMA BytesInTwo ==
  ASSUME NEW q \in Seq(Packet), NEW k \in 0..Len(q)
  PROVE  /\ SubSeq(q, k + 1, Len(q)) \in Seq(Packet)
         /\ HeadBytes(q, k) \in Nat
         /\ HeadBytes(q, Len(q)) = HeadBytes(q, k) + SumSeq(Sizes(SubSeq(q, k + 1, Len(q))))
<1> DEFINE a == SubSeq(q, 1, k)
           r == SubSeq(q, k + 1, Len(q))
<1>0. Len(q) \in Nat /\ k \in Nat /\ k <= Len(q) /\ \A i \in 1..Len(q) : q[i] \in Packet
  BY LenProperties, ElementOfSeq
<1>1. /\ a \in Seq(Packet) /\ Len(a) = k /\ \A i \in 1..k : a[i] = q[i]
      /\ r \in Seq(Packet) /\ Len(r) = Len(q) - k
      /\ \A i \in 1..(Len(q) - k) : r[i] = q[k + i]
  BY <1>0
<1> HIDE DEF a, r
<1>2. [i \in 1..k |-> SizeOf[q[i]]] = Sizes(a)
  BY <1>1 DEF Sizes
<1>3. /\ Sizes(a) \in Seq(Int) /\ Len(Sizes(a)) = k
      /\ Sizes(r) \in Seq(Int) /\ Len(Sizes(r)) = Len(q) - k
      /\ SumSeq(Sizes(a)) \in Nat
      /\ Sizes(q) \in Seq(Int) /\ Len(Sizes(q)) = Len(q)
      /\ HeadBytes(q, Len(q)) = SumSeq(Sizes(q))
  BY <1>1, SizesAreNumbers
<1>4. Sizes(q) = Sizes(a) \o Sizes(r)
  <2> DEFINE c == Sizes(a) \o Sizes(r)
  <2>1. /\ c \in Seq(Int) /\ Len(c) = Len(q)
        /\ \A i \in 1..Len(q) : c[i] = IF i <= k THEN Sizes(a)[i] ELSE Sizes(r)[i - k]
    BY <1>0, <1>3, ConcatProperties
  <2>2. \A i \in 1..Len(q) : Sizes(q)[i] = c[i]
    <3>1. TAKE i \in 1..Len(q)
    <3>2. CASE i <= k
      <4>1. i \in 1..k /\ i \in 1..Len(a) /\ a[i] = q[i]
        BY <1>0, <1>1, <3>2
      <4>2. Sizes(a)[i] = SizeOf[q[i]]
        BY <4>1 DEF Sizes
      <4> QED BY <2>1, <3>2, <4>2 DEF Sizes
    <3>3. CASE ~(i <= k)
      <4>1. i - k \in 1..(Len(q) - k) /\ i - k \in 1..Len(r) /\ k + (i - k) = i
        BY <1>0, <1>1, <3>3
      <4>2. Sizes(r)[i - k] = SizeOf[q[i]]
        BY <4>1, <1>1 DEF Sizes
      <4> QED BY <2>1, <3>3, <4>2 DEF Sizes
    <3> QED BY <3>2, <3>3
  <2> HIDE DEF c
  <2>3. Sizes(q) = c
    BY <1>3, <2>1, <2>2, SeqEqual
  <2> QED BY <2>3 DEF c
<1>5. SumSeq(Sizes(q)) = SumSeq(Sizes(a)) + SumSeq(Sizes(r))
  BY <1>3, <1>4, SumConcat
<1>6. HeadBytes(q, k) = SumSeq(Sizes(a))
  BY <1>2, Zenon DEF HeadBytes
<1> QED BY <1>1, <1>3, <1>5, <1>6 DEF r

LEMMA BytesOfAppend ==
  ASSUME NEW q \in Seq(Packet), NEW p \in Packet
  PROVE  HeadBytes(Append(q, p), Len(Append(q, p))) = SumSeq(Sizes(q)) + SizeOf[p]
<1>1. SizeOf[p] \in Int /\ Append(q, p) \in Seq(Packet)
  BY BufferAssumption, AppendProperties
<1>2. Sizes(q) \in Seq(Int) /\ Len(Sizes(q)) = Len(q) /\ Len(q) \in Nat
  BY SizesAreNumbers, LenProperties
<1>3. Sizes(Append(q, p)) = Append(Sizes(q), SizeOf[p])
  <2>1. /\ Sizes(Append(q, p)) \in Seq(Int) /\ Len(Sizes(Append(q, p))) = Len(q) + 1
    <3>1. Len(Append(q, p)) = Len(q) + 1
      BY AppendProperties
    <3>2. /\ Sizes(Append(q, p)) \in Seq(Int)
          /\ Len(Sizes(Append(q, p))) = Len(Append(q, p))
      BY <1>1, SizesAreNumbers, Zenon
    <3> QED BY <3>1, <3>2
  <2>3. /\ Append(Sizes(q), SizeOf[p]) \in Seq(Int)
        /\ Len(Append(Sizes(q), SizeOf[p])) = Len(q) + 1
    <3> DEFINE z == Sizes(q)
    <3> HIDE DEF z
    <3>1. z \in Seq(Int) /\ Len(z) = Len(q) /\ SizeOf[p] \in Int
      BY <1>1, <1>2 DEF z
    <3>2. Append(z, SizeOf[p]) \in Seq(Int) /\ Len(Append(z, SizeOf[p])) = Len(z) + 1
      BY <3>1, AppendProperties
    <3> QED BY <3>1, <3>2 DEF z
  <2>2. \A i \in 1..(Len(q) + 1) :
          Sizes(Append(q, p))[i] = Append(Sizes(q), SizeOf[p])[i]
    <3>1. TAKE i \in 1..(Len(q) + 1)
    <3>2. i \in 1..Len(Append(q, p))
      BY AppendProperties
    <3>3. Sizes(Append(q, p))[i] = SizeOf[Append(q, p)[i]]
      BY <3>2 DEF Sizes
    <3>4. CASE i = Len(q) + 1
      BY <1>1, <1>2, <3>3, <3>4, AppendProperties
    <3>5. CASE i \in 1..Len(q)
      <4>1. Append(q, p)[i] = q[i] /\ Append(Sizes(q), SizeOf[p])[i] = Sizes(q)[i]
        BY <1>1, <1>2, <3>5, AppendProperties
      <4> QED BY <3>3, <3>5, <4>1 DEF Sizes
    <3> QED BY <1>2, <3>4, <3>5
  <2> QED BY <2>1, <2>2, <2>3, SeqEqual
<1>4. HeadBytes(Append(q, p), Len(Append(q, p))) = SumSeq(Sizes(Append(q, p)))
  BY <1>1, SizesAreNumbers
<1>5. SumSeq(Append(Sizes(q), SizeOf[p])) = SumSeq(Sizes(q)) + SizeOf[p]
  BY <1>1, <1>2, SumAppend
<1> QED BY <1>3, <1>4, <1>5, Zenon

-----------------------------------------------------------------------------
(* The second layer: the byte counter is the size of the queue.            *)
ByteInv ==
  /\ BufferInv
  /\ buffer \in Buffer
  /\ BytesExact
  /\ ByteBound

LEMMA InitBytes == Init => ByteInv
<1> SUFFICES ASSUME Init PROVE ByteInv
  OBVIOUS
<1>1. BufferInv
  BY InitBuffer
<1>2. buffer.queue = << >> /\ buffer.bytes = 0 /\ buffer \in Buffer
  BY DEF Init, EmptyBuffer, Buffer
<1>3. << >> \in Seq(Packet)
  OBVIOUS
<1>4. HeadBytes(<< >>, Len(<< >>)) = 0
  BY <1>3, SizesAreNumbers, SizesOfNone, Zenon
<1>5. 0 <= MaxBytes
  BY BufferAssumption
<1> QED BY <1>1, <1>2, <1>4, <1>5, Zenon DEF ByteInv, BytesExact, ByteBound

(* The unsigned subtraction of the loop of Push never wraps: what it takes *)
(* off is part of the counter.                                             *)
LEMMA PushKeepsByteInv ==
  ASSUME ByteInv, NEW p \in Packet, PushStep(p)
  PROVE  ByteInv'
<1>k. PICK k \in 0..Len(buffer.queue) :
           Evicts(buffer, p, k) /\ buffer' = Push(buffer, p, k)
  BY DEF PushStep
<1> DEFINE q == buffer.queue
           r == SubSeq(q, k + 1, Len(q))
<1>1. BufferInv'
  BY PushKeepsBuffer DEF ByteInv
<1>2. q \in Seq(Packet) /\ Len(q) \in Nat /\ buffer \in Buffer
  BY LenProperties DEF ByteInv, Buffer
<1>3. /\ r \in Seq(Packet) /\ HeadBytes(q, k) \in Nat
      /\ HeadBytes(q, Len(q)) = HeadBytes(q, k) + SumSeq(Sizes(r))
      /\ SumSeq(Sizes(r)) \in Nat /\ SizeOf[p] \in Nat
  BY <1>2, BytesInTwo, SizesAreNumbers, SumNat, BufferAssumption
<1>4. buffer.bytes = HeadBytes(q, Len(q))
  BY DEF ByteInv, BytesExact
<1>5. /\ buffer'.queue = Append(r, p)
      /\ buffer'.bytes = (buffer.bytes - HeadBytes(q, k)) + SizeOf[p]
      /\ buffer'.dropped = buffer.dropped + k
      /\ buffer' = [queue |-> buffer'.queue, bytes |-> buffer'.bytes,
                    dropped |-> buffer'.dropped, degraded |-> buffer.degraded \/ k > 0]
  BY <1>k DEF Push
<1> HIDE DEF r
<1>6. buffer'.bytes = SumSeq(Sizes(r)) + SizeOf[p]
  BY <1>3, <1>4, <1>5
<1>7. BytesExact'
  <2>1. HeadBytes(Append(r, p), Len(Append(r, p))) = SumSeq(Sizes(r)) + SizeOf[p]
    BY <1>3, BytesOfAppend
  <2> QED BY <1>5, <1>6, <2>1 DEF BytesExact, HeadBytes
<1>8. (buffer \in Buffer)'
  <2>1. buffer'.queue \in Seq(Packet) /\ buffer'.dropped \in Nat
    BY <1>1 DEF BufferInv, Shape
  <2>2. buffer'.bytes \in Nat
    BY <1>3, <1>6
  <2> DEFINE d == buffer.degraded \/ k > 0
  <2>3. d \in BOOLEAN
    OBVIOUS
  <2>4. buffer' = [queue |-> buffer'.queue, bytes |-> buffer'.bytes,
                   dropped |-> buffer'.dropped, degraded |-> d]
    BY <1>5
  <2> HIDE DEF d
  <2> QED BY <2>1, <2>2, <2>3, <2>4 DEF Buffer
<1>9. ByteBound'
  <2>1. CASE k = Len(q)
    <3>1. r = << >>
      BY <1>2, <2>1, SubSeqEmpty DEF r
    <3>2. Len(buffer'.queue) = 1
      BY <1>5, <3>1
    <3> QED BY <3>2 DEF ByteBound
  <2>2. CASE (buffer.bytes - HeadBytes(q, k)) + SizeOf[p] <= MaxBytes
    BY <1>5, <2>2 DEF ByteBound
  <2> QED BY <1>k, <2>1, <2>2 DEF Evicts, FitsAfter
<1> QED BY <1>1, <1>7, <1>8, <1>9 DEF ByteInv

LEMMA PopKeepsByteInv ==
  ASSUME ByteInv, PopStep
  PROVE  ByteInv'
<1> DEFINE q == buffer.queue
<1>1. BufferInv'
  BY PopKeepsBuffer DEF ByteInv
<1>2. q \in Seq(Packet) /\ Len(q) \in Nat /\ buffer \in Buffer /\ q # << >> /\ Len(q) # 0
  BY LenProperties, EmptySeq DEF ByteInv, Buffer, PopStep
<1>3. Head(q) = q[1] /\ q[1] \in Packet /\ SizeOf[q[1]] \in Nat
  BY <1>2, ElementOfSeq, BufferAssumption
<1>4. SubSeq(q, 2, Len(q)) = Tail(q)
  BY <1>2
<1>5. /\ Tail(q) \in Seq(Packet) /\ SumSeq(Sizes(Tail(q))) \in Nat
      /\ HeadBytes(Tail(q), Len(Tail(q))) = SumSeq(Sizes(Tail(q)))
  <2>1. Tail(q) \in Seq(Packet)
    BY <1>2
  <2> QED BY <2>1, SizesAreNumbers, SumNat, Zenon
<1>6. HeadBytes(q, 1) = SizeOf[q[1]]
  <2>1. [i \in 1..1 |-> SizeOf[q[i]]] = <<SizeOf[q[1]]>>
    BY <1>3
  <2>2. SumSeq(<<SizeOf[q[1]]>>) = SizeOf[q[1]]
    BY <1>3, SumOne
  <2> QED BY <2>1, <2>2, Zenon DEF HeadBytes
<1>7. HeadBytes(q, Len(q)) = SizeOf[q[1]] + SumSeq(Sizes(Tail(q)))
  <2>1. 1 \in 0..Len(q) /\ 1 + 1 = 2
    BY <1>2
  <2>2. HeadBytes(q, Len(q)) = HeadBytes(q, 1) + SumSeq(Sizes(SubSeq(q, 1 + 1, Len(q))))
    BY <1>2, <2>1, BytesInTwo
  <2> QED BY <2>1, <2>2, <1>4, <1>6
<1>8. /\ buffer'.queue = Tail(q) /\ buffer'.bytes = buffer.bytes - SizeOf[Head(q)]
      /\ buffer' = [queue |-> buffer'.queue, bytes |-> buffer'.bytes,
                    dropped |-> buffer'.dropped, degraded |-> buffer.degraded]
  BY DEF PopStep, Pop
<1>9. buffer.bytes = HeadBytes(q, Len(q))
  BY DEF ByteInv, BytesExact
<1>10. buffer'.bytes = SumSeq(Sizes(Tail(q))) /\ buffer'.bytes <= buffer.bytes
  BY <1>3, <1>5, <1>7, <1>8, <1>9
<1>11. BytesExact'
  BY <1>5, <1>8, <1>10 DEF BytesExact, HeadBytes
<1>12. (buffer \in Buffer)'
  <2>1. buffer'.queue \in Seq(Packet) /\ buffer'.dropped \in Nat
    BY <1>1 DEF BufferInv, Shape
  <2>2. buffer'.bytes \in Nat /\ buffer.degraded \in BOOLEAN
    BY <1>2, <1>5, <1>10 DEF Buffer
  <2> DEFINE c == buffer'.queue
             n == buffer'.bytes
             e == buffer'.dropped
             d == buffer.degraded
  <2>3. /\ c \in Seq(Packet) /\ n \in Nat /\ e \in Nat /\ d \in BOOLEAN
        /\ buffer' = [queue |-> c, bytes |-> n, dropped |-> e, degraded |-> d]
    BY <1>8, <2>1, <2>2, Zenon
  <2> HIDE DEF c, n, e, d
  <2> QED BY <2>3 DEF Buffer
<1>13. ByteBound'
  <2>1. CASE buffer.bytes <= MaxBytes
    <3>1. buffer.bytes \in Nat /\ buffer'.bytes \in Nat /\ MaxBytes \in Nat
      BY <1>2, <1>12, BufferAssumption DEF Buffer
    <3> QED BY <1>10, <2>1, <3>1 DEF ByteBound
  <2>2. CASE Len(q) = 1
    <3>1. Tail(q) = << >>
      <4>1. Len(Tail(q)) = 0
        BY <1>2, <2>2
      <4> QED BY <4>1, <1>5, EmptySeq
    <3>2. buffer'.bytes = 0
      BY <1>10, <3>1, SizesOfNone, Zenon
    <3> QED BY <3>2, BufferAssumption DEF ByteBound
  <2> QED BY <2>1, <2>2 DEF ByteInv, ByteBound
<1> QED BY <1>1, <1>11, <1>12, <1>13 DEF ByteInv

LEMMA NextBytes == ByteInv /\ [Next]_vars => ByteInv'
<1> SUFFICES ASSUME ByteInv, [Next]_vars PROVE ByteInv'
  OBVIOUS
<1>1. ASSUME NEW p \in Packet, PushStep(p) PROVE ByteInv'
  BY <1>1, PushKeepsByteInv
<1>2. CASE PopStep
  BY <1>2, PopKeepsByteInv
<1>3. CASE UNCHANGED vars
  <2>1. BufferInv'
    BY NextBuffer DEF ByteInv
  <2> QED BY <1>3, <2>1 DEF vars, ByteInv, BytesExact, ByteBound, HeadBytes
<1> QED BY <1>1, <1>2, <1>3 DEF Next

LEMMA ByteInvariant == Spec => []ByteInv
BY InitBytes, NextBytes, PTL DEF Spec

-----------------------------------------------------------------------------
(* The third layer: the positions that left the queue.  LeavesOnce is      *)
(* inductive as it stands, beside Gone being a number: a step adds the     *)
(* positions that follow Gone to one of the histories and moves Gone there.*)
Increasing(s) == \A i \in 1..(Len(s) - 1) : s[i] < s[i + 1]
Members(s) == {s[i] : i \in 1..Len(s)}

LeavesInv ==
  /\ BufferInv
  /\ evicted \in Seq(Nat)
  /\ LeavesOnce

(* The k positions after g.                                                *)
After(g, k) == [i \in 1..k |-> g + i]

LEMMA LeavesOnceParts ==
  LeavesOnce <=> /\ Increasing(popped) /\ Increasing(evicted)
                 /\ Members(popped) \cap Members(evicted) = {}
                 /\ Members(popped) \cup Members(evicted) = 1..Gone
BY DEF LeavesOnce, Increasing, Members

(* A history that the positions g+1..g+k are added to.                     *)
LEMMA PositionsAdded ==
  ASSUME NEW s \in Seq(Nat), NEW g \in Nat, NEW k \in Nat,
         Increasing(s), Members(s) \subseteq 1..g
  PROVE  /\ s \o After(g, k) \in Seq(Nat)
         /\ Increasing(s \o After(g, k))
         /\ Members(s \o After(g, k)) = Members(s) \cup (g + 1)..(g + k)
<1> DEFINE n == Len(s)
           e == After(g, k)
           t == s \o e
<1>1. n \in Nat /\ e \in Seq(Nat) /\ Len(e) = k
  BY LenProperties DEF After
<1>9. \A i \in 1..k : e[i] = g + i
  BY DEF After
<1> HIDE DEF e
<1>2. /\ t \in Seq(Nat) /\ Len(t) = n + k
      /\ \A i \in 1..(n + k) : t[i] = IF i <= n THEN s[i] ELSE e[i - n]
  BY <1>1, ConcatProperties
<1> HIDE DEF t
<1>3. \A i \in 1..n : s[i] \in Nat /\ s[i] <= g
  <2>1. TAKE i \in 1..n
  <2>2. s[i] \in Members(s)
    BY DEF Members
  <2> QED BY <2>2
<1>4. \A i \in 1..(n + k) : t[i] = IF i <= n THEN s[i] ELSE g + (i - n)
  <2>1. TAKE i \in 1..(n + k)
  <2>2. CASE i <= n
    BY <1>2, <2>2
  <2>3. CASE ~(i <= n)
    <3>1. i - n \in 1..k
      BY <1>1, <2>3
    <3> QED BY <1>1, <1>2, <1>9, <2>3, <3>1
  <2> QED BY <2>2, <2>3
<1>10. Increasing(s) <=> \A i \in 1..(n - 1) : s[i] < s[i + 1]
  BY DEF Increasing
<1>11. Increasing(t) <=> \A i \in 1..(n + k - 1) : t[i] < t[i + 1]
  BY <1>2 DEF Increasing
<1>12. Members(s) = {s[i] : i \in 1..n} /\ Members(t) = {t[i] : i \in 1..(n + k)}
  BY <1>2 DEF Members
<1> HIDE DEF n
<1>5. Increasing(t)
  <2> SUFFICES ASSUME NEW i \in 1..(n + k - 1) PROVE t[i] < t[i + 1]
    BY <1>11
  <2>1. i \in 1..(n + k) /\ i + 1 \in 1..(n + k)
    BY <1>1
  <2>2. CASE i + 1 <= n
    <3>1. i \in 1..(n - 1) /\ s[i] < s[i + 1]
      BY <1>1, <1>10, <2>2
    <3> QED BY <1>1, <1>4, <2>1, <2>2, <3>1
  <2>3. CASE i = n
    <3>1. t[i] = s[i] /\ t[i + 1] = g + (i + 1 - n) /\ s[i] <= g /\ s[i] \in Nat
      BY <1>1, <1>3, <1>4, <2>1, <2>3
    <3> QED BY <1>1, <2>3, <3>1
  <2>4. CASE i > n
    <3>1. t[i] = g + (i - n) /\ t[i + 1] = g + (i + 1 - n)
      BY <1>1, <1>4, <2>1, <2>4
    <3> QED BY <1>1, <2>4, <3>1
  <2> QED BY <1>1, <2>2, <2>3, <2>4
<1>6. \A x \in Members(t) : x \in Members(s) \cup (g + 1)..(g + k)
  <2>1. ASSUME NEW i \in 1..(n + k) PROVE t[i] \in Members(s) \cup (g + 1)..(g + k)
    <3>1. CASE i <= n
      BY <1>1, <1>4, <1>12, <3>1
    <3>2. CASE i > n
      <4>1. t[i] = g + (i - n)
        BY <1>1, <1>4, <3>2
      <4>2. g + (i - n) \in (g + 1)..(g + k)
        BY <1>1, <3>2
      <4> QED BY <4>1, <4>2
    <3> QED BY <1>1, <3>1, <3>2
  <2> QED BY <1>12, <2>1
<1>7. \A x \in Members(s) : x \in Members(t)
  <2>1. ASSUME NEW i \in 1..n PROVE s[i] \in Members(t)
    <3>1. i \in 1..(n + k) /\ t[i] = s[i]
      BY <1>1, <1>4
    <3> QED BY <1>12, <3>1
  <2> QED BY <1>12, <2>1
<1>8. \A x \in (g + 1)..(g + k) : x \in Members(t)
  <2>1. TAKE x \in (g + 1)..(g + k)
  <2> DEFINE j == n + (x - g)
  <2>3. j \in 1..(n + k) /\ t[j] = x
    <3>1. j \in 1..(n + k) /\ ~(j <= n) /\ g + (j - n) = x
      BY <1>1
    <3> HIDE DEF j
    <3>2. t[j] = IF j <= n THEN s[j] ELSE g + (j - n)
      BY <1>4, <3>1
    <3> QED BY <3>1, <3>2
  <2> HIDE DEF j
  <2> QED BY <1>12, <2>3
<1>13. Members(t) = Members(s) \cup (g + 1)..(g + k)
  BY <1>6, <1>7, <1>8
<1> QED BY <1>2, <1>5, <1>13 DEF t, e

LEMMA InitLeaves == Init => LeavesInv
<1> SUFFICES ASSUME Init PROVE LeavesInv
  OBVIOUS
<1>1. BufferInv
  BY InitBuffer
<1>2. popped = << >> /\ evicted = << >> /\ Len(<< >>) = 0 /\ Gone = 0
  BY DEF Init, EmptyBuffer, Gone
<1>3. Members(<< >>) = {} /\ Increasing(<< >>)
  BY DEF Members, Increasing
<1>4. 1..0 = {}
  OBVIOUS
<1> QED BY <1>1, <1>2, <1>3, <1>4, LeavesOnceParts DEF LeavesInv

LEMMA PushKeepsLeaves ==
  ASSUME LeavesInv, NEW p \in Packet, PushStep(p)
  PROVE  LeavesInv'
<1>k. PICK k \in 0..Len(buffer.queue) :
           /\ Evicts(buffer, p, k) /\ buffer' = Push(buffer, p, k)
           /\ evicted' = evicted \o [i \in 1..k |-> Gone + i]
  BY DEF PushStep
<1>1. BufferInv /\ BufferInv'
  BY PushKeepsBuffer DEF LeavesInv
<1>2. /\ Gone \in Nat /\ k \in Nat /\ evicted \in Seq(Nat)
      /\ Gone = Len(popped) + buffer.dropped /\ Len(popped) \in Nat /\ buffer.dropped \in Nat
  BY <1>1, BufferLengths, LenProperties DEF LeavesInv
<1>3. evicted' \in Seq(Nat)
  <2> DEFINE e == [i \in 1..k |-> Gone + i]
  <2>1. e \in Seq(Nat)
    BY <1>2
  <2> HIDE DEF e
  <2>2. evicted' = evicted \o e
    BY <1>k DEF e
  <2> QED BY <1>2, <2>1, <2>2, ConcatProperties
<1>4. Gone' = Gone + k
  <2>1. Gone' = Len(popped') + buffer'.dropped
    BY <1>1 DEF BufferInv, Conservation
  <2>2. popped' = popped /\ buffer'.dropped = buffer.dropped + k
    BY <1>k DEF PushStep, Push
  <2> HIDE DEF Gone
  <2> QED BY <1>2, <2>1, <2>2
<1>5. /\ Increasing(popped) /\ Increasing(evicted)
      /\ Members(popped) \cap Members(evicted) = {}
      /\ Members(popped) \cup Members(evicted) = 1..Gone
  BY LeavesOnceParts DEF LeavesInv
<1>6. Increasing(evicted') /\ Members(evicted') = Members(evicted) \cup (Gone + 1)..(Gone + k)
  <2>1. Members(evicted) \subseteq 1..Gone
    BY <1>5
  <2> DEFINE g == Gone
             s == evicted
             t == evicted'
  <2>2. /\ g \in Nat /\ k \in Nat /\ s \in Seq(Nat) /\ t \in Seq(Nat)
        /\ Increasing(s) /\ Members(s) \subseteq 1..g
        /\ t = s \o After(g, k)
    BY <1>k, <1>2, <1>3, <1>5, <2>1 DEF After
  <2> HIDE DEF g, s, t
  <2>3. Increasing(t) /\ Members(t) = Members(s) \cup (g + 1)..(g + k)
    BY <2>2, PositionsAdded, Zenon
  <2> QED BY <2>3 DEF g, s, t
<1>7. /\ 1..Gone \cap (Gone + 1)..(Gone + k) = {}
      /\ 1..(Gone + k) = 1..Gone \cup (Gone + 1)..(Gone + k)
  <2> DEFINE g == Gone
  <2>1. g \in Nat BY <1>2
  <2> HIDE DEF g
  <2>2. /\ 1..g \cap (g + 1)..(g + k) = {}
        /\ 1..(g + k) = 1..g \cup (g + 1)..(g + k)
    BY <2>1, <1>2
  <2> QED BY <2>2 DEF g
<1>8. Members(popped) \cap Members(evicted') = {}
  BY <1>5, <1>6, <1>7
<1>9. Members(popped) \cup Members(evicted') = 1..Gone'
  BY <1>4, <1>5, <1>6, <1>7
<1>10. popped' = popped
  BY DEF PushStep
<1>11. LeavesOnce'
  BY <1>5, <1>6, <1>8, <1>9, <1>10 DEF LeavesOnce, Increasing, Members
<1> QED BY <1>1, <1>3, <1>11 DEF LeavesInv

LEMMA PopKeepsLeaves ==
  ASSUME LeavesInv, PopStep
  PROVE  LeavesInv'
<1>1. BufferInv /\ BufferInv'
  BY PopKeepsBuffer DEF LeavesInv
<1>2. /\ Gone \in Nat /\ popped \in Seq(Nat) /\ popped' \in Seq(Nat)
      /\ Gone = Len(popped) + buffer.dropped /\ Len(popped) \in Nat /\ buffer.dropped \in Nat
  BY <1>1, BufferLengths DEF BufferInv, Shape
<1>3. popped' = popped \o [i \in 1..1 |-> Gone + i]
  <2>1. popped' = Append(popped, Gone + 1)
    BY DEF PopStep
  <2>2. [i \in 1..1 |-> Gone + i] = <<Gone + 1>>
    OBVIOUS
  <2> HIDE DEF Gone
  <2>3. Append(popped, Gone + 1) = popped \o <<Gone + 1>>
    BY <1>2, AppendIsConcat
  <2> QED BY <2>1, <2>2, <2>3
<1>4. Gone' = Gone + 1
  <2>1. Gone' = Len(popped') + buffer'.dropped
    BY <1>1 DEF BufferInv, Conservation
  <2>2. Len(popped') = Len(popped) + 1 /\ buffer'.dropped = buffer.dropped
    BY <1>2, AppendProperties DEF PopStep, Pop
  <2> HIDE DEF Gone
  <2> QED BY <1>2, <2>1, <2>2
<1>5. /\ Increasing(popped) /\ Increasing(evicted)
      /\ Members(popped) \cap Members(evicted) = {}
      /\ Members(popped) \cup Members(evicted) = 1..Gone
  BY LeavesOnceParts DEF LeavesInv
<1>6. Increasing(popped') /\ Members(popped') = Members(popped) \cup (Gone + 1)..(Gone + 1)
  <2>1. Members(popped) \subseteq 1..Gone
    BY <1>5
  <2> DEFINE g == Gone
             s == popped
             t == popped'
  <2>2. /\ g \in Nat /\ 1 \in Nat /\ s \in Seq(Nat) /\ t \in Seq(Nat)
        /\ Increasing(s) /\ Members(s) \subseteq 1..g
        /\ t = s \o After(g, 1)
    BY <1>2, <1>3, <1>5, <2>1 DEF After
  <2> HIDE DEF g, s, t
  <2>3. Increasing(t) /\ Members(t) = Members(s) \cup (g + 1)..(g + 1)
    BY <2>2, PositionsAdded, Zenon
  <2> QED BY <2>3 DEF g, s, t
<1>7. /\ 1..Gone \cap (Gone + 1)..(Gone + 1) = {}
      /\ 1..(Gone + 1) = 1..Gone \cup (Gone + 1)..(Gone + 1)
  <2> DEFINE g == Gone
  <2>1. g \in Nat BY <1>2
  <2> HIDE DEF g
  <2>2. /\ 1..g \cap (g + 1)..(g + 1) = {}
        /\ 1..(g + 1) = 1..g \cup (g + 1)..(g + 1)
    BY <2>1
  <2> QED BY <2>2 DEF g
<1>8. Members(popped') \cap Members(evicted) = {}
  BY <1>5, <1>6, <1>7
<1>9. Members(popped') \cup Members(evicted) = 1..Gone'
  BY <1>4, <1>5, <1>6, <1>7
<1>10. evicted' = evicted
  BY DEF PopStep
<1>11. LeavesOnce'
  BY <1>5, <1>6, <1>8, <1>9, <1>10 DEF LeavesOnce, Increasing, Members
<1> QED BY <1>1, <1>10, <1>11 DEF LeavesInv

LEMMA NextLeaves == LeavesInv /\ [Next]_vars => LeavesInv'
<1> SUFFICES ASSUME LeavesInv, [Next]_vars PROVE LeavesInv'
  OBVIOUS
<1>1. ASSUME NEW p \in Packet, PushStep(p) PROVE LeavesInv'
  BY <1>1, PushKeepsLeaves
<1>2. CASE PopStep
  BY <1>2, PopKeepsLeaves
<1>3. CASE UNCHANGED vars
  <2>1. BufferInv'
    BY NextBuffer DEF LeavesInv
  <2> QED BY <1>3, <2>1 DEF vars, LeavesInv, LeavesOnce, Gone
<1> QED BY <1>1, <1>2, <1>3 DEF Next

LEMMA LeavesInvariant == Spec => []LeavesInv
BY InitLeaves, NextLeaves, PTL DEF Spec

-----------------------------------------------------------------------------
(* What a push that drops packets leaves: the last packet dropped is the   *)
(* one at position k of the queue, and with it the new one did not fit.    *)
LEMMA PushDropsOnlyIfFull ==
  ASSUME ByteInv, LeavesInv, NEW p \in Packet, PushStep(p), buffer'.dropped > buffer.dropped
  PROVE  LET last == pushed[evicted'[Len(evicted')]]
         IN  \/ Len(buffer'.queue) >= Capacity
             \/ buffer'.bytes + SizeOf[last] > MaxBytes
<1>k. PICK k \in 0..Len(buffer.queue) :
           /\ Evicts(buffer, p, k) /\ buffer' = Push(buffer, p, k)
           /\ evicted' = evicted \o [i \in 1..k |-> Gone + i]
  BY DEF PushStep
<1> DEFINE q == buffer.queue
           L == Len(pushed)
           g == Gone
           r == SubSeq(q, k + 1, Len(q))
<1>1. /\ L \in Nat /\ g \in 0..L /\ Len(q) = L - g /\ Len(q) \in Nat
      /\ buffer.dropped \in Nat /\ Capacity \in Nat
  BY BufferLengths DEF ByteInv
<1>2. q \in Seq(Packet) /\ evicted \in Seq(Nat) /\ buffer.bytes = HeadBytes(q, Len(q))
  BY DEF ByteInv, BytesExact, LeavesInv, BufferInv, Shape
<1>3. /\ buffer'.queue = Append(r, p)
      /\ buffer'.bytes = (buffer.bytes - HeadBytes(q, k)) + SizeOf[p]
      /\ buffer'.dropped = buffer.dropped + k
  BY <1>k DEF Push
<1>4. k \in 1..Len(q) /\ k - 1 \in 0..Len(q) /\ k - 1 \in 0..(k - 1) /\ k - 1 # Len(q)
  BY <1>1, <1>3
<1>5. ~FitsAfter(buffer, p, k - 1)
  BY <1>k, <1>4 DEF Evicts
<1>6. pushed[evicted'[Len(evicted')]] = q[k]
  <2> DEFINE e == [i \in 1..k |-> g + i]
  <2>0. g \in Nat /\ k \in Nat /\ k > 0
    BY <1>1, <1>4
  <2> HIDE DEF g, L
  <2>1. e \in Seq(Nat) /\ Len(e) = k /\ e[k] = g + k
    BY <2>0
  <2> HIDE DEF e
  <2>2. evicted' = evicted \o e
    BY <1>k DEF e, g
  <2>3. Len(evicted) \in Nat
    BY <1>2, LenProperties
  <2>4. Len(evicted') = Len(evicted) + k /\ evicted'[Len(evicted) + k] = g + k
    <3>1. /\ Len(evicted \o e) = Len(evicted) + Len(e)
          /\ \A i \in 1..(Len(evicted) + Len(e)) :
               (evicted \o e)[i] = IF i <= Len(evicted) THEN evicted[i] ELSE e[i - Len(evicted)]
      BY <1>2, <2>1, ConcatProperties
    <3>2. Len(evicted) + k \in 1..(Len(evicted) + Len(e)) /\ ~(Len(evicted) + k <= Len(evicted))
          /\ (Len(evicted) + k) - Len(evicted) = k
      BY <2>0, <2>1, <2>3
    <3>3. (evicted \o e)[Len(evicted) + k] = g + k
      BY <2>1, <3>1, <3>2
    <3> QED BY <2>1, <2>2, <3>1, <3>3
  <2>5. q[k] = pushed[g + k]
    <3>1. q = SubSeq(pushed, g + 1, L)
      BY DEF ByteInv, BufferInv, QueueIsNewest, g, L
    <3>2. L \in Nat /\ g \in Nat /\ k \in 1..(L - g) /\ pushed \in Seq(Packet)
      BY <1>1, <1>4 DEF ByteInv, BufferInv, Shape
    <3> QED BY <3>1, <3>2
  <2> QED BY <2>4, <2>5
<1>7. /\ Len(buffer'.queue) = Len(q) - k + 1
      /\ HeadBytes(q, Len(q)) = HeadBytes(q, k) + SumSeq(Sizes(r))
      /\ SumSeq(Sizes(r)) \in Nat /\ HeadBytes(q, k) \in Nat
  <2>1. /\ r \in Seq(Packet) /\ HeadBytes(q, k) \in Nat
        /\ HeadBytes(q, Len(q)) = HeadBytes(q, k) + SumSeq(Sizes(r))
    BY <1>2, BytesInTwo
  <2>2. SumSeq(Sizes(r)) \in Nat
    BY <2>1, SizesAreNumbers, SumNat
  <2>3. Len(r) = Len(q) - k
    BY <1>1, <1>2
  <2> HIDE DEF r
  <2>4. Len(buffer'.queue) = Len(r) + 1
    BY <1>3, <2>1, AppendProperties
  <2> HIDE DEF q
  <2> QED BY <1>1, <2>1, <2>2, <2>3, <2>4
<1>8. HeadBytes(q, k) = HeadBytes(q, k - 1) + SizeOf[q[k]] /\ HeadBytes(q, k - 1) \in Nat
  <2> DEFINE a == [i \in 1..(k - 1) |-> SizeOf[q[i]]]
             b == [i \in 1..k |-> SizeOf[q[i]]]
  <2>1. \A i \in 1..k : SizeOf[q[i]] \in Nat
    <3>1. TAKE i \in 1..k
    <3>2. i \in 1..Len(q)
      BY <1>1, <1>4
    <3>3. q[i] \in Packet
      BY <1>2, <3>2, ElementOfSeq
    <3> QED BY <3>3, BufferAssumption
  <2>2. a \in Seq(Nat) /\ SizeOf[q[k]] \in Nat /\ Len(a) = k - 1
    BY <1>4, <2>1
  <2>3. b = Append(a, SizeOf[q[k]])
    BY <1>4, <2>1
  <2> HIDE DEF a, b
  <2>4. SumSeq(b) = SumSeq(a) + SizeOf[q[k]]
    BY <2>2, <2>3, NatSeqIsIntSeq, SumAppend
  <2>5. SumSeq(a) \in Nat
    BY <2>2, SumNat
  <2>6. HeadBytes(q, k) = SumSeq(b) /\ HeadBytes(q, k - 1) = SumSeq(a)
    BY Zenon DEF HeadBytes, a, b
  <2> QED BY <2>4, <2>5, <2>6
<1>9. SizeOf[p] \in Nat /\ SizeOf[q[k]] \in Nat /\ MaxBytes \in Nat
  BY <1>2, <1>4, ElementOfSeq, BufferAssumption
<1>10. CASE ~(Len(q) - (k - 1) < Capacity)
  <2>1. Len(buffer'.queue) >= Capacity
    BY <1>1, <1>4, <1>7, <1>10
  <2> QED BY <2>1
<1>11. CASE ~((buffer.bytes - HeadBytes(q, k - 1)) + SizeOf[p] <= MaxBytes)
  <2>1. buffer'.bytes + SizeOf[q[k]] > MaxBytes
    <3>1. \A all, hk, hk1, sp, sk, rest, m \in Nat :
            all = hk + rest /\ hk = hk1 + sk /\ ~((all - hk1) + sp <= m)
              => ((all - hk) + sp) + sk > m
      OBVIOUS
    <3> DEFINE all == buffer.bytes
               hk == HeadBytes(q, k)
               hk1 == HeadBytes(q, k - 1)
               sp == SizeOf[p]
               sk == SizeOf[q[k]]
               rest == SumSeq(Sizes(r))
    <3>2. /\ hk \in Nat /\ hk1 \in Nat /\ sp \in Nat /\ sk \in Nat /\ rest \in Nat
          /\ MaxBytes \in Nat /\ all = hk + rest /\ hk = hk1 + sk
          /\ ~((all - hk1) + sp <= MaxBytes)
      BY <1>2, <1>7, <1>8, <1>9, <1>11
    <3>3. buffer'.bytes = (all - hk) + sp
      BY <1>3
    <3> HIDE DEF all, hk, hk1, sp, sk, rest
    <3>4. buffer'.bytes + sk > MaxBytes
      BY <3>1, <3>2, <3>3
    <3> QED BY <3>4 DEF sk
  <2> QED BY <1>6, <2>1
<1> QED BY <1>4, <1>5, <1>10, <1>11 DEF FitsAfter

(* The queue is always the newest end of the pushed packets: dropping      *)
(* takes the oldest, and the writer thread receives the rest in the order  *)
(* the network thread delivered it (packet_buffer.hpp:22-44).              *)
THEOREM QueueStaysNewest == Spec => []QueueIsNewest
<1>1. BufferInv => QueueIsNewest BY DEF BufferInv
<1> QED BY <1>1, BufferInvariant, PTL

(* Every packet that left the buffer was returned by Pop or counted in     *)
(* dropped_ (packet_buffer.hpp:26-28, 40-42).                              *)
THEOREM NothingLeavesUnaccounted == Spec => []Conservation
<1>1. BufferInv => Conservation BY DEF BufferInv
<1> QED BY <1>1, BufferInvariant, PTL

(* The packet limit, and its exception: an empty queue takes one packet    *)
(* whatever the limits (packet_buffer.hpp:24-25).                          *)
THEOREM PacketLimitHolds == Spec => []PacketBound
<1>1. BufferInv => PacketBound BY DEF BufferInv
<1> QED BY <1>1, BufferInvariant, PTL

(* The buffer is always a value of the class and the histories sequences   *)
(* of positions: no counter of packet_buffer.hpp:51-55 goes below zero.    *)
THEOREM BufferTypeCorrect == Spec => []TypeOK
<1>1. ByteInv /\ LeavesInv => TypeOK
  BY DEF ByteInv, LeavesInv, BufferInv, Shape, TypeOK
<1> QED BY <1>1, ByteInvariant, LeavesInvariant, PTL

(* total_bytes_ is the exact size of the queue after every call, so the    *)
(* subtractions of Push and Pop never wrap (packet_buffer.hpp:26, 30, 42). *)
THEOREM BytesStayExact == Spec => []BytesExact
<1>1. ByteInv => BytesExact BY DEF ByteInv
<1> QED BY <1>1, ByteInvariant, PTL

(* The byte limit is exceeded only by a single packet larger than it       *)
(* (packet_buffer.hpp:24-25).                                              *)
THEOREM ByteLimitHolds == Spec => []ByteBound
<1>1. ByteInv => ByteBound BY DEF ByteInv
<1> QED BY <1>1, ByteInvariant, PTL

(* Each packet leaves once, returned or dropped, both in arrival order     *)
(* (packet_buffer.hpp:22-44).                                              *)
THEOREM PacketsLeaveOnce == Spec => []LeavesOnce
<1>1. LeavesInv => LeavesOnce BY DEF LeavesInv
<1> QED BY <1>1, LeavesInvariant, PTL

(* Push drops no packet it could have kept (packet_buffer.hpp:24-25).      *)
THEOREM NothingDroppedWithoutNeed == Spec => DropsOnlyIfFull
<1> DEFINE Full ==
             buffer'.dropped > buffer.dropped =>
               LET last == pushed[evicted'[Len(evicted')]]
               IN  \/ Len(buffer'.queue) >= Capacity
                   \/ buffer'.bytes + SizeOf[last] > MaxBytes
<1>1. ByteInv /\ LeavesInv /\ [Next]_vars => [Full]_vars
  <2> SUFFICES ASSUME ByteInv, LeavesInv, [Next]_vars, ~UNCHANGED vars,
                      buffer'.dropped > buffer.dropped
               PROVE  LET last == pushed[evicted'[Len(evicted')]]
                      IN  \/ Len(buffer'.queue) >= Capacity
                          \/ buffer'.bytes + SizeOf[last] > MaxBytes
    OBVIOUS
  <2>1. ASSUME NEW p \in Packet, PushStep(p)
        PROVE  LET last == pushed[evicted'[Len(evicted')]]
               IN  \/ Len(buffer'.queue) >= Capacity
                   \/ buffer'.bytes + SizeOf[last] > MaxBytes
    BY <2>1, PushDropsOnlyIfFull
  <2>2. ASSUME PopStep PROVE FALSE
    <3>1. buffer'.dropped = buffer.dropped /\ buffer.dropped \in Nat
      BY <2>2 DEF PopStep, Pop, ByteInv, BufferInv, Shape
    <3> QED BY <3>1
  <2> QED BY <2>1, <2>2 DEF Next
<1> QED BY <1>1, ByteInvariant, LeavesInvariant, PTL DEF Spec, DropsOnlyIfFull
=============================================================================
