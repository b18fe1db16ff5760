------------------------------ MODULE ListFacts ------------------------------
(***************************************************************************)
(* What the proofs need to know of totals, selections and sorted numbers.  *)
(***************************************************************************)
EXTENDS Lists, SequenceTheorems, FunctionTheorems, FiniteSetTheorems, TLAPS

Plus == INSTANCE FoldFacts WITH Op <- LAMBDA a, b : a + b

LEMMA SumIsFold == \A f : SumSeq(f) = Plus!FoldLeft(LAMBDA a, b : a + b, 0, f)
BY Zenon DEF SumSeq, FoldLeft, MapThenFoldSet, Max,
             Plus!FoldLeft, Plus!MapThenFoldSet, Plus!Max

LEMMA SumEmpty == SumSeq(<< >>) = 0
BY SumIsFold, Plus!FoldEmpty, Zenon

LEMMA SumAppend ==
  ASSUME NEW f \in Seq(Int), NEW x \in Int
  PROVE  SumSeq(Append(f, x)) = SumSeq(f) + x
BY SumIsFold, Plus!FoldAppend, Zenon

(* The total of integers is an integer, of numbers a number.               *)
LEMMA SumInt == \A f \in Seq(Int) : SumSeq(f) \in Int
<1> DEFINE T == {f \in Seq(Int) : SumSeq(f) \in Int}
<1>1. << >> \in T
  BY SumEmpty, EmptySeq
<1>2. ASSUME NEW f \in Seq(Int), NEW x \in Int, f \in T PROVE Append(f, x) \in T
  BY <1>2, SumAppend, AppendProperties
<1> HIDE DEF T
<1>3. Seq(Int) \subseteq T
  BY <1>1, <1>2, Plus!SeqInduction
<1> QED BY <1>3 DEF T

LEMMA NatSeqIsIntSeq == \A f \in Seq(Nat) : f \in Seq(Int)
<1>1. Nat \subseteq Int
  OBVIOUS
<1> QED BY <1>1, SeqMonotonic

LEMMA SumNat == \A f \in Seq(Nat) : SumSeq(f) \in Nat
<1> DEFINE T == {f \in Seq(Nat) : SumSeq(f) \in Nat}
<1>1. << >> \in T
  BY SumEmpty, EmptySeq
<1>2. ASSUME NEW f \in Seq(Nat), NEW x \in Nat, f \in T PROVE Append(f, x) \in T
  <2>1. f \in Seq(Int) /\ x \in Int
    BY NatSeqIsIntSeq
  <2>2. SumSeq(Append(f, x)) = SumSeq(f) + x
    BY <2>1, SumAppend
  <2>3. Append(f, x) \in Seq(Nat)
    BY AppendProperties
  <2> QED BY <1>2, <2>2, <2>3
<1> HIDE DEF T
<1>3. Seq(Nat) \subseteq T
  BY <1>1, <1>2, Plus!SeqInduction
<1> QED BY <1>3 DEF T

LEMMA SumZero == \A f \in Seq(Nat) : SumSeq(f) = 0 <=> \A i \in 1..Len(f) : f[i] = 0
<1> DEFINE T == {f \in Seq(Nat) : SumSeq(f) = 0 <=> \A i \in 1..Len(f) : f[i] = 0}
<1>1. << >> \in T
  <2>1. Len(<< >>) = 0
    OBVIOUS
  <2> QED BY <2>1, SumEmpty, EmptySeq
<1>2. ASSUME NEW f \in Seq(Nat), NEW x \in Nat, f \in T PROVE Append(f, x) \in T
  <2> DEFINE r == Append(f, x)
             n == Len(f)
  <2>1. f \in Seq(Int) /\ x \in Int /\ SumSeq(f) \in Nat
    BY NatSeqIsIntSeq, SumNat
  <2>2. SumSeq(r) = SumSeq(f) + x
    BY <2>1, SumAppend
  <2>3. /\ n \in Nat /\ r \in Seq(Nat) /\ Len(r) = n + 1 /\ r[n + 1] = x
        /\ \A i \in 1..n : r[i] = f[i]
    BY AppendProperties, LenProperties
  <2>4. SumSeq(f) = 0 <=> \A i \in 1..n : f[i] = 0
    BY <1>2
  <2> HIDE DEF r, n
  <2>5. (\A i \in 1..(n + 1) : r[i] = 0) <=> x = 0 /\ \A i \in 1..n : f[i] = 0
    <3>1. n + 1 \in 1..(n + 1) /\ \A i \in 1..n : i \in 1..(n + 1)
      BY <2>3
    <3>2. \A i \in 1..(n + 1) : i \in 1..n \/ i = n + 1
      BY <2>3
    <3> QED BY <2>3, <3>1, <3>2
  <2>6. SumSeq(r) = 0 <=> \A i \in 1..Len(r) : r[i] = 0
    BY <2>1, <2>2, <2>3, <2>4, <2>5
  <2> QED BY <2>3, <2>6 DEF r
<1> HIDE DEF T
<1>3. Seq(Nat) \subseteq T
  BY <1>1, <1>2, Plus!SeqInduction
<1> QED BY <1>3 DEF T

LEMMA SumOne == \A x \in Int : SumSeq(<<x>>) = x
<1> SUFFICES ASSUME NEW x \in Int PROVE SumSeq(<<x>>) = x
  OBVIOUS
<1>1. << >> \in Seq(Int) /\ Append(<< >>, x) = <<x>>
  OBVIOUS
<1>2. SumSeq(Append(<< >>, x)) = SumSeq(<< >>) + x
  BY <1>1, SumAppend
<1>3. SumSeq(Append(<< >>, x)) = x
  BY <1>2, SumEmpty
<1> QED BY <1>1, <1>3, Zenon

(* A total can be taken in two parts.                                      *)
LEMMA SumConcat ==
  ASSUME NEW f \in Seq(Int), NEW g \in Seq(Int)
  PROVE  SumSeq(f \o g) = SumSeq(f) + SumSeq(g)
<1> DEFINE T == {h \in Seq(Int) : SumSeq(f \o h) = SumSeq(f) + SumSeq(h)}
<1>1. << >> \in T
  <2>1. f \o << >> = f /\ << >> \in Seq(Int) /\ SumSeq(f) \in Int
    BY ConcatEmptySeq, EmptySeq, SumInt
  <2> QED BY <2>1, SumEmpty
<1>2. ASSUME NEW h \in Seq(Int), NEW x \in Int, h \in T PROVE Append(h, x) \in T
  <2>1. /\ Append(h, x) \in Seq(Int) /\ f \o h \in Seq(Int)
        /\ SumSeq(f) \in Int /\ SumSeq(h) \in Int
    BY AppendProperties, ConcatProperties, SumInt
  <2>2. f \o Append(h, x) = Append(f \o h, x)
    OBVIOUS
  <2>3. SumSeq(Append(f \o h, x)) = SumSeq(f \o h) + x
    BY <2>1, SumAppend
  <2>4. SumSeq(Append(h, x)) = SumSeq(h) + x
    BY SumAppend
  <2>5. SumSeq(f \o h) = SumSeq(f) + SumSeq(h)
    BY <1>2
  <2>6. \A p, q \in Int : (p + q) + x = p + (q + x)
    OBVIOUS
  <2>7. SumSeq(f \o Append(h, x)) = SumSeq(f) + SumSeq(Append(h, x))
    BY <2>1, <2>2, <2>3, <2>4, <2>5, <2>6, Zenon
  <2> QED BY <2>1, <2>7, Zenon
<1> HIDE DEF T
<1>3. Seq(Int) \subseteq T
  BY <1>1, <1>2, Plus!SeqInduction
<1> QED BY <1>3 DEF T

LEMMA SumHeadTail ==
  ASSUME NEW f \in Seq(Int), f # << >>
  PROVE  SumSeq(f) = Head(f) + SumSeq(Tail(f))
<1>1. Head(f) \in Int /\ Tail(f) \in Seq(Int)
  BY HeadTailProperties
<1>2. f = <<Head(f)>> \o Tail(f) /\ <<Head(f)>> \in Seq(Int)
  BY <1>1
<1> QED BY <1>1, <1>2, SumConcat, SumOne

(* Totals compare like their elements; equal totals leave no element that  *)
(* is less.                                                                *)
LEMMA SumCompare ==
  ASSUME NEW f \in Seq(Int), NEW g \in Seq(Int), Len(f) = Len(g),
         \A i \in 1..Len(f) : f[i] <= g[i]
  PROVE  /\ SumSeq(f) <= SumSeq(g)
         /\ SumSeq(f) = SumSeq(g) => f = g
<1> DEFINE Below(a, b) == Len(a) = Len(b) /\ \A i \in 1..Len(a) : a[i] <= b[i]
           T == {a \in Seq(Int) : \A b \in Seq(Int) : Below(a, b) =>
                   SumSeq(a) <= SumSeq(b) /\ (SumSeq(a) = SumSeq(b) => a = b)}
<1>1. << >> \in T
  <2>1. << >> \in Seq(Int) /\ SumSeq(<< >>) \in Int
    BY SumInt, EmptySeq
  <2>2. \A b \in Seq(Int) : Len(b) = Len(<< >>) => b = << >>
    BY EmptySeq
  <2> QED BY <2>1, <2>2
<1>2. ASSUME NEW a \in Seq(Int), NEW x \in Int, a \in T PROVE Append(a, x) \in T
  <2>1. ASSUME NEW b \in Seq(Int), Below(Append(a, x), b)
        PROVE  /\ SumSeq(Append(a, x)) <= SumSeq(b)
               /\ SumSeq(Append(a, x)) = SumSeq(b) => Append(a, x) = b
    <3>1. /\ Append(a, x) \in Seq(Int) /\ Len(Append(a, x)) = Len(a) + 1 /\ Len(a) \in Nat
          /\ \A i \in 1..Len(a) : Append(a, x)[i] = a[i]
          /\ Append(a, x)[Len(a) + 1] = x
      BY AppendProperties, LenProperties
    <3>2. Len(b) = Len(a) + 1 /\ \A i \in 1..(Len(a) + 1) : Append(a, x)[i] <= b[i]
      BY <2>1, <3>1
    <3>3. b # << >>
      BY <3>1, <3>2, EmptySeq
    <3>4. PICK c \in Seq(Int), y \in Int : b = Append(c, y)
      BY <3>3, SequenceEmptyOrAppend
    <3>5. /\ Len(c) \in Nat /\ Len(b) = Len(c) + 1
          /\ \A i \in 1..Len(c) : b[i] = c[i]
          /\ b[Len(c) + 1] = y
      BY <3>4, AppendProperties, LenProperties
    <3>6. Len(a) = Len(c)
      BY <3>1, <3>2, <3>5
    <3>7. \A i \in 1..Len(a) : a[i] <= c[i]
      <4>1. TAKE i \in 1..Len(a)
      <4>2. i \in 1..(Len(a) + 1) /\ Append(a, x)[i] = a[i]
        BY <3>1
      <4>3. b[i] = c[i]
        BY <3>5, <3>6
      <4> QED BY <3>2, <4>2, <4>3
    <3>8. x <= y
      <4>1. Len(a) + 1 \in 1..(Len(a) + 1) /\ Append(a, x)[Len(a) + 1] = x
        BY <3>1
      <4>2. b[Len(a) + 1] = y
        BY <3>5, <3>6
      <4>3. Append(a, x)[Len(a) + 1] <= b[Len(a) + 1]
        BY <3>2, <4>1, Zenon
      <4> QED BY <4>1, <4>2, <4>3
    <3>9. SumSeq(a) <= SumSeq(c) /\ (SumSeq(a) = SumSeq(c) => a = c)
      BY <1>2, <3>6, <3>7
    <3>10. SumSeq(Append(a, x)) = SumSeq(a) + x /\ SumSeq(b) = SumSeq(c) + y
      BY <3>4, SumAppend
    <3>11. SumSeq(a) \in Int /\ SumSeq(c) \in Int
      BY SumInt
    <3> QED BY SMTT(20), <3>4, <3>8, <3>9, <3>10, <3>11
  <2> HIDE DEF Below
  <2> QED BY <2>1, AppendProperties
<1>3. Below(f, g)
  OBVIOUS
<1> HIDE DEF T
<1>4. Seq(Int) \subseteq T
  BY <1>1, <1>2, Plus!SeqInduction
<1> QED BY <1>3, <1>4 DEF T
-----------------------------------------------------------------------------
(* A selection is computed by recursion over the positions: it is such a   *)
(* function.                                                               *)
IsKept(s, P, kept) ==
  kept = [n \in 0..Len(s) |->
            IF n = 0 THEN << >>
            ELSE IF n \in P THEN Append(kept[n - 1], s[n]) ELSE kept[n - 1]]

LEMMA KeptExists ==
  ASSUME NEW s, Len(s) \in Nat, NEW P
  PROVE  \E kept : IsKept(s, P, kept)
<1> DEFINE Upto(n, g) ==
             g = [m \in 0..n |->
                    IF m = 0 THEN << >>
                    ELSE IF m \in P THEN Append(g[m - 1], s[m]) ELSE g[m - 1]]
           T == {n \in Nat : \E g : Upto(n, g)}
<1>1. 0 \in T
  <2> DEFINE g == [m \in 0..0 |-> << >>]
  <2>1. Upto(0, g)
    OBVIOUS
  <2> QED BY <2>1
<1>2. ASSUME NEW n \in Nat, n \in T PROVE n + 1 \in T
  <2>1. PICK g : Upto(n, g)
    BY <1>2
  <2> DEFINE h == [m \in 0..(n + 1) |->
                     IF m <= n THEN g[m]
                     ELSE IF n + 1 \in P THEN Append(g[n], s[n + 1]) ELSE g[n]]
             Body(f, m) == IF m = 0 THEN << >>
                           ELSE IF m \in P THEN Append(f[m - 1], s[m]) ELSE f[m - 1]
  <2>2. \A m \in 0..n : h[m] = g[m] /\ g[m] = Body(g, m)
    <3>1. \A m \in 0..n : g[m] = Body(g, m)
      BY <2>1
    <3> HIDE DEF Body
    <3>2. \A m \in 0..n : m \in 0..(n + 1) /\ m <= n
      OBVIOUS
    <3>3. \A m \in 0..n : h[m] = g[m]
      BY <3>2
    <3> QED BY <3>1, <3>3
  <2>3. h[n + 1] = IF n + 1 \in P THEN Append(g[n], s[n + 1]) ELSE g[n]
    OBVIOUS
  <2>4. DOMAIN h = 0..(n + 1) /\ h = [m \in 0..(n + 1) |-> h[m]]
    OBVIOUS
  <2> HIDE DEF h
  <2>5. \A m \in 0..(n + 1) : h[m] = Body(h, m)
    <3>1. TAKE m \in 0..(n + 1)
    <3>2. CASE m = n + 1
      BY <2>2, <2>3, <3>2
    <3>3. CASE m # n + 1
      BY <2>2, <3>3
    <3> QED BY <3>2, <3>3
  <2>6. h = [m \in 0..(n + 1) |-> Body(h, m)]
    BY <2>4, <2>5
  <2> QED BY SMTT(20), <2>6
<1> HIDE DEF T
<1>3. Len(s) \in T
  BY <1>1, <1>2, Plus!Induction
<1> QED BY <1>3 DEF T, IsKept

LEMMA SelectedIsKept ==
  ASSUME NEW s, Len(s) \in Nat, NEW P
  PROVE  \E kept : /\ IsKept(s, P, kept)
                   /\ Selected(s, P) = kept[Len(s)]
<1> DEFINE kept == CHOOSE kept : IsKept(s, P, kept)
<1>1. IsKept(s, P, kept)
  BY KeptExists, Zenon
<1>2. Selected(s, P) = kept[Len(s)]
  BY Zenon DEF Selected, IsKept
<1> QED BY <1>1, <1>2, Zenon

LEMMA SelectedEmpty == \A P : Selected(<< >>, P) = << >>
<1> SUFFICES ASSUME NEW P PROVE Selected(<< >>, P) = << >>
  OBVIOUS
<1>1. Len(<< >>) = 0
  OBVIOUS
<1>2. PICK kept : IsKept(<< >>, P, kept) /\ Selected(<< >>, P) = kept[0]
  BY <1>1, SelectedIsKept
<1> QED BY <1>1, <1>2 DEF IsKept

(* Only the positions of the list count.                                   *)
Alike(s, P, r, Q, m) ==
  /\ m \in Nat /\ m <= Len(s) /\ m <= Len(r)
  /\ \A i \in 1..m : s[i] = r[i] /\ (i \in P <=> i \in Q)

LEMMA KeptAgree ==
  \A s, r, P, Q, f, g, m :
    /\ Len(s) \in Nat /\ Len(r) \in Nat /\ IsKept(s, P, f) /\ IsKept(r, Q, g)
    /\ Alike(s, P, r, Q, m)
    => f[m] = g[m]
<1> SUFFICES ASSUME NEW s, NEW r, NEW P, NEW Q, NEW f, NEW g, NEW m,
                    Len(s) \in Nat, Len(r) \in Nat, IsKept(s, P, f), IsKept(r, Q, g),
                    Alike(s, P, r, Q, m)
             PROVE  f[m] = g[m]
  OBVIOUS
<1> USE DEF Alike
<1> DEFINE T == {n \in Nat : n <= m => f[n] = g[n]}
<1>1. 0 \in T
  BY DEF IsKept
<1>2. ASSUME NEW n \in Nat, n \in T PROVE n + 1 \in T
  <2>1. SUFFICES ASSUME n + 1 <= m PROVE f[n + 1] = g[n + 1]
    OBVIOUS
  <2>2. /\ n + 1 \in 0..Len(s) /\ n + 1 \in 0..Len(r) /\ n + 1 # 0 /\ (n + 1) - 1 = n
        /\ n + 1 \in 1..m
    BY <2>1
  <2>3. f[n + 1] = IF n + 1 \in P THEN Append(f[n], s[n + 1]) ELSE f[n]
    BY <2>2 DEF IsKept
  <2>4. g[n + 1] = IF n + 1 \in Q THEN Append(g[n], r[n + 1]) ELSE g[n]
    BY <2>2 DEF IsKept
  <2>5. f[n] = g[n]
    BY <1>2, <2>1
  <2> QED BY <2>2, <2>3, <2>4, <2>5
<1> HIDE DEF T
<1>3. m \in T
  BY <1>1, <1>2, Plus!Induction
<1> QED BY <1>3 DEF T

LEMMA SelectedAppend ==
  ASSUME NEW S, NEW s \in Seq(S), NEW x \in S, NEW P
  PROVE  Selected(Append(s, x), P) =
           IF Len(s) + 1 \in P THEN Append(Selected(s, P), x) ELSE Selected(s, P)
<1> DEFINE r == Append(s, x)
           n == Len(s)
<1>1. /\ n \in Nat /\ Len(r) = n + 1 /\ r[n + 1] = x /\ \A i \in 1..n : r[i] = s[i]
  BY AppendProperties, LenProperties
<1> HIDE DEF r
<1>2. PICK f : IsKept(s, P, f) /\ Selected(s, P) = f[n]
  BY <1>1, SelectedIsKept
<1>3. PICK g : IsKept(r, P, g) /\ Selected(r, P) = g[n + 1]
  BY <1>1, SelectedIsKept
<1>4. f[n] = g[n]
  <2>1. Len(s) \in Nat /\ Len(r) \in Nat /\ Alike(s, P, r, P, n)
    BY <1>1 DEF Alike
  <2>2. n \in Nat /\ IsKept(s, P, f) /\ IsKept(r, P, g)
    BY <1>1, <1>2, <1>3
  <2> HIDE DEF n
  <2> QED BY <2>1, <2>2, KeptAgree
<1>5. n + 1 \in 0..Len(r) /\ n + 1 # 0 /\ (n + 1) - 1 = n
  BY <1>1
<1>6. g[n + 1] = IF n + 1 \in P THEN Append(g[n], r[n + 1]) ELSE g[n]
  BY <1>3, <1>5 DEF IsKept
<1>7. Selected(r, P) = IF n + 1 \in P THEN Append(Selected(s, P), x) ELSE Selected(s, P)
  BY <1>1, <1>2, <1>3, <1>4, <1>6
<1> QED BY <1>7 DEF r

LEMMA SelectedSame ==
  ASSUME NEW S, NEW s \in Seq(S), NEW P, NEW Q,
         \A i \in 1..Len(s) : i \in P <=> i \in Q
  PROVE  Selected(s, P) = Selected(s, Q)
<1>1. Len(s) \in Nat
  BY LenProperties
<1>2. PICK f : IsKept(s, P, f) /\ Selected(s, P) = f[Len(s)]
  BY <1>1, SelectedIsKept
<1>3. PICK g : IsKept(s, Q, g) /\ Selected(s, Q) = g[Len(s)]
  BY <1>1, SelectedIsKept
<1>4. Alike(s, P, s, Q, Len(s))
  BY <1>1 DEF Alike
<1>5. f[Len(s)] = g[Len(s)]
  BY <1>1, <1>2, <1>3, <1>4, KeptAgree
<1> QED BY <1>2, <1>3, <1>5

LEMMA SelectedType == \A S, P : \A s \in Seq(S) : Selected(s, P) \in Seq(S)
<1> SUFFICES ASSUME NEW S, NEW P PROVE \A s \in Seq(S) : Selected(s, P) \in Seq(S)
  OBVIOUS
<1> DEFINE T == {s \in Seq(S) : Selected(s, P) \in Seq(S)}
<1>1. << >> \in T
  BY SelectedEmpty, EmptySeq
<1>2. ASSUME NEW s \in Seq(S), NEW x \in S, s \in T PROVE Append(s, x) \in T
  <2>1. Append(s, x) \in Seq(S) /\ Append(Selected(s, P), x) \in Seq(S)
    BY <1>2, AppendProperties
  <2>2. Selected(Append(s, x), P) \in {Selected(s, P), Append(Selected(s, P), x)}
    BY SelectedAppend
  <2> QED BY <1>2, <2>1, <2>2
<1> HIDE DEF T
<1>3. Seq(S) \subseteq T
  BY <1>1, <1>2, Plus!SeqInduction
<1> QED BY <1>3 DEF T

(* The elements come from the selected positions, each once, in order.     *)
Picks(pos, t, s, P) ==
  /\ pos \in Seq(Nat) /\ Len(pos) = Len(t)
  /\ \A k \in 1..Len(pos) : pos[k] \in 1..Len(s) /\ pos[k] \in P /\ t[k] = s[pos[k]]
  /\ \A k, l \in 1..Len(pos) : k < l => pos[k] < pos[l]
  /\ \A i \in 1..Len(s) : i \in P => \E k \in 1..Len(pos) : pos[k] = i

LEMMA SelectedPositions ==
  \A S, P : \A s \in Seq(S) : \E pos : Picks(pos, Selected(s, P), s, P)
<1> SUFFICES ASSUME NEW S, NEW P
             PROVE  \A s \in Seq(S) : \E pos : Picks(pos, Selected(s, P), s, P)
  OBVIOUS
<1> DEFINE T == {s \in Seq(S) : \E pos : Picks(pos, Selected(s, P), s, P)}
<1>1. << >> \in T
  <2>1. << >> \in Seq(S) /\ << >> \in Seq(Nat) /\ Len(<< >>) = 0
    BY EmptySeq
  <2>2. Picks(<< >>, << >>, << >>, P)
    BY <2>1 DEF Picks
  <2> QED BY <2>1, <2>2, SelectedEmpty
<1>2. ASSUME NEW s \in Seq(S), NEW x \in S, s \in T PROVE Append(s, x) \in T
  <2> DEFINE n == Len(s)
             r == Append(s, x)
             t == Selected(s, P)
  <2>1. PICK pos : Picks(pos, t, s, P)
    BY <1>2
  <2>2. /\ n \in Nat /\ Len(r) = n + 1 /\ r[n + 1] = x /\ r \in Seq(S)
        /\ \A i \in 1..n : r[i] = s[i]
    BY AppendProperties, LenProperties
  <2>3. t \in Seq(S)
    BY SelectedType
  <2>4. Selected(r, P) = IF n + 1 \in P THEN Append(t, x) ELSE t
    BY SelectedAppend
  <2> HIDE DEF n, r, t
  <2>5. CASE n + 1 \in P
    <3> DEFINE q == Append(pos, n + 1)
               m == Len(pos)
    <3>1. /\ pos \in Seq(Nat) /\ m \in Nat /\ m = Len(t)
          /\ \A k \in 1..m : pos[k] \in 1..n /\ pos[k] \in P /\ t[k] = s[pos[k]]
          /\ \A k, l \in 1..m : k < l => pos[k] < pos[l]
          /\ \A i \in 1..n : i \in P => \E k \in 1..m : pos[k] = i
      BY <2>1, LenProperties DEF Picks, n
    <3>2. /\ q \in Seq(Nat) /\ Len(q) = m + 1 /\ q[m + 1] = n + 1
          /\ \A k \in 1..m : q[k] = pos[k]
      BY <2>2, <3>1, AppendProperties
    <3>3. /\ Len(Append(t, x)) = m + 1 /\ Append(t, x)[m + 1] = x
          /\ \A k \in 1..m : Append(t, x)[k] = t[k]
      BY <2>3, <3>1, AppendProperties
    <3> HIDE DEF q, m
    <3>4. \A k \in 1..(m + 1) : q[k] \in 1..(n + 1) /\ q[k] \in P /\ Append(t, x)[k] = r[q[k]]
      <4>1. TAKE k \in 1..(m + 1)
      <4>2. CASE k = m + 1
        <5>1. q[k] = n + 1 /\ n + 1 \in 1..(n + 1)
          BY <2>2, <3>2, <4>2
        <5>2. Append(t, x)[k] = x
          BY <3>3, <4>2
        <5> QED BY <2>2, <2>5, <5>1, <5>2
      <4>3. CASE k \in 1..m
        <5>1. pos[k] \in 1..n /\ pos[k] \in P /\ t[k] = s[pos[k]]
          BY <3>1, <4>3
        <5>2. r[pos[k]] = s[pos[k]] /\ pos[k] \in 1..(n + 1)
          BY <2>2, <5>1
        <5>3. q[k] = pos[k] /\ Append(t, x)[k] = t[k]
          BY <3>2, <3>3, <4>3
        <5> QED BY <5>1, <5>2, <5>3
      <4> QED BY <3>1, <4>2, <4>3
    <3>5. \A k, l \in 1..(m + 1) : k < l => q[k] < q[l]
      <4>1. SUFFICES ASSUME NEW k \in 1..(m + 1), NEW l \in 1..(m + 1), k < l PROVE q[k] < q[l]
        OBVIOUS
      <4>2. k \in 1..m /\ q[k] = pos[k] /\ pos[k] \in 1..n
        BY <3>1, <3>2, <4>1
      <4>3. CASE l = m + 1
        BY <2>2, <3>2, <4>2, <4>3
      <4>4. CASE l \in 1..m
        BY <3>1, <3>2, <4>1, <4>2, <4>4
      <4> QED BY <3>1, <4>3, <4>4
    <3>6. \A i \in 1..(n + 1) : i \in P => \E k \in 1..(m + 1) : q[k] = i
      <4>1. TAKE i \in 1..(n + 1)
      <4>2. CASE i = n + 1
        <5>1. m + 1 \in 1..(m + 1)
          BY <3>1
        <5> QED BY <3>2, <4>2, <5>1
      <4>3. CASE i \in 1..n
        <5>1. \A k \in 1..m : k \in 1..(m + 1)
          BY <3>1
        <5> QED BY <3>1, <3>2, <4>3, <5>1
      <4> QED BY <2>2, <4>2, <4>3
    <3>7. Picks(q, Append(t, x), r, P)
      BY <2>2, <3>2, <3>3, <3>4, <3>5, <3>6 DEF Picks
    <3> QED BY <2>2, <2>4, <2>5, <3>7 DEF r
  <2>6. CASE n + 1 \notin P
    <3>1. Picks(pos, t, r, P)
      <4>1. \A k \in 1..Len(pos) : pos[k] \in 1..(n + 1) /\ pos[k] \in P /\ t[k] = r[pos[k]]
        <5>1. TAKE k \in 1..Len(pos)
        <5>2. pos[k] \in 1..n /\ pos[k] \in P /\ t[k] = s[pos[k]]
          BY <2>1 DEF Picks, n
        <5>3. r[pos[k]] = s[pos[k]] /\ pos[k] \in 1..(n + 1)
          BY <2>2, <5>2
        <5> QED BY <5>2, <5>3
      <4>2. \A i \in 1..(n + 1) : i \in P => i \in 1..n
        BY <2>2, <2>6
      <4> QED BY <2>1, <2>2, <4>1, <4>2 DEF Picks, n
    <3> QED BY <2>2, <2>4, <2>6, <3>1 DEF r
  <2> QED BY <2>5, <2>6
<1> HIDE DEF T
<1>3. Seq(S) \subseteq T
  BY <1>1, <1>2, Plus!SeqInduction
<1> QED BY <1>3 DEF T
(* What a selection by a test keeps passes it.                             *)
LEMMA KeptPass ==
  \A S, P, s : s \in Seq(S) =>
    \A k \in 1..Len(Selected(s, P)) :
      \E i \in 1..Len(s) : i \in P /\ Selected(s, P)[k] = s[i]
<1> SUFFICES ASSUME NEW S, NEW P, NEW s \in Seq(S), NEW k \in 1..Len(Selected(s, P))
             PROVE  \E i \in 1..Len(s) : i \in P /\ Selected(s, P)[k] = s[i]
  OBVIOUS
<1>1. PICK pos : Picks(pos, Selected(s, P), s, P)
  BY SelectedPositions
<1>2. k \in 1..Len(pos) 
  BY <1>1 DEF Picks
<1>3. pos[k] \in 1..Len(s) /\ pos[k] \in P /\ Selected(s, P)[k] = s[pos[k]]
  BY <1>1, <1>2 DEF Picks
<1> QED BY <1>3
-----------------------------------------------------------------------------
(* The lists of a list one after the other, likewise.                      *)
IsFlat(ss, g) ==
  g = [i \in 1..Len(ss) |-> IF i = 1 THEN ss[i] ELSE g[i - 1] \o ss[i]]

LEMMA FlatExists ==
  ASSUME NEW ss, Len(ss) \in Nat
  PROVE  \E g : IsFlat(ss, g)
<1> DEFINE Upto(n, g) == g = [i \in 1..n |-> IF i = 1 THEN ss[i] ELSE g[i - 1] \o ss[i]]
           T == {n \in Nat : \E g : Upto(n, g)}
<1>1. 0 \in T
  <2> DEFINE g == [i \in 1..0 |-> ss[i]]
  <2>1. Upto(0, g)
    OBVIOUS
  <2> QED BY <2>1
<1>2. ASSUME NEW n \in Nat, n \in T PROVE n + 1 \in T
  <2>1. PICK g : Upto(n, g)
    BY <1>2
  <2> DEFINE h == [i \in 1..(n + 1) |->
                     IF i <= n THEN g[i]
                     ELSE IF n + 1 = 1 THEN ss[n + 1] ELSE g[n] \o ss[n + 1]]
             Body(f, i) == IF i = 1 THEN ss[i] ELSE f[i - 1] \o ss[i]
  <2>2. \A i \in 1..n : h[i] = g[i] /\ g[i] = Body(g, i)
    <3>1. \A i \in 1..n : g[i] = Body(g, i)
      BY <2>1
    <3> HIDE DEF Body
    <3>2. \A i \in 1..n : i \in 1..(n + 1) /\ i <= n
      OBVIOUS
    <3>3. \A i \in 1..n : h[i] = g[i]
      BY <3>2
    <3> QED BY <3>1, <3>3
  <2>3. h[n + 1] = IF n + 1 = 1 THEN ss[n + 1] ELSE g[n] \o ss[n + 1]
    OBVIOUS
  <2>4. h = [i \in 1..(n + 1) |-> h[i]]
    OBVIOUS
  <2> HIDE DEF h
  <2>5. \A i \in 1..(n + 1) : h[i] = Body(h, i)
    <3>1. TAKE i \in 1..(n + 1)
    <3>2. CASE i = n + 1
      <4>1. n + 1 # 1 => n \in 1..n /\ (n + 1) - 1 = n
        OBVIOUS
      <4> QED BY <2>2, <2>3, <3>2, <4>1
    <3>3. CASE i # n + 1
      <4>1. i \in 1..n /\ (i # 1 => i - 1 \in 1..n)
        BY <3>3
      <4> QED BY <2>2, <4>1
    <3> QED BY <3>2, <3>3
  <2>6. h = [i \in 1..(n + 1) |-> Body(h, i)]
    BY <2>4, <2>5
  <2>7. Upto(n + 1, h)
    BY <2>6, Zenon
  <2> HIDE DEF Upto
  <2> QED BY <2>7
<1> HIDE DEF T
<1>3. Len(ss) \in T
  BY <1>1, <1>2, Plus!Induction
<1> QED BY <1>3 DEF T, IsFlat

LEMMA FlattenIsFlat ==
  ASSUME NEW ss, Len(ss) \in Nat, Len(ss) # 0
  PROVE  \E g : IsFlat(ss, g) /\ FlattenSeq(ss) = g[Len(ss)]
<1> DEFINE g == CHOOSE g : IsFlat(ss, g)
<1>1. IsFlat(ss, g)
  BY FlatExists, Zenon
<1>2. FlattenSeq(ss) = g[Len(ss)]
  BY Zenon DEF FlattenSeq, IsFlat
<1> QED BY <1>1, <1>2, Zenon

LEMMA FlattenEmpty == FlattenSeq(<< >>) = << >>
<1>1. Len(<< >>) = 0
  OBVIOUS
<1> QED BY <1>1 DEF FlattenSeq

SameUpto(s, r, m) ==
  m \in Nat /\ 1 <= m /\ m <= Len(s) /\ m <= Len(r) /\ \A i \in 1..m : s[i] = r[i]

LEMMA FlatAgree ==
  \A s, r, f, g, m :
    /\ Len(s) \in Nat /\ Len(r) \in Nat /\ IsFlat(s, f) /\ IsFlat(r, g)
    /\ SameUpto(s, r, m)
    => f[m] = g[m]
<1> SUFFICES ASSUME NEW s, NEW r, NEW f, NEW g, NEW m,
                    Len(s) \in Nat, Len(r) \in Nat, IsFlat(s, f), IsFlat(r, g),
                    SameUpto(s, r, m)
             PROVE  f[m] = g[m]
  OBVIOUS
<1> USE DEF SameUpto
<1> DEFINE T == {n \in Nat : 1 <= n /\ n <= m => f[n] = g[n]}
<1>1. 0 \in T
  OBVIOUS
<1>2. ASSUME NEW n \in Nat, n \in T PROVE n + 1 \in T
  <2>1. SUFFICES ASSUME n + 1 <= m PROVE f[n + 1] = g[n + 1]
    OBVIOUS
  <2>2. n + 1 \in 1..Len(s) /\ n + 1 \in 1..Len(r) /\ (n + 1) - 1 = n /\ n + 1 \in 1..m
    BY <2>1
  <2>3. f[n + 1] = IF n + 1 = 1 THEN s[n + 1] ELSE f[n] \o s[n + 1]
    BY <2>2 DEF IsFlat
  <2>4. g[n + 1] = IF n + 1 = 1 THEN r[n + 1] ELSE g[n] \o r[n + 1]
    BY <2>2 DEF IsFlat
  <2>5. n + 1 # 1 => f[n] = g[n]
    BY <1>2, <2>1
  <2>6. s[n + 1] = r[n + 1]
    BY <2>2
  <2> QED BY <2>3, <2>4, <2>5, <2>6, Zenon
<1> HIDE DEF T
<1>3. m \in T
  BY <1>1, <1>2, Plus!Induction
<1> QED BY <1>3 DEF T

LEMMA FlattenStep ==
  ASSUME NEW S, NEW ss \in Seq(Seq(S)), NEW x \in Seq(S)
  PROVE  FlattenSeq(Append(ss, x)) = IF ss = << >> THEN x ELSE FlattenSeq(ss) \o x
<1> DEFINE r == Append(ss, x)
           n == Len(ss)
<1>1. /\ n \in Nat /\ Len(r) = n + 1 /\ r[n + 1] = x /\ \A i \in 1..n : r[i] = ss[i]
      /\ (ss = << >> <=> n = 0)
  BY AppendProperties, LenProperties, EmptySeq
<1> HIDE DEF r, n
<1>2. Len(r) \in Nat /\ Len(r) # 0 /\ n + 1 \in 1..Len(r) /\ (n + 1) - 1 = n
  BY <1>1
<1>3. PICK g : IsFlat(r, g) /\ FlattenSeq(r) = g[n + 1]
  BY <1>1, <1>2, FlattenIsFlat
<1>4. g[n + 1] = IF n + 1 = 1 THEN r[n + 1] ELSE g[n] \o r[n + 1]
  BY <1>2, <1>3 DEF IsFlat
<1>5. CASE n = 0
  BY <1>1, <1>3, <1>4, <1>5 DEF r
<1>6. CASE n # 0
  <2>1. PICK f : IsFlat(ss, f) /\ FlattenSeq(ss) = f[n]
    BY <1>1, <1>6, FlattenIsFlat DEF n
  <2>2. Len(ss) \in Nat /\ SameUpto(ss, r, n)
    BY <1>1, <1>6 DEF n, SameUpto
  <2>3. f[n] = g[n]
    <3>1. Len(r) \in Nat /\ IsFlat(r, g) /\ IsFlat(ss, f)
      BY <1>2, <1>3, <2>1
    <3> QED BY <2>2, <3>1, FlatAgree
  <2>4. g[n + 1] = g[n] \o x
    BY <1>1, <1>4, <1>6
  <2>5. FlattenSeq(r) = FlattenSeq(ss) \o x
    BY <1>3, <2>1, <2>3, <2>4, Zenon
  <2> QED BY <1>1, <1>6, <2>5, Zenon DEF r
<1> QED BY <1>5, <1>6

LEMMA FlattenAppend ==
  \A S : \A ss \in Seq(Seq(S)) :
    /\ FlattenSeq(ss) \in Seq(S)
    /\ \A x \in Seq(S) : FlattenSeq(Append(ss, x)) = FlattenSeq(ss) \o x
<1> SUFFICES ASSUME NEW S
             PROVE  \A ss \in Seq(Seq(S)) :
                      /\ FlattenSeq(ss) \in Seq(S)
                      /\ \A x \in Seq(S) : FlattenSeq(Append(ss, x)) = FlattenSeq(ss) \o x
  OBVIOUS
<1> DEFINE T == {ss \in Seq(Seq(S)) : FlattenSeq(ss) \in Seq(S)}
<1>1. << >> \in T
  BY FlattenEmpty, EmptySeq
<1>2. ASSUME NEW ss \in Seq(Seq(S)), NEW x \in Seq(S), ss \in T PROVE Append(ss, x) \in T
  <2>1. Append(ss, x) \in Seq(Seq(S)) /\ FlattenSeq(ss) \o x \in Seq(S)
    BY <1>2, AppendProperties, ConcatProperties
  <2>2. FlattenSeq(Append(ss, x)) \in {x, FlattenSeq(ss) \o x}
    BY FlattenStep
  <2> QED BY <2>1, <2>2
<1> HIDE DEF T
<1>3. Seq(Seq(S)) \subseteq T
  BY <1>1, <1>2, Plus!SeqInduction
<1>4. ASSUME NEW ss \in Seq(Seq(S)), NEW x \in Seq(S)
      PROVE  FlattenSeq(Append(ss, x)) = FlattenSeq(ss) \o x
  <2>1. << >> \o x = x
    BY ConcatEmptySeq
  <2> QED BY <2>1, FlattenStep, FlattenEmpty, Zenon
<1> QED BY <1>3, <1>4 DEF T
-----------------------------------------------------------------------------
(* A selection by what the elements are: those in the set A.               *)
Kept(s, A) == Selected(s, {i \in DOMAIN s : s[i] \in A})

LEMMA KeptEmpty == \A A : Kept(<< >>, A) = << >>
BY SelectedEmpty DEF Kept

LEMMA KeptAppend ==
  \A S, A : \A s \in Seq(S), x \in S :
    Kept(Append(s, x), A) = IF x \in A THEN Append(Kept(s, A), x) ELSE Kept(s, A)
<1> SUFFICES ASSUME NEW S, NEW A, NEW s \in Seq(S), NEW x \in S
             PROVE  Kept(Append(s, x), A) = IF x \in A THEN Append(Kept(s, A), x) ELSE Kept(s, A)
  OBVIOUS
<1> DEFINE r == Append(s, x)
           n == Len(s)
           P == {i \in DOMAIN s : s[i] \in A}
           Q == {i \in DOMAIN r : r[i] \in A}
<1>1. /\ n \in Nat /\ DOMAIN s = 1..n /\ DOMAIN r = 1..(n + 1) /\ r[n + 1] = x
      /\ \A i \in 1..n : r[i] = s[i]
  BY AppendProperties, LenProperties
<1>2. Selected(r, Q) = IF n + 1 \in Q THEN Append(Selected(s, Q), x) ELSE Selected(s, Q)
  BY ZenonT(40), SelectedAppend
<1> HIDE DEF r, n
<1>3. n + 1 \in Q <=> x \in A
  BY <1>1
<1>4. \A i \in 1..n : i \in P <=> i \in Q
  BY <1>1
<1> HIDE DEF P, Q
<1>5. Selected(s, P) = Selected(s, Q)
  BY <1>4, SelectedSame DEF n
<1> QED BY <1>2, <1>3, <1>5 DEF Kept, r, P, Q

LEMMA KeptType == \A S, A : \A s \in Seq(S) : Kept(s, A) \in Seq(S) /\ Kept(s, A) \in Seq(S \cap A)
<1> SUFFICES ASSUME NEW S, NEW A
             PROVE  \A s \in Seq(S) : Kept(s, A) \in Seq(S) /\ Kept(s, A) \in Seq(S \cap A)
  OBVIOUS
<1> DEFINE T == {s \in Seq(S) : Kept(s, A) \in Seq(S \cap A)}
<1>1. << >> \in T
  BY KeptEmpty, EmptySeq
<1>2. ASSUME NEW s \in Seq(S), NEW x \in S, s \in T PROVE Append(s, x) \in T
  <2>1. Kept(Append(s, x), A) = IF x \in A THEN Append(Kept(s, A), x) ELSE Kept(s, A)
    BY KeptAppend
  <2>2. Append(s, x) \in Seq(S)
    BY AppendProperties
  <2>3. x \in A => Append(Kept(s, A), x) \in Seq(S \cap A)
    BY <1>2, AppendProperties
  <2> QED BY <1>2, <2>1, <2>2, <2>3
<1> HIDE DEF T
<1>3. Seq(S) \subseteq T
  BY <1>1, <1>2, Plus!SeqInduction
<1>4. \A s \in Seq(S) : Kept(s, A) \in Seq(S)
  BY SelectedType DEF Kept
<1> QED BY <1>3, <1>4 DEF T

(* Two selections, one after the other.                                    *)
LEMMA KeptTwice == \A S, A, B : \A s \in Seq(S) : Kept(Kept(s, A), B) = Kept(s, A \cap B)
<1> SUFFICES ASSUME NEW S, NEW A, NEW B
             PROVE  \A s \in Seq(S) : Kept(Kept(s, A), B) = Kept(s, A \cap B)
  OBVIOUS
<1> DEFINE T == {s \in Seq(S) : Kept(Kept(s, A), B) = Kept(s, A \cap B)}
<1>1. << >> \in T
  BY KeptEmpty, EmptySeq
<1>2. ASSUME NEW s \in Seq(S), NEW x \in S, s \in T PROVE Append(s, x) \in T
  <2>1. Kept(Append(s, x), A) = IF x \in A THEN Append(Kept(s, A), x) ELSE Kept(s, A)
    BY KeptAppend
  <2>2. Kept(Append(s, x), A \cap B)
          = IF x \in A /\ x \in B THEN Append(Kept(s, A \cap B), x) ELSE Kept(s, A \cap B)
    BY KeptAppend
  <2>3. Kept(s, A) \in Seq(S)
    BY KeptType
  <2>4. Kept(Append(Kept(s, A), x), B)
          = IF x \in B THEN Append(Kept(Kept(s, A), B), x) ELSE Kept(Kept(s, A), B)
    BY <2>3, KeptAppend
  <2>5. Append(s, x) \in Seq(S)
    BY AppendProperties
  <2>6. Kept(Kept(s, A), B) = Kept(s, A \cap B)
    BY <1>2
  <2>7. Kept(Kept(Append(s, x), A), B) = Kept(Append(s, x), A \cap B)
    <3>1. CASE x \in A
      <4>1. Kept(Append(s, x), A) = Append(Kept(s, A), x)
        BY <2>1, <3>1, Zenon
      <4> QED BY <2>2, <2>4, <2>6, <3>1, <4>1, Zenon
    <3>2. CASE x \notin A
      <4>1. Kept(Append(s, x), A) = Kept(s, A)
        BY <2>1, <3>2, Zenon
      <4> QED BY <2>2, <2>6, <3>2, <4>1, Zenon
    <3> QED BY <3>1, <3>2
  <2> QED BY <2>5, <2>7
<1> HIDE DEF T
<1>3. Seq(S) \subseteq T
  BY <1>1, <1>2, Plus!SeqInduction
<1> QED BY <1>3 DEF T

(* A list of what a function makes of each element of another.             *)
Mapped(s, f) == [i \in DOMAIN s |-> f[s[i]]]

LEMMA MappedIs ==
  \A S, R : \A f \in [S -> R] : \A s \in Seq(S) :
    /\ Mapped(s, f) \in Seq(R) /\ Len(Mapped(s, f)) = Len(s)
    /\ \A i \in 1..Len(s) : s[i] \in S /\ Mapped(s, f)[i] = f[s[i]]
    /\ \A x \in S : Mapped(Append(s, x), f) = Append(Mapped(s, f), f[x])
<1> SUFFICES ASSUME NEW S, NEW R, NEW f \in [S -> R], NEW s \in Seq(S)
             PROVE  /\ Mapped(s, f) \in Seq(R) /\ Len(Mapped(s, f)) = Len(s)
                    /\ \A i \in 1..Len(s) : s[i] \in S /\ Mapped(s, f)[i] = f[s[i]]
                    /\ \A x \in S : Mapped(Append(s, x), f) = Append(Mapped(s, f), f[x])
  OBVIOUS
<1> DEFINE n == Len(s)
           m == Mapped(s, f)
<1>1. n \in Nat /\ DOMAIN s = 1..n /\ \A i \in 1..n : s[i] \in S
  BY LenProperties, ElementOfSeq
<1> HIDE DEF n
<1>2. m = [i \in 1..n |-> f[s[i]]]
  BY <1>1, Zenon DEF Mapped
<1> HIDE DEF m
<1>3. m \in [1..n -> R] /\ \A i \in 1..n : m[i] = f[s[i]]
  BY <1>1, <1>2
<1>4. m \in Seq(R) /\ Len(m) = n
  BY <1>1, <1>3, SeqDef
<1>5. ASSUME NEW x \in S PROVE Mapped(Append(s, x), f) = Append(m, f[x])
  <2> DEFINE r == Append(s, x)
             a == Append(m, f[x])
             b == Mapped(r, f)
  <2>1. DOMAIN r = 1..(n + 1) /\ r[n + 1] = x /\ \A i \in 1..n : r[i] = s[i]
    BY <1>1, AppendProperties, LenProperties DEF n
  <2>2. /\ a \in Seq(R) /\ Len(a) = n + 1 /\ a[n + 1] = f[x] /\ \A i \in 1..n : a[i] = m[i]
    BY <1>4, AppendProperties
  <2>3. a = [i \in 1..(n + 1) |-> a[i]]
    <3>1. a \in [1..(n + 1) -> R]
      BY <2>2, LenProperties
    <3> QED BY <3>1
  <2> HIDE DEF r, a
  <2>4. b = [i \in 1..(n + 1) |-> f[r[i]]]
    BY <2>1 DEF Mapped
  <2> HIDE DEF b
  <2>5. \A i \in 1..(n + 1) : f[r[i]] = a[i]
    <3>1. TAKE i \in 1..(n + 1)
    <3>2. CASE i \in 1..n
      BY <1>3, <2>1, <2>2, <3>2
    <3>3. CASE i = n + 1
      BY <2>1, <2>2, <3>3
    <3> QED BY <1>1, <3>2, <3>3
  <2>6. b = a
    BY <2>3, <2>4, <2>5
  <2> QED BY <2>6 DEF a, b, r
<1> QED BY <1>1, <1>3, <1>4, <1>5 DEF m, n

Preimage(f, S, B) == {x \in S : f[x] \in B}

KeepsFirst(s, f, S, B) == Kept(Mapped(s, f), B) = Mapped(Kept(s, Preimage(f, S, B)), f)

LEMMA KeptMapped ==
  \A S, R, B : \A f \in [S -> R] : \A s \in Seq(S) : KeepsFirst(s, f, S, B)
<1> SUFFICES ASSUME NEW S, NEW R, NEW B, NEW f \in [S -> R]
             PROVE  \A s \in Seq(S) : Kept(Mapped(s, f), B) = Mapped(Kept(s, Preimage(f, S, B)), f)
  BY Zenon DEF KeepsFirst
<1> DEFINE A == Preimage(f, S, B)
           T == {s \in Seq(S) : Kept(Mapped(s, f), B) = Mapped(Kept(s, A), f)}
<1>0. ASSUME NEW q \in Seq(S), NEW y \in S
      PROVE  /\ Mapped(Append(q, y), f) = Append(Mapped(q, f), f[y])
             /\ Mapped(q, f) \in Seq(R) /\ f[y] \in R
  <2>1. /\ Mapped(q, f) \in Seq(R)
        /\ \A z \in S : Mapped(Append(q, z), f) = Append(Mapped(q, f), f[z])
    BY MappedIs
  <2> QED BY <2>1
<1>1. << >> \in T
  <2>1. Mapped(<< >>, f) = << >>
    BY DEF Mapped
  <2> QED BY <2>1, KeptEmpty, EmptySeq
<1>2. ASSUME NEW s \in Seq(S), NEW x \in S, s \in T PROVE Append(s, x) \in T
  <2>1. Mapped(Append(s, x), f) = Append(Mapped(s, f), f[x]) /\ Mapped(s, f) \in Seq(R) /\ f[x] \in R
    BY <1>0
  <2>2. Kept(Append(Mapped(s, f), f[x]), B)
          = IF f[x] \in B THEN Append(Kept(Mapped(s, f), B), f[x]) ELSE Kept(Mapped(s, f), B)
    BY <2>1, KeptAppend
  <2>3. x \in A <=> f[x] \in B
    BY DEF Preimage
  <2> HIDE DEF A
  <2>4. Kept(Append(s, x), A) = IF x \in A THEN Append(Kept(s, A), x) ELSE Kept(s, A)
    BY KeptAppend
  <2>5. Kept(s, A) \in Seq(S)
    BY KeptType
  <2>6. Mapped(Append(Kept(s, A), x), f) = Append(Mapped(Kept(s, A), f), f[x])
    BY <1>0, <2>5
  <2>7. Append(s, x) \in Seq(S)
    BY AppendProperties
  <2> QED BY <1>2, <2>1, <2>2, <2>3, <2>4, <2>6, <2>7
<1> HIDE DEF T
<1>3. Seq(S) \subseteq T
  BY <1>1, <1>2, Plus!SeqInduction
<1> QED BY <1>3 DEF T

(* Whatever is in A is kept.                                               *)
LEMMA KeptAll ==
  \A S, A : \A s \in Seq(S) :
    /\ \A i \in 1..Len(s) : s[i] \in A => \E k \in 1..Len(Kept(s, A)) : Kept(s, A)[k] = s[i]
    /\ \A k \in 1..Len(Kept(s, A)) : Kept(s, A)[k] \in A /\ \E i \in 1..Len(s) : Kept(s, A)[k] = s[i]
<1> SUFFICES ASSUME NEW S, NEW A, NEW s \in Seq(S)
             PROVE  /\ \A i \in 1..Len(s) : s[i] \in A =>
                         \E k \in 1..Len(Kept(s, A)) : Kept(s, A)[k] = s[i]
                    /\ \A k \in 1..Len(Kept(s, A)) :
                         Kept(s, A)[k] \in A /\ \E i \in 1..Len(s) : Kept(s, A)[k] = s[i]
  OBVIOUS
<1> DEFINE P == {i \in DOMAIN s : s[i] \in A}
           r == Kept(s, A)
<1>1. r = Selected(s, P)
  BY DEF Kept
<1>2. PICK pos : Picks(pos, Selected(s, P), s, P)
  BY SelectedPositions
<1>3. \A i \in 1..Len(s) : s[i] \in A => i \in P
  BY LenProperties
<1>4. \A i \in P : s[i] \in A
  OBVIOUS
<1> HIDE DEF P, r
<1>5. Picks(pos, r, s, P)
  BY <1>1, <1>2
<1>6. ASSUME NEW i \in 1..Len(s), s[i] \in A PROVE \E k \in 1..Len(r) : r[k] = s[i]
  <2>1. PICK k \in 1..Len(pos) : pos[k] = i
    BY <1>3, <1>5, <1>6 DEF Picks
  <2>2. r[k] = s[pos[k]] /\ Len(pos) = Len(r)
    BY <1>5 DEF Picks
  <2> QED BY <2>1, <2>2
<1>7. ASSUME NEW k \in 1..Len(r) PROVE r[k] \in A /\ \E i \in 1..Len(s) : r[k] = s[i]
  <2>1. k \in 1..Len(pos)
    BY <1>5 DEF Picks
  <2>2. pos[k] \in 1..Len(s) /\ pos[k] \in P /\ r[k] = s[pos[k]]
    BY <1>5, <2>1 DEF Picks
  <2> QED BY <1>4, <2>2
<1> QED BY <1>6, <1>7 DEF r

(* A list as long as another.                                              *)
LongAs(f, s) == f = [i \in DOMAIN s |-> f[i]]

LEMMA SeqOver ==
  \A S, R, s, f :
    s \in Seq(S) /\ LongAs(f, s) /\ (\A i \in 1..Len(s) : f[i] \in R)
    => f \in Seq(R) /\ Len(f) = Len(s)
<1> SUFFICES ASSUME NEW S, NEW R, NEW s \in Seq(S), NEW f,
                    LongAs(f, s), \A i \in 1..Len(s) : f[i] \in R
             PROVE  f \in Seq(R) /\ Len(f) = Len(s)
  OBVIOUS
<1>1. Len(s) \in Nat /\ DOMAIN s = 1..Len(s)
  BY LenProperties
<1>2. f \in [1..Len(s) -> R]
  BY <1>1 DEF LongAs
<1> QED BY <1>1, <1>2, SeqDef
-----------------------------------------------------------------------------
(* The rank of a number in a finite set: how many are less.                *)
Rank(S, x) == Cardinality({y \in S : y < x})

LEMMA RankInOrder ==
  ASSUME NEW S, IsFiniteSet(S), S \subseteq Int
  PROVE  /\ \A x \in S : Rank(S, x) \in 0..(Cardinality(S) - 1)
         /\ \A x, z \in S : x < z => Rank(S, x) < Rank(S, z)
<1> DEFINE Less(x) == {y \in S : y < x}
<1>1. \A x \in S : IsFiniteSet(Less(x)) /\ Cardinality(Less(x)) \in Nat
  <2>1. \A x \in S : Less(x) \in SUBSET S
    OBVIOUS
  <2> HIDE DEF Less
  <2> QED BY <2>1, FS_Subset, FS_CardinalityType
<1>2. ASSUME NEW x \in S PROVE Cardinality(Less(x)) \in 0..(Cardinality(S) - 1)
  <2>1. Less(x) \in SUBSET (S \ {x})
    OBVIOUS
  <2> HIDE DEF Less
  <2>2. IsFiniteSet(S \ {x}) /\ Cardinality(S \ {x}) = Cardinality(S) - 1
    BY FS_RemoveElement
  <2>3. Cardinality(Less(x)) <= Cardinality(S \ {x})
    BY <2>1, <2>2, FS_Subset
  <2>4. Cardinality(S) \in Nat /\ Cardinality(Less(x)) \in Nat
    BY <1>1, FS_CardinalityType
  <2> QED BY <2>2, <2>3, <2>4
<1>3. ASSUME NEW x \in S, NEW z \in S, x < z PROVE Cardinality(Less(x)) < Cardinality(Less(z))
  <2>1. x \in Int /\ z \in Int
    OBVIOUS
  <2>2. Less(x) \in SUBSET Less(z) /\ x \in Less(z) /\ x \notin Less(x)
    <3>1. \A y \in S : y < x => y < z
      <4>1. \A y \in Int : y < x => y < z
        BY <1>3, <2>1
      <4> QED BY <4>1
    <3>2. Less(x) \subseteq Less(z)
      BY <3>1
    <3>3. x \in Less(z)
      BY <1>3
    <3>4. x \notin Less(x)
      BY <2>1
    <3> QED BY <3>2, <3>3, <3>4
  <2> HIDE DEF Less
  <2>3. Less(x) # Less(z)
    BY <2>2
  <2>4. /\ Cardinality(Less(x)) <= Cardinality(Less(z))
        /\ Cardinality(Less(x)) # Cardinality(Less(z))
    BY <1>1, <2>2, <2>3, FS_Subset
  <2> QED BY <1>1, <2>4
<1> QED BY <1>2, <1>3 DEF Rank

(* Every number of the set stands at the place its rank gives.             *)
LEMMA AscendingInOrder ==
  \A S : IsFiniteSet(S) /\ S \subseteq Int =>
    /\ Ascending(S) \in Seq(S) /\ Len(Ascending(S)) = Cardinality(S)
    /\ \A k, l \in 1..Cardinality(S) : k < l => Ascending(S)[k] < Ascending(S)[l]
    /\ \A x \in S : \E k \in 1..Cardinality(S) : Ascending(S)[k] = x
<1> SUFFICES ASSUME NEW S, IsFiniteSet(S), S \subseteq Int
             PROVE  /\ Ascending(S) \in Seq(S) /\ Len(Ascending(S)) = Cardinality(S)
                    /\ \A k, l \in 1..Cardinality(S) : k < l => Ascending(S)[k] < Ascending(S)[l]
                    /\ \A x \in S : \E k \in 1..Cardinality(S) : Ascending(S)[k] = x
  OBVIOUS
<1> DEFINE n == Cardinality(S)
           a == Ascending(S)
           f == [x \in S |-> Rank(S, x) + 1]
<1>1. n \in Nat
  BY FS_CardinalityType
<1>2. /\ \A x \in S : Rank(S, x) \in 0..(n - 1)
      /\ \A x, z \in S : x < z => Rank(S, x) < Rank(S, z)
  BY RankInOrder
<1>3. a = [k \in 1..n |-> CHOOSE x \in S : Rank(S, x) = k - 1]
  BY Zenon DEF Ascending, Rank
<1> HIDE DEF n, a
<1>4. \A x, z \in S : Rank(S, x) = Rank(S, z) => x = z
  <2>1. SUFFICES ASSUME NEW x \in S, NEW z \in S, Rank(S, x) = Rank(S, z), x # z PROVE FALSE
    OBVIOUS
  <2>2. x \in Int /\ z \in Int
    OBVIOUS
  <2>3. Rank(S, x) \in Int
    BY <1>1, <1>2
  <2> QED BY <1>2, <2>1, <2>2, <2>3
<1>5. f \in Injection(S, 1..n)
  <2>1. \A x \in S : Rank(S, x) + 1 \in 1..n
    BY <1>1, <1>2
  <2>2. f \in [S -> 1..n]
    BY <2>1
  <2>3. \A x, z \in S : f[x] = f[z] => x = z
    <3>1. SUFFICES ASSUME NEW x \in S, NEW z \in S, f[x] = f[z] PROVE x = z
      OBVIOUS
    <3>2. Rank(S, x) \in Int /\ Rank(S, z) \in Int /\ Rank(S, x) + 1 = Rank(S, z) + 1
      BY <1>1, <1>2, <3>1
    <3>3. Rank(S, x) = Rank(S, z)
      BY <3>2
    <3> QED BY <1>4, <3>3
  <2> HIDE DEF f
  <2> QED BY <2>2, <2>3, Fun_IsInj
<1>6. \A k \in 1..n : \E x \in S : Rank(S, x) = k - 1
  <2>1. IsFiniteSet(1..n) /\ Cardinality(1..n) = n
    BY <1>1, FS_Interval
  <2>2. f \in Surjection(S, 1..n)
    BY <1>5, <2>1, FS_Injection DEF n
  <2>3. \A k \in 1..n : \E x \in S : f[x] = k
    <3> HIDE DEF f
    <3> QED BY <2>2 DEF Surjection
  <2>4. TAKE k \in 1..n
  <2>5. PICK x \in S : Rank(S, x) + 1 = k
    BY <2>3
  <2>6. Rank(S, x) \in Int
    BY <1>1, <1>2
  <2>7. Rank(S, x) = k - 1
    BY <1>1, <2>5, <2>6
  <2> QED BY <2>7
<1>7. \A k \in 1..n : a[k] \in S /\ Rank(S, a[k]) = k - 1
  <2>1. TAKE k \in 1..n
  <2>2. a[k] = CHOOSE x \in S : Rank(S, x) = k - 1
    BY <1>3
  <2>3. \E x \in S : Rank(S, x) = k - 1
    BY <1>6
  <2> QED BY <2>2, <2>3, Zenon
<1>8. a \in Seq(S) /\ Len(a) = n
  <2>1. a = [k \in 1..n |-> a[k]]
    BY <1>3
  <2> QED BY <1>1, <1>7, <2>1
<1>9. \A k, l \in 1..n : k < l => a[k] < a[l]
  <2>1. SUFFICES ASSUME NEW k \in 1..n, NEW l \in 1..n, k < l, ~(a[k] < a[l]) PROVE FALSE
    OBVIOUS
  <2>2. a[k] \in Int /\ a[l] \in Int /\ a[k] \in S /\ a[l] \in S
    BY <1>7
  <2>3. a[l] < a[k] \/ a[l] = a[k]
    BY <2>1, <2>2
  <2>4. Rank(S, a[l]) <= Rank(S, a[k])
    <3>1. a[l] = a[k] => Rank(S, a[l]) = Rank(S, a[k])
      OBVIOUS
    <3>2. Rank(S, a[l]) \in Int /\ Rank(S, a[k]) \in Int
      BY <1>1, <1>2, <2>2
    <3>3. a[l] < a[k] => Rank(S, a[l]) < Rank(S, a[k])
      BY <1>2, <2>2
    <3> QED BY <2>3, <3>1, <3>2, <3>3
  <2>5. Rank(S, a[l]) = l - 1 /\ Rank(S, a[k]) = k - 1
    BY <1>7
  <2> QED BY <1>1, <2>1, <2>4, <2>5
<1>10. \A x \in S : \E k \in 1..n : a[k] = x
  <2>1. TAKE x \in S
  <2>2. Rank(S, x) \in 0..(n - 1)
    BY <1>2
  <2>3. PICK k \in 1..n : k = Rank(S, x) + 1
    BY <1>1, <2>2
  <2>4. Rank(S, x) = k - 1
    BY <1>1, <2>2, <2>3
  <2>5. a[k] \in S /\ Rank(S, a[k]) = Rank(S, x)
    BY <1>7, <2>4
  <2> QED BY <1>4, <2>5
<1> QED BY <1>8, <1>9, <1>10 DEF n, a

(* The last in ascending order is the largest, the first the least.        *)
LEMMA MaxAndMin ==
  \A S : IsFiniteSet(S) /\ S \subseteq Int /\ S # {} =>
    /\ Max(S) \in S /\ Max(S) \in Int /\ \A y \in S : y <= Max(S)
    /\ Min(S) \in S /\ Min(S) \in Int /\ \A y \in S : Min(S) <= y
<1> SUFFICES ASSUME NEW S, IsFiniteSet(S), S \subseteq Int, S # {}
             PROVE  /\ Max(S) \in S /\ \A y \in S : y <= Max(S)
                    /\ Min(S) \in S /\ \A y \in S : Min(S) <= y
  OBVIOUS
<1> DEFINE n == Cardinality(S)
           a == Ascending(S)
<1>1. /\ \A k \in 1..n : a[k] \in S
      /\ \A k, l \in 1..n : k < l => a[k] < a[l]
      /\ \A x \in S : \E k \in 1..n : a[k] = x
  <2>1. a \in Seq(S) /\ Len(a) = n
    BY AscendingInOrder
  <2> QED BY <2>1, AscendingInOrder, ElementOfSeq
<1>2. n \in Nat
  BY FS_CardinalityType
<1> HIDE DEF n, a
<1>3. n >= 1
  <2>1. PICK k \in 1..n : TRUE
    BY <1>1
  <2> QED BY <1>2, <2>1
<1>4. a[n] \in S /\ a[1] \in S
  <2>1. 1 \in 1..n /\ n \in 1..n
    BY <1>2, <1>3
  <2> QED BY <1>1, <2>1
<1>5. \A y \in S : a[n] >= y /\ a[1] <= y
  <2>1. TAKE y \in S
  <2>2. PICK k \in 1..n : a[k] = y
    BY <1>1
  <2>3. y \in Int /\ a[1] \in Int /\ a[n] \in Int
    BY <1>4
  <2>4. n \in 1..n /\ 1 \in 1..n /\ (k = n \/ k < n) /\ (k = 1 \/ 1 < k)
    BY <1>2, <1>3
  <2>5. k < n => a[k] < a[n]
    BY <1>1, <2>4
  <2>6. 1 < k => a[1] < a[k]
    BY <1>1, <2>4
  <2> QED BY <2>2, <2>3, <2>4, <2>5, <2>6
<1>6. Max(S) \in S /\ \A y \in S : Max(S) >= y
  BY <1>4, <1>5, Zenon DEF Max
<1>7. Min(S) \in S /\ \A y \in S : Min(S) <= y
  BY <1>4, <1>5, Zenon DEF Min
<1> QED BY <1>6, <1>7

(* What a function takes a finite set to is finite.                        *)
LEMMA ImageFinite ==
  ASSUME NEW S, IsFiniteSet(S), NEW f, f = [x \in S |-> f[x]]
  PROVE  IsFiniteSet({f[x] : x \in S})
<1> DEFINE T == {f[x] : x \in S}
<1>1. f \in Surjection(S, T)
  <2>1. f \in [S -> T] /\ \A t \in T : \E x \in S : f[x] = t
    OBVIOUS
  <2> HIDE DEF T
  <2> QED BY <2>1 DEF Surjection
<1> HIDE DEF T
<1>2. IsFiniteSet(T)
  BY <1>1, FS_Surjection
<1> QED BY <1>2 DEF T
=============================================================================
