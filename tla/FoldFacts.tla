------------------------------ MODULE FoldFacts ------------------------------
(***************************************************************************)
(* Induction over numbers, and what a fold over a sequence computes.       *)
(*                                                                         *)
(* The induction theorems of the library speak of a predicate, which an    *)
(* application would have to substitute; here the induction is over a set  *)
(* of numbers, and the operator of the fold is a constant of the module,   *)
(* which the user of a fold instantiates.                                  *)
(***************************************************************************)
EXTENDS Integers, SequencesExt, SequenceTheorems, WellFoundedInduction,
        NaturalsInduction, TLAPS

CONSTANT Op(_, _)

(* A set that contains 0, and n + 1 with n, contains every number.         *)
LEMMA Induction ==
  ASSUME NEW T, 0 \in T, \A n \in Nat : n \in T => n + 1 \in T
  PROVE  Nat \subseteq T
<1> DEFINE U == Nat \ T
<1>1. SUFFICES ASSUME U # {} PROVE FALSE
  OBVIOUS
<1>2. U \subseteq Nat
  OBVIOUS
<1> HIDE DEF U
<1>3. \E x \in U : \A y \in U : ~(<<y, x>> \in OpToRel(<, Nat))
  BY <1>1, <1>2, NatLessThanWellFounded, WFMin
<1>4. PICK x \in U : \A y \in U : ~(<<y, x>> \in OpToRel(<, Nat))
  BY <1>3
<1>5. x \in Nat /\ x \notin T
  BY <1>2 DEF U
<1>6. x # 0 /\ x - 1 \in Nat
  BY <1>5
<1>7. x - 1 \notin T
  <2>1. (x - 1) + 1 = x BY <1>5
  <2> QED BY <1>5, <1>6, <2>1
<1>8. x - 1 \in U
  BY <1>6, <1>7 DEF U
<1>9. <<x - 1, x>> \in OpToRel(<, Nat)
  BY <1>5, <1>6 DEF OpToRel
<1> QED BY <1>4, <1>8, <1>9

(* A set of sequences that contains the empty one, and every extension of  *)
(* a member by one element, contains every sequence.                       *)
LEMMA SeqInduction ==
  ASSUME NEW S, NEW T, << >> \in T,
         \A s \in Seq(S), x \in S : s \in T => Append(s, x) \in T
  PROVE  Seq(S) \subseteq T
<1> DEFINE U == {n \in Nat : \A s \in Seq(S) : Len(s) = n => s \in T}
<1>1. 0 \in U
  <2>1. \A s \in Seq(S) : Len(s) = 0 => s = << >>
    BY EmptySeq
  <2> QED BY <2>1
<1>2. ASSUME NEW n \in Nat, n \in U PROVE n + 1 \in U
  <2>1. ASSUME NEW s \in Seq(S), Len(s) = n + 1 PROVE s \in T
    <3>1. s # << >>
      BY <2>1, EmptySeq
    <3>2. PICK r \in Seq(S), x \in S : s = Append(r, x)
      BY <3>1, SequenceEmptyOrAppend
    <3>3. Len(r) \in Nat /\ Len(s) = Len(r) + 1
      BY <3>2, AppendProperties, LenProperties
    <3>4. Len(r) = n
      BY <2>1, <3>3
    <3>5. r \in T
      BY <1>2, <3>2, <3>4
    <3> QED BY <3>2, <3>5
  <2> QED BY <2>1
<1> HIDE DEF U
<1>3. Nat \subseteq U
  BY <1>1, <1>2, Induction
<1>4. \A s \in Seq(S) : Len(s) \in Nat
  BY LenProperties
<1> QED BY <1>3, <1>4 DEF U

-----------------------------------------------------------------------------
(* The largest element of a set of numbers up to n + 1 that contains it.   *)
LEMMA MaxInit == 
  ASSUME NEW k \in Nat, NEW S \in SUBSET (1..(k + 1)), k + 1 \in S
  PROVE  Max(S) = k + 1
<1>1. \A y \in S : k + 1 >= y
  OBVIOUS
<1>2. \A x \in S : (\A y \in S : x >= y) => x = k + 1
  OBVIOUS
<1> QED BY <1>1, <1>2 DEF Max

(* FoldLeft is defined by recursion over the subsets of the indices, each  *)
(* time leaving out the largest: it is such a function.                    *)
IsIter(base, s, n, it) ==
  it = [S \in SUBSET (1..n) |->
          IF S = {} THEN base ELSE Op(it[S \ {Max(S)}], s[Max(S)])]

LEMMA IterExists ==
  ASSUME NEW base, NEW s
  PROVE  \A n \in Nat : \E it : IsIter(base, s, n, it)
<1> DEFINE T == {n \in Nat : \E it : IsIter(base, s, n, it)}
<1>1. 0 \in T
  <2> DEFINE it == [S \in SUBSET (1..0) |-> base]
  <2>1. SUBSET (1..0) = {{}}
    OBVIOUS
  <2>2. it = [S \in SUBSET (1..0) |-> IF S = {} THEN base ELSE Op(it[S \ {Max(S)}], s[Max(S)])]
    <3>1. \A S \in SUBSET (1..0) : base = IF S = {} THEN base ELSE Op(it[S \ {Max(S)}], s[Max(S)])
      BY <2>1
    <3> HIDE DEF it
    <3>2. [S \in SUBSET (1..0) |-> base]
            = [S \in SUBSET (1..0) |-> IF S = {} THEN base ELSE Op(it[S \ {Max(S)}], s[Max(S)])]
      BY <3>1
    <3> QED BY <3>2 DEF it
  <2> HIDE DEF it
  <2>3. IsIter(base, s, 0, it)
    BY <2>2 DEF IsIter
  <2> QED BY <2>3
<1>2. ASSUME NEW n \in Nat, n \in T PROVE n + 1 \in T
  <2>1. PICK it : IsIter(base, s, n, it)
    BY <1>2
  <2> DEFINE r == [S \in SUBSET (1..(n + 1)) |->
                     IF n + 1 \in S THEN Op(it[S \ {n + 1}], s[n + 1]) ELSE it[S]]
             body(S) == IF S = {} THEN base ELSE Op(r[S \ {Max(S)}], s[Max(S)])
  <2>2. \A S \in SUBSET (1..n) : S \in SUBSET (1..(n + 1)) /\ n + 1 \notin S
    OBVIOUS
  <2>3. \A S \in SUBSET (1..n) : r[S] = it[S]
    BY <2>2
  <2>4. ASSUME NEW S \in SUBSET (1..(n + 1)) PROVE r[S] = body(S)
    <3>1. CASE n + 1 \in S
      <4>1. Max(S) = n + 1
        BY <3>1, MaxInit
      <4>2. S \ {n + 1} \in SUBSET (1..n)
        OBVIOUS
      <4>3. r[S \ {n + 1}] = it[S \ {n + 1}]
        BY <2>3, <4>2
      <4>4. r[S] = Op(it[S \ {n + 1}], s[n + 1])
        BY <3>1
      <4> HIDE DEF r
      <4> QED BY <3>1, <4>1, <4>3, <4>4
    <3>2. CASE n + 1 \notin S
      <4>1. S \in SUBSET (1..n)
        BY <3>2
      <4>2. r[S] = it[S]
        BY <4>1, <2>3
      <4>3. it[S] = IF S = {} THEN base ELSE Op(it[S \ {Max(S)}], s[Max(S)])
        BY <4>1, <2>1 DEF IsIter
      <4>4. S \ {Max(S)} \in SUBSET (1..n)
        BY <4>1
      <4>5. r[S \ {Max(S)}] = it[S \ {Max(S)}]
        BY <4>4, <2>3
      <4> HIDE DEF r
      <4> QED BY <4>2, <4>3, <4>5
    <3> QED BY <3>1, <3>2
  <2>5. r = [S \in SUBSET (1..(n + 1)) |-> r[S]]
    OBVIOUS
  <2> HIDE DEF r
  <2>6. r = [S \in SUBSET (1..(n + 1)) |-> body(S)]
    BY <2>4, <2>5
  <2>7. IsIter(base, s, n + 1, r)
    BY <2>6 DEF IsIter
  <2> QED BY <2>7
<1> HIDE DEF T
<1>3. Nat \subseteq T
  BY <1>1, <1>2, Induction
<1> QED BY <1>3 DEF T

(* The value of the fold on the first k elements *)
LEMMA FoldIter ==
  ASSUME NEW base, NEW n \in Nat, NEW s, DOMAIN s = 1..n
  PROVE  \E it : IsIter(base, s, n, it) /\ FoldLeft(Op, base, s) = it[1..n]
<1> DEFINE it == CHOOSE it : IsIter(base, s, n, it)
<1>1. IsIter(base, s, n, it)
  BY IterExists, Zenon
<1>2. FoldLeft(Op, base, s) = it[1..n]
  BY Zenon DEF FoldLeft, MapThenFoldSet, IsIter
<1> QED BY <1>1, <1>2

(* On the beginnings 1..k of the sequence it is the fold of k elements.    *)
LEMMA IterStart ==
  ASSUME NEW base, NEW n \in Nat, NEW s, NEW it, IsIter(base, s, n, it)
  PROVE  it[{}] = base
BY DEF IsIter

LEMMA IterStep ==
  ASSUME NEW base, NEW n \in Nat, NEW s, NEW it, IsIter(base, s, n, it),
         NEW k \in Nat, k + 1 <= n
  PROVE  it[1..(k + 1)] = Op(it[1..k], s[k + 1])
<1>1. 1..(k + 1) \in SUBSET (1..n) /\ k + 1 \in 1..(k + 1)
  OBVIOUS
<1>2. Max(1..(k + 1)) = k + 1
  BY <1>1, MaxInit
<1>3. (1..(k + 1)) \ {k + 1} = 1..k /\ 1..(k + 1) # {}
  BY <1>1
<1>4. it[1..(k + 1)] = Op(it[(1..(k + 1)) \ {Max(1..(k + 1))}], s[Max(1..(k + 1))])
  BY <1>1, <1>3 DEF IsIter
<1> QED BY <1>2, <1>3, <1>4

(* What a user of FoldLeft needs: its value on the empty sequence, and on  *)
(* a sequence with one element more.                                       *)
LEMMA FoldEmpty == \A base : FoldLeft(Op, base, << >>) = base
<1> SUFFICES ASSUME NEW base PROVE FoldLeft(Op, base, << >>) = base
  OBVIOUS
<1>1. DOMAIN << >> = 1..0
  OBVIOUS
<1>2. PICK it : IsIter(base, << >>, 0, it) /\ FoldLeft(Op, base, << >>) = it[1..0]
  BY <1>1, FoldIter
<1>3. it[{}] = base
  BY <1>2, IterStart
<1>4. 1..0 = {}
  OBVIOUS
<1> QED BY <1>2, <1>3, <1>4

LEMMA FoldAppend ==
  ASSUME NEW base, NEW T, NEW s \in Seq(T), NEW x \in T
  PROVE  FoldLeft(Op, base, Append(s, x)) = Op(FoldLeft(Op, base, s), x)
<1> DEFINE n == Len(s)
           t == Append(s, x)
<1>1. /\ n \in Nat /\ DOMAIN s = 1..n /\ DOMAIN t = 1..(n + 1) /\ t[n + 1] = x
      /\ \A k \in 1..n : t[k] = s[k]
  BY AppendProperties, LenProperties
<1> HIDE DEF n, t
<1>2. PICK a : IsIter(base, s, n, a) /\ FoldLeft(Op, base, s) = a[1..n]
  BY <1>1, FoldIter
<1>3. PICK b : IsIter(base, t, n + 1, b) /\ FoldLeft(Op, base, t) = b[1..(n + 1)]
  BY <1>1, FoldIter
<1>n. n \in Nat /\ n + 1 \in Nat
  BY <1>1
<1> DEFINE U == {k \in Nat : k <= n => b[1..k] = a[1..k]}
<1>4. 0 \in U
  <2>1. a[{}] = base
    BY <1>n, <1>2, IterStart
  <2>2. b[{}] = base
    BY <1>n, <1>3, IterStart
  <2>3. 1..0 = {}
    OBVIOUS
  <2> QED BY <2>1, <2>2, <2>3
<1>5. ASSUME NEW k \in Nat, k \in U PROVE k + 1 \in U
  <2>1. CASE k + 1 <= n
    <3>1. b[1..(k + 1)] = Op(b[1..k], t[k + 1]) 
      BY <1>1, <1>3, <2>1, IterStep
    <3>2. a[1..(k + 1)] = Op(a[1..k], s[k + 1])
      BY <1>1, <1>2, <2>1, IterStep
    <3>3. b[1..k] = a[1..k] /\ t[k + 1] = s[k + 1]
      BY <1>1, <1>5, <2>1
    <3> QED BY <3>1, <3>2, <3>3
  <2>2. CASE ~(k + 1 <= n)
    BY <2>2
  <2> QED BY <2>1, <2>2
<1> HIDE DEF U
<1>6. Nat \subseteq U
  BY <1>4, <1>5, Induction
<1>7. b[1..n] = a[1..n]
  BY <1>1, <1>6 DEF U
<1>8. b[1..(n + 1)] = Op(b[1..n], t[n + 1])
  BY <1>1, <1>3, IterStep
<1> QED BY <1>1, <1>2, <1>3, <1>7, <1>8 DEF t
=============================================================================
