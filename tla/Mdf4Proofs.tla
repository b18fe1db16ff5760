----------------------------- MODULE Mdf4Proofs ------------------------------
(***************************************************************************)
(* Theorem about the measurement file (MeasurementHolds): reading it gives *)
(* back the groups it was written from.                                    *)
(*                                                                         *)
(* The argument follows the writer.  A file is a set of blocks at their    *)
(* addresses (IsFile), which putting and patching keep (PutHolds,          *)
(* PatchHolds); a group, once written, is at addresses that depend on      *)
(* where it begins and on its channels only (GroupAt); the next group      *)
(* changes one link of the block before it and nothing else (GroupIs,      *)
(* BuiltStep).  Then the reader: following the links visits the groups and *)
(* their channels in the order they were written (ChainIs), and the cells  *)
(* cut out of a record are the values put into it (CellTime, CellValue).   *)
(***************************************************************************)
EXTENDS OfflinePipelineProofs

(* The measurement file.  A block is a record, its links are addresses.    *)
IsBlock(b) ==
  /\ b = [id |-> b.id, len |-> b.len, links |-> b.links, data |-> b.data]
  /\ b.len \in Nat /\ b.links \in Seq(Nat)

(* The blocks fill the file, each as long as it states.                    *)
IsFile(f) ==
  /\ f = [size |-> f.size, blocks |-> f.blocks]
  /\ f.size \in Nat
  /\ f.blocks = [a \in DOMAIN f.blocks |-> f.blocks[a]]
  /\ IsFiniteSet(DOMAIN f.blocks)
  /\ \A a \in DOMAIN f.blocks :
       /\ a \in Nat /\ a < f.size /\ IsBlock(f.blocks[a])
       /\ a + f.blocks[a].len \in DOMAIN f.blocks \cup {f.size}

NoLinks(k) == [j \in 1..k |-> 0]

(* What a block is that was put at the end of a file.                      *)
Added(f, g, b) ==
  /\ IsFile(g) /\ g.size = f.size + b.len
  /\ DOMAIN g.blocks = DOMAIN f.blocks \cup {f.size} /\ f.size \notin DOMAIN f.blocks
  /\ g.blocks[f.size] = b
  /\ \A a \in DOMAIN f.blocks : g.blocks[a] = f.blocks[a]

LEMMA AddedIs ==
  \A f, g, b :
    /\ IsFile(f) /\ IsBlock(b) /\ g.size = f.size + b.len /\ b.len > 0
    /\ g = [size |-> g.size, blocks |-> g.blocks]
    /\ g.blocks = With(f.blocks, [a \in {f.size} |-> b])
    => Added(f, g, b)
<1> SUFFICES ASSUME NEW f, NEW g, NEW b,
                    IsFile(f), IsBlock(b), g.size = f.size + b.len, b.len > 0,
                    g = [size |-> g.size, blocks |-> g.blocks],
                    g.blocks = With(f.blocks, [a \in {f.size} |-> b])
             PROVE  Added(f, g, b)
  OBVIOUS
<1>1. f.size \in Nat /\ b.len \in Nat
  BY DEF IsFile, IsBlock
<1>2. f.size \notin DOMAIN f.blocks
  BY DEF IsFile
<1>3. g.blocks = [a \in {f.size} \cup DOMAIN f.blocks |->
                    IF a = f.size THEN b ELSE f.blocks[a]]
  BY DEF With
<1>4. /\ DOMAIN g.blocks = DOMAIN f.blocks \cup {f.size}
      /\ g.blocks[f.size] = b
      /\ \A a \in DOMAIN f.blocks : g.blocks[a] = f.blocks[a]
  BY <1>2, <1>3
<1>5. IsFiniteSet(DOMAIN g.blocks)
  <2>1. IsFiniteSet(DOMAIN f.blocks)
    BY DEF IsFile
  <2> QED BY <1>4, <2>1, FS_AddElement
<1>6. g.size \in Nat /\ f.size < g.size
  BY <1>1
<1>7. ASSUME NEW a \in DOMAIN g.blocks
      PROVE  /\ a \in Nat /\ a < g.size /\ IsBlock(g.blocks[a])
             /\ a + g.blocks[a].len \in DOMAIN g.blocks \cup {g.size}
  <2>1. CASE a = f.size
    BY <1>1, <1>4, <1>6, <2>1
  <2>2. CASE a \in DOMAIN f.blocks
    <3>1. /\ a \in Nat /\ a < f.size /\ IsBlock(f.blocks[a])
          /\ a + f.blocks[a].len \in DOMAIN f.blocks \cup {f.size}
      BY <2>2 DEF IsFile
    <3> QED BY <1>1, <1>4, <1>6, <2>2, <3>1
  <2> QED BY <1>4, <2>1, <2>2
<1>8. g.blocks = [a \in DOMAIN g.blocks |-> g.blocks[a]]
  BY <1>3
<1>9. IsFile(g)
  BY <1>5, <1>6, <1>7, <1>8 DEF IsFile
<1> QED BY <1>2, <1>4, <1>9 DEF Added

LEMMA PutIs ==
  \A f, id, links, body, data :
    IsFile(f) /\ links \in Nat /\ body \in Nat
    => Added(f, Put(f, id, links, body, body, data),
             [id |-> id, len |-> 24 + 8 * links + body, links |-> NoLinks(links), data |-> data])
<1> SUFFICES ASSUME NEW f, NEW id, NEW links \in Nat, NEW body \in Nat, NEW data, IsFile(f)
             PROVE  Added(f, Put(f, id, links, body, body, data),
                          [id |-> id, len |-> 24 + 8 * links + body,
                           links |-> NoLinks(links), data |-> data])
  OBVIOUS
<1> DEFINE l == NoLinks(links)
           n == 24 + 8 * links + body
           b == [id |-> id, len |-> n, links |-> l, data |-> data]
           g == Put(f, id, links, body, body, data)
<1>1. g = [size |-> f.size + 24 + 8 * links + body, blocks |-> With(f.blocks, [a \in {f.size} |-> b])]
  BY DEF Put, NoLinks
<1>2. l \in Seq(Nat)
  BY SeqDef DEF NoLinks
<1>3. n \in Nat /\ n > 0
  OBVIOUS
<1>4. f.size + 24 + 8 * links + body = f.size + n
  BY DEF IsFile
<1> HIDE DEF l, n, g
<1>5. IsBlock(b)
  BY <1>2, <1>3 DEF IsBlock
<1>6. /\ g.size = f.size + b.len /\ b.len > 0
      /\ g = [size |-> g.size, blocks |-> g.blocks]
      /\ g.blocks = With(f.blocks, [a \in {f.size} |-> b])
  BY <1>1, <1>3, <1>4
<1> HIDE DEF b
<1>7. Added(f, g, b)
  BY <1>5, <1>6, AddedIs
<1> QED BY <1>7 DEF b, n, l, g

(* What a patch changes: one link of one block.                            *)
Patched(f, g, at, link, to) ==
  /\ IsFile(g) /\ g.size = f.size /\ DOMAIN g.blocks = DOMAIN f.blocks
  /\ g.blocks[at] = [f.blocks[at] EXCEPT !.links = [@ EXCEPT ![link] = to]]
  /\ \A a \in DOMAIN f.blocks : a # at => g.blocks[a] = f.blocks[a]

LEMMA PatchIs ==
  \A f, at, link, to :
    /\ IsFile(f) /\ at \in DOMAIN f.blocks /\ link \in DOMAIN f.blocks[at].links /\ to \in Nat
    => Patched(f, Patch(f, at, link, to), at, link, to)
<1> SUFFICES ASSUME NEW f, NEW at, NEW link, NEW to \in Nat,
                    IsFile(f), at \in DOMAIN f.blocks, link \in DOMAIN f.blocks[at].links
             PROVE  Patched(f, Patch(f, at, link, to), at, link, to)
  OBVIOUS
<1> DEFINE b == f.blocks[at]
           l == [b.links EXCEPT ![link] = to]
           c == [id |-> b.id, len |-> b.len, links |-> l, data |-> b.data]
           g == Patch(f, at, link, to)
<1>1. IsBlock(b)
  BY DEF IsFile
<1>2. l \in Seq(Nat)
  <2>1. b.links \in Seq(Nat)
    BY <1>1 DEF IsBlock
  <2>2. link \in DOMAIN b.links
    OBVIOUS
  <2> HIDE DEF b
  <2>3. link \in 1..Len(b.links)
    BY <2>1, <2>2, LenProperties
  <2> QED BY <2>1, <2>3, ExceptSeq
<1>3. c = [b EXCEPT !.links = l]
  <2>1. b = [id |-> b.id, len |-> b.len, links |-> b.links, data |-> b.data]
    BY <1>1 DEF IsBlock
  <2> HIDE DEF b, l
  <2> QED BY <2>1
<1>4. IsBlock(c) /\ c.len = b.len
  BY <1>1, <1>2 DEF IsBlock
<1>5. g = [size |-> f.size, blocks |-> [f.blocks EXCEPT ![at] = c]]
  <2>1. g = [f EXCEPT !.blocks = [f.blocks EXCEPT ![at] = [b EXCEPT !.links = l]]]
    BY DEF Patch
  <2>2. f = [size |-> f.size, blocks |-> f.blocks]
    BY DEF IsFile
  <2> HIDE DEF g, b, c, l
  <2> QED BY <1>3, <2>1, <2>2
<1>6. /\ g.size = f.size /\ g.blocks = [f.blocks EXCEPT ![at] = c]
      /\ g = [size |-> g.size, blocks |-> g.blocks]
  BY <1>5
<1> HIDE DEF c, g
<1>7. /\ DOMAIN g.blocks = DOMAIN f.blocks
      /\ g.blocks[at] = c
      /\ \A a \in DOMAIN f.blocks : a # at => g.blocks[a] = f.blocks[a]
      /\ g.blocks = [a \in DOMAIN g.blocks |-> g.blocks[a]]
  BY <1>6 DEF IsFile
<1>8. IsFile(g)
  BY <1>4, <1>6, <1>7 DEF IsFile
<1>9. g.blocks[at] = [f.blocks[at] EXCEPT !.links = [@ EXCEPT ![link] = to]]
  BY <1>3, <1>7
<1> QED BY <1>6, <1>7, <1>8, <1>9 DEF Patched, g

-----------------------------------------------------------------------------
(* Texts follow each other at a fixed distance.                            *)
TextSize == 24 + PaddedText
TextAt(s, i) == s + (i - 1) * TextSize

LEMMA TextSizeNat == TextSize \in Nat /\ TextSize > 0
<1>1. PaddedText \in Nat
  BY TextAssumption DEF PaddedText
<1> QED BY <1>1 DEF TextSize

LEMMA TextsApart ==
  \A s, i : s \in Nat /\ i \in Nat /\ i > 0 =>
    /\ TextAt(s, 1) = s /\ TextAt(s, i) \in Nat /\ TextAt(s, i) >= s
    /\ TextAt(s, i + 1) = TextAt(s, i) + TextSize
    /\ \A j \in Nat : i < j => TextAt(s, i) + TextSize <= TextAt(s, j)
<1> SUFFICES ASSUME NEW s \in Nat, NEW i \in Nat, i > 0
             PROVE  /\ TextAt(s, 1) = s /\ TextAt(s, i) \in Nat /\ TextAt(s, i) >= s
                    /\ TextAt(s, i + 1) = TextAt(s, i) + TextSize
                    /\ \A j \in Nat : i < j => TextAt(s, i) + TextSize <= TextAt(s, j)
  OBVIOUS
<1> DEFINE T == TextSize
<1>1. T \in Nat
  BY TextSizeNat
<1> HIDE DEF T
<1>2. \A k \in Nat : k * T \in Nat /\ (k + 1) * T = k * T + T
  BY <1>1
<1>3. TextAt(s, 1) = s
  <2>1. 0 * T = 0
    BY <1>1
  <2> QED BY <2>1 DEF TextAt, T
<1>4. i - 1 \in Nat /\ (i - 1) + 1 = i /\ (i + 1) - 1 = i
  OBVIOUS
<1>5. TextAt(s, i) \in Nat /\ TextAt(s, i) >= s
  <2> DEFINE p == (i - 1) * T
  <2>1. p \in Nat /\ TextAt(s, i) = s + p
    BY <1>2, <1>4 DEF TextAt, T
  <2> HIDE DEF p
  <2> QED BY <2>1
<1>6. TextAt(s, i + 1) = TextAt(s, i) + TextSize
  <2> DEFINE p == (i - 1) * T
             q == i * T
  <2>1. p \in Nat /\ TextAt(s, i) = s + p /\ q = p + T
    BY <1>2, <1>4 DEF TextAt, T
  <2>2. TextAt(s, i + 1) = s + q
    BY <1>4 DEF TextAt, T
  <2> HIDE DEF p, q
  <2> QED BY <1>1, <2>1, <2>2 DEF T
<1>7. ASSUME NEW j \in Nat, i < j PROVE TextAt(s, i) + TextSize <= TextAt(s, j)
  <2> DEFINE p == (i - 1) * T
             q == (j - 1) * T
             r == (j - 1 - i) * T
  <2>1. p \in Nat /\ q \in Nat /\ r \in Nat
    BY <1>1, <1>2, <1>4, <1>7
  <2>2. q = p + T + r
    <3>1. \A a, b \in Nat : (a + b + 1) * T = a * T + T + b * T
      BY <1>1
    <3>2. i - 1 \in Nat /\ j - 1 - i \in Nat /\ j - 1 = (i - 1) + (j - 1 - i) + 1
      BY <1>7
    <3> QED BY <3>1, <3>2
  <2>3. TextAt(s, i) = s + p /\ TextAt(s, j) = s + q
    BY DEF TextAt, T
  <2> HIDE DEF p, q, r
  <2> QED BY <1>1, <2>1, <2>2, <2>3 DEF T
<1> QED BY <1>3, <1>5, <1>6, <1>7

LEMMA TextsDistinct ==
  \A s, i, j : s \in Nat /\ i \in Nat /\ j \in Nat /\ i > 0 /\ j > 0 /\ TextAt(s, i) = TextAt(s, j)
    => i = j
<1> SUFFICES ASSUME NEW s \in Nat, NEW i \in Nat, NEW j \in Nat, i > 0, j > 0,
                    TextAt(s, i) = TextAt(s, j), i < j \/ j < i
             PROVE  FALSE
  OBVIOUS
<1>1. TextSize \in Nat /\ TextSize > 0 /\ TextAt(s, i) \in Nat /\ TextAt(s, j) \in Nat
  BY TextSizeNat, TextsApart
<1>2. i < j => TextAt(s, i) + TextSize <= TextAt(s, j)
  BY TextsApart
<1>3. j < i => TextAt(s, j) + TextSize <= TextAt(s, i)
  BY TextsApart
<1> QED BY <1>1, <1>2, <1>3

(* All blocks but those in X stay as they are.                             *)
Keeps(f, g, X) ==
  /\ IsFile(f) /\ IsFile(g) /\ f.size <= g.size
  /\ DOMAIN f.blocks \subseteq DOMAIN g.blocks
  /\ \A a \in DOMAIN f.blocks : a \notin X => g.blocks[a] = f.blocks[a]

TextsPut(f, g, texts) ==
  /\ Keeps(f, g, {}) /\ g.size = TextAt(f.size, Len(texts) + 1)
  /\ \A i \in 1..Len(texts) : /\ TextAt(f.size, i) \in DOMAIN g.blocks
                              /\ g.blocks[TextAt(f.size, i)].data = texts[i]

LEMMA TextsAre ==
  \A f, texts : IsFile(f) /\ Len(texts) \in Nat /\ DOMAIN texts = 1..Len(texts)
    => TextsPut(f, PutTexts(f, texts), texts)
<1> SUFFICES ASSUME NEW f, NEW texts, IsFile(f), Len(texts) \in Nat,
                    DOMAIN texts = 1..Len(texts)
             PROVE  TextsPut(f, PutTexts(f, texts), texts)
  OBVIOUS
<1> DEFINE n == Len(texts)
           s == f.size
           Place(i) == TextAt(s, i)
           D == {Place(i) : i \in 1..n}
           Nth(a) == CHOOSE i \in 1..n : Place(i) = a
           Block(x) == [id |-> "TX", len |-> TextSize, links |-> << >>, data |-> x]
           new == [a \in D |-> Block(texts[Nth(a)])]
           g == PutTexts(f, texts)
<1>1. g = [size |-> Place(n + 1), blocks |-> With(f.blocks, new)]
  BY DEF PutTexts, TextAt, TextSize
<1>2. s \in Nat /\ n \in Nat
  BY DEF IsFile
<1>3. \A i \in 1..n : Place(i) \in D /\ Nth(Place(i)) = i
  <2>1. SUFFICES ASSUME NEW i \in 1..n PROVE Place(i) \in D /\ Nth(Place(i)) = i
    OBVIOUS
  <2>2. \A j \in 1..n : Place(j) = Place(i) => j = i
    BY <1>2, TextsDistinct
  <2> HIDE DEF Place
  <2> QED BY <2>2
<1>4. \A i \in 1..n : /\ Place(i) \in Nat /\ s <= Place(i) /\ Place(i) < Place(n + 1)
                      /\ Place(i) + TextSize = Place(i + 1)
  <2>1. SUFFICES ASSUME NEW i \in 1..n
                 PROVE  /\ Place(i) \in Nat /\ s <= Place(i) /\ Place(i) < Place(n + 1)
                        /\ Place(i) + TextSize = Place(i + 1)
    OBVIOUS
  <2>2. /\ Place(i) \in Nat /\ s <= Place(i) /\ Place(i) + TextSize = Place(i + 1)
        /\ Place(i) + TextSize <= Place(n + 1) /\ Place(n + 1) \in Nat
    BY <1>2, TextsApart
  <2> HIDE DEF Place
  <2> QED BY <2>2, TextSizeNat
<1>5. Place(n + 1) \in Nat /\ s <= Place(n + 1) /\ Place(1) = s
  BY <1>2, TextsApart
<1> HIDE DEF Place, Nth
<1>6. DOMAIN new = D /\ D \cap DOMAIN f.blocks = {}
  <2>1. \A a \in D : a >= s
    BY <1>4
  <2>2. \A a \in DOMAIN f.blocks : a \in Nat /\ a < s
    BY DEF IsFile
  <2> QED BY <1>2, <1>4, <2>1, <2>2
<1>7. \A i \in 1..n : new[Place(i)] = Block(texts[i])
  BY <1>3
<1>8. \A i \in 1..n : IsBlock(new[Place(i)]) /\ new[Place(i)].len = TextSize /\ new[Place(i)].data = texts[i]
  <2>1. \A x : IsBlock(Block(x)) /\ Block(x).len = TextSize /\ Block(x).data = x
    <3>1. << >> \in Seq(Nat)
      BY EmptySeq
    <3> QED BY <3>1, TextSizeNat DEF IsBlock
  <2> HIDE DEF Block, new
  <2> QED BY <1>7, <2>1
<1>9. IsFiniteSet(D)
  <2>1. IsFiniteSet(1..n)
    BY <1>2, FS_Interval
  <2> DEFINE h == [i \in 1..n |-> Place(i)]
  <2>2. IsFiniteSet({h[i] : i \in 1..n})
    <3>1. h = [i \in 1..n |-> h[i]]
      OBVIOUS
    <3> HIDE DEF h
    <3> QED BY <2>1, <3>1, ImageFinite
  <2>3. {h[i] : i \in 1..n} = D
    OBVIOUS
  <2> QED BY <2>2, <2>3
<1> HIDE DEF new
<1>10. /\ g.size = Place(n + 1) /\ g = [size |-> g.size, blocks |-> g.blocks]
       /\ g.blocks = With(f.blocks, new)
  BY <1>1
<1>11. /\ DOMAIN g.blocks = DOMAIN f.blocks \cup D
       /\ \A a \in D : g.blocks[a] = new[a]
       /\ \A a \in DOMAIN f.blocks : g.blocks[a] = f.blocks[a]
       /\ g.blocks = [a \in DOMAIN g.blocks |-> g.blocks[a]]
  BY <1>6, <1>10 DEF With
<1> HIDE DEF g
<1>12. \A a \in DOMAIN g.blocks :
         /\ a \in Nat /\ a < g.size /\ IsBlock(g.blocks[a])
         /\ a + g.blocks[a].len \in DOMAIN g.blocks \cup {g.size}
  <2>1. ASSUME NEW i \in 1..n
        PROVE  /\ Place(i) \in Nat /\ Place(i) < g.size /\ IsBlock(g.blocks[Place(i)])
               /\ Place(i) + g.blocks[Place(i)].len \in DOMAIN g.blocks \cup {g.size}
    <3>1. g.blocks[Place(i)] = new[Place(i)] /\ Place(i) + g.blocks[Place(i)].len = Place(i + 1)
      BY <1>3, <1>4, <1>8, <1>11
    <3>2. CASE i = n
      BY <1>4, <1>8, <1>10, <3>1, <3>2
    <3>3. CASE i # n
      <4>1. i + 1 \in 1..n
        <5> HIDE DEF n, D
        <5> QED BY <1>2, <3>3
      <4>2. Place(i + 1) \in DOMAIN g.blocks
        BY <1>3, <1>11, <4>1
      <4> QED BY <1>4, <1>8, <1>10, <3>1, <4>2
    <3> QED BY <3>2, <3>3
  <2>2. ASSUME NEW a \in DOMAIN f.blocks
        PROVE  /\ a \in Nat /\ a < g.size /\ IsBlock(g.blocks[a])
               /\ a + g.blocks[a].len \in DOMAIN g.blocks \cup {g.size}
    <3>1. /\ a \in Nat /\ a < s /\ IsBlock(f.blocks[a])
          /\ a + f.blocks[a].len \in DOMAIN f.blocks \cup {s}
      BY DEF IsFile
    <3>2. s \in DOMAIN g.blocks \cup {g.size}
      <4>1. CASE n = 0
        BY <1>5, <1>10, <4>1
      <4>2. CASE n # 0
        <5>1. 1 \in 1..n
          BY <1>2, <4>2
        <5> QED BY <1>3, <1>5, <1>11, <5>1
      <4> QED BY <4>1, <4>2
    <3> QED BY <1>2, <1>5, <1>10, <1>11, <3>1, <3>2
  <2>3. \A a \in D : \E i \in 1..n : a = Place(i)
    OBVIOUS
  <2> HIDE DEF D
  <2> QED BY <1>11, <2>1, <2>2, <2>3
<1>13. IsFile(g)
  <2>1. IsFiniteSet(DOMAIN g.blocks)
    <3>1. IsFiniteSet(DOMAIN f.blocks)
      BY DEF IsFile
    <3> DEFINE E == DOMAIN f.blocks
    <3> HIDE DEF D, E
    <3>2. IsFiniteSet(E) /\ IsFiniteSet(D)
      BY <1>9, <3>1 DEF E
    <3>3. IsFiniteSet(E \cup D)
      BY <3>2, FS_Union
    <3> QED BY <1>11, <3>3 DEF E
  <2>2. g.size \in Nat
    BY <1>5, <1>10
  <2> QED BY <1>10, <1>11, <1>12, <2>1, <2>2 DEF IsFile
<1>14. Keeps(f, g, {})
  BY <1>5, <1>10, <1>11, <1>13 DEF Keeps
<1>15. \A i \in 1..n : Place(i) \in DOMAIN g.blocks /\ g.blocks[Place(i)].data = texts[i]
  BY <1>3, <1>8, <1>11
<1> QED BY <1>10, <1>14, <1>15 DEF TextsPut, Place, g

LEMMA AddedKeeps == \A f, g, b : IsFile(f) /\ IsBlock(b) /\ Added(f, g, b) => Keeps(f, g, {})
BY DEF Added, Keeps, IsFile, IsBlock

LEMMA PatchedKeeps ==
  \A f, g, at, link, to : IsFile(f) /\ Patched(f, g, at, link, to) => Keeps(f, g, {at})
<1> SUFFICES ASSUME NEW f, NEW g, NEW at, NEW link, NEW to, IsFile(f), Patched(f, g, at, link, to)
             PROVE  Keeps(f, g, {at})
  OBVIOUS
<1>1. f.size \in Nat
  BY DEF IsFile
<1> QED BY <1>1 DEF Patched, Keeps

LEMMA KeepsOn ==
  \A f, g, h, X, Y : Keeps(f, g, X) /\ Keeps(g, h, Y) => Keeps(f, h, X \cup Y)
<1> SUFFICES ASSUME NEW f, NEW g, NEW h, NEW X, NEW Y, Keeps(f, g, X), Keeps(g, h, Y)
             PROVE  Keeps(f, h, X \cup Y)
  OBVIOUS
<1>1. f.size \in Nat /\ g.size \in Nat /\ h.size \in Nat
  BY DEF Keeps, IsFile
<1> QED BY <1>1 DEF Keeps

(* What matters of a block: its data and its links.                        *)
Holds(f, a, k, data) ==
  a \in DOMAIN f.blocks /\ DOMAIN f.blocks[a].links = 1..k /\ f.blocks[a].data = data

LinkIs(f, a, k, to) == f.blocks[a].links[k] = to

(* A block that was put, and a block that was patched.                     *)
PutAt(f, g, links, len, data) ==
  /\ Keeps(f, g, {}) /\ g.size = f.size + len
  /\ Holds(g, f.size, links, data)
  /\ \A k \in 1..links : LinkIs(g, f.size, k, 0)

Relinked(f, g, at, n, data, link, to) ==
  /\ Holds(g, at, n, data) /\ LinkIs(g, at, link, to)
  /\ \A k \in 1..n : k # link => g.blocks[at].links[k] = f.blocks[at].links[k]

LEMMA PutHolds ==
  \A f, id, links, body, written, data :
    IsFile(f) /\ links \in Nat /\ body \in Nat /\ written = body
    => PutAt(f, Put(f, id, links, body, written, data), links, 24 + 8 * links + body, data)
<1> SUFFICES ASSUME NEW f, NEW id, NEW links \in Nat, NEW body \in Nat, NEW data, IsFile(f)
             PROVE  PutAt(f, Put(f, id, links, body, body, data), links,
                          24 + 8 * links + body, data)
  OBVIOUS
<1> DEFINE b == [id |-> id, len |-> 24 + 8 * links + body, links |-> NoLinks(links), data |-> data]
           g == Put(f, id, links, body, body, data)
<1>1. Added(f, g, b)
  BY PutIs
<1> HIDE DEF g
<1>2. IsBlock(b)
  <2>1. NoLinks(links) \in Seq(Nat)
    BY SeqDef DEF NoLinks
  <2> QED BY <2>1 DEF IsBlock
<1>3. Keeps(f, g, {})
  <2> HIDE DEF b
  <2> QED BY <1>1, <1>2, AddedKeeps
<1>4. b.len = 24 + 8 * links + body /\ b.links = NoLinks(links) /\ b.data = data
  OBVIOUS
<1> HIDE DEF b
<1>5. g.size = f.size + (24 + 8 * links + body) /\ f.size \in DOMAIN g.blocks /\ g.blocks[f.size] = b
  BY <1>1, <1>4 DEF Added
<1>6. Holds(g, f.size, links, data) /\ \A k \in 1..links : LinkIs(g, f.size, k, 0)
  BY <1>4, <1>5 DEF Holds, LinkIs, NoLinks
<1> QED BY <1>3, <1>5, <1>6 DEF g, PutAt

LEMMA PatchHolds ==
  \A f, at, n, data, link, to :
    IsFile(f) /\ Holds(f, at, n, data) /\ link \in 1..n /\ to \in Nat
    => /\ Keeps(f, Patch(f, at, link, to), {at}) /\ Patch(f, at, link, to).size = f.size
       /\ Relinked(f, Patch(f, at, link, to), at, n, data, link, to)
<1> SUFFICES ASSUME NEW f, NEW at, NEW n, NEW data, NEW link \in 1..n, NEW to \in Nat,
                    IsFile(f), Holds(f, at, n, data)
             PROVE  /\ Keeps(f, Patch(f, at, link, to), {at}) /\ Patch(f, at, link, to).size = f.size
                    /\ Relinked(f, Patch(f, at, link, to), at, n, data, link, to)
  OBVIOUS
<1> DEFINE g == Patch(f, at, link, to)
<1>1. Patched(f, g, at, link, to)
  BY PatchIs DEF Holds
<1> HIDE DEF g
<1>2. Keeps(f, g, {at}) /\ g.size = f.size
  BY <1>1, PatchedKeeps DEF Patched
<1>3. IsBlock(f.blocks[at])
  BY DEF Holds, IsFile
<1> DEFINE b == f.blocks[at]
<1>4. b = [id |-> b.id, len |-> b.len, links |-> b.links, data |-> b.data]
  BY <1>3 DEF IsBlock
<1>5. g.blocks[at] = [b EXCEPT !.links = [@ EXCEPT ![link] = to]] /\ at \in DOMAIN g.blocks
  BY <1>1 DEF Patched, Holds
<1>6. DOMAIN b.links = 1..n /\ b.data = data
  BY DEF Holds
<1> HIDE DEF b
<1>7. /\ g.blocks[at].links = [b.links EXCEPT ![link] = to]
      /\ g.blocks[at].data = b.data
  BY <1>4, <1>5
<1>8. Holds(g, at, n, data)
  BY <1>5, <1>6, <1>7 DEF Holds
<1>9. LinkIs(g, at, link, to) /\ \A k \in 1..n : k # link => g.blocks[at].links[k] = b.links[k]
  BY <1>6, <1>7 DEF LinkIs
<1> QED BY <1>2, <1>8, <1>9 DEF g, b, Relinked

(* Blocks out of the way of a patch.                                       *)
LEMMA KeptHolds ==
  \A f, g, X, a, n, data :
    Keeps(f, g, X) /\ a \notin X /\ Holds(f, a, n, data)
    => Holds(g, a, n, data) /\ g.blocks[a] = f.blocks[a]
BY DEF Keeps, Holds

(* A relinked block, after what else was written.                          *)
LEMMA RelinkedOn ==
  \A f, g, h, X, at, n, data, link, to :
    Relinked(f, g, at, n, data, link, to) /\ Keeps(g, h, X) /\ at \notin X
    => Relinked(f, h, at, n, data, link, to)
<1> SUFFICES ASSUME NEW f, NEW g, NEW h, NEW X, NEW at, NEW n, NEW data, NEW link, NEW to,
                    Relinked(f, g, at, n, data, link, to), Keeps(g, h, X), at \notin X
             PROVE  Relinked(f, h, at, n, data, link, to)
  OBVIOUS
<1>1. Holds(g, at, n, data)
  BY DEF Relinked
<1>2. Holds(h, at, n, data) /\ h.blocks[at] = g.blocks[at]
  BY <1>1, KeptHolds
<1> QED BY <1>2 DEF Relinked, LinkIs

LEMMA KeptLink ==
  \A f, g, X, a, n, data, k, to :
    Keeps(f, g, X) /\ a \notin X /\ Holds(f, a, n, data) /\ LinkIs(f, a, k, to)
    => LinkIs(g, a, k, to)
BY KeptHolds DEF LinkIs

(* The heads of a group behind its texts: the data group at d, linked from *)
(* the block p, and its channel group, named by the text at t.             *)
Heads(f, p, t, head) ==
  LET a == Patch(Put(f, "DG", 4, 8, 8, "group"), p, 1, f.size)
      b == Put(a, "CG", 6, 32, 8 + 8 + 2 + 2 + 4 + 4 + 4, head)
  IN  Patch(Patch(b, a.size, 3, t), f.size, 2, a.size)

HeadsPut(f, h, p, n, data, t, head) ==
  LET d == f.size
      c == f.size + 64
  IN  /\ Keeps(f, h, {p}) /\ h.size = d + 168
      /\ Relinked(f, h, p, n, data, 1, d)
      /\ Holds(h, d, 4, "group") /\ LinkIs(h, d, 1, 0) /\ LinkIs(h, d, 2, c)
      /\ Holds(h, c, 6, head) /\ LinkIs(h, c, 2, 0) /\ LinkIs(h, c, 3, t)

LEMMA HeadsAre ==
  \A f, p, n, data, t, head :
    IsFile(f) /\ Holds(f, p, n, data) /\ 1 \in 1..n /\ t \in Nat
    => HeadsPut(f, Heads(f, p, t, head), p, n, data, t, head)
<1> SUFFICES ASSUME NEW f, NEW p, NEW n, NEW data, NEW t \in Nat, NEW head,
                    IsFile(f), Holds(f, p, n, data), 1 \in 1..n
             PROVE  HeadsPut(f, Heads(f, p, t, head), p, n, data, t, head)
  OBVIOUS
<1> DEFINE d == f.size
           c == f.size + 64
           g == Put(f, "DG", 4, 8, 8, "group")
           a == Patch(g, p, 1, d)
           b == Put(a, "CG", 6, 32, 8 + 8 + 2 + 2 + 4 + 4 + 4, head)
           e == Patch(b, c, 3, t)
           h == Patch(e, d, 2, c)
<1>1. Heads(f, p, t, head) = Patch(Patch(b, a.size, 3, t), d, 2, a.size)
  BY DEF Heads
<1>2. d \in Nat /\ c \in Nat /\ p # d /\ p # c /\ c # d
  BY DEF IsFile, Holds
<1>3. PutAt(f, g, 4, 64, "group")
  BY PutHolds
<1> HIDE DEF g
<1>4. /\ Keeps(f, g, {}) /\ g.size = d + 64 /\ Holds(g, d, 4, "group") /\ IsFile(g)
      /\ LinkIs(g, d, 1, 0) /\ Holds(g, p, n, data) /\ g.blocks[p] = f.blocks[p]
  <2>1. /\ Keeps(f, g, {}) /\ g.size = d + 64 /\ Holds(g, d, 4, "group")
        /\ LinkIs(g, d, 1, 0)
    BY <1>3 DEF PutAt
  <2>2. Holds(g, p, n, data) /\ g.blocks[p] = f.blocks[p]
    BY <2>1, KeptHolds
  <2> QED BY <2>1, <2>2 DEF Keeps
<1>5. Keeps(g, a, {p}) /\ a.size = g.size /\ Relinked(g, a, p, n, data, 1, d)
  <2> HIDE DEF d
  <2> QED BY <1>2, <1>4, PatchHolds, Zenon
<1> HIDE DEF a
<1>6. /\ Keeps(f, a, {p}) /\ a.size = c /\ IsFile(a) /\ Holds(a, d, 4, "group")
      /\ LinkIs(a, d, 1, 0) /\ Relinked(f, a, p, n, data, 1, d)
  <2>1. Keeps(f, a, {} \cup {p})
    BY <1>4, <1>5, KeepsOn
  <2>2. Keeps(f, a, {p}) /\ a.size = c /\ IsFile(a)
    BY <1>4, <1>5, <2>1 DEF Keeps
  <2>3. Holds(a, d, 4, "group") /\ LinkIs(a, d, 1, 0)
    BY <1>2, <1>4, <1>5, KeptHolds, KeptLink
  <2> QED BY <1>4, <1>5, <2>2, <2>3 DEF Relinked
<1>7. PutAt(a, b, 6, 104, head)
  BY <1>6, PutHolds
<1>8. /\ Keeps(a, b, {}) /\ b.size = c + 104 /\ Holds(b, c, 6, head) /\ IsFile(b)
      /\ LinkIs(b, c, 2, 0)
  BY <1>6, <1>7 DEF PutAt, Keeps
<1> HIDE DEF b
<1>e. Heads(f, p, t, head) = h
  BY <1>1, <1>6
<1>9. Keeps(b, e, {c}) /\ e.size = b.size /\ Relinked(b, e, c, 6, head, 3, t)
  <2>1. 3 \in 1..6
    OBVIOUS
  <2> HIDE DEF c
  <2> QED BY <1>8, <2>1, PatchHolds, Zenon
<1> HIDE DEF e
<1>10. Keeps(a, e, {c}) /\ IsFile(e)
  <2>1. Keeps(a, e, {} \cup {c})
    BY <1>8, <1>9, KeepsOn
  <2> QED BY <1>9, <2>1 DEF Keeps
<1>11. /\ Holds(e, d, 4, "group") /\ LinkIs(e, d, 1, 0)
       /\ Holds(e, c, 6, head) /\ LinkIs(e, c, 3, t) /\ LinkIs(e, c, 2, 0)
  <2>1. Holds(e, d, 4, "group") /\ LinkIs(e, d, 1, 0)
    BY <1>2, <1>6, <1>10, KeptHolds, KeptLink
  <2>2. LinkIs(e, c, 2, 0)
    BY <1>8, <1>9 DEF Relinked, LinkIs
  <2> QED BY <1>9, <2>1, <2>2 DEF Relinked
<1>12. Keeps(e, h, {d}) /\ h.size = e.size /\ Relinked(e, h, d, 4, "group", 2, c)
  <2>1. 2 \in 1..4
    OBVIOUS
  <2> HIDE DEF c, d
  <2> QED BY <1>2, <1>10, <1>11, <2>1, PatchHolds, Zenon
<1> HIDE DEF h
<1>13. /\ Holds(h, d, 4, "group") /\ LinkIs(h, d, 1, 0) /\ LinkIs(h, d, 2, c)
       /\ Holds(h, c, 6, head) /\ LinkIs(h, c, 3, t) /\ LinkIs(h, c, 2, 0)
  <2>1. Holds(h, d, 4, "group") /\ LinkIs(h, d, 1, 0) /\ LinkIs(h, d, 2, c)
    BY <1>11, <1>12 DEF Relinked, LinkIs
  <2> QED BY <1>2, <1>11, <1>12, <2>1, KeptHolds, KeptLink
<1>14. Keeps(a, h, {c, d})
  <2>1. Keeps(a, h, {c} \cup {d})
    BY <1>10, <1>12, KeepsOn
  <2>2. {c} \cup {d} = {c, d}
    OBVIOUS
  <2> QED BY <2>1, <2>2
<1>15. Relinked(f, h, p, n, data, 1, d)
  BY <1>2, <1>6, <1>14, RelinkedOn
<1>16. Keeps(f, h, {p})
  <2>1. Keeps(f, h, {p} \cup {c, d})
    BY <1>6, <1>14, KeepsOn
  <2>2. c \notin DOMAIN f.blocks /\ d \notin DOMAIN f.blocks
    BY DEF IsFile
  <2> QED BY <2>1, <2>2 DEF Keeps
<1>17. h.size = d + 168
  BY <1>2, <1>8, <1>9, <1>12
<1> QED BY <1>e, <1>13, <1>15, <1>16, <1>17 DEF HeadsPut

(* A channel, linked from its group or from the channel before it.         *)
Told(cn) == [master |-> cn.master, type |-> cn.type, offset |-> cn.offset]

ChannelAt(f, a, cn) ==
  Holds(f, a, 8, Told(cn)) /\ LinkIs(f, a, 3, cn.name) /\ LinkIs(f, a, 7, cn.unit)

IsState(v) == v = [file |-> v.file, cg |-> v.cg, last_cn |-> v.last_cn] /\ IsFile(v.file)

ChannelPut(v, w, cn, p, n, data, link) ==
  LET f == v.file
      a == v.file.size
  IN  /\ IsState(w) /\ w.cg = v.cg /\ w.last_cn = a
      /\ Keeps(f, w.file, {p}) /\ w.file.size = a + 160
      /\ Relinked(f, w.file, p, n, data, link, a)
      /\ ChannelAt(w.file, a, cn) /\ LinkIs(w.file, a, 1, 0)

(* The links of a patched block but the one that was patched.              *)
LEMMA OtherLink ==
  \A f, g, at, n, data, link, to, k, x :
    Relinked(f, g, at, n, data, link, to) /\ k \in 1..n /\ k # link /\ LinkIs(f, at, k, x)
    => LinkIs(g, at, k, x)
BY DEF Relinked, LinkIs

LEMMA ChannelIs ==
  \A v, cn, p, n, data, link :
    /\ IsState(v) /\ cn.name \in Nat /\ cn.unit \in Nat
    /\ Holds(v.file, p, n, data) /\ link \in 1..n
    /\ v.last_cn # 0 => p = v.last_cn /\ link = 1
    /\ v.last_cn = 0 => p = v.cg /\ link = 2
    => ChannelPut(v, PutChannel(v, cn), cn, p, n, data, link)
<1> SUFFICES ASSUME NEW v, NEW cn, NEW p, NEW n, NEW data, NEW link \in 1..n,
                    IsState(v), cn.name \in Nat, cn.unit \in Nat,
                    Holds(v.file, p, n, data),
                    v.last_cn # 0 => p = v.last_cn /\ link = 1,
                    v.last_cn = 0 => p = v.cg /\ link = 2
             PROVE  ChannelPut(v, PutChannel(v, cn), cn, p, n, data, link)
  OBVIOUS
<1> DEFINE f == v.file
           a == f.size
           x == cn.name
           y == cn.unit
           b == Put(f, "CN", 8, 72, 1 + 1 + 1 + 1 + 4 + 4 + 4 + 4 + 1 + 1 + 2 + 6 * 8, Told(cn))
           e == Patch(b, a, 3, x)
           g == Patch(e, a, 7, y)
           h == Patch(g, p, link, a)
           w == PutChannel(v, cn)
<1>1. w = [v EXCEPT !.last_cn = a, !.file = h]
  BY DEF PutChannel, Told
<1>2. w = [file |-> h, cg |-> v.cg, last_cn |-> a]
  <2>1. v = [file |-> v.file, cg |-> v.cg, last_cn |-> v.last_cn]
    BY DEF IsState
  <2> HIDE DEF h, a, w
  <2> QED BY <1>1, <2>1
<1> HIDE DEF w
<1>3. IsFile(f) /\ a \in Nat /\ p # a /\ a \notin DOMAIN f.blocks
  BY DEF IsState, IsFile, Holds
<1>4. PutAt(f, b, 8, 160, Told(cn))
  BY <1>3, PutHolds
<1> HIDE DEF b
<1>5. /\ Keeps(f, b, {}) /\ b.size = a + 160 /\ Holds(b, a, 8, Told(cn))
      /\ LinkIs(b, a, 1, 0) /\ IsFile(b)
  BY <1>4 DEF PutAt, Keeps
<1>6. 1 \in 1..8 /\ 3 \in 1..8 /\ 7 \in 1..8 /\ 1 # 3 /\ 1 # 7 /\ 3 # 7
  OBVIOUS
<1>7. /\ Keeps(b, e, {a}) /\ e.size = b.size /\ Relinked(b, e, a, 8, Told(cn), 3, x)
  <2> HIDE DEF a, x
  <2>1. x \in Nat
    BY DEF x
  <2> QED BY <1>5, <1>6, <2>1, PatchHolds, Zenon
<1> HIDE DEF e
<1>8. IsFile(e) /\ Holds(e, a, 8, Told(cn)) /\ LinkIs(e, a, 1, 0) /\ LinkIs(e, a, 3, x)
  <2> HIDE DEF a, x
  <2>1. IsFile(e)
    BY <1>7 DEF Keeps
  <2>2. LinkIs(e, a, 1, 0)
    <3>1. Relinked(b, e, a, 8, Told(cn), 3, x) /\ LinkIs(b, a, 1, 0)
      BY <1>5, <1>7
    <3> QED BY <1>6, <3>1, OtherLink
  <2> QED BY <1>7, <2>1, <2>2 DEF Relinked
<1>9. /\ Keeps(e, g, {a}) /\ g.size = e.size /\ Relinked(e, g, a, 8, Told(cn), 7, y)
  <2> HIDE DEF a, y
  <2>1. y \in Nat
    BY DEF y
  <2> QED BY <1>6, <1>8, <2>1, PatchHolds, Zenon
<1> HIDE DEF g
<1>10. /\ IsFile(g) /\ Holds(g, a, 8, Told(cn)) /\ LinkIs(g, a, 1, 0) /\ LinkIs(g, a, 3, x)
       /\ LinkIs(g, a, 7, y)
  <2> HIDE DEF a, x, y
  <2>1. IsFile(g)
    BY <1>9 DEF Keeps
  <2>2. LinkIs(g, a, 1, 0) /\ LinkIs(g, a, 3, x)
    <3>1. Relinked(e, g, a, 8, Told(cn), 7, y) /\ LinkIs(e, a, 1, 0) /\ LinkIs(e, a, 3, x)
      BY <1>8, <1>9
    <3> QED BY <1>6, <3>1, OtherLink
  <2> QED BY <1>9, <2>1, <2>2 DEF Relinked
<1>11. Keeps(f, g, {a})
  <2>1. Keeps(f, e, {} \cup {a})
    BY <1>5, <1>7, KeepsOn
  <2>2. Keeps(f, g, ({} \cup {a}) \cup {a})
    BY <1>9, <2>1, KeepsOn
  <2>3. ({} \cup {a}) \cup {a} = {a}
    OBVIOUS
  <2> QED BY <2>2, <2>3
<1>12. Holds(g, p, n, data) /\ g.blocks[p] = f.blocks[p]
  <2>1. p \notin {a}
    BY <1>3
  <2> QED BY <1>11, <2>1, KeptHolds
<1>13. Keeps(g, h, {p}) /\ h.size = g.size /\ Relinked(g, h, p, n, data, link, a)
  <2> HIDE DEF a
  <2> QED BY <1>3, <1>10, <1>12, PatchHolds, Zenon
<1> HIDE DEF h
<1>14. IsFile(h) /\ Relinked(f, h, p, n, data, link, a)
  BY <1>12, <1>13 DEF Keeps, Relinked
<1>15. Keeps(f, h, {p})
  <2>1. Keeps(f, h, {a} \cup {p})
    BY <1>11, <1>13, KeepsOn
  <2> QED BY <1>3, <2>1 DEF Keeps
<1>16. /\ Holds(h, a, 8, Told(cn)) /\ LinkIs(h, a, 1, 0) /\ LinkIs(h, a, 3, x)
       /\ LinkIs(h, a, 7, y)
  <2>1. a \notin {p}
    BY <1>3
  <2> QED BY <1>10, <1>13, <2>1, KeptHolds, KeptLink
<1>17. h.size = a + 160
  BY <1>5, <1>7, <1>9, <1>13
<1>18. IsState(w) /\ w.file = h /\ w.cg = v.cg /\ w.last_cn = a
  BY <1>2, <1>14 DEF IsState
<1> QED BY <1>14, <1>15, <1>16, <1>17, <1>18 DEF ChannelPut, ChannelAt, w

(* The channels of a group, one after the other.                           *)
ChannelPos(s, i) == s + (i - 1) * 160

ChannelsPut(h, c, head, es, v) ==
  LET m == Len(es)
      s == h.size
  IN  /\ IsState(v) /\ v.cg = c /\ Keeps(h, v.file, {c})
      /\ v.file.size = ChannelPos(s, m + 1)
      /\ v.last_cn = (IF m = 0 THEN 0 ELSE ChannelPos(s, m))
      /\ Relinked(h, v.file, c, 6, head, 2, IF m = 0 THEN 0 ELSE s)
      /\ \A i \in 1..m : /\ ChannelAt(v.file, ChannelPos(s, i), es[i])
                         /\ LinkIs(v.file, ChannelPos(s, i), 1,
                                   IF i = m THEN 0 ELSE ChannelPos(s, i + 1))

LEMMA ChannelAtKept ==
  \A f, g, X, a, cn : Keeps(f, g, X) /\ a \notin X /\ ChannelAt(f, a, cn) => ChannelAt(g, a, cn)
<1> SUFFICES ASSUME NEW f, NEW g, NEW X, NEW a, NEW cn, Keeps(f, g, X), a \notin X, ChannelAt(f, a, cn)
             PROVE  ChannelAt(g, a, cn)
  OBVIOUS
<1>1. Holds(f, a, 8, Told(cn))
  BY DEF ChannelAt
<1>2. Holds(g, a, 8, Told(cn)) /\ g.blocks[a] = f.blocks[a]
  BY <1>1, KeptHolds
<1> QED BY <1>2 DEF ChannelAt, LinkIs

(* Channels with the addresses of their texts.                             *)
ArePlaces(P) == \A x \in P : x.name \in Nat /\ x.unit \in Nat

LEMMA ChannelsStep ==
  ASSUME NEW h, NEW c, NEW head, NEW v, NEW P, ArePlaces(P), NEW es \in Seq(P), NEW x \in P,
         ChannelsPut(h, c, head, es, v), c \in DOMAIN h.blocks
  PROVE  ChannelsPut(h, c, head, Append(es, x), PutChannel(v, x))
<1> DEFINE m == Len(es)
           s == h.size
           fs == Append(es, x)
           w == PutChannel(v, x)
           last == ChannelPos(s, m)
           a == v.file.size
<1>1. /\ m \in Nat /\ Len(fs) = m + 1 /\ fs[m + 1] = x
      /\ \A i \in 1..m : fs[i] = es[i]
  BY AppendProperties, LenProperties
<1>2. /\ IsState(v) /\ v.cg = c /\ Keeps(h, v.file, {c})
      /\ a = ChannelPos(s, m + 1)
      /\ v.last_cn = (IF m = 0 THEN 0 ELSE last)
      /\ Relinked(h, v.file, c, 6, head, 2, IF m = 0 THEN 0 ELSE s)
      /\ \A i \in 1..m : /\ ChannelAt(v.file, ChannelPos(s, i), es[i])
                         /\ LinkIs(v.file, ChannelPos(s, i), 1,
                                   IF i = m THEN 0 ELSE ChannelPos(s, i + 1))
  BY DEF ChannelsPut
<1>3. s \in Nat /\ c \in Nat /\ c < s /\ x.name \in Nat /\ x.unit \in Nat
  BY <1>2 DEF Keeps, IsFile, ArePlaces
<1>4. /\ \A i \in Nat : i > 0 => ChannelPos(s, i) \in Nat /\ ChannelPos(s, i) >= s
      /\ \A i, j \in Nat : i < j => ChannelPos(s, i) < ChannelPos(s, j)
      /\ ChannelPos(s, 1) = s
      /\ \A i \in Nat : ChannelPos(s, i + 1) = ChannelPos(s, i) + 160
  BY <1>3 DEF ChannelPos
<1> HIDE DEF w, fs, s, m
<1>5. CASE m = 0
  <2>1. Holds(v.file, c, 6, head)
    BY <1>2 DEF Relinked
  <2>2. v.last_cn = 0
    BY <1>2, <1>5
  <2>3. 2 \in 1..6
    OBVIOUS
  <2>4. ChannelPut(v, w, x, c, 6, head, 2)
    BY <1>2, <1>3, <2>1, <2>2, <2>3, ChannelIs DEF w
  <2>5. /\ IsState(w) /\ w.cg = c /\ w.last_cn = s /\ a = s
        /\ Keeps(v.file, w.file, {c}) /\ w.file.size = s + 160
        /\ Relinked(v.file, w.file, c, 6, head, 2, s)
        /\ ChannelAt(w.file, s, x) /\ LinkIs(w.file, s, 1, 0)
    BY <1>2, <1>4, <1>5, <2>4 DEF ChannelPut
  <2>6. Keeps(h, w.file, {c})
    <3>1. Keeps(h, w.file, {c} \cup {c})
      BY <1>2, <2>5, KeepsOn
    <3> QED BY <3>1
  <2>7. Relinked(h, w.file, c, 6, head, 2, s)
    BY <1>2, <2>5 DEF Relinked
  <2>8. w.file.size = ChannelPos(s, (m + 1) + 1)
    BY <1>3, <1>5, <2>5 DEF ChannelPos
  <2>9. \A i \in 1..(m + 1) : i = 1 /\ fs[i] = x /\ ChannelPos(s, i) = s
    BY <1>1, <1>4, <1>5
  <2> QED BY <1>1, <1>4, <1>5, <2>5, <2>6, <2>7, <2>8, <2>9 DEF ChannelsPut, fs, w, s
<1>6. CASE m # 0
  <2>1. ChannelAt(v.file, last, es[m]) /\ last # 0 /\ last # c /\ a # last /\ last >= s
    <3>1. m \in 1..m /\ m > 0
      BY <1>1, <1>6
    <3>2. last \in Nat /\ last >= s /\ a = last + 160
      BY <1>1, <1>2, <1>4, <3>1
    <3>3. ChannelAt(v.file, last, es[m])
      BY <1>2, <3>1
    <3> HIDE DEF last, a
    <3> QED BY <1>3, <3>2, <3>3
  <2>2. v.last_cn # 0 /\ v.last_cn = last
    BY <1>2, <1>6, <2>1
  <2>3. 1 \in 1..8 /\ Holds(v.file, last, 8, Told(es[m]))
    BY <2>1 DEF ChannelAt
  <2>4. ChannelPut(v, w, x, last, 8, Told(es[m]), 1)
    BY <1>2, <1>3, <2>2, <2>3, ChannelIs DEF w
  <2>5. /\ IsState(w) /\ w.cg = c /\ w.last_cn = a
        /\ Keeps(v.file, w.file, {last}) /\ w.file.size = a + 160
        /\ Relinked(v.file, w.file, last, 8, Told(es[m]), 1, a)
        /\ ChannelAt(w.file, a, x) /\ LinkIs(w.file, a, 1, 0)
    BY <1>2, <2>4 DEF ChannelPut
  <2>6. Keeps(h, w.file, {c})
    <3>1. Keeps(h, w.file, {c} \cup {last})
      BY <1>2, <2>5, KeepsOn
    <3>2. last \notin DOMAIN h.blocks
      BY <1>2, <1>3, <2>1 DEF Keeps, IsFile, s
    <3> QED BY <3>1, <3>2 DEF Keeps
  <2>7. Relinked(h, w.file, c, 6, head, 2, s)
    <3>1. c \notin {last}
      BY <2>1
    <3>2. Relinked(h, v.file, c, 6, head, 2, s)
      BY <1>2, <1>6
    <3> QED BY <2>5, <3>1, <3>2, RelinkedOn
  <2>8. w.file.size = ChannelPos(s, (m + 1) + 1) /\ a = ChannelPos(s, m + 1)
    BY <1>1, <1>2, <1>4, <2>5
  <2>9. ASSUME NEW i \in 1..(m + 1)
        PROVE  /\ ChannelAt(w.file, ChannelPos(s, i), fs[i])
               /\ LinkIs(w.file, ChannelPos(s, i), 1,
                         IF i = m + 1 THEN 0 ELSE ChannelPos(s, i + 1))
    <3>1. CASE i = m + 1
      BY <1>1, <2>5, <2>8, <3>1
    <3>2. CASE i = m
      <4>1. Holds(w.file, last, 8, Told(es[m])) /\ LinkIs(w.file, last, 1, a)
        BY <2>5 DEF Relinked
      <4>2. LinkIs(w.file, last, 3, es[m].name) /\ LinkIs(w.file, last, 7, es[m].unit)
        <5>1. 3 \in 1..8 /\ 7 \in 1..8
          OBVIOUS
        <5> QED BY <2>1, <2>5, <5>1 DEF Relinked, ChannelAt, LinkIs
      <4>3. ChannelAt(w.file, last, es[m])
        BY <4>1, <4>2 DEF ChannelAt
      <4>4. fs[i] = es[m] /\ i # m + 1 /\ ChannelPos(s, i) = last /\ ChannelPos(s, i + 1) = a
        BY <1>1, <1>6, <2>8, <3>2
      <4> QED BY <4>1, <4>3, <4>4
    <3>3. CASE i # m /\ i # m + 1
      <4>1. i \in 1..m /\ i < m /\ fs[i] = es[i]
        BY <1>1, <3>3
      <4>2. ChannelPos(s, i) \notin {last}
        <5>1. ChannelPos(s, i) \in Nat /\ ChannelPos(s, i) < ChannelPos(s, m)
          <6>1. i \in Nat /\ m \in Nat /\ i > 0 /\ i < m
            BY <1>1, <4>1
          <6> QED BY <1>4, <6>1
        <5> QED BY <5>1
      <4>3. ChannelAt(w.file, ChannelPos(s, i), es[i])
        BY <1>2, <2>5, <4>1, <4>2, ChannelAtKept
      <4>4. LinkIs(v.file, ChannelPos(s, i), 1, ChannelPos(s, i + 1))
            /\ Holds(v.file, ChannelPos(s, i), 8, Told(es[i]))
        BY <1>2, <3>3, <4>1 DEF ChannelAt
      <4>5. LinkIs(w.file, ChannelPos(s, i), 1, ChannelPos(s, i + 1))
        BY <2>5, <4>2, <4>4, KeptLink
      <4> QED BY <3>3, <4>1, <4>3, <4>5
    <3> QED BY <3>1, <3>2, <3>3
  <2> QED BY <1>1, <1>6, <2>5, <2>6, <2>7, <2>8, <2>9 DEF ChannelsPut, fs, w, s
<1> QED BY <1>5, <1>6

Chan == INSTANCE FoldFacts WITH Op <- PutChannel

Channels(v, es) == FoldLeft(PutChannel, v, es)

LEMMA ChannelsIsFold == \A v, es : Channels(v, es) = Chan!FoldLeft(PutChannel, v, es)
BY Zenon DEF Channels, FoldLeft, MapThenFoldSet, Max, Chan!FoldLeft, Chan!MapThenFoldSet, Chan!Max

LEMMA ChannelsEmpty == \A v : Channels(v, << >>) = v
BY ChannelsIsFold, Chan!FoldEmpty, Zenon

LEMMA ChannelsAppend ==
  ASSUME NEW v, NEW T, NEW es \in Seq(T), NEW x \in T
  PROVE  Channels(v, Append(es, x)) = PutChannel(Channels(v, es), x)
BY ChannelsIsFold, Chan!FoldAppend, Zenon

NoChannels(h, c) == [file |-> h, cg |-> c, last_cn |-> 0]

LEMMA ChannelsAre ==
  \A h, c, head, P, es :
    IsFile(h) /\ Holds(h, c, 6, head) /\ LinkIs(h, c, 2, 0) /\ ArePlaces(P) /\ es \in Seq(P)
    => ChannelsPut(h, c, head, es, Channels(NoChannels(h, c), es))
<1> SUFFICES ASSUME NEW h, NEW c, NEW head, NEW P,
                    IsFile(h), Holds(h, c, 6, head), LinkIs(h, c, 2, 0), ArePlaces(P)
             PROVE  \A es \in Seq(P) :
                      ChannelsPut(h, c, head, es, Channels(NoChannels(h, c), es))
  OBVIOUS
<1> DEFINE v == NoChannels(h, c)
           T == {es \in Seq(P) : ChannelsPut(h, c, head, es, Channels(v, es))}
<1>1. << >> \in T
  <2>1. Channels(v, << >>) = v
    BY ChannelsEmpty
  <2>2. v.file = h /\ v.cg = c /\ v.last_cn = 0 /\ IsState(v)
    BY DEF NoChannels, IsState
  <2>3. Keeps(h, h, {c}) /\ h.size \in Nat
    BY DEF Keeps, IsFile
  <2>4. Relinked(h, h, c, 6, head, 2, 0)
    BY DEF Relinked
  <2>5. Len(<< >>) = 0 /\ << >> \in Seq(P)
    BY EmptySeq
  <2>6. h.size = ChannelPos(h.size, 1)
    BY <2>3 DEF ChannelPos
  <2> HIDE DEF v
  <2>7. ChannelsPut(h, c, head, << >>, v)
    BY <2>2, <2>3, <2>4, <2>5, <2>6 DEF ChannelsPut
  <2> QED BY <2>1, <2>5, <2>7
<1> HIDE DEF v
<1>2. ASSUME NEW es \in Seq(P), NEW x \in P, es \in T
      PROVE  Append(es, x) \in T
  <2>1. ChannelsPut(h, c, head, es, Channels(v, es)) /\ c \in DOMAIN h.blocks
    BY <1>2 DEF Holds
  <2>2. ChannelsPut(h, c, head, Append(es, x), PutChannel(Channels(v, es), x))
    BY <2>1, ChannelsStep
  <2>3. Channels(v, Append(es, x)) = PutChannel(Channels(v, es), x)
    BY ChannelsAppend
  <2>4. Append(es, x) \in Seq(P)
    BY AppendProperties
  <2> QED BY <2>2, <2>3, <2>4
<1> HIDE DEF T
<1>3. Seq(P) \subseteq T
  BY <1>1, <1>2, Chan!SeqInduction
<1> QED BY <1>3 DEF T, v

(* The rows of a group have the size its header states.                    *)
Types == {"float64", "float32", "int16", "uint8"}
GoodChannel(c, n) ==
  /\ c = [name |-> c.name, unit |-> c.unit, type |-> c.type, data |-> c.data]
  /\ c.type \in Types
  /\ c.data = [row \in 1..n |-> c.data[row]]

GoodGroup(g) ==
  /\ g = [name |-> g.name, times |-> g.times, channels |-> g.channels]
  /\ \E T : g.times \in Seq(T)
  /\ \E C : g.channels \in Seq(C)
  /\ \A i \in 1..Len(g.channels) : GoodChannel(g.channels[i], Len(g.times))

LEMMA GoodGroupIs ==
  \A g : GoodGroup(g) =>
    /\ Len(g.times) \in Nat /\ DOMAIN g.times = 1..Len(g.times)
    /\ g.times = [row \in 1..Len(g.times) |-> g.times[row]]
    /\ Len(g.channels) \in Nat /\ DOMAIN g.channels = 1..Len(g.channels)
    /\ g.channels = [i \in 1..Len(g.channels) |-> g.channels[i]]
<1> SUFFICES ASSUME NEW g, GoodGroup(g)
             PROVE  /\ Len(g.times) \in Nat /\ DOMAIN g.times = 1..Len(g.times)
                    /\ g.times = [row \in 1..Len(g.times) |-> g.times[row]]
                    /\ Len(g.channels) \in Nat /\ DOMAIN g.channels = 1..Len(g.channels)
                    /\ g.channels = [i \in 1..Len(g.channels) |-> g.channels[i]]
  OBVIOUS
<1>1. \A S, s : s \in Seq(S) =>
        Len(s) \in Nat /\ DOMAIN s = 1..Len(s) /\ s = [i \in 1..Len(s) |-> s[i]]
  BY LenProperties
<1>2. PICK T : g.times \in Seq(T)
  BY DEF GoodGroup
<1>3. PICK C : g.channels \in Seq(C)
  BY DEF GoodGroup
<1> QED BY <1>1, <1>2, <1>3

LEMMA WidthsNat ==
  \A g : GoodGroup(g) =>
    /\ Widths(g.channels) \in Seq(Nat) /\ Len(Widths(g.channels)) = Len(g.channels)
    /\ \A i \in 1..Len(g.channels) : /\ Widths(g.channels)[i] = ByteSize(g.channels[i].type)
                                     /\ ByteSize(g.channels[i].type) \in Nat \ {0}
<1> SUFFICES ASSUME NEW g, GoodGroup(g)
             PROVE  /\ Widths(g.channels) \in Seq(Nat)
                    /\ Len(Widths(g.channels)) = Len(g.channels)
                    /\ \A i \in 1..Len(g.channels) :
                         /\ Widths(g.channels)[i] = ByteSize(g.channels[i].type)
                         /\ ByteSize(g.channels[i].type) \in Nat \ {0}
  OBVIOUS
<1> DEFINE n == Len(g.channels)
<1>1. n \in Nat /\ DOMAIN g.channels = 1..n
  BY GoodGroupIs
<1>2. \A t : ByteSize(t) \in Nat \ {0}
  BY DEF ByteSize
<1>3. Widths(g.channels) = [i \in 1..n |-> ByteSize(g.channels[i].type)]
  BY <1>1 DEF Widths
<1> HIDE DEF n
<1>4. PICK C : g.channels \in Seq(C)
  BY DEF GoodGroup
<1>5. Widths(g.channels) \in Seq(Nat) /\ Len(Widths(g.channels)) = n
  <2> DEFINE w == Widths(g.channels)
             s == g.channels
  <2>1. \A i \in 1..Len(s) : w[i] \in Nat
    BY <1>2, <1>3 DEF n
  <2>2. LongAs(w, s)
    BY <1>1, <1>3 DEF LongAs, n
  <2> HIDE DEF w, s
  <2>3. s \in Seq(C)
    BY <1>4 DEF s
  <2>4. w \in Seq(Nat) /\ Len(w) = Len(s)
    BY <2>1, <2>2, <2>3, SeqOver
  <2> QED BY <2>4 DEF w, s, n
<1> QED BY <1>2, <1>3, <1>5 DEF n

(* A record: the time, then the values.                                    *)
Value(g, i, row) == [size |-> ByteSize(g.channels[i].type), value |-> g.channels[i].data[row]]

RowIs(g, row, r) ==
  LET n == Len(g.channels)
  IN  /\ r = [k \in 1..(n + 1) |-> r[k]]
      /\ r[1] = [size |-> 8, value |-> g.times[row]]
      /\ \A i \in 1..n : r[i + 1] = Value(g, i, row)

LEMMA RecordsAre ==
  \A g : GoodGroup(g) =>
    /\ DOMAIN Records(g) = 1..Len(g.times) /\ \E R : Records(g) \in Seq(R)
    /\ Len(Records(g)) = Len(g.times)
    /\ \A row \in 1..Len(g.times) : RowIs(g, row, Records(g)[row])
<1> SUFFICES ASSUME NEW g, GoodGroup(g)
             PROVE  /\ DOMAIN Records(g) = 1..Len(g.times) /\ \E R : Records(g) \in Seq(R)
                    /\ Len(Records(g)) = Len(g.times)
                    /\ \A row \in 1..Len(g.times) : RowIs(g, row, Records(g)[row])
  OBVIOUS
<1> DEFINE n == Len(g.channels)
           T == Len(g.times)
           rs == Records(g)
           Values(row) == [i \in 1..n |->
                             LET c == g.channels[i]
                             IN  [size |-> ByteSize(c.type),
                                  value |-> IF row \in DOMAIN c.data THEN c.data[row] ELSE NaN]]
           Row(row) == <<[size |-> 8, value |-> g.times[row]]>> \o Values(row)
<1>1. /\ T \in Nat /\ DOMAIN g.times = 1..T /\ n \in Nat /\ DOMAIN g.channels = 1..n
  BY GoodGroupIs
<1>2. rs = [row \in 1..T |-> Row(row)]
  BY <1>1 DEF Records
<1>3. rs \in Seq({Row(row) : row \in 1..T}) /\ Len(rs) = T
  <2> DEFINE ts == g.times
             R == {Row(row) : row \in 1..T}
  <2>1. PICK S : ts \in Seq(S)
    BY DEF GoodGroup
  <2>2. LongAs(rs, ts)
    BY <1>1, <1>2 DEF LongAs
  <2>3. \A i \in 1..Len(ts) : rs[i] \in R
    BY <1>2
  <2> HIDE DEF ts, R, rs
  <2>4. rs \in Seq(R) /\ Len(rs) = Len(ts)
    BY <2>1, <2>2, <2>3, SeqOver
  <2> QED BY <2>4 DEF ts, R
<1>4. ASSUME NEW row \in 1..T PROVE RowIs(g, row, Row(row))
  <2> DEFINE x == [size |-> 8, value |-> g.times[row]]
             vs == Values(row)
             S == {x} \cup {vs[i] : i \in 1..n}
             r == Row(row)
  <2>1. \A i \in 1..n : vs[i] = Value(g, i, row)
    BY DEF GoodGroup, GoodChannel, Value
  <2>2. vs = [i \in 1..n |-> vs[i]]
    OBVIOUS
  <2>3. r = <<x>> \o vs
    OBVIOUS
  <2> HIDE DEF vs, r, x
  <2>4. vs \in Seq(S) /\ <<x>> \in Seq(S) /\ Len(vs) = n
    <3>1. vs \in [1..n -> S]
      BY <2>2
    <3>2. vs \in Seq(S)
      BY <1>1, <3>1, SeqDef
    <3>3. Len(vs) = n
      <4> HIDE DEF n
      <4> QED BY <1>1, <2>2
    <3> QED BY <3>2, <3>3
  <2>5. /\ Len(r) = n + 1 /\ r \in Seq(S)
        /\ \A k \in 1..(n + 1) : r[k] = IF k <= 1 THEN <<x>>[k] ELSE vs[k - 1]
    <3>1. Len(<<x>>) = 1
      OBVIOUS
    <3> HIDE DEF S, n
    <3> QED BY <1>1, <2>3, <2>4, <3>1, ConcatProperties
  <2>6. r[1] = x /\ \A i \in 1..n : r[i + 1] = vs[i]
    <3> HIDE DEF S, n
    <3> QED BY <1>1, <2>5
  <2>7. r = [k \in 1..(n + 1) |-> r[k]]
    <3> HIDE DEF S
    <3> QED BY <2>5
  <2> QED BY <2>1, <2>6, <2>7 DEF RowIs, r, x
<1> HIDE DEF T, rs, Row
<1> QED BY <1>1, <1>2, <1>3, <1>4 DEF T, rs

(* Its sizes, and their total.                                             *)
Sizes(r) == [k \in DOMAIN r |-> r[k].size]

LEMMA SizesAre ==
  \A g, row, r : GoodGroup(g) /\ RowIs(g, row, r) =>
    Sizes(r) = <<8>> \o Widths(g.channels) /\ RowBytes(r) = RecordSize(g.channels)
<1> SUFFICES ASSUME NEW g, NEW row, NEW r, GoodGroup(g), RowIs(g, row, r)
             PROVE  Sizes(r) = <<8>> \o Widths(g.channels) /\ RowBytes(r) = RecordSize(g.channels)
  OBVIOUS
<1> DEFINE n == Len(g.channels)
           w == Widths(g.channels)
           q == <<8>> \o w
<1>1. /\ w \in Seq(Nat) /\ Len(w) = n /\ n \in Nat
      /\ \A i \in 1..n : w[i] = ByteSize(g.channels[i].type)
  BY WidthsNat, GoodGroupIs
<1>2. /\ r = [k \in 1..(n + 1) |-> r[k]]
      /\ r[1].size = 8
      /\ \A i \in 1..n : r[i + 1].size = ByteSize(g.channels[i].type)
  <2>1. /\ r = [k \in 1..(n + 1) |-> r[k]]
        /\ r[1] = [size |-> 8, value |-> g.times[row]]
        /\ \A i \in 1..n : r[i + 1] = Value(g, i, row)
    BY DEF RowIs
  <2>2. \A i : Value(g, i, row).size = ByteSize(g.channels[i].type)
    BY DEF Value
  <2> HIDE DEF n
  <2>3. r[1].size = 8
    BY <2>1
  <2> QED BY <2>1, <2>2, <2>3
<1> HIDE DEF w, n
<1>3. <<8>> \in Seq(Nat) /\ Len(<<8>>) = 1
  OBVIOUS
<1>4. /\ q \in Seq(Nat) /\ Len(q) = n + 1
      /\ \A k \in 1..(n + 1) : q[k] = IF k <= 1 THEN <<8>>[k] ELSE w[k - 1]
  BY <1>1, <1>3, ConcatProperties
<1> HIDE DEF q
<1>5. \A k \in 1..(n + 1) : r[k].size = q[k]
  <2>1. q[1] = 8
    BY <1>1, <1>4
  <2>2. ASSUME NEW k \in 1..(n + 1), k # 1 PROVE r[k].size = q[k]
    <3>1. k - 1 \in 1..n /\ (k - 1) + 1 = k /\ q[k] = w[k - 1]
      BY <1>1, <1>4, <2>2
    <3> QED BY <1>1, <1>2, <3>1
  <2> QED BY <1>2, <2>1, <2>2
<1>6. q = [k \in 1..(n + 1) |-> q[k]]
  BY <1>4
<1>7. Sizes(r) = q
  <2>1. Sizes(r) = [k \in 1..(n + 1) |-> r[k].size]
    BY <1>2 DEF Sizes
  <2> QED BY <1>5, <1>6, <2>1
<1>8. SumSeq(q) = 8 + SumSeq(w)
  <2>1. w \in Seq(Int) /\ <<8>> \in Seq(Int) /\ 8 \in Int
    BY <1>1, <1>3, NatSeqIsIntSeq
  <2>2. SumSeq(<<8>>) = 8
    BY <2>1, SumOne
  <2>3. SumSeq(<<8>> \o w) = SumSeq(<<8>>) + SumSeq(w)
    BY <2>1, SumConcat
  <2> QED BY <2>2, <2>3 DEF q
<1>9. RowBytes(r) = SumSeq(Sizes(r))
  BY DEF RowBytes, Sizes
<1> QED BY <1>7, <1>8, <1>9 DEF RecordSize, q, w

LEMMA SumConst ==
  \A k \in Nat : \A w \in Seq(Nat) : (\A i \in 1..Len(w) : w[i] = k) => SumSeq(w) = Len(w) * k
<1> SUFFICES ASSUME NEW k \in Nat
             PROVE  \A w \in Seq(Nat) : (\A i \in 1..Len(w) : w[i] = k) => SumSeq(w) = Len(w) * k
  OBVIOUS
<1> DEFINE T == {w \in Seq(Nat) : (\A i \in 1..Len(w) : w[i] = k) => SumSeq(w) = Len(w) * k}
<1>1. << >> \in T
  <2>1. Len(<< >>) = 0 /\ << >> \in Seq(Nat) /\ 0 * k = 0
    BY EmptySeq
  <2> QED BY <2>1, SumEmpty
<1>2. ASSUME NEW w \in Seq(Nat), NEW x \in Nat, w \in T PROVE Append(w, x) \in T
  <2>1. /\ Len(w) \in Nat /\ Len(Append(w, x)) = Len(w) + 1 /\ Append(w, x) \in Seq(Nat)
        /\ Append(w, x)[Len(w) + 1] = x
        /\ \A i \in 1..Len(w) : Append(w, x)[i] = w[i]
    BY AppendProperties, LenProperties
  <2>2. SUFFICES ASSUME \A i \in 1..Len(Append(w, x)) : Append(w, x)[i] = k
                 PROVE  SumSeq(Append(w, x)) = Len(Append(w, x)) * k
    BY <2>1
  <2>3. x = k /\ \A i \in 1..Len(w) : w[i] = k
    BY <2>1, <2>2
  <2>4. SumSeq(w) = Len(w) * k
    BY <1>2, <2>3
  <2>5. w \in Seq(Int) /\ x \in Int
    BY NatSeqIsIntSeq
  <2>6. SumSeq(Append(w, x)) = SumSeq(w) + x
    BY <2>5, SumAppend
  <2>7. \A n \in Nat : (n + 1) * k = n * k + k
    OBVIOUS
  <2> QED BY <2>1, <2>3, <2>4, <2>6, <2>7
<1> HIDE DEF T
<1>3. Seq(Nat) \subseteq T
  BY <1>1, <1>2, Plus!SeqInduction
<1> QED BY <1>3 DEF T

(* What lies before the i-th element: it grows with i.                     *)
Before(q, i) == SumSeq([j \in 1..(i - 1) |-> q[j]])

LEMMA BeforeIs ==
  \A q : q \in Seq(Nat) =>
    /\ Before(q, 1) = 0
    /\ \A i \in 1..Len(q) : Before(q, i) \in Nat /\ Before(q, i + 1) = Before(q, i) + q[i]
<1> SUFFICES ASSUME NEW q \in Seq(Nat)
             PROVE  /\ Before(q, 1) = 0
                    /\ \A i \in 1..Len(q) : /\ Before(q, i) \in Nat
                                            /\ Before(q, i + 1) = Before(q, i) + q[i]
  OBVIOUS
<1>1. Before(q, 1) = 0
  <2>1. [j \in 1..(1 - 1) |-> q[j]] = << >>
    OBVIOUS
  <2> QED BY <2>1, SumEmpty DEF Before
<1>2. ASSUME NEW i \in 1..Len(q)
      PROVE  Before(q, i) \in Nat /\ Before(q, i + 1) = Before(q, i) + q[i]
  <2> DEFINE s == [j \in 1..(i - 1) |-> q[j]]
             t == [j \in 1..((i + 1) - 1) |-> q[j]]
  <2>1. Len(q) \in Nat /\ \A j \in 1..Len(q) : q[j] \in Nat
    BY ElementOfSeq, LenProperties
  <2>2. i - 1 \in Nat /\ i \in Nat /\ (i + 1) - 1 = i
    BY <2>1
  <2>3. s \in Seq(Nat) /\ Len(s) = i - 1
    <3>1. s \in [1..(i - 1) -> Nat]
      BY <2>1, <2>2
    <3> QED BY <2>2, <3>1, SeqDef
  <2>4. t = Append(s, q[i])
    <3>1. t = [j \in 1..i |-> q[j]]
      BY <2>2
    <3> HIDE DEF t
    <3>2. \A j \in 1..(i - 1) : s[j] = q[j]
      OBVIOUS
    <3> HIDE DEF s
    <3>3. /\ Len(Append(s, q[i])) = i /\ Append(s, q[i]) \in Seq(Nat)
          /\ Append(s, q[i])[i] = q[i]
          /\ \A j \in 1..(i - 1) : Append(s, q[i])[j] = q[j]
      <4>1. (i - 1) + 1 = i
        BY <2>2
      <4> QED BY <2>1, <2>3, <3>2, <4>1, AppendProperties
    <3>4. Append(s, q[i]) = [j \in 1..i |-> Append(s, q[i])[j]]
      BY <3>3, LenProperties
    <3>5. \A j \in 1..i : Append(s, q[i])[j] = q[j]
      BY <2>2, <3>3
    <3> QED BY <3>1, <3>4, <3>5
  <2> HIDE DEF s, t
  <2>5. s \in Seq(Int) /\ q[i] \in Int /\ SumSeq(s) \in Nat
    BY <2>1, <2>3, NatSeqIsIntSeq, SumNat
  <2>6. SumSeq(t) = SumSeq(s) + q[i]
    BY <2>4, <2>5, SumAppend
  <2> QED BY <2>5, <2>6 DEF Before, s, t
<1> QED BY <1>1, <1>2

LEMMA BeforeGrows ==
  \A q, i, j :
    q \in Seq(Nat) /\ (\A k \in 1..Len(q) : q[k] > 0) /\ i \in 1..Len(q) /\ j \in 1..Len(q)
    /\ Before(q, i) = Before(q, j) => i = j
<1> SUFFICES ASSUME NEW q \in Seq(Nat), \A k \in 1..Len(q) : q[k] > 0
             PROVE  \A i, j \in 1..Len(q) : Before(q, i) = Before(q, j) => i = j
  OBVIOUS
<1> DEFINE n == Len(q)
           T == {j \in Nat : j + 1 <= n => \A i \in 1..j : Before(q, i) < Before(q, j + 1)}
<1>1. /\ n \in Nat
      /\ \A k \in 1..n : q[k] \in Nat /\ q[k] > 0
      /\ \A k \in 1..n : Before(q, k) \in Nat /\ Before(q, k + 1) = Before(q, k) + q[k]
  BY ElementOfSeq, LenProperties, BeforeIs
<1> HIDE DEF n
<1>2. 0 \in T
  OBVIOUS
<1>3. ASSUME NEW j \in Nat, j \in T PROVE j + 1 \in T
  <2>1. SUFFICES ASSUME (j + 1) + 1 <= n, NEW i \in 1..(j + 1)
                 PROVE  Before(q, i) < Before(q, (j + 1) + 1)
    OBVIOUS
  <2>2. j + 1 \in 1..n /\ (j + 1) + 1 \in 1..n
    BY <1>1, <2>1
  <2>3. Before(q, j + 1) \in Nat /\ Before(q, (j + 1) + 1) > Before(q, j + 1)
    BY <1>1, <2>2
  <2>4. Before(q, (j + 1) + 1) \in Nat
    BY <1>1, <2>2
  <2>5. CASE i = j + 1
    BY <2>3, <2>5
  <2>6. CASE i # j + 1
    <3>1. i \in 1..j /\ i \in 1..n
      BY <1>1, <2>1, <2>6
    <3>2. Before(q, i) < Before(q, j + 1) /\ Before(q, i) \in Nat
      BY <1>1, <1>3, <2>1, <3>1
    <3> QED BY <2>3, <2>4, <3>2
  <2> QED BY <2>5, <2>6
<1> HIDE DEF T
<1>4. Nat \subseteq T
  BY <1>2, <1>3, Plus!Induction
<1>5. ASSUME NEW i \in 1..n, NEW j \in 1..n, i < j PROVE Before(q, i) # Before(q, j)
  <2>1. j - 1 \in Nat /\ (j - 1) + 1 = j /\ i \in 1..(j - 1) /\ (j - 1) + 1 <= n
    BY <1>1, <1>5
  <2>2. j - 1 \in T
    BY <1>4, <2>1
  <2>3. Before(q, i) < Before(q, j)
    BY <2>1, <2>2 DEF T
  <2> QED BY <1>1, <2>3
<1> QED BY <1>1, <1>5 DEF n

PointsTo(channel, r, k) ==
  Before(Sizes(r), k) = channel.offset /\ Sizes(r)[k] = ByteSize(channel.type)

(* The cell a channel reads.                                               *)
LEMMA CellPicked ==
  \A g, row, r, k, channel :
    /\ GoodGroup(g) /\ RowIs(g, row, r) /\ k \in 1..(Len(g.channels) + 1)
    /\ PointsTo(channel, r, k)
    => Cell(r, channel) = r[k].value
<1> SUFFICES ASSUME NEW g, NEW row, NEW r, NEW k, NEW channel,
                    GoodGroup(g), RowIs(g, row, r), k \in 1..(Len(g.channels) + 1),
                    PointsTo(channel, r, k)
             PROVE  Cell(r, channel) = r[k].value
  OBVIOUS
<1>0. Before(Sizes(r), k) = channel.offset /\ Sizes(r)[k] = ByteSize(channel.type)
  BY DEF PointsTo
<1> DEFINE n == Len(g.channels)
           w == Widths(g.channels)
           q == Sizes(r)
           Place == {i \in DOMAIN r : /\ SumSeq([j \in 1..(i - 1) |-> r[j].size]) = channel.offset
                                   /\ r[i].size = ByteSize(channel.type)}
<1>1. n \in Nat /\ DOMAIN r = 1..(n + 1)
  BY GoodGroupIs DEF RowIs
<1>2. q \in Seq(Nat) /\ Len(q) = n + 1 /\ \A i \in 1..Len(q) : q[i] > 0
  <2>1. q = <<8>> \o w
    BY SizesAre
  <2>2. w \in Seq(Nat) /\ Len(w) = n /\ \A i \in 1..n : w[i] \in Nat \ {0}
    BY WidthsNat
  <2>3. <<8>> \in Seq(Nat) /\ Len(<<8>>) = 1
    OBVIOUS
  <2> HIDE DEF q, w, n
  <2>4. /\ q \in Seq(Nat) /\ Len(q) = n + 1
        /\ \A i \in 1..(n + 1) : q[i] = IF i <= 1 THEN <<8>>[i] ELSE w[i - 1]
    BY <1>1, <2>1, <2>2, <2>3, ConcatProperties
  <2>5. ASSUME NEW i \in 1..(n + 1) PROVE q[i] > 0
    <3>1. CASE i = 1
      BY <2>4, <3>1
    <3>2. CASE i # 1
      <4>1. i - 1 \in 1..n /\ q[i] = w[i - 1]
        BY <1>1, <2>4, <3>2
      <4> QED BY <2>2, <4>1
    <3> QED BY <3>1, <3>2
  <2> QED BY <2>4, <2>5
<1>3. \A i \in DOMAIN r : q[i] = r[i].size
  BY DEF Sizes
<1>4. ASSUME NEW i \in DOMAIN r
      PROVE  SumSeq([j \in 1..(i - 1) |-> r[j].size]) = Before(q, i)
  <2>1. \A j \in 1..(i - 1) : j \in DOMAIN r
    BY <1>1
  <2>2. [j \in 1..(i - 1) |-> r[j].size] = [j \in 1..(i - 1) |-> q[j]]
    <3> HIDE DEF q
    <3> QED BY <1>3, <2>1
  <2> QED BY <2>2 DEF Before
<1>5. Place = {k}
  <2> HIDE DEF q, n
  <2>1. Place = {i \in DOMAIN r : Before(q, i) = channel.offset /\ q[i] = ByteSize(channel.type)}
    BY <1>3, <1>4
  <2>2. k \in 1..(n + 1)
    BY DEF n
  <2>3. \A i \in 1..(n + 1) : Before(q, i) = Before(q, k) => i = k
    BY <1>2, <2>2, BeforeGrows
  <2>4. Before(q, k) = channel.offset /\ q[k] = ByteSize(channel.type)
    BY <1>0 DEF q
  <2> HIDE DEF Place
  <2> QED BY <1>1, <2>1, <2>2, <2>3, <2>4
<1>6. Cell(r, channel) = IF Place = {} THEN NaN ELSE r[Max(Place)].value
  BY DEF Cell
<1> HIDE DEF Place
<1>7. k \in Int
  BY <1>1
<1>8. Max({k}) = k
  <2>1. \A x : x \in {k} => k >= x
    BY <1>7
  <2> QED BY <2>1 DEF Max
<1> QED BY <1>5, <1>6, <1>8

LEMMA CellTime ==
  \A g, row, r, channel :
    GoodGroup(g) /\ RowIs(g, row, r) /\ channel.offset = 0 /\ channel.type = "float64"
    => Cell(r, channel) = g.times[row]
<1> SUFFICES ASSUME NEW g, NEW row, NEW r, NEW channel,
                    GoodGroup(g), RowIs(g, row, r), channel.offset = 0, channel.type = "float64"
             PROVE  Cell(r, channel) = g.times[row]
  OBVIOUS
<1> DEFINE w == Widths(g.channels)
           q == Sizes(r)
           n == Len(g.channels)
<1>1. q = <<8>> \o w /\ w \in Seq(Nat) /\ n \in Nat
  BY SizesAre, WidthsNat, GoodGroupIs
<1> HIDE DEF w
<1>2. q \in Seq(Nat) /\ q[1] = 8
  <2>1. <<8>> \in Seq(Nat) /\ Len(<<8>>) = 1
    OBVIOUS
  <2> HIDE DEF q
  <2> QED BY <1>1, <2>1, ConcatProperties
<1>3. Before(q, 1) = 0
  BY <1>2, BeforeIs
<1>4. 1 \in 1..(n + 1) /\ ByteSize("float64") = 8
  BY <1>1 DEF ByteSize
<1>5. r[1].value = g.times[row]
  BY DEF RowIs
<1>6. Before(q, 1) = channel.offset /\ q[1] = ByteSize(channel.type)
  <2> HIDE DEF q
  <2> QED BY <1>2, <1>3, <1>4
<1>7. Cell(r, channel) = r[1].value
  <2>1. PointsTo(channel, r, 1)
    BY <1>6 DEF PointsTo
  <2> QED BY <1>4, <2>1, CellPicked
<1> QED BY <1>5, <1>7

Tells(channel, g, i) ==
  channel.offset = Offset(g.channels, i) /\ channel.type = g.channels[i].type

LEMMA CellValue ==
  \A g, row, r, channel, i :
    GoodGroup(g) /\ RowIs(g, row, r) /\ i \in 1..Len(g.channels) /\ Tells(channel, g, i)
    => Cell(r, channel) = g.channels[i].data[row]
<1> SUFFICES ASSUME NEW g, NEW row, NEW r, NEW channel, NEW i \in 1..Len(g.channels),
                    GoodGroup(g), RowIs(g, row, r), Tells(channel, g, i)
             PROVE  Cell(r, channel) = g.channels[i].data[row]
  OBVIOUS
<1>0. channel.offset = Offset(g.channels, i) /\ channel.type = g.channels[i].type
  BY DEF Tells
<1> DEFINE w == Widths(g.channels)
           q == Sizes(r)
           n == Len(g.channels)
           s == [j \in 1..(i - 1) |-> w[j]]
           p == [j \in 1..i |-> q[j]]
<1>1. /\ q = <<8>> \o w /\ w \in Seq(Nat) /\ n \in Nat /\ Len(w) = n
      /\ w[i] = ByteSize(g.channels[i].type) /\ i \in 1..n
  BY SizesAre, WidthsNat, GoodGroupIs
<1> HIDE DEF w, q, n
<1>2. /\ q \in Seq(Nat) /\ Len(q) = n + 1
      /\ \A j \in 1..(n + 1) : q[j] = IF j <= 1 THEN <<8>>[j] ELSE w[j - 1]
  <2>1. <<8>> \in Seq(Nat) /\ Len(<<8>>) = 1
    OBVIOUS
  <2> DEFINE m == Len(<<8>>)
  <2>2. /\ <<8>> \o w \in Seq(Nat) /\ Len(<<8>> \o w) = m + Len(w)
        /\ \A j \in 1..(m + Len(w)) :
             (<<8>> \o w)[j] = IF j <= m THEN <<8>>[j] ELSE w[j - m]
    BY <1>1, <2>1, ConcatProperties
  <2>3. m = 1 /\ m + Len(w) = n + 1
    BY <1>1
  <2> HIDE DEF m
  <2> QED BY <1>1, <2>2, <2>3
<1>3. q[i + 1] = w[i] /\ i + 1 \in 1..(n + 1) /\ q[1] = 8
  BY <1>1, <1>2
<1>4. SubSeq(w, 1, i - 1) = s
  <2>1. 1 \in 1..(Len(w) + 1) /\ i - 1 \in (1 - 1)..Len(w)
    BY <1>1
  <2>2. /\ SubSeq(w, 1, i - 1) \in Seq(Nat) /\ Len(SubSeq(w, 1, i - 1)) = (i - 1) - 1 + 1
        /\ \A j \in 1..((i - 1) - 1 + 1) : SubSeq(w, 1, i - 1)[j] = w[1 + j - 1]
    BY <1>1, <2>1, SubSeqProperties
  <2> DEFINE u == SubSeq(w, 1, i - 1)
  <2> HIDE DEF u
  <2>3. u \in Seq(Nat) /\ Len(u) = i - 1 /\ \A j \in 1..(i - 1) : u[j] = w[j]
    <3>1. (i - 1) - 1 + 1 = i - 1 /\ \A j \in 1..(i - 1) : 1 + j - 1 = j
      BY <1>1
    <3> QED BY <2>2, <3>1 DEF u
  <2>4. u = [j \in 1..(i - 1) |-> u[j]]
    BY <2>3, LenProperties
  <2> QED BY <2>3, <2>4 DEF u
<1>5. s \in Seq(Nat) /\ Len(s) = i - 1 /\ \A j \in 1..(i - 1) : s[j] = w[j]
  <2>1. \A j \in 1..n : w[j] \in Nat
    BY <1>1, ElementOfSeq
  <2>2. s \in [1..(i - 1) -> Nat] /\ i - 1 \in Nat
    BY <1>1, <2>1
  <2> QED BY <2>2, SeqDef
<1> HIDE DEF s
<1>6. p = <<8>> \o s
  <2>1. <<8>> \in Seq(Nat) /\ Len(<<8>>) = 1
    OBVIOUS
  <2> DEFINE e == <<8>> \o s
  <2>2. /\ e \in Seq(Nat) /\ Len(e) = 1 + (i - 1)
        /\ \A j \in 1..(1 + (i - 1)) : e[j] = IF j <= 1 THEN <<8>>[j] ELSE s[j - 1]
    BY <1>5, <2>1, ConcatProperties
  <2> HIDE DEF e
  <2>3. 1 + (i - 1) = i
    BY <1>1
  <2>4. e = [j \in 1..i |-> e[j]]
    BY <2>2, <2>3
  <2>5. \A j \in 1..i : e[j] = q[j]
    <3>1. SUFFICES ASSUME NEW j \in 1..i PROVE e[j] = q[j]
      OBVIOUS
    <3>2. j \in 1..(n + 1) /\ (j > 1 => j - 1 \in 1..(i - 1))
      BY <1>1
    <3>3. CASE j = 1
      <4>1. e[1] = <<8>>[1] /\ q[1] = <<8>>[1]
        BY <1>1, <1>2, <2>2, <2>3
      <4> QED BY <3>3, <4>1
    <3>4. CASE j # 1
      <4>1. j > 1 /\ j \in 1..(1 + (i - 1)) /\ ~(j <= 1)
        BY <1>1, <2>3, <3>4
      <4>2. e[j] = s[j - 1] /\ q[j] = w[j - 1]
        BY <1>2, <2>2, <3>2, <4>1
      <4> QED BY <1>5, <3>2, <4>1, <4>2
    <3> QED BY <3>3, <3>4
  <2> QED BY <2>4, <2>5 DEF e
<1>7. Before(q, i + 1) = 8 + SumSeq(s)
  <2>1. s \in Seq(Int) /\ <<8>> \in Seq(Int) /\ 8 \in Int
    BY <1>5, NatSeqIsIntSeq
  <2>2. SumSeq(<<8>>) = 8
    BY <2>1, SumOne
  <2>3. SumSeq(<<8>> \o s) = SumSeq(<<8>>) + SumSeq(s)
    BY <2>1, SumConcat
  <2>4. (i + 1) - 1 = i
    BY <1>1
  <2> QED BY <1>6, <2>2, <2>3, <2>4 DEF Before
<1>8. Offset(g.channels, i) = 8 + SumSeq(s)
  BY <1>4 DEF Offset, w
<1>9. r[i + 1].value = g.channels[i].data[row]
  <2>1. r[i + 1] = Value(g, i, row)
    BY DEF RowIs
  <2> QED BY <2>1 DEF Value
<1> HIDE DEF p
<1>10. Before(q, i + 1) = channel.offset /\ q[i + 1] = ByteSize(channel.type)
  BY <1>0, <1>1, <1>3, <1>7, <1>8
<1>11. Cell(r, channel) = r[i + 1].value
  <2>1. PointsTo(channel, r, i + 1)
    BY <1>10 DEF PointsTo, q
  <2> QED BY <1>3, <2>1, CellPicked DEF n
<1> QED BY <1>9, <1>11

-----------------------------------------------------------------------------
(* The texts of a group: its name, those of the time, then a name and a    *)
(* unit for each channel.                                                  *)
Pairs(S, ss, f) ==
  /\ f \in Seq(S) /\ Len(f) = 2 * Len(ss)
  /\ \A i \in 1..Len(ss) : f[2 * i - 1] = ss[i][1] /\ f[2 * i] = ss[i][2]

LEMMA PairsFlat == \A S : \A ss \in Seq(S \X S) : Pairs(S, ss, FlattenSeq(ss))
<1> SUFFICES ASSUME NEW S PROVE \A ss \in Seq(S \X S) : Pairs(S, ss, FlattenSeq(ss))
  OBVIOUS
<1> DEFINE P == S \X S
           T == {ss \in Seq(P) : ss \in Seq(Seq(S)) /\ Pairs(S, ss, FlattenSeq(ss))}
<1>0. \A x \in P : x \in Seq(S) /\ Len(x) = 2
  <2>1. \A a, b \in S : <<a, b>> \in Seq(S) /\ Len(<<a, b>>) = 2
    OBVIOUS
  <2>2. \A x \in P : \E a, b \in S : x = <<a, b>>
    OBVIOUS
  <2> HIDE DEF P
  <2> QED BY <2>1, <2>2, Zenon
<1>1. << >> \in T
  <2>1. << >> \in Seq(P) /\ << >> \in Seq(Seq(S)) /\ Len(<< >>) = 0 /\ << >> \in Seq(S)
    BY EmptySeq
  <2>2. Pairs(S, << >>, << >>)
    BY <2>1 DEF Pairs
  <2> QED BY <2>1, <2>2, FlattenEmpty
<1>2. ASSUME NEW ss \in Seq(P), NEW x \in P, ss \in T PROVE Append(ss, x) \in T
  <2> DEFINE f == FlattenSeq(ss)
             tt == Append(ss, x)
             n == Len(ss)
  <2>1. ss \in Seq(Seq(S)) /\ Pairs(S, ss, f)
    BY <1>2
  <2>2. /\ n \in Nat /\ tt \in Seq(P) /\ Len(tt) = n + 1 /\ tt[n + 1] = x
        /\ \A i \in 1..n : tt[i] = ss[i]
    BY AppendProperties, LenProperties
  <2>3. x \in Seq(S) /\ Len(x) = 2
    BY <1>0
  <2>4. tt \in Seq(Seq(S))
    BY <2>1, <2>3, AppendProperties
  <2>5. FlattenSeq(tt) = f \o x
    BY <2>1, <2>3, FlattenAppend
  <2> HIDE DEF f, tt, n, P
  <2>6. /\ f \in Seq(S) /\ Len(f) = 2 * n
        /\ \A i \in 1..n : f[2 * i - 1] = ss[i][1] /\ f[2 * i] = ss[i][2]
    BY <2>1 DEF Pairs, n
  <2> DEFINE e == f \o x
  <2>7. /\ e \in Seq(S) /\ Len(e) = 2 * n + 2
        /\ \A k \in 1..(2 * n + 2) : e[k] = IF k <= 2 * n THEN f[k] ELSE x[k - 2 * n]
    <3> DEFINE m == Len(f)
    <3>1. /\ e \in Seq(S) /\ Len(e) = m + Len(x)
          /\ \A k \in 1..(m + Len(x)) : e[k] = IF k <= m THEN f[k] ELSE x[k - m]
      BY <2>3, <2>6, ConcatProperties
    <3> HIDE DEF e
    <3> QED BY <2>3, <2>6, <3>1
  <2> HIDE DEF e
  <2>8. ASSUME NEW i \in 1..(n + 1) PROVE e[2 * i - 1] = tt[i][1] /\ e[2 * i] = tt[i][2]
    <3>1. CASE i = n + 1
      <4>1. e[2 * n + 1] = x[1] /\ e[2 * n + 2] = x[2]
        <5>1. /\ 2 * n + 1 \in 1..(2 * n + 2) /\ 2 * n + 2 \in 1..(2 * n + 2)
              /\ ~(2 * n + 1 <= 2 * n) /\ ~(2 * n + 2 <= 2 * n)
              /\ (2 * n + 1) - 2 * n = 1 /\ (2 * n + 2) - 2 * n = 2
          BY <2>2
        <5> QED BY <2>7, <5>1
      <4> QED BY <2>2, <3>1, <4>1
    <3>2. CASE i # n + 1
      <4>1. i \in 1..n /\ 2 * i - 1 \in 1..(2 * n + 2) /\ 2 * i \in 1..(2 * n + 2) /\ 2 * i <= 2 * n
        BY <2>2, <3>2
      <4>2. e[2 * i - 1] = f[2 * i - 1] /\ e[2 * i] = f[2 * i]
        BY <2>2, <2>7, <4>1
      <4> QED BY <2>2, <2>6, <4>1, <4>2
    <3> QED BY <3>1, <3>2
  <2>9. Pairs(S, tt, FlattenSeq(tt))
    BY <2>2, <2>5, <2>7, <2>8 DEF Pairs, e
  <2> QED BY <2>2, <2>4, <2>9 DEF tt
<1> HIDE DEF T
<1>3. Seq(P) \subseteq T
  BY <1>1, <1>2, Plus!SeqInduction
<1> QED BY <1>3 DEF T, P

Names(g) ==
  <<g.name, "time", "s">> \o
    FlattenSeq([i \in DOMAIN g.channels |-> <<g.channels[i].name, g.channels[i].unit>>])

NamesOf(g, names) ==
  LET n == Len(g.channels)
  IN  /\ Len(names) = 3 + 2 * n /\ DOMAIN names = 1..(3 + 2 * n)
      /\ names[1] = g.name /\ names[2] = "time" /\ names[3] = "s"
      /\ \A i \in 1..n : /\ names[2 + 2 * i] = g.channels[i].name
                         /\ names[3 + 2 * i] = g.channels[i].unit

LEMMA NamesAre == \A g : GoodGroup(g) => NamesOf(g, Names(g))
<1> SUFFICES ASSUME NEW g, GoodGroup(g) PROVE NamesOf(g, Names(g))
  OBVIOUS
<1> DEFINE n == Len(g.channels)
           Text == {g.name, "time", "s"} \cup {g.channels[i].name : i \in 1..n}
                     \cup {g.channels[i].unit : i \in 1..n}
           ss == [i \in DOMAIN g.channels |-> <<g.channels[i].name, g.channels[i].unit>>]
           f == FlattenSeq(ss)
           h == <<g.name, "time", "s">>
           e == h \o f
<1>1. n \in Nat /\ DOMAIN g.channels = 1..n
  BY GoodGroupIs
<1>2. ss \in Seq(Text \X Text) /\ Len(ss) = n
  <2>1. \A i \in 1..n : ss[i] \in Text \X Text
    BY <1>1
  <2>2. PICK C : g.channels \in Seq(C)
    BY DEF GoodGroup
  <2> DEFINE cs == g.channels
  <2>3. LongAs(ss, cs)
    BY DEF LongAs
  <2> DEFINE P == Text \X Text
  <2> HIDE DEF ss, cs, P
  <2>4. cs \in Seq(C) /\ \A i \in 1..Len(cs) : ss[i] \in P
    BY <2>1, <2>2 DEF cs, P, n
  <2>5. ss \in Seq(P) /\ Len(ss) = Len(cs)
    BY <2>3, <2>4, SeqOver
  <2> QED BY <2>5 DEF cs, P
<1>3. \A i \in 1..n : ss[i][1] = g.channels[i].name /\ ss[i][2] = g.channels[i].unit
  BY <1>1
<1>4. Pairs(Text, ss, f)
  <2> HIDE DEF ss, Text
  <2> QED BY <1>2, PairsFlat
<1>t. g.name \in Text /\ "time" \in Text /\ "s" \in Text
  OBVIOUS
<1> HIDE DEF Text
<1>5. Names(g) = e
  BY DEF Names
<1> HIDE DEF ss, f, n
<1>6. /\ f \in Seq(Text) /\ Len(f) = 2 * n
      /\ \A i \in 1..n : f[2 * i - 1] = ss[i][1] /\ f[2 * i] = ss[i][2]
  BY <1>2, <1>4 DEF Pairs
<1>7. h \in Seq(Text) /\ Len(h) = 3 /\ h[1] = g.name /\ h[2] = "time" /\ h[3] = "s"
  <2>2. ASSUME NEW a \in Text, NEW b \in Text, NEW c \in Text
        PROVE  /\ <<a, b, c>> \in Seq(Text) /\ Len(<<a, b, c>>) = 3 /\ <<a, b, c>>[1] = a
               /\ <<a, b, c>>[2] = b /\ <<a, b, c>>[3] = c
    <3>1. <<a, b, c>> \in Seq(Text)
      OBVIOUS
    <3>2. Len(<<a, b, c>>) = 3
      OBVIOUS
    <3> QED BY <3>1, <3>2
  <2> QED BY <1>t, <2>2
<1> HIDE DEF h
<1>8. /\ e \in Seq(Text) /\ Len(e) = 3 + 2 * n
      /\ \A k \in 1..(3 + 2 * n) : e[k] = IF k <= 3 THEN h[k] ELSE f[k - 3]
  <2> DEFINE m == Len(h)
  <2>1. /\ e \in Seq(Text) /\ Len(e) = m + Len(f)
        /\ \A k \in 1..(m + Len(f)) : e[k] = IF k <= m THEN h[k] ELSE f[k - m]
    BY <1>6, <1>7, ConcatProperties
  <2> HIDE DEF e
  <2> QED BY <1>6, <1>7, <2>1
<1> HIDE DEF e
<1>9. DOMAIN e = 1..(3 + 2 * n)
  BY <1>8, LenProperties
<1>10. e[1] = g.name /\ e[2] = "time" /\ e[3] = "s"
  BY <1>1, <1>7, <1>8
<1>11. ASSUME NEW i \in 1..n
       PROVE  e[2 + 2 * i] = g.channels[i].name /\ e[3 + 2 * i] = g.channels[i].unit
  <2>1. /\ 2 + 2 * i \in 1..(3 + 2 * n) /\ 3 + 2 * i \in 1..(3 + 2 * n)
        /\ ~(2 + 2 * i <= 3) /\ ~(3 + 2 * i <= 3)
        /\ (2 + 2 * i) - 3 = 2 * i - 1 /\ (3 + 2 * i) - 3 = 2 * i
    BY <1>1
  <2>2. e[2 + 2 * i] = f[2 * i - 1] /\ e[3 + 2 * i] = f[2 * i]
    BY <1>8, <2>1
  <2> QED BY <1>3, <1>6, <2>2
<1> QED BY <1>5, <1>8, <1>9, <1>10, <1>11 DEF NamesOf, n

-----------------------------------------------------------------------------
(* Where the blocks of a group lie that begins at s, and what they hold.   *)
DgAt(s, g) == TextAt(s, 4 + 2 * Len(g.channels))
CgAt(s, g) == DgAt(s, g) + 64
CnAt(s, g, j) == ChannelPos(DgAt(s, g) + 168, j)
DtAt(s, g) == CnAt(s, g, Len(g.channels) + 2)

TimeEntry(s) ==
  [name |-> TextAt(s, 2), unit |-> TextAt(s, 3), master |-> TRUE, type |-> "float64", offset |-> 0]

ValueEntry(s, g, i) ==
  [name |-> TextAt(s, 2 + 2 * i), unit |-> TextAt(s, 3 + 2 * i), master |-> FALSE,
   type |-> g.channels[i].type, offset |-> Offset(g.channels, i)]

Entries(s, g) == <<TimeEntry(s)>> \o [i \in DOMAIN g.channels |-> ValueEntry(s, g, i)]

EntriesOf(s, g, es) ==
  LET n == Len(g.channels)
  IN  /\ Len(es) = n + 1 /\ es[1] = TimeEntry(s)
      /\ \A i \in 1..n : es[i + 1] = ValueEntry(s, g, i)
      /\ \E P : ArePlaces(P) /\ es \in Seq(P)

LEMMA EntriesAre == \A s, g : s \in Nat /\ GoodGroup(g) => EntriesOf(s, g, Entries(s, g))
<1> SUFFICES ASSUME NEW s \in Nat, NEW g, GoodGroup(g) PROVE EntriesOf(s, g, Entries(s, g))
  OBVIOUS
<1> DEFINE n == Len(g.channels)
           x == TimeEntry(s)
           V(i) == ValueEntry(s, g, i)
           vs == [i \in DOMAIN g.channels |-> V(i)]
           P == {x} \cup {V(i) : i \in 1..n}
           es == <<x>> \o vs
<1>1. n \in Nat /\ DOMAIN g.channels = 1..n
  BY GoodGroupIs
<1>2. Entries(s, g) = es
  BY DEF Entries
<1>3. ArePlaces(P)
  <2>1. x.name \in Nat /\ x.unit \in Nat
    BY TextsApart DEF TimeEntry
  <2>2. ASSUME NEW i \in 1..n PROVE V(i).name \in Nat /\ V(i).unit \in Nat
    <3>1. /\ 2 + 2 * i \in Nat /\ 2 + 2 * i > 0 /\ 3 + 2 * i \in Nat /\ 3 + 2 * i > 0
      BY <1>1
    <3>2. TextAt(s, 2 + 2 * i) \in Nat /\ TextAt(s, 3 + 2 * i) \in Nat
      BY <3>1, TextsApart
    <3> QED BY <3>2 DEF ValueEntry
  <2> HIDE DEF x, V
  <2> QED BY <2>1, <2>2 DEF ArePlaces
<1>4. vs \in Seq(P) /\ Len(vs) = n /\ \A i \in 1..n : vs[i] = V(i)
  <2> HIDE DEF V
  <2>1. \A i \in 1..n : vs[i] = V(i) /\ vs[i] \in P
    BY <1>1
  <2>2. PICK C : g.channels \in Seq(C)
    BY DEF GoodGroup
  <2> DEFINE cs == g.channels
  <2>3. LongAs(vs, cs)
    BY DEF LongAs
  <2>4. cs \in Seq(C) /\ \A i \in 1..Len(cs) : vs[i] \in P
    BY <2>1, <2>2
  <2> HIDE DEF vs, cs, P
  <2>5. vs \in Seq(P) /\ Len(vs) = Len(cs)
    BY <2>3, <2>4, SeqOver
  <2> QED BY <2>1, <2>5 DEF cs
<1>5. <<x>> \in Seq(P) /\ Len(<<x>>) = 1
  <2> HIDE DEF x
  <2> QED OBVIOUS
<1> HIDE DEF x, vs, P, n, V
<1>6. /\ es \in Seq(P) /\ Len(es) = 1 + n
      /\ \A k \in 1..(1 + n) : es[k] = IF k <= 1 THEN <<x>>[k] ELSE vs[k - 1]
  BY <1>4, <1>5, ConcatProperties
<1> HIDE DEF es
<1>7. es[1] = x
  <2>1. 1 \in 1..(1 + n) /\ <<x>>[1] = x
    BY <1>1
  <2> QED BY <1>6, <2>1
<1>8. \A i \in 1..n : es[i + 1] = V(i)
  <2>1. \A i \in 1..n : i + 1 \in 1..(1 + n) /\ ~(i + 1 <= 1) /\ (i + 1) - 1 = i
    BY <1>1
  <2> QED BY <1>4, <1>6, <2>1
<1> QED BY <1>1, <1>2, <1>3, <1>6, <1>7, <1>8 DEF EntriesOf, x, V, n

GroupHead(g) == [cycles |-> Len(g.times), bytes |-> RecordSize(g.channels)]

ChannelBlock(f, s, g, j) ==
  /\ ChannelAt(f, CnAt(s, g, j), Entries(s, g)[j])
  /\ LinkIs(f, CnAt(s, g, j), 1, IF j = Len(g.channels) + 1 THEN 0 ELSE CnAt(s, g, j + 1))

TextBlock(f, s, g, i) ==
  TextAt(s, i) \in DOMAIN f.blocks /\ f.blocks[TextAt(s, i)].data = Names(g)[i]

GroupAt(f, s, g) ==
  LET dg == DgAt(s, g)
      cg == CgAt(s, g)
      n  == Len(g.channels)
  IN  /\ Holds(f, dg, 4, "group") /\ LinkIs(f, dg, 2, cg) /\ LinkIs(f, dg, 3, DtAt(s, g))
      /\ Holds(f, cg, 6, GroupHead(g)) /\ LinkIs(f, cg, 2, CnAt(s, g, 1))
      /\ LinkIs(f, cg, 3, TextAt(s, 1))
      /\ \A j \in 1..(n + 1) : ChannelBlock(f, s, g, j)
      /\ Holds(f, DtAt(s, g), 0, Records(g))
      /\ \A i \in 1..(3 + 2 * n) : TextBlock(f, s, g, i)

(* The bytes of the records are those the block of the data states.        *)
LEMMA DataBytes ==
  \A g : GoodGroup(g) =>
    /\ Len(g.times) * RecordSize(g.channels) \in Nat
    /\ SumSeq([row \in DOMAIN Records(g) |-> RowBytes(Records(g)[row])])
         = Len(g.times) * RecordSize(g.channels)
<1> SUFFICES ASSUME NEW g, GoodGroup(g)
             PROVE  /\ Len(g.times) * RecordSize(g.channels) \in Nat
                    /\ SumSeq([row \in DOMAIN Records(g) |-> RowBytes(Records(g)[row])])
                         = Len(g.times) * RecordSize(g.channels)
  OBVIOUS
<1> DEFINE k == RecordSize(g.channels)
           T == Len(g.times)
           rs == Records(g)
           w == [row \in DOMAIN rs |-> RowBytes(rs[row])]
<1>1. k \in Nat
  <2>1. SumSeq(Widths(g.channels)) \in Nat
    BY WidthsNat, SumNat
  <2> QED BY <2>1 DEF RecordSize
<1>2. T \in Nat
  BY GoodGroupIs
<1>3. DOMAIN rs = 1..T /\ Len(rs) = T /\ \A row \in 1..T : RowIs(g, row, rs[row])
  BY RecordsAre
<1>4. \A row \in 1..T : RowBytes(rs[row]) = k
  <2> HIDE DEF rs, k, T
  <2> QED BY <1>3, SizesAre DEF k
<1> HIDE DEF rs, k, T
<1>5. w = [row \in 1..T |-> k]
  BY <1>3, <1>4
<1> HIDE DEF w
<1>6. w \in Seq(Nat) /\ Len(w) = T
  <2>1. w \in [1..T -> Nat]
    BY <1>1, <1>5
  <2>2. w \in Seq(Nat)
    BY <1>2, <2>1, SeqDef
  <2> QED BY <1>2, <1>5, <2>2
<1>7. \A i \in 1..Len(w) : w[i] = k
  BY <1>5, <1>6
<1>8. SumSeq(w) = T * k
  BY <1>1, <1>6, <1>7, SumConst
<1>9. T * k \in Nat
  BY <1>1, <1>2
<1> QED BY <1>8, <1>9 DEF w, T, k, rs

(* A group written at the end of a file, linked from the block p.          *)
Linking(w) == IF w.last_dg = 0 THEN 64 ELSE w.last_dg

GroupPut(f, v, p, n, data, g) ==
  LET dg == DgAt(f.size, g)
  IN  /\ v = [file |-> v.file, last_dg |-> dg]
      /\ Keeps(f, v.file, {p}) /\ Relinked(f, v.file, p, n, data, 1, dg)
      /\ GroupAt(v.file, f.size, g) /\ LinkIs(v.file, dg, 1, 0)
      /\ dg \in Nat /\ f.size <= dg

(* What PutGroup does, part by part.                                       *)
LEMMA PutGroupIs ==
  \A w, g :
    LET texts == PutTexts(w.file, Names(g))
        dg    == texts.size
        cg    == Patch(Put(texts, "DG", 4, 8, 8, "group"), Linking(w), 1, dg).size
        heads == Heads(texts, Linking(w), TextAt(w.file.size, 1), GroupHead(g))
        chans == Channels(NoChannels(heads, cg), Entries(w.file.size, g)).file
        done  == Put(chans, "DT", 0, Len(g.times) * RecordSize(g.channels),
                     SumSeq([row \in DOMAIN Records(g) |-> RowBytes(Records(g)[row])]), Records(g))
    IN  PutGroup(w, g) = [file |-> Patch(done, dg, 3, chans.size), last_dg |-> dg]
<1> SUFFICES ASSUME NEW w, NEW g
             PROVE
    LET texts == PutTexts(w.file, Names(g))
        dg    == texts.size
        cg    == Patch(Put(texts, "DG", 4, 8, 8, "group"), Linking(w), 1, dg).size
        heads == Heads(texts, Linking(w), TextAt(w.file.size, 1), GroupHead(g))
        chans == Channels(NoChannels(heads, cg), Entries(w.file.size, g)).file
        done  == Put(chans, "DT", 0, Len(g.times) * RecordSize(g.channels),
                     SumSeq([row \in DOMAIN Records(g) |-> RowBytes(Records(g)[row])]), Records(g))
    IN  PutGroup(w, g) = [file |-> Patch(done, dg, 3, chans.size), last_dg |-> dg]
  OBVIOUS
<1> QED BY Zenon DEF PutGroup, Names, Heads, GroupHead, Channels, NoChannels, Entries, TimeEntry,
                     ValueEntry, Linking, TextAt, TextSize

(* The steps of a group, each from the file before.                        *)
LEMMA TextsOfGroup ==
  \A f, g : IsFile(f) /\ GoodGroup(g) =>
    LET t == PutTexts(f, Names(g))
    IN  /\ Keeps(f, t, {}) /\ t.size = DgAt(f.size, g)
        /\ \A i \in 1..(3 + 2 * Len(g.channels)) : TextBlock(t, f.size, g, i)
<1> SUFFICES ASSUME NEW f, NEW g, IsFile(f), GoodGroup(g)
             PROVE  LET t == PutTexts(f, Names(g))
                    IN  /\ Keeps(f, t, {}) /\ t.size = DgAt(f.size, g)
                        /\ \A i \in 1..(3 + 2 * Len(g.channels)) : TextBlock(t, f.size, g, i)
  OBVIOUS
<1> DEFINE n == Len(g.channels)
           names == Names(g)
           t == PutTexts(f, names)
<1>1. n \in Nat
  BY GoodGroupIs
<1>2. NamesOf(g, names)
  BY NamesAre
<1>3. Len(names) = 3 + 2 * n /\ DOMAIN names = 1..(3 + 2 * n)
  BY <1>2 DEF NamesOf
<1> HIDE DEF names, n
<1>4. Len(names) \in Nat /\ DOMAIN names = 1..Len(names)
  BY <1>1, <1>3
<1>5. TextsPut(f, t, names)
  BY <1>4, TextsAre
<1> HIDE DEF t
<1>6. /\ Keeps(f, t, {}) /\ t.size = TextAt(f.size, Len(names) + 1)
      /\ \A i \in 1..(3 + 2 * n) : /\ TextAt(f.size, i) \in DOMAIN t.blocks
                                   /\ t.blocks[TextAt(f.size, i)].data = names[i]
  BY <1>3, <1>5 DEF TextsPut
<1>7. Len(names) + 1 = 4 + 2 * n
  BY <1>1, <1>3
<1> QED BY <1>6, <1>7 DEF TextBlock, DgAt, n, names, t

LEMMA TextsBelow ==
  \A s, g, i :
    s \in Nat /\ GoodGroup(g) /\ i \in 1..(3 + 2 * Len(g.channels))
    => TextAt(s, i) \in Nat /\ s <= TextAt(s, i) /\ TextAt(s, i) < DgAt(s, g) /\ DgAt(s, g) \in Nat
<1> SUFFICES ASSUME NEW s \in Nat, NEW g, GoodGroup(g), NEW i \in 1..(3 + 2 * Len(g.channels))
             PROVE  /\ TextAt(s, i) \in Nat /\ s <= TextAt(s, i)
                    /\ TextAt(s, i) < DgAt(s, g) /\ DgAt(s, g) \in Nat
  OBVIOUS
<1> DEFINE n == Len(g.channels)
<1>1. n \in Nat
  BY GoodGroupIs
<1>2. i \in Nat /\ i > 0 /\ 4 + 2 * n \in Nat /\ 4 + 2 * n > 0 /\ i < 4 + 2 * n
  BY <1>1
<1>3. /\ TextAt(s, i) \in Nat /\ s <= TextAt(s, i) /\ TextAt(s, 4 + 2 * n) \in Nat
      /\ TextAt(s, i) + TextSize <= TextAt(s, 4 + 2 * n)
  BY <1>2, TextsApart
<1> QED BY <1>3, TextSizeNat DEF DgAt

LEMMA DgFrom == \A s, g : s \in Nat /\ GoodGroup(g) => DgAt(s, g) \in Nat /\ s < DgAt(s, g)
<1> SUFFICES ASSUME NEW s \in Nat, NEW g, GoodGroup(g) PROVE DgAt(s, g) \in Nat /\ s < DgAt(s, g)
  OBVIOUS
<1>1. 1 \in 1..(3 + 2 * Len(g.channels))
  BY GoodGroupIs
<1>2. TextAt(s, 1) \in Nat /\ s <= TextAt(s, 1) /\ TextAt(s, 1) < DgAt(s, g) /\ DgAt(s, g) \in Nat
  BY <1>1, TextsBelow
<1> QED BY <1>2

LEMMA CnFrom ==
  \A s, g, j :
    s \in Nat /\ GoodGroup(g) /\ j \in 1..(Len(g.channels) + 2)
    => CnAt(s, g, j) \in Nat /\ DgAt(s, g) + 168 <= CnAt(s, g, j)
BY DgFrom, GoodGroupIs DEF CnAt, ChannelPos

LEMMA TextBlockKept ==
  \A f, g, X, s, group, i :
    Keeps(f, g, X) /\ TextAt(s, i) \notin X /\ TextBlock(f, s, group, i) => TextBlock(g, s, group, i)
BY DEF Keeps, TextBlock

LEMMA ChannelBlockKept ==
  \A f, g, X, s, group, j :
    Keeps(f, g, X) /\ CnAt(s, group, j) \notin X /\ ChannelBlock(f, s, group, j)
    => ChannelBlock(g, s, group, j)
<1> SUFFICES ASSUME NEW f, NEW g, NEW X, NEW s, NEW group, NEW j,
                    Keeps(f, g, X), CnAt(s, group, j) \notin X, ChannelBlock(f, s, group, j)
             PROVE  ChannelBlock(g, s, group, j)
  OBVIOUS
<1>1. ChannelAt(f, CnAt(s, group, j), Entries(s, group)[j])
  BY DEF ChannelBlock
<1>2. ChannelAt(g, CnAt(s, group, j), Entries(s, group)[j])
  BY <1>1, ChannelAtKept
<1>3. Holds(f, CnAt(s, group, j), 8, Told(Entries(s, group)[j]))
  BY <1>1 DEF ChannelAt
<1>4. g.blocks[CnAt(s, group, j)] = f.blocks[CnAt(s, group, j)]
  BY <1>3, KeptHolds
<1> QED BY <1>2, <1>4 DEF ChannelBlock, LinkIs

ChannelsIn(h, c, s, g) ==
  /\ Keeps(h, c, {CgAt(s, g)}) /\ c.size = DtAt(s, g)
  /\ Relinked(h, c, CgAt(s, g), 6, GroupHead(g), 2, CnAt(s, g, 1))
  /\ \A j \in 1..(Len(g.channels) + 1) : ChannelBlock(c, s, g, j)

LEMMA ChannelsOfGroup ==
  \A h, s, g :
    /\ IsFile(h) /\ s \in Nat /\ GoodGroup(g) /\ h.size = DgAt(s, g) + 168
    /\ Holds(h, CgAt(s, g), 6, GroupHead(g)) /\ LinkIs(h, CgAt(s, g), 2, 0)
    => ChannelsIn(h, Channels(NoChannels(h, CgAt(s, g)), Entries(s, g)).file, s, g)
<1> SUFFICES ASSUME NEW h, NEW s \in Nat, NEW g,
                    IsFile(h), GoodGroup(g), h.size = DgAt(s, g) + 168,
                    Holds(h, CgAt(s, g), 6, GroupHead(g)), LinkIs(h, CgAt(s, g), 2, 0)
             PROVE  ChannelsIn(h, Channels(NoChannels(h, CgAt(s, g)), Entries(s, g)).file, s, g)
  OBVIOUS
<1> DEFINE n == Len(g.channels)
           cg == CgAt(s, g)
           head == GroupHead(g)
           es == Entries(s, g)
           v == Channels(NoChannels(h, cg), es)
<1>1. n \in Nat
  BY GoodGroupIs
<1>2. EntriesOf(s, g, es)
  BY EntriesAre
<1> HIDE DEF es, cg, head, n
<1>3. PICK P : ArePlaces(P) /\ es \in Seq(P)
  BY <1>2 DEF EntriesOf
<1>4. Len(es) = n + 1
  BY <1>2 DEF EntriesOf, n
<1>5. ChannelsPut(h, cg, head, es, v)
  <2>1. Holds(h, cg, 6, head) /\ LinkIs(h, cg, 2, 0)
    BY DEF cg, head
  <2> QED BY <1>3, <2>1, ChannelsAre
<1> HIDE DEF v
<1>6. /\ Keeps(h, v.file, {cg}) /\ v.file.size = ChannelPos(h.size, (n + 1) + 1)
      /\ Relinked(h, v.file, cg, 6, head, 2, IF n + 1 = 0 THEN 0 ELSE h.size)
      /\ \A j \in 1..(n + 1) : /\ ChannelAt(v.file, ChannelPos(h.size, j), es[j])
                               /\ LinkIs(v.file, ChannelPos(h.size, j), 1,
                                         IF j = n + 1 THEN 0 ELSE ChannelPos(h.size, j + 1))
  BY <1>4, <1>5 DEF ChannelsPut
<1>7. n + 1 # 0 /\ (n + 1) + 1 = n + 2
  BY <1>1
<1>8. \A j : ChannelPos(h.size, j) = CnAt(s, g, j)
  BY DEF CnAt
<1>9. h.size = CnAt(s, g, 1)
  <2>1. h.size = ChannelPos(h.size, 1)
    BY DEF ChannelPos, IsFile
  <2> QED BY <1>8, <2>1
<1>10. v.file.size = DtAt(s, g)
  BY <1>6, <1>7, <1>8 DEF DtAt, n
<1>11. Relinked(h, v.file, cg, 6, head, 2, CnAt(s, g, 1))
  BY <1>6, <1>7, <1>9
<1>12. \A j \in 1..(n + 1) : ChannelBlock(v.file, s, g, j)
  BY <1>6, <1>8 DEF ChannelBlock, es, n
<1> QED BY <1>6, <1>10, <1>11, <1>12 DEF ChannelsIn, v, cg, head, es, n

LEMMA GroupIs ==
  \A w, g, n, data :
    /\ IsFile(w.file) /\ GoodGroup(g) /\ 1 \in 1..n /\ Holds(w.file, Linking(w), n, data)
    => GroupPut(w.file, PutGroup(w, g), Linking(w), n, data, g)
<1> SUFFICES ASSUME NEW w, NEW g, NEW n, NEW data,
                    IsFile(w.file), GoodGroup(g), 1 \in 1..n, Holds(w.file, Linking(w), n, data)
             PROVE  GroupPut(w.file, PutGroup(w, g), Linking(w), n, data, g)
  OBVIOUS
<1> DEFINE f == w.file
           s == f.size
           p == Linking(w)
           m == Len(g.channels)
           dg == DgAt(s, g)
           cg == CgAt(s, g)
           dt == DtAt(s, g)
           head == GroupHead(g)
           t == PutTexts(f, Names(g))
           u == Put(t, "DG", 4, 8, 8, "group")
           h == Heads(t, p, TextAt(s, 1), head)
           c == Channels(NoChannels(h, cg), Entries(s, g)).file
           k == Len(g.times) * RecordSize(g.channels)
           d == Put(c, "DT", 0, k,
                    SumSeq([row \in DOMAIN Records(g) |-> RowBytes(Records(g)[row])]), Records(g))
           e == Patch(d, dg, 3, dt)
           v == PutGroup(w, g)
<1>1. s \in Nat /\ m \in Nat /\ dg \in Nat /\ s < dg /\ cg = dg + 64 /\ p \in Nat /\ p < s
  BY DgFrom, GoodGroupIs DEF CgAt, IsFile, Holds
<1>2. /\ Keeps(f, t, {}) /\ t.size = dg
      /\ \A i \in 1..(3 + 2 * m) : TextBlock(t, s, g, i)
  BY TextsOfGroup
<1>3. \A i \in 1..(3 + 2 * m) : TextAt(s, i) \in Nat /\ s <= TextAt(s, i) /\ TextAt(s, i) < dg
  BY <1>1, TextsBelow
<1>4. \A j \in 1..(m + 2) : CnAt(s, g, j) \in Nat /\ dg + 168 <= CnAt(s, g, j)
  BY <1>1, CnFrom
<1>5. dt \in Nat /\ dg + 168 <= dt /\ dt = CnAt(s, g, m + 2)
  <2>1. m + 2 \in 1..(m + 2)
    BY <1>1
  <2> QED BY <1>4, <2>1 DEF DtAt
<1>6. v = [file |-> Patch(d, dg, 3, c.size), last_dg |-> dg]
  <2>1. v = LET tt == PutTexts(w.file, Names(g))
                dd == tt.size
                cc == Patch(Put(tt, "DG", 4, 8, 8, "group"), Linking(w), 1, dd).size
                hh == Heads(tt, Linking(w), TextAt(w.file.size, 1), GroupHead(g))
                ch == Channels(NoChannels(hh, cc), Entries(w.file.size, g)).file
                de == Put(ch, "DT", 0, Len(g.times) * RecordSize(g.channels),
                          SumSeq([row \in DOMAIN Records(g) |-> RowBytes(Records(g)[row])]),
                          Records(g))
            IN  [file |-> Patch(de, dd, 3, ch.size), last_dg |-> dd]
    BY PutGroupIs, Zenon
  <2>2. Patch(u, p, 1, t.size).size = cg
    <3>1. IsFile(t) /\ Holds(t, p, n, data)
      BY <1>2, KeptHolds DEF Keeps
    <3>2. PutAt(t, u, 4, 64, "group")
      <4> HIDE DEF t
      <4> QED BY <3>1, PutHolds
    <3> HIDE DEF u, t
    <3>3. IsFile(u) /\ u.size = cg /\ Holds(u, p, n, data)
      <4>1. Keeps(t, u, {}) /\ u.size = t.size + 64
        BY <3>2 DEF PutAt
      <4>2. Holds(u, p, n, data)
        BY <3>1, <4>1, KeptHolds
      <4> QED BY <1>1, <1>2, <4>1, <4>2 DEF Keeps
    <3>4. Patch(u, p, 1, dg).size = u.size
      <4>1. dg \in Nat /\ 1 \in 1..n
        BY <1>1
      <4> HIDE DEF p, dg, cg
      <4> DEFINE x == Patch(u, p, 1, dg)
      <4>2. Keeps(u, x, {p}) /\ x.size = u.size /\ Relinked(u, x, p, n, data, 1, dg)
        BY <3>3, <4>1, PatchHolds, Zenon
      <4> QED BY <4>2
    <3> QED BY <1>2, <3>3, <3>4
  <2>3. t.size = dg
    BY <1>2
  <2> DEFINE cc == Patch(u, p, 1, t.size).size
             ch == Channels(NoChannels(h, cc), Entries(s, g)).file
             de == Put(ch, "DT", 0, k,
                    SumSeq([row \in DOMAIN Records(g) |-> RowBytes(Records(g)[row])]), Records(g))
  <2>4. v = [file |-> Patch(de, t.size, 3, ch.size), last_dg |-> t.size]
    BY <2>1, Zenon
  <2>5. ch = c
    <3> HIDE DEF cc, h
    <3>1. cc = cg
      BY <2>2 DEF cc
    <3> QED BY <3>1
  <2>6. de = d
    <3> HIDE DEF ch, c
    <3> QED BY <2>5
  <2> HIDE DEF v, de, ch, c, d, t
  <2> QED BY <2>3, <2>4, <2>5, <2>6
<1> HIDE DEF v
<1>7. /\ IsFile(t) /\ Holds(t, p, n, data) /\ t.blocks[p] = f.blocks[p]
      /\ TextAt(s, 1) \in Nat
  <2>1. 1 \in 1..(3 + 2 * m)
    BY <1>1
  <2> HIDE DEF t, p
  <2>2. Holds(t, p, n, data) /\ t.blocks[p] = f.blocks[p]
    <3>1. Holds(f, p, n, data)
      BY DEF p
    <3> QED BY <1>2, <3>1, KeptHolds
  <2>3. IsFile(t)
    BY <1>2 DEF Keeps
  <2> QED BY <1>3, <2>1, <2>2, <2>3
<1> HIDE DEF t
<1>8. HeadsPut(t, h, p, n, data, TextAt(s, 1), head)
  <2> HIDE DEF p, head
  <2> QED BY <1>7, HeadsAre
<1> HIDE DEF h
<1>9. /\ Keeps(t, h, {p}) /\ h.size = dg + 168 /\ IsFile(h)
      /\ Relinked(t, h, p, n, data, 1, dg)
      /\ Holds(h, dg, 4, "group") /\ LinkIs(h, dg, 1, 0) /\ LinkIs(h, dg, 2, cg)
      /\ Holds(h, cg, 6, head) /\ LinkIs(h, cg, 2, 0) /\ LinkIs(h, cg, 3, TextAt(s, 1))
  <2> HIDE DEF p, head
  <2>1. t.size = dg /\ t.size + 64 = cg
    BY <1>1, <1>2
  <2> HIDE DEF dg, cg
  <2> QED BY <1>8, <2>1 DEF HeadsPut, Keeps
<1>10. /\ Keeps(h, c, {cg}) /\ c.size = dt /\ IsFile(c)
       /\ Relinked(h, c, cg, 6, head, 2, CnAt(s, g, 1))
       /\ \A j \in 1..(m + 1) : ChannelBlock(c, s, g, j)
  <2>1. /\ Keeps(h, c, {cg}) /\ c.size = dt
        /\ Relinked(h, c, cg, 6, head, 2, CnAt(s, g, 1))
        /\ \A j \in 1..(m + 1) : ChannelBlock(c, s, g, j)
    <3>1. ChannelsIn(h, c, s, g)
      <4> HIDE DEF s
      <4> QED BY <1>1, <1>9, ChannelsOfGroup
    <3> HIDE DEF c
    <3> QED BY <3>1 DEF ChannelsIn
  <2> HIDE DEF c
  <2> QED BY <2>1 DEF Keeps
<1> HIDE DEF c
<1>11. PutAt(c, d, 0, 24 + 8 * 0 + k, Records(g))
  <2>1. /\ k \in Nat
        /\ SumSeq([row \in DOMAIN Records(g) |-> RowBytes(Records(g)[row])]) = k
    BY DataBytes
  <2> HIDE DEF k
  <2> QED BY <1>10, <2>1, PutHolds
<1> HIDE DEF d
<1>12. Keeps(c, d, {}) /\ IsFile(d) /\ Holds(d, dt, 0, Records(g))
  <2> HIDE DEF k, dt
  <2> QED BY <1>10, <1>11 DEF PutAt, Keeps
<1>13. Keeps(d, e, {dg}) /\ e.size = d.size /\ Relinked(d, e, dg, 4, "group", 3, dt)
  <2>1. Holds(d, dg, 4, "group") /\ 3 \in 1..4
    <3>1. dg \notin {cg}
      BY <1>1
    <3>2. Holds(c, dg, 4, "group")
      BY <1>9, <1>10, <3>1, KeptHolds
    <3> QED BY <1>12, <3>2, KeptHolds
  <2>2. dt \in Nat
    BY <1>5
  <2> HIDE DEF dg, dt
  <2> QED BY <1>12, <2>1, <2>2, PatchHolds, Zenon
<1> HIDE DEF e
<1>14. v.file = e /\ v = [file |-> e, last_dg |-> dg]
  <2>1. v = [file |-> e, last_dg |-> dg]
    BY <1>6, <1>10 DEF e
  <2> QED BY <2>1
(* What the later steps leave alone.                                       *)
<1>15. Keeps(c, e, {dg})
  <2>1. Keeps(c, e, {} \cup {dg})
    BY <1>12, <1>13, KeepsOn
  <2> QED BY <2>1
<1>16. Keeps(h, e, {cg, dg})
  <2>1. Keeps(h, e, {cg} \cup {dg})
    BY <1>10, <1>15, KeepsOn
  <2>2. {cg} \cup {dg} = {cg, dg}
    OBVIOUS
  <2> QED BY <2>1, <2>2
<1>17. Keeps(t, e, {p, cg, dg})
  <2>1. Keeps(t, e, {p} \cup {cg, dg})
    BY <1>9, <1>16, KeepsOn
  <2>2. {p} \cup {cg, dg} = {p, cg, dg}
    OBVIOUS
  <2> QED BY <2>1, <2>2
<1>18. Keeps(f, e, {p})
  <2>1. Keeps(f, e, {} \cup {p, cg, dg})
    BY <1>2, <1>17, KeepsOn
  <2>2. cg \notin DOMAIN f.blocks /\ dg \notin DOMAIN f.blocks
    BY <1>1 DEF IsFile
  <2> HIDE DEF f, p, cg, dg
  <2> QED BY <2>1, <2>2 DEF Keeps
<1>19. Relinked(f, e, p, n, data, 1, dg)
  <2>1. p \notin {cg, dg}
    BY <1>1
  <2>2. Relinked(t, e, p, n, data, 1, dg)
    BY <1>9, <1>16, <2>1, RelinkedOn
  <2> QED BY <1>7, <2>2 DEF Relinked
<1>20. Holds(e, dg, 4, "group") /\ LinkIs(e, dg, 2, cg) /\ LinkIs(e, dg, 3, dt) /\ LinkIs(e, dg, 1, 0)
  <2>1. dg \notin {cg}
    BY <1>1
  <2>2. LinkIs(c, dg, 1, 0) /\ LinkIs(c, dg, 2, cg) /\ Holds(c, dg, 4, "group")
    BY <1>9, <1>10, <2>1, KeptLink, KeptHolds
  <2>3. LinkIs(d, dg, 1, 0) /\ LinkIs(d, dg, 2, cg)
    BY <1>12, <2>2, KeptLink
  <2> QED BY <1>13, <2>3 DEF Relinked, LinkIs
<1>21. Holds(e, cg, 6, head) /\ LinkIs(e, cg, 2, CnAt(s, g, 1)) /\ LinkIs(e, cg, 3, TextAt(s, 1))
  <2>1. cg \notin {dg}
    BY <1>1
  <2>2. Holds(c, cg, 6, head) /\ LinkIs(c, cg, 2, CnAt(s, g, 1)) /\ LinkIs(c, cg, 3, TextAt(s, 1))
    <3>1. Relinked(h, c, cg, 6, head, 2, CnAt(s, g, 1))
      BY <1>10
    <3>2. LinkIs(h, cg, 3, TextAt(s, 1))
      BY <1>9
    <3>3. 3 \in 1..6 /\ 3 # 2
      OBVIOUS
    <3> HIDE DEF cg, s, head
    <3>4. Holds(c, cg, 6, head) /\ LinkIs(c, cg, 2, CnAt(s, g, 1))
      BY <3>1 DEF Relinked
    <3>5. LinkIs(c, cg, 3, TextAt(s, 1))
      BY <3>1, <3>2, <3>3, OtherLink, Zenon
    <3> QED BY <3>4, <3>5
  <2> QED BY <1>15, <2>1, <2>2, KeptHolds, KeptLink
<1>22. \A j \in 1..(m + 1) : ChannelBlock(e, s, g, j)
  <2>1. SUFFICES ASSUME NEW j \in 1..(m + 1) PROVE ChannelBlock(e, s, g, j)
    OBVIOUS
  <2>2. j \in 1..(m + 2)
    BY <1>1
  <2>3. CnAt(s, g, j) \notin {dg}
    BY <1>1, <1>4, <2>2
  <2>4. ChannelBlock(c, s, g, j)
    BY <1>10
  <2> DEFINE X == {dg}
  <2>5. Keeps(c, e, X) /\ CnAt(s, g, j) \notin X
    BY <1>15, <2>3
  <2> HIDE DEF X, s
  <2> QED BY <2>4, <2>5, ChannelBlockKept
<1>23. Holds(e, dt, 0, Records(g))
  <2>1. dt \notin {dg}
    BY <1>1, <1>5
  <2> QED BY <1>12, <1>13, <2>1, KeptHolds
<1>24. \A i \in 1..(3 + 2 * m) : TextBlock(e, s, g, i)
  <2>1. SUFFICES ASSUME NEW i \in 1..(3 + 2 * m) PROVE TextBlock(e, s, g, i)
    OBVIOUS
  <2>2. TextAt(s, i) \notin {p, cg, dg}
    BY <1>1, <1>3
  <2> QED BY <1>2, <1>17, <2>2, TextBlockKept
<1>25. GroupAt(e, s, g)
  BY <1>20, <1>21, <1>22, <1>23, <1>24 DEF GroupAt
<1> QED BY <1>1, <1>14, <1>18, <1>19, <1>20, <1>25 DEF GroupPut, v

-----------------------------------------------------------------------------
(* The reader follows first links.  A list of blocks linked so.            *)
Chained(file, first, c) ==
  /\ \E S : c \in Seq(S)
  /\ first = IF c = << >> THEN 0 ELSE c[1]
  /\ \A i \in 1..Len(c) :
       /\ c[i] \in DOMAIN file.blocks /\ c[i] # 0
       /\ file.blocks[c[i]].links[1] = IF i = Len(c) THEN 0 ELSE c[i + 1]
       /\ \A j \in 1..Len(c) : c[i] = c[j] => i = j

Next1(file, first, c) == IF c = << >> THEN first ELSE file.blocks[c[Len(c)]].links[1]

Follow(file, first, c) ==
  IF Next1(file, first, c) = 0 THEN c ELSE Append(c, Next1(file, first, c))

IsFollow(file, first, follow) ==
  follow = [k \in 0..Cardinality(DOMAIN file.blocks) |->
              IF k = 0 THEN << >> ELSE Follow(file, first, follow[k - 1])]

Begun(c, k) == IF k >= Len(c) THEN c ELSE [i \in 1..k |-> c[i]]

LEMMA ChainedIs ==
  \A file, first, c : Chained(file, first, c) => Len(c) \in Nat /\ c = [i \in 1..Len(c) |-> c[i]]
BY LenProperties DEF Chained

LEMMA BegunNext ==
  \A file, first, c, k :
    Chained(file, first, c) /\ k \in Nat
    => Follow(file, first, Begun(c, k)) = Begun(c, k + 1) /\ Begun(c, 0) = << >>
<1> SUFFICES ASSUME NEW file, NEW first, NEW c, NEW k \in Nat, Chained(file, first, c)
             PROVE  Follow(file, first, Begun(c, k)) = Begun(c, k + 1) /\ Begun(c, 0) = << >>
  OBVIOUS
<1> DEFINE n == Len(c)
           B == file.blocks
<1>0. PICK S : c \in Seq(S)
  BY DEF Chained
<1>1. n \in Nat /\ DOMAIN c = 1..n /\ c = [i \in 1..n |-> c[i]] /\ \A i \in 1..n : c[i] \in S
  BY <1>0, LenProperties, ElementOfSeq
<1>2. /\ first = IF c = << >> THEN 0 ELSE c[1]
      /\ \A i \in 1..n : c[i] # 0 /\ B[c[i]].links[1] = IF i = n THEN 0 ELSE c[i + 1]
  BY DEF Chained
<1>3. c = << >> <=> n = 0
  BY <1>0, EmptySeq
<1> HIDE DEF n
<1>4. Begun(c, 0) = << >>
  <2>1. CASE n = 0
    BY <1>3, <2>1 DEF Begun, n
  <2>2. CASE n # 0
    <3>1. ~(0 >= n) /\ 1..0 = {}
      BY <1>1, <2>2
    <3>2. Begun(c, 0) = [i \in 1..0 |-> c[i]]
      BY <3>1 DEF Begun, n
    <3> QED BY <3>1, <3>2
  <2> QED BY <2>1, <2>2
<1>5. CASE k >= n
  <2>1. Begun(c, k) = c /\ Begun(c, k + 1) = c
    BY <1>1, <1>5 DEF Begun, n
  <2>2. Next1(file, first, c) = 0
    <3>1. CASE n = 0
      BY <1>2, <1>3, <3>1 DEF Next1
    <3>2. CASE n # 0
      <4>1. n \in 1..n
        BY <1>1, <3>2
      <4> QED BY <1>2, <1>3, <3>2, <4>1 DEF Next1, n
    <3> QED BY <3>1, <3>2
  <2> QED BY <1>4, <2>1, <2>2 DEF Follow
<1>6. CASE k < n
  <2> DEFINE d == Begun(c, k)
  <2>1. d = [i \in 1..k |-> c[i]]
    BY <1>1, <1>6 DEF Begun, n
  <2> HIDE DEF d
  <2>2. d \in Seq(S) /\ Len(d) = k
    <3>1. d \in [1..k -> S]
      BY <1>1, <1>6, <2>1
    <3>2. d \in Seq(S)
      BY <3>1, SeqDef
    <3> QED BY <2>1, <3>2
  <2>3. d = << >> <=> k = 0
    BY <2>2, EmptySeq
  <2>4. Next1(file, first, d) = c[k + 1] /\ c[k + 1] # 0 /\ c[k + 1] \in S
    <3>1. k + 1 \in 1..n
      BY <1>1, <1>6
    <3>2. CASE k = 0
      <4>1. d = << >> /\ k + 1 = 1 /\ c # << >>
        BY <1>1, <1>3, <1>6, <2>3, <3>2
      <4>2. Next1(file, first, d) = c[1]
        BY <1>2, <4>1 DEF Next1
      <4> QED BY <1>1, <1>2, <3>1, <4>1, <4>2
    <3>3. CASE k # 0
      <4>1. k \in 1..n /\ k \in 1..k /\ k # n
        BY <1>1, <1>6, <3>3
      <4>2. d[Len(d)] = c[k]
        BY <2>1, <2>2, <4>1
      <4>3. B[c[k]].links[1] = c[k + 1]
        BY <1>2, <4>1
      <4> QED BY <1>1, <1>2, <2>3, <3>1, <3>3, <4>2, <4>3 DEF Next1
    <3> QED BY <3>2, <3>3
  <2>5. Follow(file, first, d) = Append(d, c[k + 1])
    BY <2>4 DEF Follow
  <2> DEFINE e == Append(d, c[k + 1])
  <2>6. /\ e \in Seq(S) /\ Len(e) = k + 1 /\ e[k + 1] = c[k + 1]
        /\ \A i \in 1..k : e[i] = d[i]
    BY <2>2, <2>4, AppendProperties
  <2> HIDE DEF e
  <2>7. e = [i \in 1..(k + 1) |-> e[i]]
    BY <2>6, LenProperties
  <2>8. \A i \in 1..(k + 1) : e[i] = c[i]
    BY <2>1, <2>6
  <2>9. Begun(c, k + 1) = [i \in 1..(k + 1) |-> c[i]]
    <3>1. CASE k + 1 = n
      BY <1>1, <3>1 DEF Begun, n
    <3>2. CASE k + 1 # n
      <4>1. ~(k + 1 >= n)
        BY <1>1, <1>6, <3>2
      <4> QED BY <4>1 DEF Begun, n
    <3> QED BY <3>1, <3>2
  <2>10. e = Begun(c, k + 1)
    BY <2>7, <2>8, <2>9
  <2> QED BY <1>4, <2>5, <2>10 DEF d, e
<1> QED BY <1>1, <1>5, <1>6

LEMMA FollowExists ==
  ASSUME NEW file, NEW first, NEW c, Chained(file, first, c),
         Cardinality(DOMAIN file.blocks) \in Nat
  PROVE  \E follow : IsFollow(file, first, follow)
<1> DEFINE N == Cardinality(DOMAIN file.blocks)
           f == [k \in 0..N |-> Begun(c, k)]
<1> HIDE DEF N
<1>1. \A k \in 0..N : f[k] = IF k = 0 THEN << >> ELSE Follow(file, first, f[k - 1])
  <2>1. SUFFICES ASSUME NEW k \in 0..N
                 PROVE  f[k] = IF k = 0 THEN << >> ELSE Follow(file, first, f[k - 1])
    OBVIOUS
  <2>2. CASE k = 0
    <3>1. 0 \in Nat
      OBVIOUS
    <3> QED BY <2>2, <3>1, BegunNext
  <2>3. CASE k # 0
    <3>1. k - 1 \in 0..N /\ k - 1 \in Nat /\ (k - 1) + 1 = k
      BY <2>3 DEF N
    <3>2. Follow(file, first, Begun(c, k - 1)) = Begun(c, k)
      <4>1. Follow(file, first, Begun(c, k - 1)) = Begun(c, (k - 1) + 1)
        BY <3>1, BegunNext
      <4> QED BY <3>1, <4>1
    <3>3. f[k] = Begun(c, k) /\ f[k - 1] = Begun(c, k - 1)
      BY <3>1
    <3> HIDE DEF f
    <3> QED BY <2>3, <3>2, <3>3
  <2> QED BY <2>2, <2>3
<1>2. f = [k \in 0..N |-> f[k]]
  OBVIOUS
<1> HIDE DEF f
<1>3. f = [k \in 0..N |-> IF k = 0 THEN << >> ELSE Follow(file, first, f[k - 1])]
  BY <1>1, <1>2
<1> QED BY <1>3 DEF IsFollow, N

LEMMA ChainIsFollow ==
  ASSUME NEW file, NEW first, NEW c, Chained(file, first, c),
         Cardinality(DOMAIN file.blocks) \in Nat
  PROVE  \E follow : /\ IsFollow(file, first, follow)
                     /\ Chain(file, first) = follow[Cardinality(DOMAIN file.blocks)]
<1> DEFINE follow == CHOOSE follow : IsFollow(file, first, follow)
<1>1. IsFollow(file, first, follow)
  BY FollowExists, Zenon
<1>2. Chain(file, first) = follow[Cardinality(DOMAIN file.blocks)]
  BY Zenon DEF Chain, IsFollow, Follow, Next1
<1> QED BY <1>1, <1>2, Zenon

(* It gives the list.                                                      *)
LEMMA ChainIs ==
  \A file, first, c : IsFile(file) /\ Chained(file, first, c) => Chain(file, first) = c
<1> SUFFICES ASSUME NEW file, NEW first, NEW c, IsFile(file), Chained(file, first, c)
             PROVE  Chain(file, first) = c
  OBVIOUS
<1> DEFINE D == DOMAIN file.blocks
           N == Cardinality(D)
           n == Len(c)
<1>1. IsFiniteSet(D)
  BY DEF IsFile
<1>2. n \in Nat /\ c = [i \in 1..n |-> c[i]]
  BY ChainedIs
<1>3. \A i \in 1..n : c[i] \in D /\ \A j \in 1..n : c[i] = c[j] => i = j
  BY DEF Chained
<1> HIDE DEF D, n
<1>4. N \in Nat
  BY <1>1, FS_CardinalityType
<1>5. n <= N
  <2>1. c \in [1..n -> D] /\ \A i, j \in 1..n : c[i] = c[j] => i = j
    BY <1>2, <1>3
  <2>2. c \in Injection(1..n, D)
    BY <2>1, Fun_IsInj
  <2>3. Cardinality(1..n) <= N
    BY <1>1, <2>2, FS_Injection
  <2>4. Cardinality(1..n) = n
    BY <1>2, FS_Interval
  <2> QED BY <2>3, <2>4
<1> HIDE DEF N
<1>6. PICK follow : IsFollow(file, first, follow) /\ Chain(file, first) = follow[N]
  BY <1>4, ChainIsFollow DEF N, D
<1>7. /\ follow[0] = << >>
      /\ \A k \in 1..N : follow[k] = Follow(file, first, follow[k - 1])
  <2>1. follow = [k \in 0..N |-> IF k = 0 THEN << >> ELSE Follow(file, first, follow[k - 1])]
    BY <1>6 DEF IsFollow, N, D
  <2> QED BY <1>4, <2>1
<1> DEFINE T == {k \in Nat : k <= N => follow[k] = Begun(c, k)}
<1>8. 0 \in T
  <2>1. 0 \in Nat
    OBVIOUS
  <2>2. Begun(c, 0) = << >>
    BY <2>1, BegunNext
  <2> QED BY <1>7, <2>2
<1>9. ASSUME NEW k \in Nat, k \in T PROVE k + 1 \in T
  <2>1. SUFFICES ASSUME k + 1 <= N PROVE follow[k + 1] = Begun(c, k + 1)
    OBVIOUS
  <2>2. k + 1 \in 1..N /\ (k + 1) - 1 = k /\ k <= N
    BY <1>4, <2>1
  <2>3. follow[k + 1] = Follow(file, first, follow[k]) /\ follow[k] = Begun(c, k)
    BY <1>7, <1>9, <2>2
  <2> QED BY <2>3, BegunNext
<1> HIDE DEF T
<1>10. Nat \subseteq T
  BY <1>8, <1>9, Plus!Induction
<1>11. follow[N] = Begun(c, N)
  BY <1>4, <1>10 DEF T
<1> QED BY <1>2, <1>4, <1>5, <1>6, <1>11 DEF Begun, n

-----------------------------------------------------------------------------
(* What is read of a group that was written.                               *)
ColumnOf(rs, told) == [row \in DOMAIN rs |-> Cell(rs[row], told)]

ChannelsAt(s, g) == [j \in 1..(Len(g.channels) + 1) |-> CnAt(s, g, j)]

LEMMA GroupChained ==
  \A f, s, g :
    s \in Nat /\ GoodGroup(g) /\ GroupAt(f, s, g)
    => /\ Chained(f, CnAt(s, g, 1), ChannelsAt(s, g))
       /\ Len(ChannelsAt(s, g)) = Len(g.channels) + 1
<1> SUFFICES ASSUME NEW f, NEW s \in Nat, NEW g, GoodGroup(g), GroupAt(f, s, g)
             PROVE  /\ Chained(f, CnAt(s, g, 1), ChannelsAt(s, g))
                    /\ Len(ChannelsAt(s, g)) = Len(g.channels) + 1
  OBVIOUS
<1> DEFINE n == Len(g.channels)
           c == ChannelsAt(s, g)
           first == CnAt(s, g, 1)
<1>1. n \in Nat /\ DgAt(s, g) \in Nat
  BY GoodGroupIs, DgFrom
<1>2. \A j \in 1..(n + 1) : CnAt(s, g, j) \in Nat /\ CnAt(s, g, j) > 0
  <2>1. \A j \in 1..(n + 1) : j \in 1..(n + 2)
    BY <1>1
  <2> QED BY <1>1, <2>1, CnFrom
<1>3. \A i, j \in 1..(n + 1) : CnAt(s, g, i) = CnAt(s, g, j) => i = j
  BY <1>1 DEF CnAt, ChannelPos
<1>4. \A j \in 1..(n + 1) : ChannelBlock(f, s, g, j)
  BY DEF GroupAt
<1>5. \A j \in 1..(n + 1) :
        /\ CnAt(s, g, j) \in DOMAIN f.blocks
        /\ f.blocks[CnAt(s, g, j)].links[1] = IF j = n + 1 THEN 0 ELSE CnAt(s, g, j + 1)
  BY <1>4 DEF ChannelBlock, ChannelAt, Holds, LinkIs
<1> HIDE DEF n
<1>6. c = [j \in 1..(n + 1) |-> CnAt(s, g, j)]
  BY DEF ChannelsAt, n
<1> HIDE DEF c, first
<1>7. c \in Seq(Nat) /\ Len(c) = n + 1 /\ \A j \in 1..(n + 1) : c[j] = CnAt(s, g, j)
  <2>1. c \in [1..(n + 1) -> Nat]
    BY <1>2, <1>6
  <2>2. c \in Seq(Nat)
    BY <1>1, <2>1, SeqDef
  <2> QED BY <1>1, <1>6, <2>2
<1>8. c # << >> /\ first = c[1]
  <2>1. 1 \in 1..(n + 1)
    BY <1>1
  <2> QED BY <1>1, <1>7, <2>1, EmptySeq DEF first
<1>9. \A i \in 1..(n + 1) :
        /\ c[i] \in DOMAIN f.blocks /\ c[i] # 0
        /\ f.blocks[c[i]].links[1] = IF i = n + 1 THEN 0 ELSE c[i + 1]
        /\ \A j \in 1..(n + 1) : c[i] = c[j] => i = j
  <2>1. SUFFICES ASSUME NEW i \in 1..(n + 1)
                 PROVE  /\ c[i] \in DOMAIN f.blocks /\ c[i] # 0
                        /\ f.blocks[c[i]].links[1] = IF i = n + 1 THEN 0 ELSE c[i + 1]
                        /\ \A j \in 1..(n + 1) : c[i] = c[j] => i = j
    OBVIOUS
  <2>2. i # n + 1 => i + 1 \in 1..(n + 1)
    BY <1>1
  <2>3. f.blocks[c[i]].links[1] = IF i = n + 1 THEN 0 ELSE c[i + 1]
    BY <1>5, <1>7, <2>2
  <2> QED BY <1>2, <1>3, <1>5, <1>7, <2>3
<1> QED BY <1>7, <1>8, <1>9 DEF Chained, first, c, n

LEMMA ColumnsAre ==
  \A g : GoodGroup(g) =>
    /\ \A d : d.offset = 0 /\ d.type = "float64" => ColumnOf(Records(g), d) = g.times
    /\ \A i \in 1..Len(g.channels) : \A d :
         Tells(d, g, i) => ColumnOf(Records(g), d) = g.channels[i].data
<1> SUFFICES ASSUME NEW g, GoodGroup(g)
             PROVE  /\ \A d : d.offset = 0 /\ d.type = "float64" => ColumnOf(Records(g), d) = g.times
                    /\ \A i \in 1..Len(g.channels) : \A d :
                         Tells(d, g, i) => ColumnOf(Records(g), d) = g.channels[i].data
  OBVIOUS
<1> DEFINE T == Len(g.times)
           rs == Records(g)
<1>1. DOMAIN rs = 1..T /\ \A row \in 1..T : RowIs(g, row, rs[row])
  BY RecordsAre
<1>2. g.times = [row \in 1..T |-> g.times[row]]
  BY GoodGroupIs
<1> HIDE DEF rs, T
<1>3. ASSUME NEW d, d.offset = 0, d.type = "float64" PROVE ColumnOf(rs, d) = g.times
  <2>1. \A row \in 1..T : Cell(rs[row], d) = g.times[row]
    BY <1>1, <1>3, CellTime
  <2>2. ColumnOf(rs, d) = [row \in 1..T |-> Cell(rs[row], d)]
    BY <1>1 DEF ColumnOf
  <2> QED BY <1>2, <2>1, <2>2
<1>4. ASSUME NEW i \in 1..Len(g.channels), NEW d, Tells(d, g, i)
      PROVE  ColumnOf(rs, d) = g.channels[i].data
  <2>1. \A row \in 1..T : Cell(rs[row], d) = g.channels[i].data[row]
    <3>1. SUFFICES ASSUME NEW row \in 1..T PROVE Cell(rs[row], d) = g.channels[i].data[row]
      OBVIOUS
    <3>2. RowIs(g, row, rs[row])
      BY <1>1
    <3> DEFINE r == rs[row]
    <3> HIDE DEF r
    <3>3. RowIs(g, row, r)
      BY <3>2 DEF r
    <3>4. Cell(r, d) = g.channels[i].data[row]
      BY <1>4, <3>3, CellValue
    <3> QED BY <3>4 DEF r
  <2>2. ColumnOf(rs, d) = [row \in 1..T |-> Cell(rs[row], d)]
    BY <1>1 DEF ColumnOf
  <2>3. g.channels[i].data = [row \in 1..T |-> g.channels[i].data[row]]
    BY DEF GoodGroup, GoodChannel, T
  <2> QED BY <2>1, <2>2, <2>3
<1> QED BY <1>3, <1>4 DEF rs

LEMMA ReadIs ==
  \A f, s, g :
    IsFile(f) /\ s \in Nat /\ GoodGroup(g) /\ GroupAt(f, s, g) => ReadGroup(f, DgAt(s, g)) = g
<1> SUFFICES ASSUME NEW f, NEW s \in Nat, NEW g, IsFile(f), GoodGroup(g), GroupAt(f, s, g)
             PROVE  ReadGroup(f, DgAt(s, g)) = g
  OBVIOUS
<1> DEFINE n == Len(g.channels)
           dg == DgAt(s, g)
           cg == CgAt(s, g)
           dt == DtAt(s, g)
           c == ChannelsAt(s, g)
           B == f.blocks
           rs == Records(g)
<1>1. n \in Nat /\ g.channels = [i \in 1..n |-> g.channels[i]]
  BY GoodGroupIs
<1>2. /\ B[dg].links[2] = cg /\ B[dg].links[3] = dt
      /\ B[cg].links[2] = CnAt(s, g, 1) /\ B[cg].links[3] = TextAt(s, 1)
      /\ B[dt].data = rs
      /\ \A j \in 1..(n + 1) : ChannelBlock(f, s, g, j)
      /\ \A i \in 1..(3 + 2 * n) : TextBlock(f, s, g, i)
  BY DEF GroupAt, Holds, LinkIs
<1>3. Chain(f, CnAt(s, g, 1)) = c /\ Len(c) = n + 1
  BY GroupChained, ChainIs
<1>4. \A j \in 1..(n + 1) : c[j] = CnAt(s, g, j)
  BY DEF ChannelsAt
<1>5. NamesOf(g, Names(g)) /\ EntriesOf(s, g, Entries(s, g))
  BY NamesAre, EntriesAre
<1>6. \A i \in 1..(3 + 2 * n) : B[TextAt(s, i)].data = Names(g)[i]
  BY <1>2 DEF TextBlock
<1>7. ReadGroup(f, dg) =
        [name |-> B[B[B[dg].links[2]].links[3]].data,
         times |-> ColumnOf(B[B[dg].links[3]].data, B[Chain(f, B[B[dg].links[2]].links[2])[1]].data),
         channels |-> [i \in 1..(Len(Chain(f, B[B[dg].links[2]].links[2])) - 1) |->
            Channel(B[B[Chain(f, B[B[dg].links[2]].links[2])[i + 1]].links[3]].data,
                    B[B[Chain(f, B[B[dg].links[2]].links[2])[i + 1]].links[7]].data,
                    B[Chain(f, B[B[dg].links[2]].links[2])[i + 1]].data.type,
                    ColumnOf(B[B[dg].links[3]].data,
                             B[Chain(f, B[B[dg].links[2]].links[2])[i + 1]].data))]]
  BY Zenon DEF ReadGroup, ColumnOf
<1> HIDE DEF dg, cg, dt, c, B, rs, n
<1>8. ReadGroup(f, dg) =
        [name |-> B[TextAt(s, 1)].data, times |-> ColumnOf(rs, B[c[1]].data),
         channels |-> [i \in 1..(Len(c) - 1) |->
            Channel(B[B[c[i + 1]].links[3]].data, B[B[c[i + 1]].links[7]].data,
                    B[c[i + 1]].data.type, ColumnOf(rs, B[c[i + 1]].data))]]
  BY <1>2, <1>3, <1>7
<1>9. B[TextAt(s, 1)].data = g.name
  <2>1. 1 \in 1..(3 + 2 * n)
    BY <1>1
  <2> QED BY <1>5, <1>6, <2>1 DEF NamesOf
<1>10. \A j \in 1..(n + 1) :
         /\ B[c[j]].data = Told(Entries(s, g)[j])
         /\ B[c[j]].links[3] = Entries(s, g)[j].name
         /\ B[c[j]].links[7] = Entries(s, g)[j].unit
  BY <1>2, <1>4 DEF ChannelBlock, ChannelAt, Holds, LinkIs, B
<1>11. ColumnOf(rs, B[c[1]].data) = g.times
  <2>1. 1 \in 1..(n + 1)
    BY <1>1
  <2>2. Entries(s, g)[1] = TimeEntry(s)
    BY <1>5 DEF EntriesOf
  <2>3. B[c[1]].data = Told(TimeEntry(s))
    BY <1>10, <2>1, <2>2
  <2>4. Told(TimeEntry(s)).offset = 0 /\ Told(TimeEntry(s)).type = "float64"
    BY DEF Told, TimeEntry
  <2> QED BY <2>3, <2>4, ColumnsAre DEF rs
<1>12. ASSUME NEW i \in 1..n
       PROVE  Channel(B[B[c[i + 1]].links[3]].data, B[B[c[i + 1]].links[7]].data,
                      B[c[i + 1]].data.type, ColumnOf(rs, B[c[i + 1]].data)) = g.channels[i]
  <2> DEFINE x == ValueEntry(s, g, i)
             h == g.channels[i]
  <2>1. i + 1 \in 1..(n + 1) /\ 2 + 2 * i \in 1..(3 + 2 * n) /\ 3 + 2 * i \in 1..(3 + 2 * n)
    BY <1>1
  <2>2. Entries(s, g)[i + 1] = x
    BY <1>5 DEF EntriesOf, n
  <2>3. /\ B[c[i + 1]].data = Told(x) /\ B[c[i + 1]].links[3] = x.name
        /\ B[c[i + 1]].links[7] = x.unit
    BY <1>10, <2>1, <2>2
  <2>4. /\ x.name = TextAt(s, 2 + 2 * i) /\ x.unit = TextAt(s, 3 + 2 * i)
        /\ Told(x).offset = Offset(g.channels, i) /\ Told(x).type = h.type
    BY DEF ValueEntry, Told
  <2>5. B[TextAt(s, 2 + 2 * i)].data = h.name /\ B[TextAt(s, 3 + 2 * i)].data = h.unit
    BY <1>5, <1>6, <2>1 DEF NamesOf, n
  <2>6. ColumnOf(rs, Told(x)) = h.data
    <3> HIDE DEF x
    <3>1. Tells(Told(x), g, i)
      BY <2>4 DEF Tells
    <3> QED BY <3>1, ColumnsAre DEF rs, n
  <2>7. h = [name |-> h.name, unit |-> h.unit, type |-> h.type, data |-> h.data]
    BY DEF GoodGroup, GoodChannel, n
  <2> HIDE DEF x, h
  <2>8. Channel(B[B[c[i + 1]].links[3]].data, B[B[c[i + 1]].links[7]].data,
                B[c[i + 1]].data.type, ColumnOf(rs, B[c[i + 1]].data))
          = Channel(h.name, h.unit, h.type, h.data)
    BY <2>3, <2>4, <2>5, <2>6
  <2>9. Channel(h.name, h.unit, h.type, h.data) = h
    BY <2>7 DEF Channel
  <2> QED BY <2>8, <2>9 DEF h
<1>13. Len(c) - 1 = n
  BY <1>1, <1>3
<1> DEFINE D(i) == Channel(B[B[c[i + 1]].links[3]].data, B[B[c[i + 1]].links[7]].data,
                           B[c[i + 1]].data.type, ColumnOf(rs, B[c[i + 1]].data))
<1>14. [i \in 1..(Len(c) - 1) |-> D(i)] = g.channels
  <2>1. \A i \in 1..n : D(i) = g.channels[i]
    BY <1>12
  <2> HIDE DEF D
  <2> QED BY <1>1, <1>13, <2>1
<1>15. g = [name |-> g.name, times |-> g.times, channels |-> g.channels]
  BY DEF GoodGroup
<1>16. ReadGroup(f, dg) = [name |-> g.name, times |-> g.times, channels |-> g.channels]
  BY <1>8, <1>9, <1>11, <1>14
<1> QED BY <1>15, <1>16 DEF dg

-----------------------------------------------------------------------------
(* A group stays as it was written, but for the link to the next one.      *)
Beside(X, s, g) ==
  /\ CgAt(s, g) \notin X /\ DtAt(s, g) \notin X
  /\ \A j \in 1..(Len(g.channels) + 1) : CnAt(s, g, j) \notin X
  /\ \A i \in 1..(3 + 2 * Len(g.channels)) : TextAt(s, i) \notin X

LEMMA BesideIs ==
  \A s, g, p :
    s \in Nat /\ GoodGroup(g) /\ p \in Nat /\ (p < s \/ p > DtAt(s, g) \/ p = DgAt(s, g))
    => Beside({p}, s, g)
<1> SUFFICES ASSUME NEW s \in Nat, NEW g, NEW p \in Nat, GoodGroup(g),
                    p < s \/ p > DtAt(s, g) \/ p = DgAt(s, g)
             PROVE  Beside({p}, s, g)
  OBVIOUS
<1> DEFINE n == Len(g.channels)
           dg == DgAt(s, g)
           dt == DtAt(s, g)
<1>1. n \in Nat /\ dg \in Nat /\ s < dg /\ CgAt(s, g) = dg + 64
  BY DgFrom, GoodGroupIs DEF CgAt
<1>2. \A j \in 1..(n + 1) : CnAt(s, g, j) \in Nat /\ dg + 168 <= CnAt(s, g, j) /\ CnAt(s, g, j) < dt
  BY <1>1 DEF DtAt, CnAt, ChannelPos
<1>3. dt \in Nat /\ dg + 168 <= dt
  <2>1. n + 2 \in 1..(n + 2)
    BY <1>1
  <2> QED BY <2>1, CnFrom DEF DtAt
<1>4. \A i \in 1..(3 + 2 * n) : TextAt(s, i) \in Nat /\ s <= TextAt(s, i) /\ TextAt(s, i) < dg
  BY TextsBelow
<1>5. p < s \/ p > dt \/ p = dg
  OBVIOUS
<1> HIDE DEF n, dg, dt
<1>6. CgAt(s, g) # p /\ dt # p
  BY <1>1, <1>3, <1>5
<1>7. \A j \in 1..(n + 1) : CnAt(s, g, j) # p
  <2> SUFFICES ASSUME NEW j \in 1..(n + 1) PROVE CnAt(s, g, j) # p
    OBVIOUS
  <2> DEFINE c == CnAt(s, g, j)
  <2>1. c \in Nat /\ dg + 168 <= c /\ c < dt
    BY <1>2
  <2> HIDE DEF c
  <2>2. c # p
    BY <1>1, <1>3, <1>5, <2>1
  <2> QED BY <2>2 DEF c
<1>8. \A i \in 1..(3 + 2 * n) : TextAt(s, i) # p
  <2> SUFFICES ASSUME NEW i \in 1..(3 + 2 * n) PROVE TextAt(s, i) # p
    OBVIOUS
  <2> DEFINE c == TextAt(s, i)
  <2>1. c \in Nat /\ s <= c /\ c < dg
    BY <1>4
  <2> HIDE DEF c
  <2>2. c # p
    BY <1>1, <1>3, <1>5, <2>1
  <2> QED BY <2>2 DEF c
<1> QED BY <1>6, <1>7, <1>8 DEF Beside, n, dt

LEMMA GroupCarried ==
  \A f, h, X, s, g :
    /\ GroupAt(f, s, g) /\ Keeps(f, h, X) /\ Beside(X, s, g)
    /\ Holds(h, DgAt(s, g), 4, "group")
    /\ LinkIs(h, DgAt(s, g), 2, CgAt(s, g)) /\ LinkIs(h, DgAt(s, g), 3, DtAt(s, g))
    => GroupAt(h, s, g)
<1> SUFFICES ASSUME NEW f, NEW h, NEW X, NEW s, NEW g, GroupAt(f, s, g), Keeps(f, h, X),
                    Beside(X, s, g), Holds(h, DgAt(s, g), 4, "group"),
                    LinkIs(h, DgAt(s, g), 2, CgAt(s, g)), LinkIs(h, DgAt(s, g), 3, DtAt(s, g))
             PROVE  GroupAt(h, s, g)
  OBVIOUS
<1> DEFINE n == Len(g.channels)
           cg == CgAt(s, g)
           dt == DtAt(s, g)
<1>1. /\ Holds(f, cg, 6, GroupHead(g)) /\ LinkIs(f, cg, 2, CnAt(s, g, 1))
      /\ LinkIs(f, cg, 3, TextAt(s, 1))
      /\ \A j \in 1..(n + 1) : ChannelBlock(f, s, g, j)
      /\ Holds(f, dt, 0, Records(g))
      /\ \A i \in 1..(3 + 2 * n) : TextBlock(f, s, g, i)
  BY DEF GroupAt
<1>2. /\ cg \notin X /\ dt \notin X
      /\ \A j \in 1..(n + 1) : CnAt(s, g, j) \notin X
      /\ \A i \in 1..(3 + 2 * n) : TextAt(s, i) \notin X
  BY DEF Beside
<1> HIDE DEF n, cg, dt
<1>3. /\ Holds(h, cg, 6, GroupHead(g)) /\ LinkIs(h, cg, 2, CnAt(s, g, 1))
      /\ LinkIs(h, cg, 3, TextAt(s, 1)) /\ Holds(h, dt, 0, Records(g))
  BY <1>1, <1>2, KeptHolds, KeptLink
<1>4. \A j \in 1..(n + 1) : ChannelBlock(h, s, g, j)
  BY <1>1, <1>2, ChannelBlockKept
<1>5. \A i \in 1..(3 + 2 * n) : TextBlock(h, s, g, i)
  BY <1>1, <1>2, TextBlockKept
<1> QED BY <1>3, <1>4, <1>5 DEF GroupAt, cg, dt, n

LEMMA GroupKept ==
  \A f, h, s, g, p :
    /\ s \in Nat /\ GoodGroup(g) /\ GroupAt(f, s, g) /\ Keeps(f, h, {p}) /\ p \in Nat
    /\ p < s \/ p > DtAt(s, g)
    => GroupAt(h, s, g) /\ \A to : LinkIs(f, DgAt(s, g), 1, to) => LinkIs(h, DgAt(s, g), 1, to)
<1> SUFFICES ASSUME NEW f, NEW h, NEW s \in Nat, NEW g, NEW p \in Nat, GoodGroup(g),
                    GroupAt(f, s, g), Keeps(f, h, {p}), p < s \/ p > DtAt(s, g)
             PROVE  /\ GroupAt(h, s, g)
                    /\ \A to : LinkIs(f, DgAt(s, g), 1, to) => LinkIs(h, DgAt(s, g), 1, to)
  OBVIOUS
<1> DEFINE dg == DgAt(s, g)
           X == {p}
<1>1. Beside(X, s, g)
  BY BesideIs
<1>2. dg \notin X
  <2>1. 1 + Len(g.channels) + 1 \in 1..(Len(g.channels) + 2)
    BY GoodGroupIs
  <2>2. DtAt(s, g) \in Nat /\ dg + 168 <= DtAt(s, g) /\ dg \in Nat /\ s < dg
    BY <2>1, CnFrom, DgFrom DEF DtAt
  <2> HIDE DEF dg
  <2> QED BY <2>2
<1>3. Keeps(f, h, X)
  OBVIOUS
<1>4. /\ Holds(f, dg, 4, "group") /\ LinkIs(f, dg, 2, CgAt(s, g)) /\ LinkIs(f, dg, 3, DtAt(s, g))
  BY DEF GroupAt
<1> HIDE DEF X, dg
<1>5. /\ Holds(h, dg, 4, "group") /\ LinkIs(h, dg, 2, CgAt(s, g)) /\ LinkIs(h, dg, 3, DtAt(s, g))
      /\ \A to : LinkIs(f, dg, 1, to) => LinkIs(h, dg, 1, to)
  BY <1>2, <1>3, <1>4, KeptHolds, KeptLink
<1>6. GroupAt(h, s, g)
  BY <1>1, <1>3, <1>5, GroupCarried DEF dg
<1> QED BY <1>5, <1>6 DEF dg

LEMMA GroupRelinked ==
  \A f, h, s, g, to :
    /\ s \in Nat /\ GoodGroup(g) /\ GroupAt(f, s, g) /\ Keeps(f, h, {DgAt(s, g)})
    /\ Relinked(f, h, DgAt(s, g), 4, "group", 1, to)
    => GroupAt(h, s, g) /\ LinkIs(h, DgAt(s, g), 1, to)
<1> SUFFICES ASSUME NEW f, NEW h, NEW s \in Nat, NEW g, NEW to, GoodGroup(g),
                    GroupAt(f, s, g), Keeps(f, h, {DgAt(s, g)}),
                    Relinked(f, h, DgAt(s, g), 4, "group", 1, to)
             PROVE  GroupAt(h, s, g) /\ LinkIs(h, DgAt(s, g), 1, to)
  OBVIOUS
<1> DEFINE dg == DgAt(s, g)
           X == {dg}
<1>1. Beside(X, s, g)
  BY BesideIs, DgFrom
<1>2. Keeps(f, h, X)
  OBVIOUS
<1>3. Holds(f, dg, 4, "group") /\ LinkIs(f, dg, 2, CgAt(s, g)) /\ LinkIs(f, dg, 3, DtAt(s, g))
  BY DEF GroupAt
<1>4. /\ Holds(h, dg, 4, "group") /\ LinkIs(h, dg, 2, CgAt(s, g)) /\ LinkIs(h, dg, 3, DtAt(s, g))
      /\ LinkIs(h, dg, 1, to)
  BY <1>3 DEF Relinked, LinkIs
<1> HIDE DEF X
<1>5. GroupAt(h, s, g)
  BY <1>1, <1>2, <1>4, GroupCarried
<1> QED BY <1>4, <1>5

-----------------------------------------------------------------------------
(* A file of groups: gs are the groups, at where the texts of each begin,  *)
(* and hd the data of the header block, which links to the first group.    *)
GroupIn(f, s, g) == s \in Nat /\ 64 < s /\ GoodGroup(g) /\ GroupAt(f, s, g)

After(gs, at, i) == IF i = Len(gs) THEN 0 ELSE DgAt(at[i + 1], gs[i + 1])

Built(w, gs, at, hd) ==
  /\ IsFile(w.file) /\ Len(gs) \in Nat
  /\ w.last_dg = IF Len(gs) = 0 THEN 0 ELSE DgAt(at[Len(gs)], gs[Len(gs)])
  /\ Holds(w.file, 64, 6, hd) /\ LinkIs(w.file, 64, 1, After(gs, at, 0))
  /\ \A i \in 1..Len(gs) : /\ GroupIn(w.file, at[i], gs[i])
                           /\ LinkIs(w.file, DgAt(at[i], gs[i]), 1, After(gs, at, i))
  /\ \A i, j \in 1..Len(gs) : i < j => DtAt(at[i], gs[i]) < at[j]

OneMore(s, t, x) ==
  Len(t) = Len(s) + 1 /\ t[Len(s) + 1] = x /\ \A i \in 1..Len(s) : t[i] = s[i]

(* The block a group is linked from.                                       *)
LEMMA LinkingIs ==
  \A w, gs, at, hd :
    Built(w, gs, at, hd)
    => /\ Len(gs) = 0 => Linking(w) = 64 /\ Holds(w.file, Linking(w), 6, hd)
       /\ Len(gs) > 0 => /\ Linking(w) = DgAt(at[Len(gs)], gs[Len(gs)])
                         /\ at[Len(gs)] < Linking(w) /\ Linking(w) \in Nat
                         /\ Holds(w.file, Linking(w), 4, "group")
<1> SUFFICES ASSUME NEW w, NEW gs, NEW at, NEW hd, Built(w, gs, at, hd)
             PROVE  /\ Len(gs) = 0 => Linking(w) = 64 /\ Holds(w.file, Linking(w), 6, hd)
                    /\ Len(gs) > 0 => /\ Linking(w) = DgAt(at[Len(gs)], gs[Len(gs)])
                                      /\ at[Len(gs)] < Linking(w) /\ Linking(w) \in Nat
                                      /\ Holds(w.file, Linking(w), 4, "group")
  OBVIOUS
<1>1. CASE Len(gs) = 0
  BY <1>1 DEF Built, Linking
<1>2. CASE Len(gs) > 0
  <2> DEFINE m == Len(gs)
             s == at[m]
             g == gs[m]
             dg == DgAt(s, g)
  <2>1. w.last_dg = dg /\ m \in 1..m
    BY <1>2 DEF Built
  <2>2. GroupIn(w.file, s, g)
    BY <2>1 DEF Built
  <2> HIDE DEF m, s, g
  <2>3. s \in Nat /\ dg \in Nat /\ s < dg /\ Holds(w.file, dg, 4, "group")
    BY <2>2, DgFrom DEF GroupIn, GroupAt
  <2>4. Linking(w) = dg
    BY <2>1, <2>3 DEF Linking
  <2> QED BY <1>2, <2>3, <2>4 DEF m, s, g
<1> QED BY <1>1, <1>2 DEF Built

PutFrom(w, gs, hd, g, n, data) ==
  /\ Holds(w.file, Linking(w), n, data)
  /\ GroupPut(w.file, PutGroup(w, g), Linking(w), n, data, g)
  /\ Len(gs) = 0 => n = 6 /\ data = hd
  /\ Len(gs) > 0 => n = 4 /\ data = "group"

LEMMA GroupPutIs ==
  \A w, gs, at, hd, g :
    Built(w, gs, at, hd) /\ GoodGroup(g) => \E n, data : PutFrom(w, gs, hd, g, n, data)
<1> SUFFICES ASSUME NEW w, NEW gs, NEW at, NEW hd, NEW g, Built(w, gs, at, hd), GoodGroup(g)
             PROVE  \E n, data : PutFrom(w, gs, hd, g, n, data)
  OBVIOUS
<1>1. IsFile(w.file) /\ Len(gs) \in Nat
  BY DEF Built
<1>2. CASE Len(gs) = 0
  <2>1. Holds(w.file, Linking(w), 6, hd) /\ 1 \in 1..6
    BY <1>2, LinkingIs
  <2>2. GroupPut(w.file, PutGroup(w, g), Linking(w), 6, hd, g)
    BY <1>1, <2>1, GroupIs
  <2>3. PutFrom(w, gs, hd, g, 6, hd)
    BY <1>2, <2>1, <2>2 DEF PutFrom
  <2> QED BY <2>3
<1>3. CASE Len(gs) > 0
  <2>1. Holds(w.file, Linking(w), 4, "group") /\ 1 \in 1..4
    BY <1>3, LinkingIs
  <2>2. GroupPut(w.file, PutGroup(w, g), Linking(w), 4, "group", g)
    BY <1>1, <2>1, GroupIs
  <2>3. PutFrom(w, gs, hd, g, 4, "group")
    BY <1>3, <2>1, <2>2 DEF PutFrom
  <2> QED BY <2>3
<1> QED BY <1>1, <1>2, <1>3

(* Writing a group links it behind the others and leaves them as they are. *)
LEMMA BuiltStep ==
  \A w, gs, at, hd, g, gs2, at2 :
    /\ Built(w, gs, at, hd) /\ GoodGroup(g) /\ Len(at) = Len(gs)
    /\ OneMore(gs, gs2, g) /\ OneMore(at, at2, w.file.size)
    => Built(PutGroup(w, g), gs2, at2, hd)
<1> SUFFICES ASSUME NEW w, NEW gs, NEW at, NEW hd, NEW g, NEW gs2, NEW at2,
                    Built(w, gs, at, hd), GoodGroup(g), Len(at) = Len(gs),
                    OneMore(gs, gs2, g), OneMore(at, at2, w.file.size)
             PROVE  Built(PutGroup(w, g), gs2, at2, hd)
  OBVIOUS
<1> DEFINE f == w.file
           v == PutGroup(w, g)
           h == v.file
           s == f.size
           p == Linking(w)
           m == Len(gs)
           dg == DgAt(s, g)
           Dg(i) == DgAt(at[i], gs[i])
<1>1. PICK n, data : /\ Holds(f, p, n, data) /\ GroupPut(f, v, p, n, data, g)
                     /\ m = 0 => n = 6 /\ data = hd
                     /\ m > 0 => n = 4 /\ data = "group"
  <2>1. PICK n, data : PutFrom(w, gs, hd, g, n, data)
    BY GroupPutIs
  <2> QED BY <2>1 DEF PutFrom
<1>2. /\ IsFile(f) /\ m \in Nat /\ Holds(f, 64, 6, hd) /\ LinkIs(f, 64, 1, After(gs, at, 0))
      /\ \A i \in 1..m : GroupIn(f, at[i], gs[i]) /\ LinkIs(f, Dg(i), 1, After(gs, at, i))
      /\ \A i, j \in 1..m : i < j => DtAt(at[i], gs[i]) < at[j]
  BY DEF Built
<1>3. /\ Len(gs2) = m + 1 /\ gs2[m + 1] = g /\ \A i \in 1..m : gs2[i] = gs[i]
      /\ at2[m + 1] = s /\ \A i \in 1..m : at2[i] = at[i]
  BY DEF OneMore
<1>4. /\ v.last_dg = dg /\ Keeps(f, h, {p}) /\ Relinked(f, h, p, n, data, 1, dg)
      /\ GroupAt(h, s, g) /\ LinkIs(h, dg, 1, 0) /\ IsFile(h)
  <2>1. /\ v = [file |-> h, last_dg |-> dg]
        /\ Keeps(f, h, {p}) /\ Relinked(f, h, p, n, data, 1, dg)
        /\ GroupAt(h, s, g) /\ LinkIs(h, dg, 1, 0)
    BY <1>1, Zenon DEF GroupPut
  <2> HIDE DEF f, s, p, dg, v
  <2>2. v.last_dg = dg
    BY <2>1
  <2>3. IsFile(h)
    BY <2>1 DEF Keeps
  <2> QED BY <2>1, <2>2, <2>3
<1>5. /\ m = 0 => p = 64
      /\ m > 0 => p = Dg(m) /\ at[m] < p /\ p \in Nat
  BY LinkingIs
<1>6. s \in Nat /\ 64 < s /\ GroupIn(h, s, g)
  <2>1. s \in Nat /\ 64 < s
    BY <1>2 DEF Holds, IsFile
  <2> QED BY <1>4, <2>1 DEF GroupIn
<1> HIDE DEF f, v, h, s, p, m, dg
<1>7. /\ After(gs2, at2, m + 1) = 0 /\ After(gs2, at2, m) = dg
      /\ \A i \in 0..(m - 1) : After(gs2, at2, i) = After(gs, at, i)
  BY <1>2, <1>3 DEF After, dg, m
<1>8. Holds(h, 64, 6, hd) /\ LinkIs(h, 64, 1, After(gs2, at2, 0))
  <2>1. CASE m = 0
    BY <1>1, <1>4, <1>5, <1>7, <2>1 DEF Relinked
  <2>2. CASE m # 0
    <3> DEFINE X == {p}
    <3>1. m \in 1..m /\ m > 0 /\ 0 \in 0..(m - 1)
      BY <1>2, <2>2
    <3>2. 64 < at[m] /\ at[m] \in Nat
      BY <1>2, <3>1 DEF GroupIn
    <3>3. 64 \notin X
      BY <1>5, <3>1, <3>2
    <3>4. Keeps(f, h, X)
      BY <1>4
    <3> HIDE DEF X
    <3>5. Holds(h, 64, 6, hd) /\ LinkIs(h, 64, 1, After(gs, at, 0))
      BY <1>2, <3>3, <3>4, KeptHolds, KeptLink
    <3> QED BY <1>7, <3>1, <3>5
  <2> QED BY <2>1, <2>2
<1>9. ASSUME NEW i \in 1..m
      PROVE  GroupIn(h, at[i], gs[i]) /\ LinkIs(h, Dg(i), 1, After(gs2, at2, i))
  <2>1. /\ GroupIn(f, at[i], gs[i]) /\ LinkIs(f, Dg(i), 1, After(gs, at, i)) /\ m > 0
        /\ m \in 1..m
    BY <1>2
  <2>2. /\ at[i] \in Nat /\ 64 < at[i] /\ GoodGroup(gs[i]) /\ GroupAt(f, at[i], gs[i])
    BY <2>1 DEF GroupIn
  <2>3. p = Dg(m) /\ at[m] < p /\ p \in Nat /\ at[m] \in Nat
    BY <1>2, <1>5, <2>1 DEF GroupIn
  <2>4. CASE i = m
    <3>1. n = 4 /\ data = "group" /\ p = DgAt(at[i], gs[i])
      BY <1>1, <2>1, <2>3, <2>4
    <3>2. Keeps(f, h, {DgAt(at[i], gs[i])}) /\ Relinked(f, h, DgAt(at[i], gs[i]), 4, "group", 1, dg)
      BY <1>4, <3>1, Zenon
    <3>3. GroupAt(h, at[i], gs[i]) /\ LinkIs(h, Dg(i), 1, dg)
      BY <2>2, <3>2, GroupRelinked
    <3> QED BY <1>7, <2>2, <2>4, <3>3 DEF GroupIn
  <2>5. CASE i # m
    <3>1. DtAt(at[i], gs[i]) < at[m] /\ i \in 0..(m - 1)
      BY <1>2, <2>1, <2>5
    <3>2. DtAt(at[i], gs[i]) \in Nat
      <4>1. Holds(f, DtAt(at[i], gs[i]), 0, Records(gs[i]))
        BY <2>2 DEF GroupAt
      <4> QED BY <1>2, <4>1 DEF Holds, IsFile
    <3>3. p > DtAt(at[i], gs[i])
      BY <2>3, <3>1, <3>2
    <3>4. GroupAt(h, at[i], gs[i]) /\ LinkIs(h, Dg(i), 1, After(gs, at, i))
      BY <1>4, <2>1, <2>2, <2>3, <3>3, GroupKept
    <3> QED BY <1>7, <2>2, <3>1, <3>4 DEF GroupIn
  <2> QED BY <2>4, <2>5
<1>10. \A i \in 1..m : DtAt(at[i], gs[i]) < s
  <2> SUFFICES ASSUME NEW i \in 1..m PROVE DtAt(at[i], gs[i]) < s
    OBVIOUS
  <2>1. GroupAt(f, at[i], gs[i])
    BY <1>2 DEF GroupIn
  <2>2. Holds(f, DtAt(at[i], gs[i]), 0, Records(gs[i]))
    BY <2>1 DEF GroupAt
  <2> QED BY <1>2, <2>2 DEF Holds, IsFile, s
<1>11. \A i \in 1..(m + 1) : /\ GroupIn(h, at2[i], gs2[i])
                             /\ LinkIs(h, DgAt(at2[i], gs2[i]), 1, After(gs2, at2, i))
  <2> SUFFICES ASSUME NEW i \in 1..(m + 1)
               PROVE  /\ GroupIn(h, at2[i], gs2[i])
                      /\ LinkIs(h, DgAt(at2[i], gs2[i]), 1, After(gs2, at2, i))
    OBVIOUS
  <2>1. CASE i = m + 1
    BY <1>3, <1>4, <1>6, <1>7, <2>1 DEF dg
  <2>2. CASE i \in 1..m
    BY <1>3, <1>9, <2>2
  <2> QED BY <1>2, <2>1, <2>2
<1>12. \A i, j \in 1..(m + 1) : i < j => DtAt(at2[i], gs2[i]) < at2[j]
  <2> SUFFICES ASSUME NEW i \in 1..(m + 1), NEW j \in 1..(m + 1), i < j
               PROVE  DtAt(at2[i], gs2[i]) < at2[j]
    OBVIOUS
  <2>1. i \in 1..m
    BY <1>2
  <2>2. CASE j = m + 1
    BY <1>3, <1>10, <2>1, <2>2
  <2>3. CASE j \in 1..m
    BY <1>2, <1>3, <2>1, <2>3
  <2> QED BY <1>2, <2>2, <2>3
<1>13. m + 1 \in Nat /\ m + 1 # 0
  BY <1>2
<1> QED BY <1>3, <1>4, <1>8, <1>11, <1>12, <1>13 DEF Built, h, v, m, dg

PatchAt(f, g, at, n, data, link, to) ==
  Keeps(f, g, {at}) /\ g.size = f.size /\ Relinked(f, g, at, n, data, link, to)

LEMMA PatchIsAt ==
  \A f, at, n, data, link, to :
    IsFile(f) /\ Holds(f, at, n, data) /\ link \in 1..n /\ to \in Nat
    => PatchAt(f, Patch(f, at, link, to), at, n, data, link, to)
BY PatchHolds, Zenon DEF PatchAt

(* The file before the first group.                                        *)
LEMMA HeaderIs ==
  \A start : /\ IsFile(FileHeader(start)) /\ Holds(FileHeader(start), 64, 6, start)
             /\ LinkIs(FileHeader(start), 64, 1, 0)
<1> SUFFICES ASSUME NEW start
             PROVE  /\ IsFile(FileHeader(start)) /\ Holds(FileHeader(start), 64, 6, start)
                    /\ LinkIs(FileHeader(start), 64, 1, 0)
  OBVIOUS
<1> DEFINE id == [size |-> 64, blocks |-> [a \in {0} |-> [id |-> "ID", len |-> 64, links |-> << >>,
                                                          data |-> << >>]]]
           P == PaddedText
           x1 == 8 + 2 + 2 + 1 + 1 + 1 + 1 + 8 + 8
           x2 == 8 + 2 + 2 + 1 + 3
           f1 == Put(id, "HD", 6, 32, x1, start)
           f2 == Put(f1, "FH", 2, 16, x2, start)
           f3 == Patch(f2, 64, 2, f1.size)
           f4 == Put(f3, "MD", 0, P, P, "comment")
           f5 == Patch(f4, 64, 6, f3.size)
           f6 == Patch(f5, f1.size, 2, f3.size)
           hd == 64
           fh == 168
           md == 224
           X == {hd}
           Y == {fh}
<1>0. FileHeader(start) = f6
  BY Zenon DEF FileHeader
<1>1. IsFile(id) /\ id.size = 64
  <2>1. IsFiniteSet({0})
    BY FS_Singleton
  <2>2. << >> \in Seq(Nat)
    BY EmptySeq
  <2>3. IsBlock([id |-> "ID", len |-> 64, links |-> << >>, data |-> << >>])
    BY <2>2 DEF IsBlock
  <2> QED BY <2>1, <2>3 DEF IsFile
<1>2. x1 = 32 /\ x2 = 16 /\ P \in Nat
  BY TextAssumption DEF PaddedText
<1>3. /\ hd \notin Y /\ fh \notin X /\ 2 \in 1..6 /\ 6 \in 1..6 /\ 2 \in 1..2 /\ 1 \in 1..6
      /\ hd = 64 /\ fh = 168 /\ md = 224 /\ hd \notin {} /\ fh \in Nat /\ md \in Nat
  OBVIOUS
<1> HIDE DEF id, x1, x2, P, X, Y, hd, fh, md
<1>4. PutAt(id, f1, 6, 24 + 8 * 6 + 32, start)
  BY <1>1, <1>2, <1>3, PutHolds
<1> HIDE DEF f1
<1>5. IsFile(f1) /\ f1.size = fh /\ Holds(f1, hd, 6, start) /\ LinkIs(f1, hd, 1, 0)
  BY <1>1, <1>3, <1>4 DEF PutAt, Keeps
<1>6. PutAt(f1, f2, 2, 24 + 8 * 2 + 16, start)
  BY <1>2, <1>5, PutHolds
<1> HIDE DEF f2
<1>7. /\ IsFile(f2) /\ f2.size = md /\ Keeps(f1, f2, {}) /\ Holds(f2, fh, 2, start)
  BY <1>3, <1>5, <1>6 DEF PutAt, Keeps
<1>8. hd \notin {} /\ fh \in Nat /\ md \in Nat
  BY <1>3
<1>9. Holds(f2, hd, 6, start) /\ LinkIs(f2, hd, 1, 0)
  BY <1>5, <1>7, <1>8, KeptHolds, KeptLink
<1>10. /\ Keeps(f2, f3, {hd}) /\ f3.size = f2.size
       /\ Relinked(f2, f3, hd, 6, start, 2, fh)
  <2>1. f3 = Patch(f2, hd, 2, fh)
    BY <1>3, <1>5
  <2> HIDE DEF f3
  <2>2. IsFile(f2) /\ Holds(f2, hd, 6, start) /\ 2 \in 1..6 /\ fh \in Nat
    BY <1>3, <1>8, <1>7, <1>9
  <2>3. PatchAt(f2, Patch(f2, hd, 2, fh), hd, 6, start, 2, fh)
    BY <2>2, PatchIsAt
  <2> QED BY <2>1, <2>3, Zenon DEF PatchAt
<1> HIDE DEF f3
<1>11. /\ IsFile(f3) /\ f3.size = md /\ Holds(f3, hd, 6, start) /\ LinkIs(f3, hd, 1, 0)
  BY <1>3, <1>7, <1>9, <1>10 DEF Keeps, Relinked, LinkIs
<1>12. Holds(f3, fh, 2, start)
  <2>1. Keeps(f2, f3, X)
    BY <1>10 DEF X
  <2> QED BY <1>3, <1>7, <2>1, KeptHolds
<1>13. PutAt(f3, f4, 0, 24 + 8 * 0 + P, "comment")
  BY <1>2, <1>11, PutHolds
<1> HIDE DEF f4
<1>14. IsFile(f4) /\ Keeps(f3, f4, {})
  BY <1>13 DEF PutAt, Keeps
<1>15. /\ Holds(f4, hd, 6, start) /\ LinkIs(f4, hd, 1, 0) /\ Holds(f4, fh, 2, start)
  <2>1. fh \notin {}
    OBVIOUS
  <2> QED BY <1>8, <1>11, <1>12, <1>14, <2>1, KeptHolds, KeptLink
<1>16. /\ Keeps(f4, f5, {hd}) /\ f5.size = f4.size
       /\ Relinked(f4, f5, hd, 6, start, 6, md)
  <2>1. f5 = Patch(f4, hd, 6, md)
    BY <1>3, <1>11
  <2> HIDE DEF f5
  <2>2. IsFile(f4) /\ Holds(f4, hd, 6, start) /\ 6 \in 1..6 /\ md \in Nat
    BY <1>3, <1>8, <1>14, <1>15
  <2>3. PatchAt(f4, Patch(f4, hd, 6, md), hd, 6, start, 6, md)
    BY <2>2, PatchIsAt
  <2> QED BY <2>1, <2>3, Zenon DEF PatchAt
<1> HIDE DEF f5
<1>17. IsFile(f5) /\ Holds(f5, hd, 6, start) /\ LinkIs(f5, hd, 1, 0)
  BY <1>3, <1>15, <1>16 DEF Keeps, Relinked, LinkIs
<1>18. Holds(f5, fh, 2, start)
  <2>1. Keeps(f4, f5, X)
    BY <1>16 DEF X
  <2> QED BY <1>3, <1>15, <2>1, KeptHolds
<1>19. /\ Keeps(f5, f6, {fh}) /\ f6.size = f5.size
       /\ Relinked(f5, f6, fh, 2, start, 2, md)
  <2>1. f6 = Patch(f5, fh, 2, md)
    BY <1>3, <1>5, <1>11
  <2> HIDE DEF f6
  <2>2. IsFile(f5) /\ Holds(f5, fh, 2, start) /\ 2 \in 1..2 /\ md \in Nat
    BY <1>3, <1>8, <1>17, <1>18
  <2>3. PatchAt(f5, Patch(f5, fh, 2, md), fh, 2, start, 2, md)
    BY <2>2, PatchIsAt
  <2> QED BY <2>1, <2>3, Zenon DEF PatchAt
<1> HIDE DEF f6
<1>20. Keeps(f5, f6, Y) /\ IsFile(f6)
  BY <1>19 DEF Y, Keeps
<1>21. Holds(f6, hd, 6, start) /\ LinkIs(f6, hd, 1, 0)
  BY <1>3, <1>17, <1>20, KeptHolds, KeptLink
<1> QED BY <1>0, <1>20, <1>21 DEF hd

(* A fold over the groups writes them one after the other.                 *)
Grp == INSTANCE FoldFacts WITH Op <- PutGroup

WithGroups(w, gs) == FoldLeft(PutGroup, w, gs)

LEMMA GroupsIsFold == \A w, gs : WithGroups(w, gs) = Grp!FoldLeft(PutGroup, w, gs)
BY Zenon DEF WithGroups, FoldLeft, MapThenFoldSet, Max, Grp!FoldLeft, Grp!MapThenFoldSet, Grp!Max

LEMMA GroupsEmpty == \A w : WithGroups(w, << >>) = w
BY GroupsIsFold, Grp!FoldEmpty, Zenon

LEMMA GroupsAppend ==
  ASSUME NEW w, NEW T, NEW gs \in Seq(T), NEW g \in T
  PROVE  WithGroups(w, Append(gs, g)) = PutGroup(WithGroups(w, gs), g)
BY GroupsIsFold, Grp!FoldAppend, Zenon

AreGroups(G) == \A g \in G : GoodGroup(g)

LEMMA BuiltAll ==
  \A w, hd, G :
    Built(w, << >>, << >>, hd) /\ AreGroups(G)
    => \A gs \in Seq(G) :
         \E at \in Seq(Nat) : Len(at) = Len(gs) /\ Built(WithGroups(w, gs), gs, at, hd)
<1> SUFFICES ASSUME NEW w, NEW hd, NEW G, Built(w, << >>, << >>, hd), AreGroups(G)
             PROVE  \A gs \in Seq(G) : \E at \in Seq(Nat) :
                      Len(at) = Len(gs) /\ Built(WithGroups(w, gs), gs, at, hd)
  OBVIOUS
<1> DEFINE T == {gs \in Seq(G) : \E at \in Seq(Nat) :
                   Len(at) = Len(gs) /\ Built(WithGroups(w, gs), gs, at, hd)}
<1>1. << >> \in T
  <2>1. WithGroups(w, << >>) = w
    BY GroupsEmpty
  <2>2. << >> \in Seq(G) /\ << >> \in Seq(Nat)
    BY EmptySeq
  <2> QED BY <2>1, <2>2
<1>2. ASSUME NEW gs \in Seq(G), NEW g \in G, gs \in T PROVE Append(gs, g) \in T
  <2>1. PICK at \in Seq(Nat) : Len(at) = Len(gs) /\ Built(WithGroups(w, gs), gs, at, hd)
    BY <1>2
  <2> DEFINE v == WithGroups(w, gs)
             s == v.file.size
             gs2 == Append(gs, g)
             at2 == Append(at, s)
  <2>2. WithGroups(w, gs2) = PutGroup(v, g)
    BY GroupsAppend
  <2>3. Built(v, gs, at, hd)
    BY <2>1
  <2> HIDE DEF v
  <2>4. s \in Nat
    BY <2>3 DEF Built, IsFile
  <2> HIDE DEF s
  <2>5. gs2 \in Seq(G) /\ OneMore(gs, gs2, g)
    BY AppendProperties DEF OneMore
  <2>6. at2 \in Seq(Nat) /\ OneMore(at, at2, s)
    BY <2>4, AppendProperties DEF OneMore
  <2>7. GoodGroup(g)
    BY DEF AreGroups
  <2> HIDE DEF gs2, at2
  <2>8. Built(PutGroup(v, g), gs2, at2, hd)
    BY <2>1, <2>3, <2>5, <2>6, <2>7, BuiltStep DEF s
  <2>9. Len(at2) = Len(gs2)
    BY <2>1, <2>5, <2>6 DEF OneMore
  <2>10. gs2 \in T
    BY <2>2, <2>5, <2>6, <2>8, <2>9
  <2> QED BY <2>10 DEF gs2
<1> HIDE DEF T
<1>3. Seq(G) \subseteq T
  BY <1>1, <1>2, Grp!SeqInduction
<1> QED BY <1>3 DEF T

(* What the file tells of its groups when it is read.                      *)
Tiled(file) ==
  \A a \in DOMAIN file.blocks : a + file.blocks[a].len \in DOMAIN file.blocks \cup {file.size}

Sized(file, dg) ==
  LET cg == file.blocks[file.blocks[dg].links[2]].data
      dt == file.blocks[file.blocks[dg].links[3]].data
  IN  cg.cycles = Len(dt) /\ \A row \in DOMAIN dt : RowBytes(dt[row]) = cg.bytes

ReadsAs(file, gs) ==
  LET dgs == Chain(file, file.blocks[64].links[1])
  IN  /\ [i \in DOMAIN dgs |-> ReadGroup(file, dgs[i])] = gs
      /\ \A i \in DOMAIN dgs : Sized(file, dgs[i])
      /\ Tiled(file)

LEMMA SizedIs ==
  \A f, s, g : GoodGroup(g) /\ GroupAt(f, s, g) => Sized(f, DgAt(s, g))
<1> SUFFICES ASSUME NEW f, NEW s, NEW g, GoodGroup(g), GroupAt(f, s, g)
             PROVE  Sized(f, DgAt(s, g))
  OBVIOUS
<1> DEFINE dg == DgAt(s, g)
           cg == f.blocks[f.blocks[dg].links[2]].data
           dt == f.blocks[f.blocks[dg].links[3]].data
<1>1. cg = GroupHead(g) /\ dt = Records(g)
  BY DEF GroupAt, Holds, LinkIs
<1> HIDE DEF dg, cg, dt
<1>2. cg.cycles = Len(g.times) /\ cg.bytes = RecordSize(g.channels)
  BY <1>1 DEF GroupHead
<1>3. /\ Len(dt) = Len(g.times) /\ DOMAIN dt = 1..Len(g.times)
      /\ \A row \in 1..Len(g.times) : RowIs(g, row, dt[row])
  BY <1>1, RecordsAre
<1>4. \A row \in 1..Len(g.times) : RowBytes(dt[row]) = RecordSize(g.channels)
  BY <1>3, SizesAre
<1> QED BY <1>2, <1>3, <1>4 DEF Sized, dg, cg, dt

LEMMA BuiltChained ==
  \A w, gs, at, hd :
    Built(w, gs, at, hd)
    => Chained(w.file, w.file.blocks[64].links[1], [i \in 1..Len(gs) |-> DgAt(at[i], gs[i])])
<1> SUFFICES ASSUME NEW w, NEW gs, NEW at, NEW hd, Built(w, gs, at, hd)
             PROVE  Chained(w.file, w.file.blocks[64].links[1],
                            [i \in 1..Len(gs) |-> DgAt(at[i], gs[i])])
  OBVIOUS
<1> DEFINE f == w.file
           m == Len(gs)
           c == [i \in 1..m |-> DgAt(at[i], gs[i])]
<1>1. /\ IsFile(f) /\ m \in Nat /\ LinkIs(f, 64, 1, After(gs, at, 0))
      /\ \A i \in 1..m : GroupIn(f, at[i], gs[i]) /\ LinkIs(f, c[i], 1, After(gs, at, i))
      /\ \A i, j \in 1..m : i < j => DtAt(at[i], gs[i]) < at[j]
  BY DEF Built
<1>2. \A i \in 1..m : /\ c[i] \in Nat /\ at[i] \in Nat /\ 64 < at[i] /\ at[i] < c[i]
                      /\ c[i] \in DOMAIN f.blocks
  <2> SUFFICES ASSUME NEW i \in 1..m
               PROVE  /\ c[i] \in Nat /\ at[i] \in Nat /\ 64 < at[i] /\ at[i] < c[i]
                      /\ c[i] \in DOMAIN f.blocks
    OBVIOUS
  <2>1. at[i] \in Nat /\ 64 < at[i] /\ GoodGroup(gs[i]) /\ GroupAt(f, at[i], gs[i])
    BY <1>1 DEF GroupIn
  <2>2. Holds(f, DgAt(at[i], gs[i]), 4, "group")
    BY <2>1 DEF GroupAt
  <2> QED BY <2>1, <2>2, DgFrom DEF Holds
<1>3. \A i, j \in 1..m : i < j => c[i] < c[j]
  <2> SUFFICES ASSUME NEW i \in 1..m, NEW j \in 1..m, i < j PROVE c[i] < c[j]
    OBVIOUS
  <2> DEFINE dt == DtAt(at[i], gs[i])
             k == Len(gs[i].channels)
  <2>1. at[i] \in Nat /\ GoodGroup(gs[i])
    BY <1>1 DEF GroupIn
  <2>2. k + 2 \in 1..(k + 2)
    BY <2>1, GoodGroupIs
  <2>3. dt \in Nat /\ c[i] + 168 <= dt
    BY <2>1, <2>2, CnFrom DEF DtAt
  <2>4. dt < at[j]
    BY <1>1
  <2> HIDE DEF dt, c
  <2> QED BY <1>2, <2>3, <2>4
<1>4. c \in Seq(Nat) /\ Len(c) = m
  <2>1. c \in [1..m -> Nat]
    BY <1>2
  <2> QED BY <1>1, <2>1, SeqDef
<1>5. After(gs, at, 0) = IF m = 0 THEN 0 ELSE c[1]
  BY <1>1 DEF After
<1>6. \A i \in 1..m : After(gs, at, i) = IF i = m THEN 0 ELSE c[i + 1]
  BY <1>1 DEF After
<1>7. c = << >> <=> m = 0
  BY <1>1, <1>4, EmptySeq
<1> HIDE DEF c, m, f
<1>8. f.blocks[64].links[1] = IF c = << >> THEN 0 ELSE c[1]
  BY <1>1, <1>5, <1>7 DEF LinkIs
<1>9. \A i \in 1..m : c[i] # 0 /\ f.blocks[c[i]].links[1] = IF i = m THEN 0 ELSE c[i + 1]
  BY <1>1, <1>2, <1>6 DEF LinkIs
<1>10. \A i, j \in 1..m : c[i] = c[j] => i = j
  <2> SUFFICES ASSUME NEW i \in 1..m, NEW j \in 1..m, c[i] = c[j], i # j PROVE FALSE
    OBVIOUS
  <2>1. i < j \/ j < i
    BY <1>1
  <2>2. c[i] \in Nat /\ c[j] \in Nat
    BY <1>2
  <2> QED BY <1>3, <2>1, <2>2
<1>11. Chained(f, f.blocks[64].links[1], c)
  BY <1>2, <1>4, <1>8, <1>9, <1>10 DEF Chained
<1> QED BY <1>11 DEF f, c, m

LEMMA BuiltReads ==
  \A w, gs, at, hd, G : Built(w, gs, at, hd) /\ gs \in Seq(G) => ReadsAs(w.file, gs)
<1> SUFFICES ASSUME NEW w, NEW gs, NEW at, NEW hd, NEW G, Built(w, gs, at, hd), gs \in Seq(G)
             PROVE  ReadsAs(w.file, gs)
  OBVIOUS
<1> DEFINE f == w.file
           m == Len(gs)
           c == [i \in 1..m |-> DgAt(at[i], gs[i])]
           dgs == Chain(f, f.blocks[64].links[1])
<1>1. IsFile(f) /\ m \in Nat /\ gs = [i \in 1..m |-> gs[i]]
  BY LenProperties DEF Built
<1>2. dgs = c
  <2>1. Chained(f, f.blocks[64].links[1], c)
    BY BuiltChained
  <2> HIDE DEF c, f
  <2> QED BY <1>1, <2>1, ChainIs
<1>3. ASSUME NEW i \in 1..m PROVE ReadGroup(f, c[i]) = gs[i] /\ Sized(f, c[i])
  <2> DEFINE s == at[i]
             g == gs[i]
  <2>1. GroupIn(f, s, g) /\ c[i] = DgAt(s, g)
    BY DEF Built
  <2>2. s \in Nat /\ GoodGroup(g) /\ GroupAt(f, s, g)
    BY <2>1 DEF GroupIn
  <2> HIDE DEF s, g, f
  <2>3. ReadGroup(f, DgAt(s, g)) = g /\ Sized(f, DgAt(s, g))
    BY <1>1, <2>2, ReadIs, SizedIs
  <2> QED BY <2>1, <2>3 DEF g
<1>4. DOMAIN c = 1..m
  OBVIOUS
<1> HIDE DEF c, f, m, dgs
<1>5. DOMAIN dgs = 1..m
  BY <1>2, <1>4
<1>6. [i \in DOMAIN dgs |-> ReadGroup(f, dgs[i])] = gs
  BY <1>1, <1>2, <1>3, <1>5
<1>7. \A i \in DOMAIN dgs : Sized(f, dgs[i])
  BY <1>2, <1>3, <1>5
<1>8. Tiled(f)
  BY <1>1 DEF IsFile, Tiled
<1> QED BY <1>6, <1>7, <1>8 DEF ReadsAs, f, dgs

(* The file of groups can be read.                                         *)
LEMMA BuildReads ==
  \A groups, start, G :
    Keep(groups, HasSamples) \in Seq(G) /\ AreGroups(G)
    => ReadsAs(BuildMdf4(groups, start), Keep(groups, HasSamples))
<1> SUFFICES ASSUME NEW groups, NEW start, NEW G,
                    Keep(groups, HasSamples) \in Seq(G), AreGroups(G)
             PROVE  ReadsAs(BuildMdf4(groups, start), Keep(groups, HasSamples))
  OBVIOUS
<1> DEFINE gs == Keep(groups, HasSamples)
           w == [file |-> FileHeader(start), last_dg |-> 0]
           h == FileHeader(start)
<1>1. Built(w, << >>, << >>, start)
  <2>1. IsFile(h) /\ Holds(h, 64, 6, start) /\ LinkIs(h, 64, 1, 0)
    BY HeaderIs
  <2>2. w.file = h /\ w.last_dg = 0
    OBVIOUS
  <2>3. Len(<< >>) = 0
    BY EmptySeq
  <2> HIDE DEF w, h
  <2> QED BY <2>1, <2>2, <2>3 DEF Built, After
<1>2. BuildMdf4(groups, start) = WithGroups(w, gs).file
  BY Zenon DEF BuildMdf4, WithGroups
<1> HIDE DEF gs, w
<1>3. gs \in Seq(G)
  BY DEF gs
<1>4. PICK at \in Seq(Nat) : Built(WithGroups(w, gs), gs, at, start)
  BY <1>1, <1>3, BuiltAll
<1>5. ReadsAs(WithGroups(w, gs).file, gs)
  BY <1>3, <1>4, BuiltReads
<1> QED BY <1>2, <1>5 DEF gs

-----------------------------------------------------------------------------
(* The groups made of samples and geometry: every channel has a value for  *)
(* every time.                                                             *)
Column(n, d) == d = [row \in 1..n |-> d[row]]

LEMMA ChannelGood ==
  \A n, name, unit, type, d :
    type \in Types /\ Column(n, d) => GoodChannel(Channel(name, unit, type, d), n)
BY DEF GoodChannel, Channel, Column

LEMMA FilledIs == \A n, valid, d : Column(n, d) => Column(n, Filled(valid, d))
BY DEF Column, Filled

GoodChannels(cs, n) ==
  (\E C : cs \in Seq(C)) /\ \A i \in 1..Len(cs) : GoodChannel(cs[i], n)

LEMMA AlikeGood ==
  \A n, k, cs :
    k \in Nat /\ cs = [c \in 1..k |-> cs[c]] /\ (\A c \in 1..k : GoodChannel(cs[c], n))
    => GoodChannels(cs, n)
<1> SUFFICES ASSUME NEW n, NEW k \in Nat, NEW cs, cs = [c \in 1..k |-> cs[c]],
                    \A c \in 1..k : GoodChannel(cs[c], n)
             PROVE  GoodChannels(cs, n)
  OBVIOUS
<1> DEFINE C == {cs[c] : c \in 1..k}
<1>1. cs \in [1..k -> C]
  OBVIOUS
<1> HIDE DEF C
<1>2. cs \in Seq(C) /\ Len(cs) = k
  BY <1>1, SeqDef
<1> QED BY <1>2 DEF GoodChannels

LEMMA ThreeGood ==
  \A n, a, b, c :
    GoodChannel(a, n) /\ GoodChannel(b, n) /\ GoodChannel(c, n) => GoodChannels(<<a, b, c>>, n)
<1> SUFFICES ASSUME NEW n, NEW a, NEW b, NEW c,
                    GoodChannel(a, n), GoodChannel(b, n), GoodChannel(c, n)
             PROVE  GoodChannels(<<a, b, c>>, n)
  OBVIOUS
<1> DEFINE s == <<a, b, c>>
<1>1. s = [i \in 1..3 |-> s[i]] /\ s[1] = a /\ s[2] = b /\ s[3] = c
  OBVIOUS
<1> HIDE DEF s
<1>2. \A i \in 1..3 : GoodChannel(s[i], n)
  BY <1>1
<1>3. GoodChannels(s, n)
  BY <1>1, <1>2, AlikeGood
<1> QED BY <1>3 DEF s

LEMMA FourGood ==
  \A n, a, b, c, d :
    GoodChannel(a, n) /\ GoodChannel(b, n) /\ GoodChannel(c, n) /\ GoodChannel(d, n)
    => GoodChannels(<<a, b, c, d>>, n)
<1> SUFFICES ASSUME NEW n, NEW a, NEW b, NEW c, NEW d,
                    GoodChannel(a, n), GoodChannel(b, n), GoodChannel(c, n), GoodChannel(d, n)
             PROVE  GoodChannels(<<a, b, c, d>>, n)
  OBVIOUS
<1> DEFINE s == <<a, b, c, d>>
<1>1. s = [i \in 1..4 |-> s[i]] /\ s[1] = a /\ s[2] = b /\ s[3] = c /\ s[4] = d
  OBVIOUS
<1> HIDE DEF s
<1>2. \A i \in 1..4 : GoodChannel(s[i], n)
  BY <1>1
<1>3. GoodChannels(s, n)
  BY <1>1, <1>2, AlikeGood
<1> QED BY <1>3 DEF s

LEMMA SixGood ==
  \A n, a, b, c, d, e, f :
    /\ GoodChannel(a, n) /\ GoodChannel(b, n) /\ GoodChannel(c, n) /\ GoodChannel(d, n)
    /\ GoodChannel(e, n) /\ GoodChannel(f, n)
    => GoodChannels(<<a, b, c, d, e, f>>, n)
<1> SUFFICES ASSUME NEW n, NEW a, NEW b, NEW c, NEW d, NEW e, NEW f,
                    GoodChannel(a, n), GoodChannel(b, n), GoodChannel(c, n), GoodChannel(d, n),
                    GoodChannel(e, n), GoodChannel(f, n)
             PROVE  GoodChannels(<<a, b, c, d, e, f>>, n)
  OBVIOUS
<1> DEFINE s == <<a, b, c, d, e, f>>
<1>1. /\ s = [i \in 1..6 |-> s[i]] /\ s[1] = a /\ s[2] = b /\ s[3] = c /\ s[4] = d
      /\ s[5] = e /\ s[6] = f
  OBVIOUS
<1> HIDE DEF s
<1>2. \A i \in 1..6 : GoodChannel(s[i], n)
  BY <1>1
<1>3. GoodChannels(s, n)
  BY <1>1, <1>2, AlikeGood
<1> QED BY <1>3 DEF s

GroupTimes(q, start) == [i \in DOMAIN q |-> q[i].t - start]

LEMMA GroupGood ==
  \A name, q, start, n, cs :
    n \in Nat /\ DOMAIN q = 1..n /\ GoodChannels(cs, n)
    => GoodGroup([name |-> name, times |-> GroupTimes(q, start), channels |-> cs])
<1> SUFFICES ASSUME NEW name, NEW q, NEW start, NEW n \in Nat, NEW cs,
                    DOMAIN q = 1..n, GoodChannels(cs, n)
             PROVE  GoodGroup([name |-> name, times |-> GroupTimes(q, start), channels |-> cs])
  OBVIOUS
<1> DEFINE t == GroupTimes(q, start)
           g == [name |-> name, times |-> t, channels |-> cs]
           T == {t[i] : i \in 1..n}
<1>1. t \in [1..n -> T]
  BY DEF GroupTimes
<1>2. t \in Seq(T) /\ Len(t) = n
  <2> HIDE DEF t, T
  <2> QED BY <1>1, SeqDef
<1> HIDE DEF t, T
<1>3. g.times = t /\ g.channels = cs /\ g.name = name
  OBVIOUS
<1>4. g = [name |-> g.name, times |-> g.times, channels |-> g.channels]
  OBVIOUS
<1> HIDE DEF g
<1>5. GoodGroup(g)
  BY <1>2, <1>3, <1>4 DEF GoodGroup, GoodChannels
<1> QED BY <1>5 DEF g, t

(* The channels of each group.                                             *)
OfGps(s) ==
  <<Channel("latitude", "deg", "float64", [i \in DOMAIN s |-> s[i].pos]),
    Channel("longitude", "deg", "float64", [i \in DOMAIN s |-> 0]),
    Channel("altitude", "m", "float64", [i \in DOMAIN s |-> 0]),
    Channel("speed", "m/s", "float32", [i \in DOMAIN s |-> 0]),
    Channel("heading", "deg", "float32", [i \in DOMAIN s |-> 0]),
    Channel("fix_quality", "", "uint8", [i \in DOMAIN s |-> IF s[i].fix THEN 1 ELSE 0])>>

OfImu(s) ==
  [c \in 1..6 |-> Channel("imu", "SI", "float32",
                          Filled([i \in DOMAIN s |-> s[i].imu_valid], [i \in DOMAIN s |-> 0]))]

OfTrajectory(s) ==
  [c \in 1..5 |-> Channel("trajectory", "deg", IF c <= 2 THEN "float64" ELSE "float32",
                          Filled([i \in DOMAIN s |-> FALSE], [i \in DOMAIN s |-> 0]))]

OfSource(s) ==
  <<Channel("latitude", "deg", "float64",
            Filled([i \in DOMAIN s |-> s[i].src_valid], [i \in DOMAIN s |-> s[i].src_pos])),
    Channel("longitude", "deg", "float64",
            Filled([i \in DOMAIN s |-> s[i].src_valid], [i \in DOMAIN s |-> 0])),
    Channel("speed", "m/s", "float32",
            Filled([i \in DOMAIN s |-> s[i].src_valid], [i \in DOMAIN s |-> 0])),
    Channel("valid", "", "uint8", [i \in DOMAIN s |-> IF s[i].src_valid THEN 1 ELSE 0])>>

OfScene(g) ==
  <<Channel("range", "m", "float64",
            Filled([i \in DOMAIN g |-> g[i].valid], [i \in DOMAIN g |-> g[i].range])),
    Channel("azimuth", "deg", "float64",
            Filled([i \in DOMAIN g |-> g[i].valid], [i \in DOMAIN g |-> 0])),
    Channel("closing_speed", "m/s", "float64",
            Filled([i \in DOMAIN g |-> g[i].valid], [i \in DOMAIN g |-> g[i].closing]))>>

OfMetrics(g) ==
  [c \in 1..2 |-> Channel("speed", "m/s", "float64",
                          Filled([i \in DOMAIN g |-> g[i].valid], [i \in DOMAIN g |-> 0]))]

GroupOf(name, q, start, cs) == [name |-> name, times |-> GroupTimes(q, start), channels |-> cs]

LEMMA PrepareIs ==
  \A s, g, start :
    Prepare(s, g, start) =
      IF s = << >> THEN << >> ELSE
        <<GroupOf("Ego.GPS", s, start, OfGps(s)), GroupOf("Ego.IMU", s, start, OfImu(s)),
          GroupOf("Ego.Trajectory", s, start, OfTrajectory(s)),
          GroupOf("Source.GPS", s, start, OfSource(s))>>
        \o (IF g = << >> THEN << >> ELSE
              <<GroupOf("Scene", g, start, OfScene(g)), GroupOf("Scene.Metrics", g, start, OfMetrics(g))>>)
BY SMT DEF Prepare, GroupOf, GroupTimes, OfGps, OfImu, OfTrajectory, OfSource, OfScene, OfMetrics

LEMMA SampleChannels ==
  \A s, n : n \in Nat /\ DOMAIN s = 1..n =>
    /\ GoodChannels(OfGps(s), n) /\ GoodChannels(OfImu(s), n)
    /\ GoodChannels(OfTrajectory(s), n) /\ GoodChannels(OfSource(s), n)
<1> SUFFICES ASSUME NEW s, NEW n \in Nat, DOMAIN s = 1..n
             PROVE  /\ GoodChannels(OfGps(s), n) /\ GoodChannels(OfImu(s), n)
                    /\ GoodChannels(OfTrajectory(s), n) /\ GoodChannels(OfSource(s), n)
  OBVIOUS
<1> DEFINE pos == [i \in DOMAIN s |-> s[i].pos]
           zero == [i \in DOMAIN s |-> 0]
           fix == [i \in DOMAIN s |-> IF s[i].fix THEN 1 ELSE 0]
           src == [i \in DOMAIN s |-> s[i].src_pos]
           bit == [i \in DOMAIN s |-> IF s[i].src_valid THEN 1 ELSE 0]
           fi == Filled([i \in DOMAIN s |-> s[i].imu_valid], zero)
           ft == Filled([i \in DOMAIN s |-> FALSE], zero)
           fp == Filled([i \in DOMAIN s |-> s[i].src_valid], src)
           fz == Filled([i \in DOMAIN s |-> s[i].src_valid], zero)
<1>1. Column(n, pos) /\ Column(n, zero) /\ Column(n, fix) /\ Column(n, src) /\ Column(n, bit)
  BY DEF Column
<1>2. Column(n, fi) /\ Column(n, ft) /\ Column(n, fp) /\ Column(n, fz)
  <2> HIDE DEF zero, src
  <2> QED BY <1>1, FilledIs
<1>3. "float64" \in Types /\ "float32" \in Types /\ "uint8" \in Types
  BY DEF Types
<1>4. /\ OfGps(s) = <<Channel("latitude", "deg", "float64", pos),
                      Channel("longitude", "deg", "float64", zero),
                      Channel("altitude", "m", "float64", zero),
                      Channel("speed", "m/s", "float32", zero),
                      Channel("heading", "deg", "float32", zero),
                      Channel("fix_quality", "", "uint8", fix)>>
      /\ OfSource(s) = <<Channel("latitude", "deg", "float64", fp),
                         Channel("longitude", "deg", "float64", fz),
                         Channel("speed", "m/s", "float32", fz),
                         Channel("valid", "", "uint8", bit)>>
      /\ OfImu(s) = [c \in 1..6 |-> Channel("imu", "SI", "float32", fi)]
      /\ OfTrajectory(s) =
           [c \in 1..5 |-> Channel("trajectory", "deg", IF c <= 2 THEN "float64" ELSE "float32", ft)]
  BY Zenon DEF OfGps, OfSource, OfImu, OfTrajectory
<1> HIDE DEF pos, zero, fix, src, bit, fi, ft, fp, fz
<1>5. GoodChannels(OfGps(s), n)
  <2> DEFINE a == Channel("latitude", "deg", "float64", pos)
             b == Channel("longitude", "deg", "float64", zero)
             c == Channel("altitude", "m", "float64", zero)
             d == Channel("speed", "m/s", "float32", zero)
             e == Channel("heading", "deg", "float32", zero)
             f == Channel("fix_quality", "", "uint8", fix)
  <2>1. /\ GoodChannel(a, n) /\ GoodChannel(b, n) /\ GoodChannel(c, n) /\ GoodChannel(d, n)
        /\ GoodChannel(e, n) /\ GoodChannel(f, n)
    BY <1>1, <1>3, ChannelGood
  <2>2. OfGps(s) = <<a, b, c, d, e, f>>
    BY <1>4, Zenon
  <2> HIDE DEF a, b, c, d, e, f
  <2>3. GoodChannels(<<a, b, c, d, e, f>>, n)
    BY <2>1, SixGood, Zenon
  <2> QED BY <2>2, <2>3, Zenon
<1>6. GoodChannels(OfSource(s), n)
  <2> DEFINE a == Channel("latitude", "deg", "float64", fp)
             b == Channel("longitude", "deg", "float64", fz)
             c == Channel("speed", "m/s", "float32", fz)
             d == Channel("valid", "", "uint8", bit)
  <2>1. GoodChannel(a, n) /\ GoodChannel(b, n) /\ GoodChannel(c, n) /\ GoodChannel(d, n)
    BY <1>1, <1>2, <1>3, ChannelGood
  <2>2. OfSource(s) = <<a, b, c, d>>
    BY <1>4, Zenon
  <2> HIDE DEF a, b, c, d
  <2>3. GoodChannels(<<a, b, c, d>>, n)
    BY <2>1, FourGood, Zenon
  <2> QED BY <2>2, <2>3, Zenon
<1>7. GoodChannels(OfImu(s), n)
  <2> DEFINE ch == Channel("imu", "SI", "float32", fi)
             cs == [c \in 1..6 |-> ch]
  <2>1. GoodChannel(ch, n)
    BY <1>2, <1>3, ChannelGood
  <2> HIDE DEF ch
  <2>2. cs = [c \in 1..6 |-> cs[c]] /\ \A c \in 1..6 : GoodChannel(cs[c], n)
    BY <2>1
  <2> HIDE DEF cs
  <2>3. GoodChannels(cs, n)
    BY <2>2, AlikeGood
  <2> QED BY <1>4, <2>3 DEF cs, ch
<1>8. GoodChannels(OfTrajectory(s), n)
  <2> DEFINE ch(c) == Channel("trajectory", "deg", IF c <= 2 THEN "float64" ELSE "float32", ft)
             cs == [c \in 1..5 |-> ch(c)]
  <2>1. \A c \in 1..5 : GoodChannel(ch(c), n)
    <3>1. /\ GoodChannel(Channel("trajectory", "deg", "float64", ft), n)
          /\ GoodChannel(Channel("trajectory", "deg", "float32", ft), n)
      BY <1>2, <1>3, ChannelGood
    <3> QED BY <3>1
  <2> HIDE DEF ch
  <2>2. cs = [c \in 1..5 |-> cs[c]] /\ \A c \in 1..5 : GoodChannel(cs[c], n)
    BY <2>1
  <2> HIDE DEF cs
  <2>3. GoodChannels(cs, n)
    BY <2>2, AlikeGood
  <2> QED BY <1>4, <2>3 DEF cs, ch
<1> QED BY <1>5, <1>6, <1>7, <1>8

LEMMA SceneChannels ==
  \A g, n : n \in Nat /\ DOMAIN g = 1..n =>
    GoodChannels(OfScene(g), n) /\ GoodChannels(OfMetrics(g), n)
<1> SUFFICES ASSUME NEW g, NEW n \in Nat, DOMAIN g = 1..n
             PROVE  GoodChannels(OfScene(g), n) /\ GoodChannels(OfMetrics(g), n)
  OBVIOUS
<1> DEFINE valid == [i \in DOMAIN g |-> g[i].valid]
           range == [i \in DOMAIN g |-> g[i].range]
           zero == [i \in DOMAIN g |-> 0]
           closing == [i \in DOMAIN g |-> g[i].closing]
           fr == Filled(valid, range)
           fz == Filled(valid, zero)
           fc == Filled(valid, closing)
<1>1. Column(n, range) /\ Column(n, zero) /\ Column(n, closing)
  BY DEF Column
<1>2. Column(n, fr) /\ Column(n, fz) /\ Column(n, fc)
  <2> HIDE DEF valid, range, zero, closing
  <2> QED BY <1>1, FilledIs
<1>3. "float64" \in Types
  BY DEF Types
<1>4. /\ OfScene(g) = <<Channel("range", "m", "float64", fr), Channel("azimuth", "deg", "float64", fz),
                        Channel("closing_speed", "m/s", "float64", fc)>>
      /\ OfMetrics(g) = [c \in 1..2 |-> Channel("speed", "m/s", "float64", fz)]
  BY Zenon DEF OfScene, OfMetrics
<1> HIDE DEF fr, fz, fc
<1>5. GoodChannels(OfScene(g), n)
  <2>1. /\ GoodChannel(Channel("range", "m", "float64", fr), n)
        /\ GoodChannel(Channel("azimuth", "deg", "float64", fz), n)
        /\ GoodChannel(Channel("closing_speed", "m/s", "float64", fc), n)
    BY <1>2, <1>3, ChannelGood
  <2> QED BY <1>4, <2>1, ThreeGood, Zenon
<1>6. GoodChannels(OfMetrics(g), n)
  <2> DEFINE ch == Channel("speed", "m/s", "float64", fz)
             cs == [c \in 1..2 |-> ch]
  <2>1. GoodChannel(ch, n)
    BY <1>2, <1>3, ChannelGood
  <2> HIDE DEF ch
  <2>2. cs = [c \in 1..2 |-> cs[c]] /\ \A c \in 1..2 : GoodChannel(cs[c], n)
    BY <2>1
  <2> HIDE DEF cs
  <2>3. GoodChannels(cs, n)
    BY <2>2, AlikeGood
  <2> QED BY <1>4, <2>3 DEF cs, ch
<1> QED BY <1>5, <1>6

LEMMA PrepareGood ==
  \A s, g, start, n, k :
    n \in Nat /\ k \in Nat /\ DOMAIN s = 1..n /\ DOMAIN g = 1..k
    => \E G : AreGroups(G) /\ Prepare(s, g, start) \in Seq(G)
<1> SUFFICES ASSUME NEW s, NEW g, NEW start, NEW n \in Nat, NEW k \in Nat,
                    DOMAIN s = 1..n, DOMAIN g = 1..k
             PROVE  \E G : AreGroups(G) /\ Prepare(s, g, start) \in Seq(G)
  OBVIOUS
<1> DEFINE a == GroupOf("Ego.GPS", s, start, OfGps(s))
           b == GroupOf("Ego.IMU", s, start, OfImu(s))
           c == GroupOf("Ego.Trajectory", s, start, OfTrajectory(s))
           d == GroupOf("Source.GPS", s, start, OfSource(s))
           e == GroupOf("Scene", g, start, OfScene(g))
           f == GroupOf("Scene.Metrics", g, start, OfMetrics(g))
           G == {a, b, c, d, e, f}
           x == <<a, b, c, d>>
           y == <<e, f>>
           z == << >>
<1>1. GoodGroup(a) /\ GoodGroup(b) /\ GoodGroup(c) /\ GoodGroup(d)
  BY SampleChannels, GroupGood DEF GroupOf
<1>2. GoodGroup(e) /\ GoodGroup(f)
  BY SceneChannels, GroupGood DEF GroupOf
<1>3. Prepare(s, g, start) = IF s = z THEN z ELSE x \o (IF g = z THEN z ELSE y)
  BY PrepareIs, Zenon
<1> HIDE DEF a, b, c, d, e, f
<1>4. AreGroups(G)
  BY <1>1, <1>2 DEF AreGroups
<1>5. x \in Seq(G) /\ y \in Seq(G) /\ z \in Seq(G)
  OBVIOUS
<1> HIDE DEF G, x, y, z
<1>6. x \o y \in Seq(G) /\ x \o z \in Seq(G)
  BY <1>5, ConcatProperties
<1>7. Prepare(s, g, start) \in Seq(G)
  BY <1>3, <1>5, <1>6
<1> QED BY <1>4, <1>7

-----------------------------------------------------------------------------
(* Samples and geometry are taken at the same points of the range.         *)
LEMMA SamePoints ==
  /\ SessionIn /\ validation = Report /\ samples = SampleResult /\ geometry = Geometry(samples)
  => \E n \in Nat : DOMAIN samples = 1..n /\ DOMAIN geometry = 1..n
<1> SUFFICES ASSUME SessionIn, validation = Report, samples = SampleResult,
                    geometry = Geometry(samples)
             PROVE  \E n \in Nat : DOMAIN samples = 1..n /\ DOMAIN geometry = 1..n
  OBVIOUS
<1> DEFINE r == ValidRange
           k == (r.to - r.from) \div GridStep + 1
<1>1. r.from \in Nat /\ r.to \in Nat
  BY RangeTyped
<1>2. DOMAIN samples = DOMAIN Ticks(r)
  BY DEF SampleResult, Align
<1>3. DOMAIN geometry = DOMAIN samples
  BY DEF Geometry
<1> HIDE DEF r
<1>4. \E n \in Nat : DOMAIN Ticks(r) = 1..n
  <2>1. CASE r.to < r.from
    <3>1. Ticks(r) = << >> /\ DOMAIN << >> = 1..0
      BY <2>1 DEF Ticks
    <3> QED BY <3>1
  <2>2. CASE ~(r.to < r.from)
    <3>1. DOMAIN Ticks(r) = 1..k
      BY <2>2 DEF Ticks
    <3>2. k \in Nat
      <4>1. r.to - r.from \in Nat
        BY <1>1, <2>2
      <4> QED BY <4>1, SceneAssumption
    <3> QED BY <3>1, <3>2
  <2> QED BY <2>1, <2>2
<1> QED BY <1>2, <1>3, <1>4

(* Reading the file gives back the groups it was written from: their names,*)
(* units, types, times and values, in records of the stated size, from     *)
(* blocks that fill the file (mdf4_lib_adapter.cpp:219-418).               *)
THEOREM MeasurementHolds == PipelineSpec => []Mdf4Readable
<1>1. DataInv => Mdf4Readable
  <2> DEFINE start == ValidRange.from
             P == Prepare(samples, geometry, start)
             K == {i \in DOMAIN P : HasSamples(P[i])}
  <2>1. SUFFICES ASSUME DataInv, Mdf4Written PROVE ReadsAs(measurement, Keep(P, HasSamples))
    BY Zenon DEF Mdf4Readable, ReadsAs, Sized, Tiled
  <2>2. /\ SessionIn /\ validation = Report /\ synced = SyncResult
        /\ samples = SampleResult /\ geometry = Geometry(samples)
        /\ measurement = MeasurementResult
    BY <2>1 DEF DataInv, Mdf4Written, DataStages
  <2>3. PICK n \in Nat : DOMAIN samples = 1..n /\ DOMAIN geometry = 1..n
    BY <2>2, SamePoints
  <2>4. measurement = BuildMdf4(P, start)
    BY <2>2, Zenon DEF MeasurementResult
  <2> HIDE DEF start
  <2>5. PICK G : AreGroups(G) /\ P \in Seq(G)
    BY <2>3, PrepareGood
  <2>6. Keep(P, HasSamples) = Selected(P, K)
    BY Zenon DEF Keep
  <2> HIDE DEF P, K
  <2>7. Keep(P, HasSamples) \in Seq(G)
    BY <2>5, <2>6, SelectedType
  <2> QED BY <2>4, <2>5, <2>7, BuildReads
<1> QED BY <1>1, ResultsAreOfTheLogs, PTL
=============================================================================
