----------------------------- MODULE SceneProofs -----------------------------
(***************************************************************************)
(* Theorems about what ego-offline makes of valid logs: the offset of the  *)
(* clocks (SyncHolds), the segments of the siren (SegmentsHold) and their  *)
(* classes (ClassesHold).  All start from DataInv of OfflinePipelineProofs:*)
(* the variables hold what the stages compute from the session's logs.     *)
(***************************************************************************)
EXTENDS OfflinePipelineProofs

(* Synchronisation.  The streams it works on.                              *)
GpsPoints == [t : Int, fix : BOOLEAN, speed : Int, pos : Int]
EventRecords == [t : Int, at : Int, event : STRING]

LEMMA StreamsTyped ==
  ASSUME SessionIn
  PROVE  /\ EgoGps(Frames) \in Seq(GpsPoints) /\ EgoAudio(Frames) \in Seq(Int)
         /\ SourceGnss(SourceFrames) \in Seq(GpsPoints)
         /\ SourceEvents(SourceFrames) \in Seq(EventRecords)
<1>1. Frames \in Seq(EgoFrames) /\ SourceFrames \in Seq(SourcePackets)
  BY FramesTyped, SourceTyped, SessionsAssumption
<1>2. EgoGps(Frames) \in Seq(GpsPoints)
  <2> DEFINE P == {i \in DOMAIN Frames : CarriesGps(Frames[i])}
             c == Selected(Frames, P)
             f == [i \in DOMAIN c |-> GpsPoint(c[i])]
  <2>1. EgoGps(Frames) = f
    BY Zenon DEF EgoGps, Keep
  <2>2. c \in Seq(EgoFrames)
    BY <1>1, SelectedType
  <2> HIDE DEF c
  <2>3. \A i \in 1..Len(c) : f[i] \in GpsPoints
    <3>1. TAKE i \in 1..Len(c)
    <3>2. c[i] \in EgoFrames /\ i \in DOMAIN c
      BY <2>2, ElementOfSeq, LenProperties
    <3>3. f[i] = GpsPoint(c[i])
      BY <3>2
    <3> QED BY <3>2, <3>3 DEF EgoFrames, GpsPoint, GpsPoints
  <2>4. LongAs(f, c)
    BY DEF LongAs
  <2> HIDE DEF f
  <2> QED BY <2>1, <2>2, <2>3, <2>4, SeqOver
<1>3. EgoAudio(Frames) \in Seq(Int)
  <2> DEFINE P == {i \in DOMAIN Frames : Accepted(Frames[i]) /\ Frames[i].kind = "audio"}
             c == Selected(Frames, P)
             f == [i \in DOMAIN c |-> c[i].t]
  <2>1. EgoAudio(Frames) = f
    BY Zenon DEF EgoAudio, Keep
  <2>2. c \in Seq(EgoFrames)
    BY <1>1, SelectedType
  <2> HIDE DEF c
  <2>3. \A i \in 1..Len(c) : f[i] \in Int
    <3>1. TAKE i \in 1..Len(c)
    <3>2. c[i] \in EgoFrames /\ i \in DOMAIN c
      BY <2>2, ElementOfSeq, LenProperties
    <3> QED BY <3>2 DEF EgoFrames
  <2>4. LongAs(f, c)
    BY DEF LongAs
  <2> HIDE DEF f
  <2> QED BY <2>1, <2>2, <2>3, <2>4, SeqOver
<1>4. SourceGnss(SourceFrames) \in Seq(GpsPoints)
  <2> DEFINE P == {i \in DOMAIN SourceFrames : SourceFrames[i].check = "ok" /\ SourceFrames[i].kind = "gnss"}
             c == Selected(SourceFrames, P)
             f == [i \in DOMAIN c |->
                     [t |-> c[i].t, fix |-> c[i].fix, speed |-> c[i].speed, pos |-> c[i].pos]]
  <2>1. SourceGnss(SourceFrames) = f
    BY Zenon DEF SourceGnss, Keep
  <2>2. c \in Seq(SourcePackets)
    BY <1>1, SelectedType
  <2> HIDE DEF c
  <2>3. \A i \in 1..Len(c) : f[i] \in GpsPoints
    <3>1. TAKE i \in 1..Len(c)
    <3>2. c[i] \in SourcePackets /\ i \in DOMAIN c
      BY <2>2, ElementOfSeq, LenProperties
    <3>3. f[i] = [t |-> c[i].t, fix |-> c[i].fix, speed |-> c[i].speed, pos |-> c[i].pos]
      BY <3>2
    <3> QED BY <3>2, <3>3 DEF SourcePackets, GpsPoints
  <2>4. LongAs(f, c)
    BY DEF LongAs
  <2> HIDE DEF f
  <2> QED BY <2>1, <2>2, <2>3, <2>4, SeqOver
<1>5. SourceEvents(SourceFrames) \in Seq(EventRecords)
  <2> DEFINE P == {i \in DOMAIN SourceFrames : SourceFrames[i].check = "ok" /\ SourceFrames[i].kind = "event"}
             c == Selected(SourceFrames, P)
             f == [i \in DOMAIN c |-> [t |-> c[i].t, at |-> 0, event |-> c[i].event]]
  <2>1. SourceEvents(SourceFrames) = f
    BY Zenon DEF SourceEvents, Keep
  <2>2. c \in Seq(SourcePackets)
    BY <1>1, SelectedType
  <2> HIDE DEF c
  <2>3. \A i \in 1..Len(c) : f[i] \in EventRecords
    <3>1. TAKE i \in 1..Len(c)
    <3>2. c[i] \in SourcePackets /\ i \in DOMAIN c
      BY <2>2, ElementOfSeq, LenProperties
    <3>3. f[i] = [t |-> c[i].t, at |-> 0, event |-> c[i].event]
      BY <3>2
    <3> QED BY <3>2, <3>3 DEF SourcePackets, EventRecords
  <2>4. LongAs(f, c)
    BY DEF LongAs
  <2> HIDE DEF f
  <2> QED BY <2>1, <2>2, <2>3, <2>4, SeqOver
<1> QED BY <1>2, <1>3, <1>4, <1>5

-----------------------------------------------------------------------------
(* A correlation is a fraction whose denominator is 0 only if its          *)
(* numerator is: the sums of products of two sequences of numbers.         *)
LEMMA DotTyped ==
  \A f, g \in Seq(Int) : Len(f) = Len(g) =>
    /\ Dot(f, g) \in Int /\ Dot(f, f) \in Nat
    /\ Dot(f, f) = 0 \/ Dot(g, g) = 0 => Dot(f, g) = 0
<1> DEFINE Prod(f, g) == [i \in DOMAIN f |-> f[i] * g[i]]
<1>1. ASSUME NEW f \in Seq(Int), NEW g \in Seq(Int), Len(f) = Len(g)
      PROVE  Prod(f, g) \in Seq(Int) /\ Len(Prod(f, g)) = Len(f)
             /\ \A i \in 1..Len(f) : Prod(f, g)[i] = f[i] * g[i] /\ f[i] \in Int /\ g[i] \in Int
  <2>1. Len(f) \in Nat /\ DOMAIN f = 1..Len(f)
    BY LenProperties
  <2>2. \A i \in 1..Len(f) : f[i] \in Int /\ g[i] \in Int
    BY <1>1, ElementOfSeq
  <2>3. \A i \in 1..Len(f) : Prod(f, g)[i] = f[i] * g[i]
    BY <2>1
  <2>4. \A i \in 1..Len(f) : f[i] * g[i] \in Int
    BY <2>2
  <2> DEFINE h == Prod(f, g)
  <2>5. LongAs(h, f)
    BY DEF LongAs
  <2>6. \A i \in 1..Len(f) : h[i] \in Int
    BY <2>3, <2>4
  <2> HIDE DEF h
  <2>7. h \in Seq(Int) /\ Len(h) = Len(f)
    BY <2>5, <2>6, SeqOver
  <2> QED BY <2>2, <2>3, <2>7 DEF h
<1>2. \A f, g : Dot(f, g) = SumSeq(Prod(f, g))
  BY Zenon DEF Dot
<1>4. ASSUME NEW f \in Seq(Int)
      PROVE  /\ Prod(f, f) \in Seq(Nat)
             /\ SumSeq(Prod(f, f)) = 0 => \A i \in 1..Len(f) : f[i] = 0
  <2> DEFINE p == Prod(f, f)
  <2>1. /\ p \in Seq(Int) /\ Len(p) = Len(f)
        /\ \A i \in 1..Len(f) : p[i] = f[i] * f[i] /\ f[i] \in Int
    BY <1>1
  <2> HIDE DEF p
  <2>2. \A x \in Int : x * x \in Nat /\ (x * x = 0 => x = 0)
    OBVIOUS
  <2>3. \A i \in 1..Len(f) : p[i] \in Nat
    BY <2>1, <2>2
  <2>4. p \in Seq(Nat)
    <3>1. Len(f) \in Nat /\ p \in [1..Len(f) -> Nat]
      BY <2>1, <2>3, LenProperties
    <3> QED BY <3>1, SeqDef
  <2>5. SumSeq(p) = 0 => \A i \in 1..Len(f) : p[i] = 0
    BY <2>1, <2>4, SumZero
  <2>6. SumSeq(p) = 0 => \A i \in 1..Len(f) : f[i] = 0
    BY <2>1, <2>2, <2>5
  <2> QED BY <2>4, <2>6 DEF p
<1> HIDE DEF Prod
<1>5. ASSUME NEW f \in Seq(Int), NEW g \in Seq(Int), Len(f) = Len(g)
      PROVE  /\ Dot(f, g) \in Int /\ Dot(f, f) \in Nat
             /\ Dot(f, f) = 0 \/ Dot(g, g) = 0 => Dot(f, g) = 0
  <2>1. Dot(f, g) \in Int
    BY <1>1, <1>2, <1>5, SumInt
  <2>2. Dot(f, f) \in Nat
    BY <1>2, <1>4, SumNat
  <2>3. ASSUME Dot(f, f) = 0 \/ Dot(g, g) = 0 PROVE Dot(f, g) = 0
    <3>1. (\A i \in 1..Len(f) : f[i] = 0) \/ (\A i \in 1..Len(f) : g[i] = 0)
      BY <1>2, <1>4, <1>5, <2>3
    <3> DEFINE p == Prod(f, g)
    <3>2. /\ p \in Seq(Int) /\ Len(p) = Len(f)
          /\ \A i \in 1..Len(f) : p[i] = f[i] * g[i] /\ f[i] \in Int /\ g[i] \in Int
      BY <1>1, <1>5
    <3> HIDE DEF p
    <3>3. \A x \in Int : x * 0 = 0 /\ 0 * x = 0
      OBVIOUS
    <3>4. \A i \in 1..Len(f) : p[i] = 0
      <4>1. SUFFICES ASSUME NEW i \in 1..Len(f) PROVE p[i] = 0
        OBVIOUS
      <4>2. p[i] = f[i] * g[i] /\ f[i] \in Int /\ g[i] \in Int
        BY <3>2
      <4>3. CASE f[i] = 0
        BY <3>3, <4>2, <4>3
      <4>4. CASE g[i] = 0
        BY <3>3, <4>2, <4>4
      <4> QED BY <3>1, <4>3, <4>4
    <3>5. p \in Seq(Nat)
      <4>1. Len(f) \in Nat /\ p \in [1..Len(f) -> Nat]
        BY <3>2, <3>4, LenProperties
      <4> QED BY <4>1, SeqDef
    <3>6. SumSeq(p) = 0
      BY <3>2, <3>4, <3>5, SumZero
    <3> QED BY <1>2, <3>6 DEF p
  <2> QED BY <2>1, <2>2, <2>3
<1> QED BY <1>5

LEMMA ResampleTyped ==
  \A points, start, n : points \in Seq(GpsPoints) /\ points # << >> /\ n \in Nat
    => Resample(points, start, n) \in Seq(Int) /\ Len(Resample(points, start, n)) = n
<1> SUFFICES ASSUME NEW points, NEW start, NEW n, points \in Seq(GpsPoints), points # << >>, n \in Nat
             PROVE  Resample(points, start, n) \in Seq(Int) /\ Len(Resample(points, start, n)) = n
  OBVIOUS
<1> DEFINE Past(i) == {j \in 2..Len(points) : \A k \in 2..j : points[k].t <= start + (i - 1) * Second}
           f == [i \in 1..n |-> points[Max(Past(i) \cup {1})].speed]
<1>1. Resample(points, start, n) = f
  BY Zenon DEF Resample
<1>2. Len(points) \in Nat /\ Len(points) >= 1
  BY EmptySeq, LenProperties
<1>3. \A i : Past(i) \subseteq 2..Len(points)
  OBVIOUS
<1> HIDE DEF Past
<1>4. ASSUME NEW i \in 1..n PROVE points[Max(Past(i) \cup {1})].speed \in Int
  <2> DEFINE p == Past(i) \cup {1}
             m == Max(p)
  <2>1. p \subseteq 1..Len(points) /\ p # {}
    BY <1>2, <1>3
  <2>2. IsFiniteSet(1..Len(points))
    BY <1>2, FS_Interval
  <2>3. IsFiniteSet(p)
    BY <2>1, <2>2, FS_Subset
  <2>4. p \subseteq Int
    BY <2>1
  <2> HIDE DEF p
  <2>5. m \in p
    BY <2>1, <2>3, <2>4, MaxAndMin
  <2> HIDE DEF m
  <2>6. m \in 1..Len(points)
    BY <2>1, <2>5
  <2>7. points[m] \in GpsPoints
    BY <2>6, ElementOfSeq
  <2>8. points[m].speed \in Int
    BY <2>7 DEF GpsPoints
  <2> QED BY <2>8 DEF m, p
<1>5. f \in [1..n -> Int]
  BY <1>4
<1> HIDE DEF f
<1>6. f \in Seq(Int) /\ Len(f) = n
  BY <1>5, SeqDef
<1> QED BY <1>1, <1>6

LEMMA DeviationsTyped ==
  \A f \in Seq(Int) : Deviations(f) \in Seq(Int) /\ Len(Deviations(f)) = Len(f)
<1> SUFFICES ASSUME NEW f \in Seq(Int)
             PROVE  Deviations(f) \in Seq(Int) /\ Len(Deviations(f)) = Len(f)
  OBVIOUS
<1> DEFINE n == Len(f)
           sum == SumSeq(f)
           d == [i \in DOMAIN f |-> n * f[i] - sum]
<1>1. Deviations(f) = d
  BY DEF Deviations
<1>2. n \in Nat /\ sum \in Int
  BY SumInt, LenProperties
<1>3. ASSUME NEW i \in 1..Len(f) PROVE d[i] \in Int
  <2>1. i \in DOMAIN f /\ f[i] \in Int
    BY ElementOfSeq, LenProperties
  <2> HIDE DEF n, sum
  <2> QED BY <1>2, <2>1
<1>4. LongAs(d, f)
  BY DEF LongAs
<1> HIDE DEF d
<1> QED BY <1>1, <1>3, <1>4, SeqOver

LEMMA ShiftedTyped ==
  \A s \in Seq(GpsPoints), a \in Int :
    /\ Shifted(s, a) \in Seq(GpsPoints) /\ Len(Shifted(s, a)) = Len(s)
    /\ \A i \in 1..Len(s) : s[i] \in GpsPoints /\ Shifted(s, a)[i] = [s[i] EXCEPT !.t = s[i].t - a]
<1> SUFFICES ASSUME NEW s \in Seq(GpsPoints), NEW a \in Int
             PROVE  /\ Shifted(s, a) \in Seq(GpsPoints) /\ Len(Shifted(s, a)) = Len(s)
                    /\ \A i \in 1..Len(s) : s[i] \in GpsPoints
                                            /\ Shifted(s, a)[i] = [s[i] EXCEPT !.t = s[i].t - a]
  OBVIOUS
<1> DEFINE f == [i \in DOMAIN s |-> [s[i] EXCEPT !.t = s[i].t - a]]
<1>1. Shifted(s, a) = f
  BY DEF Shifted
<1>2. ASSUME NEW i \in 1..Len(s)
      PROVE  s[i] \in GpsPoints /\ f[i] = [s[i] EXCEPT !.t = s[i].t - a] /\ f[i] \in GpsPoints
  <2>1. i \in DOMAIN s /\ s[i] \in GpsPoints
    BY ElementOfSeq, LenProperties
  <2>2. f[i] = [s[i] EXCEPT !.t = s[i].t - a]
    BY <2>1
  <2> DEFINE p == s[i]
             x == p.t - a
  <2>3. [s[i] EXCEPT !.t = s[i].t - a] \in GpsPoints
    <3>1. p \in GpsPoints
      BY <2>1
    <3> HIDE DEF p
    <3>2. x \in Int
      BY <3>1 DEF GpsPoints
    <3> HIDE DEF x
    <3>3. [p EXCEPT !.t = x] \in GpsPoints
      BY <3>1, <3>2 DEF GpsPoints
    <3> QED BY <3>3 DEF p, x
  <2> HIDE DEF p, x
  <2> QED BY <2>1, <2>2, <2>3
<1>3. LongAs(f, s)
  BY DEF LongAs
<1> HIDE DEF f
<1>4. f \in Seq(GpsPoints) /\ Len(f) = Len(s)
  <2>1. \A i \in 1..Len(s) : f[i] \in GpsPoints
    BY <1>2
  <2> QED BY <1>3, <2>1, SeqOver
<1> QED BY <1>1, <1>2, <1>4

LEMMA ShiftedTwice ==
  \A s \in Seq(GpsPoints), a, b \in Int : Shifted(Shifted(s, a), b) = Shifted(s, a + b)
<1> SUFFICES ASSUME NEW s \in Seq(GpsPoints), NEW a \in Int, NEW b \in Int
             PROVE  Shifted(Shifted(s, a), b) = Shifted(s, a + b)
  OBVIOUS
<1> DEFINE r == Shifted(s, a)
           f == Shifted(r, b)
           g == Shifted(s, a + b)
<1>1. /\ r \in Seq(GpsPoints) /\ Len(r) = Len(s)
      /\ \A i \in 1..Len(s) : s[i] \in GpsPoints /\ r[i] = [s[i] EXCEPT !.t = s[i].t - a]
  BY ShiftedTyped
<1> HIDE DEF r
<1>2. /\ f \in Seq(GpsPoints) /\ Len(f) = Len(s)
      /\ \A i \in 1..Len(s) : f[i] = [r[i] EXCEPT !.t = r[i].t - b]
  <2>1. r \in Seq(GpsPoints) /\ Len(r) = Len(s)
    BY <1>1
  <2> HIDE DEF f
  <2>2. f = Shifted(r, b)
    BY DEF f
  <2>3. /\ f \in Seq(GpsPoints) /\ Len(f) = Len(r)
        /\ \A i \in 1..Len(r) : f[i] = [r[i] EXCEPT !.t = r[i].t - b]
    BY <2>1, <2>2, ShiftedTyped
  <2> QED BY <2>1, <2>3
<1>3. /\ g \in Seq(GpsPoints) /\ Len(g) = Len(s)
      /\ \A i \in 1..Len(s) : g[i] = [s[i] EXCEPT !.t = s[i].t - (a + b)]
  <2>1. a + b \in Int
    OBVIOUS
  <2> DEFINE c == a + b
  <2> HIDE DEF c
  <2>2. c \in Int /\ g = Shifted(s, c)
    BY <2>1 DEF c
  <2> HIDE DEF g
  <2>3. /\ g \in Seq(GpsPoints) /\ Len(g) = Len(s)
        /\ \A i \in 1..Len(s) : g[i] = [s[i] EXCEPT !.t = s[i].t - c]
    BY <2>2, ShiftedTyped
  <2> QED BY <2>3 DEF c
<1> HIDE DEF f, g
<1>4. ASSUME NEW i \in 1..Len(s) PROVE f[i] = g[i]
  <2> DEFINE p == s[i]
  <2>1. p \in GpsPoints
    BY <1>1
  <2>2. f[i] = [[p EXCEPT !.t = p.t - a] EXCEPT !.t = (p.t - a) - b]
    <3>1. r[i] = [p EXCEPT !.t = p.t - a] /\ f[i] = [r[i] EXCEPT !.t = r[i].t - b]
      BY <1>1, <1>2
    <3> HIDE DEF p
    <3>2. r[i].t = p.t - a
      BY <2>1, <3>1 DEF GpsPoints
    <3> QED BY <3>1, <3>2
  <2>3. g[i] = [p EXCEPT !.t = p.t - (a + b)]
    BY <1>3
  <2> HIDE DEF p
  <2>4. (p.t - a) - b = p.t - (a + b)
    BY <2>1 DEF GpsPoints
  <2>5. \A x, y : [[p EXCEPT !.t = x] EXCEPT !.t = y] = [p EXCEPT !.t = y]
    BY <2>1 DEF GpsPoints
  <2> QED BY <2>2, <2>3, <2>4, <2>5
<1>5. f = g
  BY <1>2, <1>3, <1>4, SeqEqual
<1> QED BY <1>5 DEF f, g, r

(* An estimate is a fraction: num / sqrt(den).                             *)
Fraction(c) == c.num \in Int /\ c.den \in Nat /\ (c.den = 0 => c.num = 0)

Correlations == [method : {"gnss"}, offset : Int, num : Int, den : Nat]

(* A log with points whose end is not before its start.                    *)
LogOf(points) ==
  points \in Seq(GpsPoints) /\ points # << >> /\ points[1].t <= points[Len(points)].t

LEMMA CorrelationTyped ==
  \A e, s, o : LogOf(e) /\ s \in Seq(GpsPoints) /\ s # << >> /\ o \in Int
    => /\ Fraction(Correlation(e, s, o)) /\ Correlation(e, s, o) \in Correlations
       /\ Correlation(e, s, o).offset = o /\ Correlation(e, s, o).method = "gnss"
<1> SUFFICES ASSUME NEW e, NEW s, NEW o, LogOf(e), s \in Seq(GpsPoints), s # << >>, o \in Int
             PROVE  /\ Fraction(Correlation(e, s, o)) /\ Correlation(e, s, o) \in Correlations
                    /\ Correlation(e, s, o).offset = o /\ Correlation(e, s, o).method = "gnss"
  OBVIOUS
<1> DEFINE n == ((e[Len(e)].t - e[1].t) \div Second) + 1
           x == Deviations(Resample(e, e[1].t, n))
           y == Deviations(Resample(Shifted(s, o), e[1].t, n))
           c == [method |-> "gnss", offset |-> o, num |-> Dot(x, y), den |-> Dot(x, x) * Dot(y, y)]
<1>1. Correlation(e, s, o) = c
  BY Zenon DEF Correlation
<1>2. n \in Nat
  <2>1. e \in Seq(GpsPoints) /\ 1 \in 1..Len(e) /\ Len(e) \in 1..Len(e)
    BY EmptySeq, LenProperties DEF LogOf
  <2>2. e[1] \in GpsPoints /\ e[Len(e)] \in GpsPoints
    BY <2>1, ElementOfSeq
  <2> DEFINE d == e[Len(e)].t - e[1].t
  <2>3. d \in Nat
    BY <2>2 DEF LogOf, GpsPoints
  <2> HIDE DEF d
  <2>4. \A u \in Nat, v \in Nat \ {0} : (u \div v) + 1 \in Nat
    OBVIOUS
  <2>5. (d \div Second) + 1 \in Nat
    BY <2>3, <2>4, SyncAssumption
  <2> QED BY <2>5 DEF d
<1> HIDE DEF n
<1>3. x \in Seq(Int) /\ Len(x) = n
  <2> DEFINE r == Resample(e, e[1].t, n)
  <2>1. r \in Seq(Int) /\ Len(r) = n
    BY <1>2, ResampleTyped DEF LogOf
  <2> HIDE DEF r
  <2>2. Deviations(r) \in Seq(Int) /\ Len(Deviations(r)) = n
    BY <2>1, DeviationsTyped
  <2> QED BY <2>2 DEF r
<1>4. y \in Seq(Int) /\ Len(y) = n
  <2> DEFINE r == Shifted(s, o)
  <2>1. r \in Seq(GpsPoints) /\ r # << >>
    BY ShiftedTyped, EmptySeq
  <2> HIDE DEF r
  <2> DEFINE q == Resample(r, e[1].t, n)
  <2>2. q \in Seq(Int) /\ Len(q) = n
    BY <1>2, <2>1, ResampleTyped
  <2> HIDE DEF q
  <2>3. Deviations(q) \in Seq(Int) /\ Len(Deviations(q)) = n
    BY <2>2, DeviationsTyped
  <2> QED BY <2>3 DEF q, r
<1> HIDE DEF x, y
<1> DEFINE xx == Dot(x, x)
           yy == Dot(y, y)
           xy == Dot(x, y)
<1>5. xy \in Int /\ xx \in Nat /\ yy \in Nat /\ (xx = 0 \/ yy = 0 => xy = 0)
  BY <1>3, <1>4, DotTyped
<1>6. c = [method |-> "gnss", offset |-> o, num |-> xy, den |-> xx * yy]
  OBVIOUS
<1> HIDE DEF xx, yy, xy, c
<1>7. xx * yy \in Nat /\ (xx * yy = 0 => xx = 0 \/ yy = 0)
  <2>1. \A a, b \in Nat : a * b \in Nat /\ (a * b = 0 => a = 0 \/ b = 0)
    OBVIOUS
  <2> QED BY <1>5, <2>1
<1> DEFINE m == xx * yy
<1>8. c = [method |-> "gnss", offset |-> o, num |-> xy, den |-> m]
  BY <1>6
<1>9. m \in Nat /\ (m = 0 => xy = 0)
  BY <1>5, <1>7
<1> HIDE DEF m
<1> QED BY <1>1, <1>5, <1>8, <1>9 DEF Fraction, Correlations

(* Only the sum of two shifts counts.                                      *)
LEMMA CorrelationShifted ==
  \A e, s, a, b : s \in Seq(GpsPoints) /\ a \in Int /\ b \in Int
    => /\ Correlation(e, Shifted(s, a), b).num = Correlation(e, s, a + b).num
       /\ Correlation(e, Shifted(s, a), b).den = Correlation(e, s, a + b).den
<1> SUFFICES ASSUME NEW e, NEW s, NEW a, NEW b, s \in Seq(GpsPoints), a \in Int, b \in Int
             PROVE  /\ Correlation(e, Shifted(s, a), b).num = Correlation(e, s, a + b).num
                    /\ Correlation(e, Shifted(s, a), b).den = Correlation(e, s, a + b).den
  OBVIOUS
<1> DEFINE n == ((e[Len(e)].t - e[1].t) \div Second) + 1
           x == Deviations(Resample(e, e[1].t, n))
           Y(r) == Deviations(Resample(r, e[1].t, n))
<1>1. \A r, o : Correlation(e, r, o)
        = [method |-> "gnss", offset |-> o, num |-> Dot(x, Y(Shifted(r, o))),
           den |-> Dot(x, x) * Dot(Y(Shifted(r, o)), Y(Shifted(r, o)))]
  BY Zenon DEF Correlation
<1> HIDE DEF x, Y
<1>2. \A r, o : /\ Correlation(e, r, o).num = Dot(x, Y(Shifted(r, o)))
                /\ Correlation(e, r, o).den = Dot(x, x) * Dot(Y(Shifted(r, o)), Y(Shifted(r, o)))
  BY <1>1
<1>3. Shifted(Shifted(s, a), b) = Shifted(s, a + b)
  BY ShiftedTwice
<1> QED BY <1>2, <1>3, ZenonT(40)

-----------------------------------------------------------------------------
(* Comparing estimates: the arithmetic of fractions with positive          *)
(* denominators.                                                           *)
LEMMA IntProducts ==
  \A a, b \in Int, c \in Nat : /\ a <= b => a * c <= b * c
                               /\ c > 0 /\ a * c <= b * c => a <= b
<1> SUFFICES ASSUME NEW a \in Int, NEW b \in Int, NEW c \in Nat
             PROVE  /\ a <= b => a * c <= b * c
                    /\ c > 0 /\ a * c <= b * c => a <= b
  OBVIOUS
<1>1. a * c \in Int /\ b * c \in Int
  OBVIOUS
<1>2. a <= b => a * c <= b * c
  <2>1. SUFFICES ASSUME a <= b PROVE a * c <= b * c
    OBVIOUS
  <2>2. PICK d \in Nat : b = a + d
    <3>1. b - a \in Nat /\ b = a + (b - a)
      BY <2>1
    <3> QED BY <3>1
  <2>3. b * c = a * c + d * c /\ d * c \in Nat
    BY <2>2
  <2> QED BY <1>1, <2>3
<1>3. c > 0 /\ a * c <= b * c => a <= b
  <2>1. SUFFICES ASSUME c > 0, a > b PROVE a * c > b * c
    OBVIOUS
  <2>2. PICK d \in Nat : a = b + d /\ d > 0
    <3>1. a - b \in Nat /\ a = b + (a - b) /\ a - b > 0
      BY <2>1
    <3> QED BY <3>1
  <2>3. a * c = b * c + d * c /\ d * c > 0
    BY <2>1, <2>2
  <2> QED BY <1>1, <2>3
<1> QED BY <1>2, <1>3

(* a/p <= b/q <= c/r                                                       *)
LEMMA FractionsInOrder ==
  \A a, b, c \in Int, p, q, r \in Nat :
    p > 0 /\ q > 0 /\ r > 0 /\ a * q <= b * p /\ b * r <= c * q => a * r <= c * p
<1> SUFFICES ASSUME NEW a \in Int, NEW b \in Int, NEW c \in Int,
                    NEW p \in Nat, NEW q \in Nat, NEW r \in Nat,
                    p > 0, q > 0, r > 0, a * q <= b * p, b * r <= c * q
             PROVE  a * r <= c * p
  OBVIOUS
<1> DEFINE aq == a * q
           bp == b * p
           br == b * r
           cq == c * q
           ar == a * r
           cp == c * p
<1>1. aq \in Int /\ bp \in Int /\ br \in Int /\ cq \in Int /\ ar \in Int /\ cp \in Int
  OBVIOUS
<1>2. aq <= bp /\ br <= cq
  OBVIOUS
<1>3. aq * r = ar * q /\ bp * r = br * p /\ cq * p = cp * q
  OBVIOUS
<1> HIDE DEF aq, bp, br, cq, ar, cp
<1>4. aq * r <= bp * r
  BY <1>1, <1>2, IntProducts
<1>5. br * p <= cq * p
  BY <1>1, <1>2, IntProducts
<1> DEFINE u == ar * q
           v == br * p
           w == cp * q
<1>6. u \in Int /\ v \in Int /\ w \in Int
  BY <1>1
<1>7. u <= v /\ v <= w
  BY <1>3, <1>4, <1>5
<1>8. u <= w
  <2> HIDE DEF u, v, w
  <2> QED BY <1>6, <1>7
<1>9. ar <= cp
  BY <1>1, <1>8, IntProducts
<1> QED BY <1>9 DEF ar, cp

LEMMA SquareTyped == \A n \in Int : SignedSquare(n) \in Int
<1>1. ASSUME NEW n \in Int PROVE n * n \in Int /\ -(n * n) \in Int
  OBVIOUS
<1> QED BY <1>1 DEF SignedSquare

(* The estimates of the trials: the correlations that are defined.         *)
Trials == {c \in Correlations : c.den > 0}

LEMMA BetterInOrder ==
  \A x, y, z \in Trials : /\ ~Better(x, x)
                          /\ ~Better(x, y) /\ ~Better(y, z) => ~Better(x, z)
                          /\ Better(x, y) => ~Better(y, x)
<1> SUFFICES ASSUME NEW x \in Trials, NEW y \in Trials, NEW z \in Trials
             PROVE  /\ ~Better(x, x)
                    /\ ~Better(x, y) /\ ~Better(y, z) => ~Better(x, z)
                    /\ Better(x, y) => ~Better(y, x)
  OBVIOUS
<1> DEFINE a == SignedSquare(x.num)
           b == SignedSquare(y.num)
           c == SignedSquare(z.num)
           p == x.den
           q == y.den
           r == z.den
<1>1. /\ a \in Int /\ b \in Int /\ c \in Int
      /\ p \in Nat /\ q \in Nat /\ r \in Nat /\ p > 0 /\ q > 0 /\ r > 0
  BY SquareTyped DEF Trials, Correlations
<1>2. /\ Better(x, x) <=> a * p > a * p
      /\ Better(x, y) <=> a * q > b * p
      /\ Better(y, z) <=> b * r > c * q
      /\ Better(x, z) <=> a * r > c * p
      /\ Better(y, x) <=> b * p > a * q
  BY DEF Better
<1> HIDE DEF a, b, c, p, q, r
<1>3. /\ a * p \in Int /\ a * q \in Int /\ b * p \in Int /\ b * r \in Int /\ c * q \in Int
      /\ a * r \in Int /\ c * p \in Int
  BY <1>1
<1>4. a * q <= b * p /\ b * r <= c * q => a * r <= c * p
  BY <1>1, FractionsInOrder
<1>5. \A i, j \in Int : (~(i > j) <=> i <= j) /\ (i > j => ~(j > i))
  OBVIOUS
<1> QED BY <1>2, <1>3, <1>4, <1>5

(* The fold of Best takes one of the trials, and none is better.           *)
Chosen == INSTANCE FoldFacts WITH Op <- Best

LEMMA BestIsFold == \A base, s : FoldLeft(Best, base, s) = Chosen!FoldLeft(Best, base, s)
BY Zenon DEF FoldLeft, MapThenFoldSet, Max, Chosen!FoldLeft, Chosen!MapThenFoldSet, Chosen!Max

LEMMA BestAppend ==
  ASSUME NEW base, NEW S, NEW s \in Seq(S), NEW x \in S
  PROVE  FoldLeft(Best, base, Append(s, x)) = Best(FoldLeft(Best, base, s), x)
<1>1. Chosen!FoldLeft(Best, base, Append(s, x)) = Best(Chosen!FoldLeft(Best, base, s), x)
  BY Chosen!FoldAppend, Zenon
<1>2. FoldLeft(Best, base, Append(s, x)) = Chosen!FoldLeft(Best, base, Append(s, x))
  BY BestIsFold, Zenon
<1>3. FoldLeft(Best, base, s) = Chosen!FoldLeft(Best, base, s)
  BY BestIsFold, Zenon
<1> QED BY <1>1, <1>2, <1>3, Zenon

BestOf(r, base, s) ==
  /\ r \in Trials /\ (r = base \/ \E i \in 1..Len(s) : r = s[i])
  /\ ~Better(base, r) /\ \A i \in 1..Len(s) : ~Better(s[i], r)

LEMMA BestIsBest ==
  \A base \in Trials : \A s \in Seq(Trials) : BestOf(FoldLeft(Best, base, s), base, s)
<1> SUFFICES ASSUME NEW base \in Trials
             PROVE  \A s \in Seq(Trials) : BestOf(FoldLeft(Best, base, s), base, s)
  OBVIOUS
<1> DEFINE T == {s \in Seq(Trials) : BestOf(FoldLeft(Best, base, s), base, s)}
<1>1. << >> \in T
  <2>1. FoldLeft(Best, base, << >>) = base
    BY BestIsFold, Chosen!FoldEmpty, Zenon
  <2>2. << >> \in Seq(Trials) /\ Len(<< >>) = 0
    BY EmptySeq
  <2>3. BestOf(base, base, << >>)
    BY <2>2, BetterInOrder DEF BestOf
  <2> QED BY <2>1, <2>2, <2>3
<1>2. ASSUME NEW s \in Seq(Trials), NEW x \in Trials, s \in T PROVE Append(s, x) \in T
  <2> DEFINE r == FoldLeft(Best, base, s)
             t == Append(s, x)
             q == FoldLeft(Best, base, t)
  <2>1. BestOf(r, base, s)
    BY <1>2
  <2>2. q = Best(r, x)
    BY BestAppend
  <2>3. /\ t \in Seq(Trials) /\ Len(t) = Len(s) + 1 /\ t[Len(s) + 1] = x /\ Len(s) \in Nat
        /\ \A i \in 1..Len(s) : t[i] = s[i] /\ s[i] \in Trials
    BY AppendProperties, LenProperties, ElementOfSeq
  <2> HIDE DEF r, q, t
  <2>4. \A i \in 1..Len(t) : i \in 1..Len(s) \/ i = Len(s) + 1
    BY <2>3
  <2>5. BestOf(q, base, t)
    <3>1. CASE Better(x, r)
      <4>1. q = x
        BY <2>2, <3>1 DEF Best
      <4>2. ~Better(r, x) /\ ~Better(x, x) /\ r \in Trials
        BY <2>1, <3>1, BetterInOrder DEF BestOf
      <4>3. ~Better(base, x)
        BY <2>1, <4>2, BetterInOrder DEF BestOf
      <4>4. \A i \in 1..Len(s) : ~Better(t[i], x)
        BY <2>1, <2>3, <4>2, BetterInOrder DEF BestOf
      <4>5. \A i \in 1..Len(t) : ~Better(t[i], x)
        BY <2>3, <2>4, <4>2, <4>4
      <4>6. \E i \in 1..Len(t) : x = t[i]
        BY <2>3
      <4> QED BY <4>1, <4>3, <4>5, <4>6 DEF BestOf
    <3>2. CASE ~Better(x, r)
      <4>1. q = r
        BY <2>2, <3>2 DEF Best
      <4>2. \A i \in 1..Len(t) : ~Better(t[i], r)
        BY <2>1, <2>3, <2>4, <3>2 DEF BestOf
      <4>3. r = base \/ \E i \in 1..Len(t) : r = t[i]
        BY <2>1, <2>3 DEF BestOf
      <4> QED BY <2>1, <4>1, <4>2, <4>3 DEF BestOf
    <3> QED BY <3>1, <3>2
  <2> QED BY <2>3, <2>5 DEF q, t
<1> HIDE DEF T
<1>3. Seq(Trials) \subseteq T
  BY <1>1, <1>2, Plus!SeqInduction
<1> QED BY <1>3 DEF T

(* The search of sync_gnss_xcorr takes the offset at which the two logs,   *)
(* of their fixes, correlate best.                                         *)
Offsets == -SearchWindow .. SearchWindow
Fixes == {p \in GpsPoints : p.fix}

GnssBest(r, e, s) ==
  /\ LogOf(e) /\ s \in Seq(GpsPoints) /\ s # << >>
  /\ r \in Trials /\ r.offset \in Offsets /\ r = Correlation(e, s, r.offset)
  /\ \A o \in Offsets : ~Better(Correlation(e, s, o), r)

LEMMA NoChangeNotBetter ==
  \A c \in Correlations, r \in Trials : c.den = 0 /\ c.num = 0 => ~Better(c, r)
<1> SUFFICES ASSUME NEW c \in Correlations, NEW r \in Trials, c.den = 0, c.num = 0
             PROVE  ~Better(c, r)
  OBVIOUS
<1> DEFINE a == SignedSquare(r.num)
           p == r.den
<1>1. a \in Int /\ p \in Int
  BY SquareTyped DEF Trials, Correlations
<1>2. SignedSquare(0) = 0
  BY DEF SignedSquare
<1>3. Better(c, r) <=> 0 * p > a * 0
  BY <1>2 DEF Better
<1> HIDE DEF a, p
<1> QED BY <1>1, <1>3

LEMMA GnssIsBest ==
  \A gps, gnss \in Seq(GpsPoints) :
    \/ GnssEstimate(gps, gnss) = NoEstimate
    \/ GnssBest(GnssEstimate(gps, gnss), Kept(gps, Fixes), Kept(gnss, Fixes))
<1> SUFFICES ASSUME NEW gps \in Seq(GpsPoints), NEW gnss \in Seq(GpsPoints),
                    GnssEstimate(gps, gnss) # NoEstimate
             PROVE  GnssBest(GnssEstimate(gps, gnss), Kept(gps, Fixes), Kept(gnss, Fixes))
  OBVIOUS
<1> DEFINE e == Selected(gps, {i \in DOMAIN gps : gps[i].fix})
           s == Selected(gnss, {i \in DOMAIN gnss : gnss[i].fix})
           n == 2 * SearchWindow + 1
           all == [k \in 1..n |-> Correlation(e, s, k - 1 - SearchWindow)]
           trials == Selected(all, {i \in DOMAIN all : all[i].den # 0})
           r == FoldLeft(Best, trials[1], trials)
<1>1. GnssEstimate(gps, gnss)
        = IF e = << >> \/ s = << >> THEN NoEstimate
          ELSE IF e[Len(e)].t - e[1].t < 4 * Second \/ trials = << >> THEN NoEstimate
          ELSE r
  BY Zenon DEF GnssEstimate, Keep, Good
<1>2. /\ e # << >> /\ s # << >> /\ ~(e[Len(e)].t - e[1].t < 4 * Second) /\ trials # << >>
      /\ GnssEstimate(gps, gnss) = r
  <2> HIDE DEF e, s, trials, r
  <2> QED BY <1>1
<1>3. e = Kept(gps, Fixes) /\ s = Kept(gnss, Fixes)
  <2>1. \A q \in Seq(GpsPoints) :
          {i \in DOMAIN q : q[i].fix} = {i \in DOMAIN q : q[i] \in Fixes}
    <3>1. ASSUME NEW q \in Seq(GpsPoints), NEW i \in DOMAIN q PROVE q[i].fix <=> q[i] \in Fixes
      <4>1. q[i] \in GpsPoints
        BY ElementOfSeq, LenProperties
      <4> QED BY <4>1 DEF Fixes
    <3> QED BY <3>1
  <2> QED BY <2>1, Zenon DEF Kept
<1>4. e \in Seq(GpsPoints) /\ s \in Seq(GpsPoints)
  BY <1>3, KeptType
<1> HIDE DEF e, s
<1>5. LogOf(e)
  <2>1. 1 \in 1..Len(e) /\ Len(e) \in 1..Len(e)
    BY <1>2, <1>4, EmptySeq, LenProperties
  <2>2. e[1] \in GpsPoints /\ e[Len(e)] \in GpsPoints
    BY <1>4, <2>1, ElementOfSeq
  <2> DEFINE a == e[1].t
             b == e[Len(e)].t
  <2>3. a \in Int /\ b \in Int
    BY <2>2 DEF GpsPoints
  <2>4. ~(b - a < 4 * Second)
    BY <1>2
  <2> HIDE DEF a, b
  <2>5. a <= b
    BY <2>3, <2>4, SyncAssumption
  <2> QED BY <1>2, <1>4, <2>5 DEF LogOf, a, b
<1>6. n \in Nat /\ SearchWindow \in Nat
  BY SyncAssumption
<1>7. ASSUME NEW k \in 1..n
      PROVE  /\ k - 1 - SearchWindow \in Offsets /\ all[k] = Correlation(e, s, k - 1 - SearchWindow)
             /\ all[k] \in Correlations /\ Fraction(all[k]) /\ all[k].offset = k - 1 - SearchWindow
  <2>1. k - 1 - SearchWindow \in Offsets /\ k - 1 - SearchWindow \in Int
    BY <1>6 DEF Offsets
  <2>2. all[k] = Correlation(e, s, k - 1 - SearchWindow)
    OBVIOUS
  <2> DEFINE o == k - 1 - SearchWindow
  <2> HIDE DEF o, all
  <2>3. o \in Int /\ all[k] = Correlation(e, s, o)
    BY <2>1, <2>2 DEF o
  <2>4. all[k] \in Correlations /\ Fraction(all[k]) /\ all[k].offset = o
    BY <1>2, <1>4, <1>5, <2>3, CorrelationTyped
  <2> QED BY <2>1, <2>2, <2>4 DEF o
<1>8. all \in Seq(Correlations) /\ Len(all) = n
  <2>1. all \in [1..n -> Correlations]
    <3>1. all = [k \in 1..n |-> all[k]]
      OBVIOUS
    <3> HIDE DEF all, n
    <3> QED BY <1>7, <3>1
  <2> HIDE DEF all, n
  <2> QED BY <1>6, <2>1, SeqDef
<1> HIDE DEF all
<1>9. trials = Kept(all, Trials)
  <2>1. ASSUME NEW i \in DOMAIN all PROVE all[i].den # 0 <=> all[i] \in Trials
    <3>1. all[i] \in Correlations
      BY <1>8, ElementOfSeq, LenProperties
    <3> QED BY <3>1 DEF Trials, Correlations
  <2>2. {i \in DOMAIN all : all[i].den # 0} = {i \in DOMAIN all : all[i] \in Trials}
    BY <2>1
  <2> QED BY <2>2, Zenon DEF Kept
<1>10. trials \in Seq(Trials)
  <2>1. Correlations \cap Trials = Trials
    BY DEF Trials
  <2>2. trials \in Seq(Correlations \cap Trials)
    BY <1>8, <1>9, KeptType
  <2> QED BY <2>1, <2>2
<1>11. /\ \A i \in 1..n : all[i] \in Trials => \E k \in 1..Len(trials) : trials[k] = all[i]
       /\ \A k \in 1..Len(trials) : \E i \in 1..n : trials[k] = all[i]
  <2> DEFINE t == Kept(all, Trials)
  <2>1. all \in Seq(Correlations)
    BY <1>8
  <2>2. /\ \A i \in 1..Len(all) : all[i] \in Trials => \E k \in 1..Len(t) : t[k] = all[i]
        /\ \A k \in 1..Len(t) : t[k] \in Trials /\ \E i \in 1..Len(all) : t[k] = all[i]
    BY <2>1, KeptAll
  <2> HIDE DEF t, n, trials
  <2>3. trials = t /\ Len(all) = n
    BY <1>8, <1>9 DEF t
  <2> QED BY <2>2, <2>3
<1> HIDE DEF trials
<1>12. 1 \in 1..Len(trials) /\ trials[1] \in Trials
  <2>1. 1 \in 1..Len(trials)
    BY <1>2, <1>10, EmptySeq, LenProperties
  <2> QED BY <1>10, <2>1, ElementOfSeq
<1>13. BestOf(r, trials[1], trials)
  BY <1>10, <1>12, BestIsBest
<1> HIDE DEF r
<1>14. PICK k \in 1..Len(trials) : r = trials[k]
  BY <1>12, <1>13 DEF BestOf
<1>15. PICK i \in 1..n : r = all[i]
  BY <1>11, <1>14
<1>16. r \in Trials /\ r.offset \in Offsets /\ r = Correlation(e, s, r.offset)
  <2>1. /\ i - 1 - SearchWindow \in Offsets /\ all[i] = Correlation(e, s, i - 1 - SearchWindow)
        /\ all[i].offset = i - 1 - SearchWindow
    BY <1>7
  <2> HIDE DEF n
  <2> QED BY <1>13, <1>15, <2>1 DEF BestOf
<1>17. ASSUME NEW o \in Offsets PROVE ~Better(Correlation(e, s, o), r)
  <2> DEFINE j == o + 1 + SearchWindow
  <2>1. j \in 1..n /\ j - 1 - SearchWindow = o
    BY <1>6 DEF Offsets
  <2> HIDE DEF j, n
  <2>2. all[j] = Correlation(e, s, o) /\ all[j] \in Correlations /\ Fraction(all[j])
    BY <1>7, <2>1
  <2>3. CASE all[j].den = 0
    <3>1. all[j].num = 0
      BY <2>2, <2>3 DEF Fraction
    <3> QED BY <1>13, <2>2, <2>3, <3>1, NoChangeNotBetter DEF BestOf
  <2>4. CASE all[j].den # 0
    <3>1. all[j] \in Trials
      BY <2>2, <2>4 DEF Trials, Correlations
    <3>2. PICK m \in 1..Len(trials) : trials[m] = all[j]
      BY <1>11, <2>1, <3>1
    <3>3. ~Better(trials[m], r)
      BY <1>13 DEF BestOf
    <3> QED BY <2>2, <3>2, <3>3
  <2> QED BY <2>3, <2>4
<1>18. GnssBest(r, e, s)
  BY <1>2, <1>4, <1>5, <1>16, <1>17 DEF GnssBest
<1> QED BY <1>2, <1>3, <1>18

-----------------------------------------------------------------------------
(* The search of sync_event_audio_fallback takes the offset at which the   *)
(* most sirens are heard.                                                  *)
Sirens == {x \in EventRecords : x.event = "on"}

AudioBest(r, sirens, audio) ==
  /\ r.method = "audio" /\ r.offset \in Offsets
  /\ \A o \in Offsets : Matches(sirens, audio, o) <= Matches(sirens, audio, r.offset)

Near(siren, audio, o) == \E j \in DOMAIN audio : Abs(audio[j] - (siren.t - o)) < Heard

LEMMA MatchesIs ==
  \A sirens, audio, o : sirens \in Seq(EventRecords) =>
    /\ Matches(sirens, audio, o) = Cardinality({i \in 1..Len(sirens) : Near(sirens[i], audio, o)})
    /\ Matches(sirens, audio, o) \in Nat
<1> SUFFICES ASSUME NEW sirens \in Seq(EventRecords), NEW audio, NEW o
             PROVE  /\ Matches(sirens, audio, o)
                         = Cardinality({i \in 1..Len(sirens) : Near(sirens[i], audio, o)})
                    /\ Matches(sirens, audio, o) \in Nat
  OBVIOUS
<1> DEFINE S == {i \in 1..Len(sirens) : Near(sirens[i], audio, o)}
<1>1. Len(sirens) \in Nat /\ DOMAIN sirens = 1..Len(sirens)
  BY LenProperties
<1>2. Matches(sirens, audio, o) = Cardinality(S)
  <2>1. Matches(sirens, audio, o) = Cardinality({i \in DOMAIN sirens : Near(sirens[i], audio, o)})
    BY Zenon DEF Matches, Near
  <2> QED BY <1>1, <2>1
<1>3. IsFiniteSet(S)
  <2>1. IsFiniteSet(1..Len(sirens))
    BY <1>1, FS_Interval
  <2>2. S \subseteq 1..Len(sirens)
    OBVIOUS
  <2> QED BY <2>1, <2>2, FS_Subset
<1> HIDE DEF S
<1>4. Cardinality(S) \in Nat
  BY <1>3, FS_CardinalityType
<1> QED BY <1>2, <1>4 DEF S

LEMMA AudioIsBest ==
  \A events, audio : events \in Seq(EventRecords) =>
    \/ AudioEstimate(events, audio) = NoEstimate
    \/ AudioBest(AudioEstimate(events, audio), Kept(events, Sirens), audio)
<1> SUFFICES ASSUME NEW events \in Seq(EventRecords), NEW audio,
                    AudioEstimate(events, audio) # NoEstimate
             PROVE  AudioBest(AudioEstimate(events, audio), Kept(events, Sirens), audio)
  OBVIOUS
<1> DEFINE sirens == Selected(events, {i \in DOMAIN events : events[i].event = "on"})
           n == Len(sirens)
           offsets == (-SearchWindow)..SearchWindow
           M(o) == Matches(sirens, audio, o)
           counts == {M(o) : o \in offsets}
           most == Max(counts)
           best == {o \in offsets : M(o) = most}
           first == Min(best)
           num == 8 * most - 5 * n
           den == 25 * n * n
           r == [method |-> "audio", offset |-> first, num |-> num, den |-> den]
<1>1. AudioEstimate(events, audio)
        = IF sirens = << >> \/ audio = << >> \/ most = 0 THEN NoEstimate ELSE r
  BY Zenon DEF AudioEstimate, Keep
<1>2. AudioEstimate(events, audio) = r
  <2> HIDE DEF sirens, most, r
  <2> QED BY <1>1
<1>3. sirens = Kept(events, Sirens) /\ sirens \in Seq(EventRecords)
  <2>1. ASSUME NEW i \in DOMAIN events PROVE events[i].event = "on" <=> events[i] \in Sirens
    <3>1. events[i] \in EventRecords
      BY ElementOfSeq, LenProperties
    <3> QED BY <3>1 DEF Sirens
  <2>2. {i \in DOMAIN events : events[i].event = "on"} = {i \in DOMAIN events : events[i] \in Sirens}
    BY <2>1
  <2>3. sirens = Kept(events, Sirens)
    BY <2>2, Zenon DEF Kept
  <2> HIDE DEF sirens
  <2> QED BY <2>3, KeptType
<1> HIDE DEF sirens
<1>4. \A o \in offsets : M(o) \in Nat
  BY <1>3, MatchesIs
<1>5. IsFiniteSet(offsets) /\ offsets # {} /\ offsets \subseteq Int
  <2>1. IsFiniteSet(offsets)
    BY SyncAssumption, FS_Interval
  <2>2. 0 \in offsets
    BY SyncAssumption
  <2> QED BY <2>1, <2>2
<1> HIDE DEF M, offsets
<1> DEFINE f == [o \in offsets |-> M(o)]
<1>6. IsFiniteSet(counts) /\ counts # {} /\ counts \subseteq Int
  <2>1. f = [o \in offsets |-> f[o]] /\ \A o \in offsets : f[o] = M(o)
    OBVIOUS
  <2>2. {f[o] : o \in offsets} = counts
    BY <2>1
  <2> HIDE DEF f
  <2>3. IsFiniteSet({f[o] : o \in offsets})
    BY <1>5, <2>1, ImageFinite
  <2>4. counts # {}
    BY <1>5
  <2>5. counts \subseteq Int
    <3>1. ASSUME NEW c \in counts PROVE c \in Int
      <4>1. PICK o \in offsets : c = M(o)
        OBVIOUS
      <4>2. M(o) \in Nat
        BY <1>4
      <4> HIDE DEF counts
      <4> QED BY <4>1, <4>2
    <3> HIDE DEF counts
    <3> QED BY <3>1
  <2> QED BY <2>2, <2>3, <2>4, <2>5
<1>7. most \in counts /\ \A c \in counts : c <= most
  <2> HIDE DEF counts
  <2> QED BY <1>6, MaxAndMin
<1> HIDE DEF most
<1>8. \A o \in offsets : M(o) <= most
  BY <1>7
<1>9. first \in best
  <2>1. best # {}
    BY <1>7
  <2>2. best \subseteq offsets /\ best \subseteq Int
    BY <1>5
  <2>3. IsFiniteSet(best)
    BY <1>5, <2>2, FS_Subset
  <2> HIDE DEF best
  <2> QED BY <2>1, <2>2, <2>3, MaxAndMin
<1> HIDE DEF first
<1>10. first \in offsets /\ \A o \in offsets : M(o) <= M(first)
  BY <1>8, <1>9
<1> HIDE DEF num, den
<1>11. r.method = "audio" /\ r.offset = first
  OBVIOUS
<1> HIDE DEF r
<1> QED BY <1>2, <1>3, <1>10, <1>11 DEF AudioBest, Offsets, offsets, M

(* The sirens with their times shifted.                                    *)
HeardAt(heard, sirens, a) ==
  DOMAIN heard = 1..Len(sirens) /\ \A i \in 1..Len(sirens) : heard[i].t = sirens[i].t - a

(* Only the sum of two shifts counts.                                      *)
LEMMA MatchesShifted ==
  \A sirens \in Seq(EventRecords), a, b \in Int : \A heard, audio :
    HeardAt(heard, sirens, a) => Matches(heard, audio, b) = Matches(sirens, audio, a + b)
<1> SUFFICES ASSUME NEW sirens \in Seq(EventRecords), NEW a \in Int, NEW b \in Int,
                    NEW heard, NEW audio, HeardAt(heard, sirens, a)
             PROVE  Matches(heard, audio, b) = Matches(sirens, audio, a + b)
  OBVIOUS
<1>0. DOMAIN heard = 1..Len(sirens) /\ \A i \in 1..Len(sirens) : heard[i].t = sirens[i].t - a
  BY DEF HeardAt
<1>1. Matches(heard, audio, b) = Cardinality({i \in 1..Len(sirens) : Near(heard[i], audio, b)})
  <2>1. Matches(heard, audio, b) = Cardinality({i \in DOMAIN heard : Near(heard[i], audio, b)})
    BY Zenon DEF Matches, Near
  <2> QED BY <1>0, <2>1
<1>2. Matches(sirens, audio, a + b)
        = Cardinality({i \in 1..Len(sirens) : Near(sirens[i], audio, a + b)})
  BY MatchesIs
<1>3. ASSUME NEW i \in 1..Len(sirens)
      PROVE  Near(heard[i], audio, b) <=> Near(sirens[i], audio, a + b)
  <2>1. sirens[i] \in EventRecords
    BY ElementOfSeq
  <2>2. sirens[i].t \in Int
    BY <2>1 DEF EventRecords
  <2>3. heard[i].t - b = sirens[i].t - (a + b)
    BY <1>0, <2>2
  <2> QED BY <2>3 DEF Near
<1>4. {i \in 1..Len(sirens) : Near(heard[i], audio, b)}
        = {i \in 1..Len(sirens) : Near(sirens[i], audio, a + b)}
  BY <1>3
<1> QED BY <1>1, <1>2, <1>4

-----------------------------------------------------------------------------
(* The synchronisation of a session.                                       *)
InRange == {p \in GpsPoints : p.t >= ValidRange.from /\ p.t <= ValidRange.to}

LEMMA SyncIs ==
  ASSUME SessionIn
  PROVE
    \/ SyncResult.offset = 0
    \/ /\ session.source.present /\ SyncResult.method = "gnss"
       /\ \E r : /\ r.offset = SyncResult.offset
                 /\ GnssBest(r, Kept(Kept(EgoGps(Frames), InRange), Fixes),
                                Kept(Kept(SourceGnss(SourceFrames), InRange), Fixes))
    \/ /\ session.source.present /\ SyncResult.method = "audio"
       /\ \E r : /\ r.offset = SyncResult.offset
                 /\ AudioBest(r, Kept(SourceEvents(SourceFrames), Sirens), EgoAudio(Frames))
<1> DEFINE gps == EgoGps(Frames)
           gnss == SourceGnss(SourceFrames)
           events == SourceEvents(SourceFrames)
           audio == EgoAudio(Frames)
           g == Selected(gps, {i \in DOMAIN gps : gps[i].t >= ValidRange.from /\ gps[i].t <= ValidRange.to})
           h == Selected(gnss, {i \in DOMAIN gnss : gnss[i].t >= ValidRange.from /\ gnss[i].t <= ValidRange.to})
           primary == GnssEstimate(g, h)
           fallback == AudioEstimate(events, audio)
           chosen == IF ~Confident(primary) /\ Better(fallback, primary) THEN fallback ELSE primary
           result == [offset |-> chosen.offset, method |-> chosen.method,
                      status |-> IF Confident(chosen) THEN "ok"
                                 ELSE IF Doubtful(chosen) THEN "degraded" ELSE "failed"]
<1>1. SyncResult = IF session.source.present THEN result ELSE NoSync
  BY Zenon DEF SyncResult, Synchronise, Keep
<1>2. gps \in Seq(GpsPoints) /\ gnss \in Seq(GpsPoints) /\ events \in Seq(EventRecords)
  BY StreamsTyped
<1>3. g = Kept(gps, InRange) /\ h = Kept(gnss, InRange)
  <2>1. ASSUME NEW q \in Seq(GpsPoints)
        PROVE  {i \in DOMAIN q : q[i].t >= ValidRange.from /\ q[i].t <= ValidRange.to}
                 = {i \in DOMAIN q : q[i] \in InRange}
    <3>1. ASSUME NEW i \in DOMAIN q
          PROVE  q[i].t >= ValidRange.from /\ q[i].t <= ValidRange.to <=> q[i] \in InRange
      <4>1. q[i] \in GpsPoints
        BY ElementOfSeq, LenProperties
      <4> QED BY <4>1 DEF InRange
    <3> QED BY <3>1
  <2> HIDE DEF gps, gnss
  <2> QED BY <1>2, <2>1, Zenon DEF Kept
<1>4. g \in Seq(GpsPoints) /\ h \in Seq(GpsPoints)
  BY <1>2, <1>3, KeptType
<1> HIDE DEF gps, gnss, events, audio, g, h
<1>5. \/ primary = NoEstimate
      \/ GnssBest(primary, Kept(g, Fixes), Kept(h, Fixes))
  BY <1>4, GnssIsBest
<1>6. \/ fallback = NoEstimate
      \/ AudioBest(fallback, Kept(events, Sirens), audio)
  BY <1>2, AudioIsBest
<1> HIDE DEF primary, fallback
<1>7. result.offset = chosen.offset /\ result.method = chosen.method
  <2> HIDE DEF chosen
  <2> QED OBVIOUS
<1>8. chosen \in {primary, fallback}
  OBVIOUS
<1> HIDE DEF chosen, result
<1>9. CASE ~session.source.present
  BY <1>1, <1>9 DEF NoSync
<1>10. CASE session.source.present
  <2>1. SyncResult.offset = chosen.offset /\ SyncResult.method = chosen.method
    BY <1>1, <1>7, <1>10
  <2>2. CASE chosen = NoEstimate
    BY <2>1, <2>2 DEF NoEstimate
  <2>3. CASE chosen = primary /\ chosen # NoEstimate
    <3>1. GnssBest(chosen, Kept(g, Fixes), Kept(h, Fixes))
      BY <1>5, <2>3
    <3>2. chosen.method = "gnss"
      BY <3>1 DEF GnssBest, Trials, Correlations
    <3> QED BY <1>3, <1>10, <2>1, <3>1, <3>2 DEF gps, gnss
  <2>4. CASE chosen = fallback /\ chosen # NoEstimate
    <3>1. AudioBest(chosen, Kept(events, Sirens), audio)
      BY <1>6, <2>4
    <3>2. chosen.method = "audio"
      BY <3>1 DEF AudioBest
    <3> QED BY <1>10, <2>1, <3>1, <3>2 DEF events, audio
  <2> QED BY <1>8, <2>2, <2>3, <2>4
<1> QED BY <1>9, <1>10

LEMMA OffsetTyped == SessionIn => SyncResult.offset \in Offsets
<1> SUFFICES ASSUME SessionIn PROVE SyncResult.offset \in Offsets
  OBVIOUS
<1>1. 0 \in Offsets
  BY SyncAssumption DEF Offsets
<1>2. \A r, e, s : GnssBest(r, e, s) \/ AudioBest(r, e, s) => r.offset \in Offsets
  BY DEF GnssBest, AudioBest
<1> QED BY <1>1, <1>2, SyncIs

(* The events that are aligned keep what they say.                         *)
At(offset) == [x \in EventRecords |-> [x EXCEPT !.at = x.t - offset]]

LEMMA AlignedAre ==
  \A events \in Seq(EventRecords), offset \in Int :
    /\ At(offset) \in [EventRecords -> EventRecords]
    /\ AlignEvents(events, offset) = Mapped(events, At(offset))
    /\ AlignEvents(events, offset) \in Seq(EventRecords)
<1> SUFFICES ASSUME NEW events \in Seq(EventRecords), NEW offset \in Int
             PROVE  /\ At(offset) \in [EventRecords -> EventRecords]
                    /\ AlignEvents(events, offset) = Mapped(events, At(offset))
                    /\ AlignEvents(events, offset) \in Seq(EventRecords)
  OBVIOUS
<1>1. ASSUME NEW x \in EventRecords
      PROVE  [x EXCEPT !.at = x.t - offset] \in EventRecords
  <2> DEFINE y == x.t - offset
  <2>1. y \in Int
    BY DEF EventRecords
  <2> HIDE DEF y
  <2>2. [x EXCEPT !.at = y] \in EventRecords
    BY <2>1 DEF EventRecords
  <2> QED BY <2>2 DEF y
<1>2. At(offset) \in [EventRecords -> EventRecords]
  BY <1>1 DEF At
<1>3. AlignEvents(events, offset) = Mapped(events, At(offset))
  <2>1. ASSUME NEW i \in DOMAIN events
        PROVE  [events[i] EXCEPT !.at = events[i].t - offset] = At(offset)[events[i]]
    <3>1. events[i] \in EventRecords
      BY ElementOfSeq, LenProperties
    <3> DEFINE x == events[i]
    <3> HIDE DEF x
    <3>2. x \in EventRecords => At(offset)[x] = [x EXCEPT !.at = x.t - offset]
      BY DEF At
    <3> QED BY <3>1, <3>2 DEF x
  <2> HIDE DEF At
  <2> QED BY <2>1 DEF AlignEvents, Mapped
<1> HIDE DEF At
<1>4. Mapped(events, At(offset)) \in Seq(EventRecords)
  BY <1>2, MappedIs
<1> QED BY <1>2, <1>3, <1>4

LEMMA SirensAligned ==
  \A events \in Seq(EventRecords), offset \in Int :
    /\ Kept(AlignEvents(events, offset), Sirens) = Mapped(Kept(events, Sirens), At(offset))
    /\ Mapped(Kept(events, Sirens), At(offset)) \in Seq(EventRecords)
    /\ Len(Mapped(Kept(events, Sirens), At(offset))) = Len(Kept(events, Sirens))
    /\ \A i \in 1..Len(Kept(events, Sirens)) :
         Mapped(Kept(events, Sirens), At(offset))[i].at = Kept(events, Sirens)[i].t - offset
<1> SUFFICES ASSUME NEW events \in Seq(EventRecords), NEW offset \in Int
             PROVE  /\ Kept(AlignEvents(events, offset), Sirens)
                         = Mapped(Kept(events, Sirens), At(offset))
                    /\ Mapped(Kept(events, Sirens), At(offset)) \in Seq(EventRecords)
                    /\ Len(Mapped(Kept(events, Sirens), At(offset))) = Len(Kept(events, Sirens))
                    /\ \A i \in 1..Len(Kept(events, Sirens)) :
                         Mapped(Kept(events, Sirens), At(offset))[i].at
                           = Kept(events, Sirens)[i].t - offset
  OBVIOUS
<1> DEFINE f == At(offset)
           raw == Kept(events, Sirens)
           m == Mapped(raw, f)
<1>1. f \in [EventRecords -> EventRecords] /\ AlignEvents(events, offset) = Mapped(events, f)
  BY AlignedAre
<1>2. \A x \in EventRecords : f[x] = [x EXCEPT !.at = x.t - offset]
  BY DEF At
<1> HIDE DEF f
<1>3. ASSUME NEW x \in EventRecords PROVE f[x].event = x.event /\ f[x].at = x.t - offset
  BY <1>2 DEF EventRecords
<1>4. Preimage(f, EventRecords, Sirens) = Sirens
  <2>1. ASSUME NEW x \in EventRecords PROVE f[x] \in Sirens <=> x \in Sirens
    BY <1>1, <1>3 DEF Sirens
  <2>2. Sirens \subseteq EventRecords
    BY DEF Sirens
  <2> QED BY <2>1, <2>2 DEF Preimage
<1>5. Kept(Mapped(events, f), Sirens) = Mapped(Kept(events, Preimage(f, EventRecords, Sirens)), f)
  <2>1. KeepsFirst(events, f, EventRecords, Sirens)
    BY <1>1, KeptMapped
  <2> QED BY <2>1 DEF KeepsFirst
<1>6. raw \in Seq(EventRecords)
  BY KeptType
<1> HIDE DEF raw, m
<1>7. m \in Seq(EventRecords) /\ Len(m) = Len(raw)
  BY <1>1, <1>6, MappedIs DEF m
<1>8. \A i \in 1..Len(raw) : raw[i] \in EventRecords /\ m[i] = f[raw[i]]
  BY <1>6, LenProperties, ElementOfSeq DEF m, Mapped
<1>9. \A i \in 1..Len(raw) : m[i].at = raw[i].t - offset
  BY <1>3, <1>8
<1>10. Kept(AlignEvents(events, offset), Sirens) = m
  BY <1>1, <1>4, <1>5 DEF m, raw
<1> QED BY <1>7, <1>9, <1>10 DEF m, raw, f

TimesOf(sirens) == [i \in DOMAIN sirens |-> [t |-> sirens[i].at]]

LEMMA AudioShifted ==
  \A events \in Seq(EventRecords), a, b \in Int : \A audio :
    Matches(TimesOf(Kept(AlignEvents(events, a), Sirens)), audio, b)
      = Matches(Kept(events, Sirens), audio, a + b)
<1> SUFFICES ASSUME NEW events \in Seq(EventRecords), NEW a \in Int, NEW b \in Int, NEW audio
             PROVE  Matches(TimesOf(Kept(AlignEvents(events, a), Sirens)), audio, b)
                      = Matches(Kept(events, Sirens), audio, a + b)
  OBVIOUS
<1> DEFINE raw == Kept(events, Sirens)
           sirens == Kept(AlignEvents(events, a), Sirens)
           heard == TimesOf(sirens)
<1>1. raw \in Seq(EventRecords)
  BY KeptType
<1>2. /\ sirens \in Seq(EventRecords) /\ Len(sirens) = Len(raw)
      /\ \A i \in 1..Len(raw) : sirens[i].at = raw[i].t - a
  BY SirensAligned
<1>3. DOMAIN sirens = 1..Len(raw)
  BY <1>2, LenProperties
<1> HIDE DEF raw, sirens
<1>4. DOMAIN heard = 1..Len(raw) /\ \A i \in 1..Len(raw) : heard[i].t = raw[i].t - a
  BY <1>2, <1>3 DEF TimesOf
<1> HIDE DEF heard
<1>5. HeardAt(heard, raw, a)
  BY <1>4 DEF HeardAt
<1>6. Matches(heard, audio, b) = Matches(raw, audio, a + b)
  BY <1>1, <1>5, MatchesShifted
<1> QED BY <1>6 DEF heard, raw, sirens

(* Once the offset is applied, no further shift fits better                *)
(* (time_sync.cpp:156 against :332).                                       *)
THEOREM SyncHolds == PipelineSpec => []SyncIsApplied
<1>1. DataInv => SyncIsApplied
  <2>1. SUFFICES ASSUME DataInv, Synced, synced.offset # 0 PROVE SyncIsApplied
    BY Zenon DEF SyncIsApplied
  <2>2. synced = SyncResult /\ SessionIn
    BY <2>1 DEF DataInv, Synced, DataStages
  <2> DEFINE gps == EgoGps(Frames)
             gnss == SourceGnss(SourceFrames)
             events == SourceEvents(SourceFrames)
             audio == EgoAudio(Frames)
             a == synced.offset
             Fixed == {p \in GpsPoints : (p.t >= ValidRange.from /\ p.t <= ValidRange.to) /\ p.fix}
             e == Kept(gps, Fixed)
             q == Kept(gnss, Fixed)
             s == Shifted(q, a)
             sirens == Kept(AlignedEvents, Sirens)
             heard == TimesOf(sirens)
             within == {o \in -SearchWindow .. SearchWindow : Abs(a + o) <= SearchWindow}
  <2>3. gps \in Seq(GpsPoints) /\ gnss \in Seq(GpsPoints) /\ events \in Seq(EventRecords)
    BY <2>2, StreamsTyped
  <2>4. a \in Offsets /\ a \in Int
    <3>1. a \in Offsets
      BY <2>2, OffsetTyped
    <3> HIDE DEF a
    <3> QED BY <3>1 DEF Offsets
  <2>5. \A o \in within : o \in Int /\ a + o \in Offsets
    <3> HIDE DEF a
    <3>1. ASSUME NEW o \in within PROVE o \in Int /\ a + o \in Offsets
      <4>1. o \in Int /\ Abs(a + o) <= SearchWindow /\ a + o \in Int
        BY <2>4, SyncAssumption
      <4> DEFINE b == a + o
      <4> HIDE DEF b
      <4>2. b \in Offsets
        <5>1. b \in Int /\ Abs(b) <= SearchWindow
          BY <4>1 DEF b
        <5> QED BY <5>1, SyncAssumption DEF Abs, Offsets
      <4> QED BY <4>1, <4>2 DEF b
    <3> QED BY <3>1
  <2>6. e = Kept(Kept(gps, InRange), Fixes) /\ q = Kept(Kept(gnss, InRange), Fixes)
    <3>1. Fixed = InRange \cap Fixes
      BY DEF InRange, Fixes
    <3> HIDE DEF Fixed, gps, gnss
    <3> QED BY <2>3, <3>1, KeptTwice
  <2>7. q \in Seq(GpsPoints)
    BY <2>3, KeptType
  <2>8. ASSUME synced.method = "gnss"
        PROVE  \A o \in within : ~Better(Correlation(e, s, o), Correlation(e, s, 0))
    <3>1. PICK r : r.offset = a /\ GnssBest(r, e, q)
      BY <2>1, <2>2, <2>6, <2>8, SyncIs
    <3> HIDE DEF a, e, q, within
    <3>2. r = Correlation(e, q, a) /\ \A o \in Offsets : ~Better(Correlation(e, q, o), r)
      BY <3>1 DEF GnssBest
    <3>3. ASSUME NEW o \in within PROVE ~Better(Correlation(e, s, o), Correlation(e, s, 0))
      <4>1. /\ Correlation(e, s, o).num = Correlation(e, q, a + o).num
            /\ Correlation(e, s, o).den = Correlation(e, q, a + o).den
        BY <2>4, <2>5, <2>7, CorrelationShifted
      <4>2. /\ Correlation(e, s, 0).num = Correlation(e, q, a + 0).num
            /\ Correlation(e, s, 0).den = Correlation(e, q, a + 0).den
        BY <2>4, <2>7, CorrelationShifted
      <4>3. a + 0 = a
        BY <2>4
      <4>4. ~Better(Correlation(e, q, a + o), r)
        BY <2>5, <3>2
      <4> HIDE DEF s
      <4> QED BY <3>2, <4>1, <4>2, <4>3, <4>4 DEF Better
    <3> QED BY <3>3
  <2>9. ASSUME synced.method = "audio"
        PROVE  \A o \in within : Matches(heard, audio, o) <= Matches(heard, audio, 0)
    <3> DEFINE raw == Kept(events, Sirens)
    <3>1. PICK r : r.offset = a /\ AudioBest(r, raw, audio)
      BY <2>1, <2>2, <2>9, SyncIs
    <3>2. session.source.present
      BY <2>1, <2>2, <2>9, SyncIs
    <3>3. AlignedEvents = AlignEvents(events, a)
      BY <2>1, <3>2 DEF AlignedEvents
    <3> HIDE DEF a, events, audio, within
    <3>4. sirens = Kept(AlignEvents(events, a), Sirens)
      BY <3>3
    <3> HIDE DEF sirens
    <3>5. \A b \in Int : Matches(heard, audio, b) = Matches(raw, audio, a + b)
      BY <2>3, <2>4, <3>4, AudioShifted, Zenon
    <3> HIDE DEF heard, raw
    <3>6. \A o \in within : Matches(heard, audio, o) = Matches(raw, audio, a + o)
      BY <2>5, <3>5
    <3>7. a + 0 = a
      BY <2>4
    <3>8. Matches(heard, audio, 0) = Matches(raw, audio, a)
      <4>1. Matches(heard, audio, 0) = Matches(raw, audio, a + 0)
        <5>1. 0 \in Int
          OBVIOUS
        <5> QED BY <3>5, <5>1, Zenon
      <4> QED BY <3>7, <4>1, Zenon
    <3>9. \A o \in within : Matches(raw, audio, a + o) <= Matches(raw, audio, a)
      BY <2>5, <3>1 DEF AudioBest
    <3> QED BY <3>6, <3>8, <3>9
  <2>10. AlignedEvents \in Seq(EventRecords)
    <3> HIDE DEF events
    <3>1. AlignEvents(events, a) \in Seq(EventRecords)
      BY <2>3, <2>4, AlignedAre
    <3>2. << >> \in Seq(EventRecords)
      BY EmptySeq
    <3> QED BY <2>3, <3>1, <3>2 DEF AlignedEvents, events
  <2> DEFINE P(z) == {i \in DOMAIN z : (z[i].t >= ValidRange.from /\ z[i].t <= ValidRange.to) /\ z[i].fix}
             Q(z) == {i \in DOMAIN z : z[i].event = "on"}
  <2>11. e = Selected(gps, P(gps)) /\ q = Selected(gnss, P(gnss))
    <3>1. ASSUME NEW z \in Seq(GpsPoints) PROVE P(z) = {i \in DOMAIN z : z[i] \in Fixed}
      <4>1. \A i \in DOMAIN z : z[i] \in GpsPoints
        BY ElementOfSeq, LenProperties
      <4> QED BY <4>1
    <3> HIDE DEF P, Fixed, gps, gnss
    <3> QED BY <2>3, <3>1, Zenon DEF Kept
  <2>12. sirens = Selected(AlignedEvents, Q(AlignedEvents))
    <3>1. ASSUME NEW z \in Seq(EventRecords) PROVE Q(z) = {i \in DOMAIN z : z[i] \in Sirens}
      <4>1. \A i \in DOMAIN z : z[i] \in EventRecords
        BY ElementOfSeq, LenProperties
      <4> QED BY <4>1 DEF Sirens
    <3> HIDE DEF Q
    <3> QED BY <2>10, <3>1, Zenon DEF Kept
  <2> QED BY <2>8, <2>9, <2>11, <2>12, Zenon DEF SyncIsApplied, Keep, TimesOf
<1> QED BY <1>1, ResultsAreOfTheLogs, PTL
-----------------------------------------------------------------------------
(* The siren is a fold of Switch over the events.                          *)
SirenOf(events) == FoldLeft(Switch, NoSiren, events)

Switched == INSTANCE FoldFacts WITH Op <- Switch

LEMMA SirenIsFold == \A s : SirenOf(s) = Switched!FoldLeft(Switch, NoSiren, s)
BY Zenon DEF SirenOf, FoldLeft, MapThenFoldSet, Max,
             Switched!FoldLeft, Switched!MapThenFoldSet, Switched!Max

LEMMA SirenEmpty == SirenOf(<< >>) = NoSiren
BY SirenIsFold, Switched!FoldEmpty, Zenon

LEMMA SirenAppend ==
  ASSUME NEW S, NEW s \in Seq(S), NEW x \in S
  PROVE  SirenOf(Append(s, x)) = Switch(SirenOf(s), x)
BY SirenIsFold, Switched!FoldAppend, Zenon

(* The switches among the events, and their order in time.                 *)
Timed(S) == \A x \in S : x.at \in Int
OnOff(S) == {x \in S : x.event \in {"on", "off"}}

InTimeOrder(w) == \A i \in 1..Len(w) : w[i].at >= 0 /\ (i > 1 => w[i - 1].at < w[i].at)

LEMMA LaterIsLater ==
  \A S, w : Timed(S) /\ w \in Seq(S) /\ InTimeOrder(w)
    => \A i, j \in 1..Len(w) : i < j => w[i].at < w[j].at
<1> SUFFICES ASSUME NEW S, NEW w, Timed(S), w \in Seq(S), InTimeOrder(w)
             PROVE  \A i, j \in 1..Len(w) : i < j => w[i].at < w[j].at
  OBVIOUS
<1> DEFINE n == Len(w)
           Later(i, d) == i + 1 + d \in 1..n => w[i].at < w[i + 1 + d].at
           T == {d \in Nat : \A i \in 1..n : Later(i, d)}
<1>1. n \in Nat /\ \A i \in 1..n : w[i].at \in Int
  <2>1. \A i \in 1..n : w[i] \in S
    BY ElementOfSeq
  <2> QED BY <2>1, LenProperties DEF Timed
<1>2. \A i \in 1..n : i > 1 => w[i - 1].at < w[i].at
  BY DEF InTimeOrder
<1> HIDE DEF n
<1>3. 0 \in T
  <2>1. ASSUME NEW i \in 1..n, i + 1 \in 1..n PROVE w[i].at < w[i + 1].at
    <3>1. (i + 1) - 1 = i /\ i + 1 > 1
      BY <1>1
    <3> QED BY <1>2, <2>1, <3>1
  <2>2. \A i \in 1..n : i + 1 + 0 = i + 1
    BY <1>1
  <2> QED BY <2>1, <2>2
<1>4. ASSUME NEW d \in Nat, d \in T PROVE d + 1 \in T
  <2>1. ASSUME NEW i \in 1..n, i + 1 + (d + 1) \in 1..n PROVE w[i].at < w[i + 1 + (d + 1)].at
    <3> DEFINE j == i + 1 + d
               k == i + 1 + (d + 1)
    <3>1. j \in 1..n /\ k \in 1..n /\ k - 1 = j /\ k > 1
      BY <1>1, <2>1
    <3>2. w[i].at < w[j].at
      BY <1>4, <3>1
    <3> HIDE DEF j, k
    <3>3. w[j].at < w[k].at
      BY <1>2, <3>1
    <3>4. w[i].at < w[k].at
      <4>1. w[i].at \in Int /\ w[j].at \in Int /\ w[k].at \in Int
        BY <1>1, <3>1
      <4> QED BY <3>2, <3>3, <4>1
    <3> QED BY <3>4 DEF k
  <2> QED BY <2>1
<1> HIDE DEF T
<1>5. Nat \subseteq T
  BY <1>3, <1>4, Plus!Induction
<1>6. ASSUME NEW i \in 1..n, NEW j \in 1..n, i < j PROVE w[i].at < w[j].at
  <2> DEFINE d == j - i - 1
  <2>1. d \in Nat /\ i + 1 + d = j
    BY <1>1, <1>6
  <2> HIDE DEF d
  <2>2. Later(i, d)
    BY <1>5, <2>1 DEF T
  <2> QED BY <2>1, <2>2
<1> QED BY <1>6 DEF n

LEMMA OrderOfPrefix ==
  \A S, w, x : Timed(S) /\ w \in Seq(S) /\ x \in S /\ InTimeOrder(Append(w, x))
    => InTimeOrder(w)
<1> SUFFICES ASSUME NEW S, NEW w, NEW x, w \in Seq(S), x \in S, InTimeOrder(Append(w, x))
             PROVE  InTimeOrder(w)
  OBVIOUS
<1> DEFINE v == Append(w, x)
<1>1. Len(w) \in Nat /\ Len(v) = Len(w) + 1 /\ \A i \in 1..Len(w) : v[i] = w[i]
  BY AppendProperties, LenProperties
<1>2. \A i \in 1..Len(v) : v[i].at >= 0 /\ (i > 1 => v[i - 1].at < v[i].at)
  BY DEF InTimeOrder
<1> HIDE DEF v
<1>3. ASSUME NEW i \in 1..Len(w) PROVE w[i].at >= 0 /\ (i > 1 => w[i - 1].at < w[i].at)
  <2>1. i \in 1..Len(v) /\ v[i] = w[i]
    BY <1>1
  <2>2. i > 1 => v[i - 1] = w[i - 1]
    BY <1>1
  <2> QED BY <1>2, <2>1, <2>2
<1> QED BY <1>3 DEF InTimeOrder

-----------------------------------------------------------------------------
(* What the switches say of the siren: it sounds from each siren_on to the *)
(* switch after.                                                           *)
Periods == [from : Int, to : Int]

PairAt(w, i, p) ==
  /\ i \in 1..Len(w) /\ i < Len(w) /\ w[i].event = "on" /\ w[i + 1].event = "off"
  /\ p.from = w[i].at /\ p.to = w[i + 1].at

SirenSound(w, r) ==
  /\ r \in [on : Int, periods : Seq(Periods)]
  /\ (w # << >> /\ w[Len(w)].event = "on") => r.on = w[Len(w)].at
  /\ ~(w # << >> /\ w[Len(w)].event = "on") => r.on < 0
  /\ \A k \in 1..Len(r.periods) : \E i \in 1..Len(w) : PairAt(w, i, r.periods[k])
  /\ Follows(r.periods)
  /\ \A i \in 1..Len(w) : i < Len(w) /\ w[i].event = "on" /\ w[i + 1].event = "off"
       => \E k \in 1..Len(r.periods) : PairAt(w, i, r.periods[k])

LEMMA PairsExtended ==
  \A S, w, x, p, i : w \in Seq(S) /\ x \in S /\ PairAt(w, i, p) => PairAt(Append(w, x), i, p)
<1> SUFFICES ASSUME NEW S, NEW w, NEW x, NEW p, NEW i, w \in Seq(S), x \in S, PairAt(w, i, p)
             PROVE  PairAt(Append(w, x), i, p)
  OBVIOUS
<1> DEFINE v == Append(w, x)
<1>1. Len(w) \in Nat /\ Len(v) = Len(w) + 1 /\ \A j \in 1..Len(w) : v[j] = w[j]
  BY AppendProperties, LenProperties
<1> HIDE DEF v
<1>2. i \in 1..Len(w) /\ i < Len(w)
  BY DEF PairAt
<1>3. i \in 1..Len(v) /\ i < Len(v) /\ i + 1 \in 1..Len(w)
  BY <1>1, <1>2
<1>4. v[i] = w[i] /\ v[i + 1] = w[i + 1]
  BY <1>1, <1>2, <1>3
<1>5. PairAt(v, i, p)
  BY <1>3, <1>4 DEF PairAt
<1> QED BY <1>5 DEF v

LEMMA SwitchOn ==
  \A S, w, r, x :
    /\ w \in Seq(S) /\ x \in S /\ Timed(S) /\ x.event = "on" /\ SirenSound(w, r)
    => SirenSound(Append(w, x), Switch(r, x))
<1> SUFFICES ASSUME NEW S, NEW w, NEW r, NEW x, w \in Seq(S), x \in S, Timed(S),
                    x.event = "on", SirenSound(w, r)
             PROVE  SirenSound(Append(w, x), Switch(r, x))
  OBVIOUS
<1> DEFINE v == Append(w, x)
           q == Switch(r, x)
<1>1. /\ Len(w) \in Nat /\ Len(v) = Len(w) + 1 /\ v[Len(w) + 1] = x /\ v # << >>
      /\ \A j \in 1..Len(w) : v[j] = w[j]
  BY AppendProperties, LenProperties
<1>2. q = [r EXCEPT !.on = x.at]
  BY DEF Switch
<1>3. q \in [on : Int, periods : Seq(Periods)] /\ q.periods = r.periods /\ q.on = x.at
  BY <1>2 DEF SirenSound, Timed
<1>4. x.at \in Int
  BY DEF Timed
<1>5. \A k \in 1..Len(r.periods) : \E i \in 1..Len(v) : PairAt(v, i, r.periods[k])
  <2>1. TAKE k \in 1..Len(r.periods)
  <2>2. PICK i \in 1..Len(w) : PairAt(w, i, r.periods[k])
    BY DEF SirenSound
  <2>3. PairAt(v, i, r.periods[k]) /\ i \in 1..Len(v)
    BY <1>1, <2>2, PairsExtended
  <2> QED BY <2>3
<1>6. ASSUME NEW i \in 1..Len(v), i < Len(v), v[i].event = "on", v[i + 1].event = "off"
      PROVE  \E k \in 1..Len(r.periods) : PairAt(v, i, r.periods[k])
  <2> HIDE DEF v
  <2>1. i \in 1..Len(w) /\ i # Len(w)
    BY <1>1, <1>6
  <2>2. i < Len(w) /\ i + 1 \in 1..Len(w)
    BY <1>1, <2>1
  <2>3. w[i].event = "on" /\ w[i + 1].event = "off"
    BY <1>1, <1>6, <2>1, <2>2
  <2>4. PICK k \in 1..Len(r.periods) : PairAt(w, i, r.periods[k])
    BY <2>1, <2>2, <2>3 DEF SirenSound
  <2>5. PairAt(v, i, r.periods[k])
    BY <2>4, PairsExtended DEF v
  <2> QED BY <2>5
<1> HIDE DEF v, q
<1>7. v[Len(v)] = x
  BY <1>1
<1>8. r.periods \in Seq(Periods) /\ Follows(r.periods)
  BY DEF SirenSound
<1>9. SirenSound(v, q)
  BY <1>1, <1>3, <1>4, <1>5, <1>6, <1>7, <1>8 DEF SirenSound
<1> QED BY <1>9 DEF v, q

LEMMA SwitchOff ==
  \A S, w, r, x :
    /\ w \in Seq(S) /\ x \in S /\ Timed(S) /\ x.event = "off" /\ SirenSound(w, r)
    /\ InTimeOrder(Append(w, x))
    => SirenSound(Append(w, x), Switch(r, x))
<1> SUFFICES ASSUME NEW S, NEW w, NEW r, NEW x, w \in Seq(S), x \in S, Timed(S),
                    x.event = "off", SirenSound(w, r), InTimeOrder(Append(w, x))
             PROVE  SirenSound(Append(w, x), Switch(r, x))
  OBVIOUS
<1> DEFINE v == Append(w, x)
           q == Switch(r, x)
           new == [from |-> r.on, to |-> x.at]
           on == w # << >> /\ w[Len(w)].event = "on"
<1>1. /\ Len(w) \in Nat /\ Len(v) = Len(w) + 1 /\ v[Len(w) + 1] = x /\ v # << >>
      /\ \A j \in 1..Len(w) : v[j] = w[j]
  BY AppendProperties, LenProperties
<1>2. x.at \in Int /\ r.on \in Int /\ r.periods \in Seq(Periods) /\ Follows(r.periods)
  BY DEF Timed, SirenSound
<1>3. (on => r.on = w[Len(w)].at) /\ (~on => r.on < 0)
  BY DEF SirenSound
<1>4. on => w[Len(w)].at >= 0
  <2>1. on => Len(w) \in 1..Len(w)
    BY <1>1, EmptySeq
  <2>2. InTimeOrder(w)
    BY OrderOfPrefix
  <2> QED BY <2>1, <2>2 DEF InTimeOrder
<1>5. \A i, p : i \in 1..Len(w) /\ PairAt(w, i, p) => PairAt(v, i, p)
  BY PairsExtended
<1>6. \A k \in 1..Len(r.periods) : \E i \in 1..Len(w) : PairAt(w, i, r.periods[k])
  BY DEF SirenSound
<1>7. \A i \in 1..Len(w) : i < Len(w) /\ w[i].event = "on" /\ w[i + 1].event = "off"
        => \E k \in 1..Len(r.periods) : PairAt(w, i, r.periods[k])
  BY DEF SirenSound
<1>8. \A i, j \in 1..Len(v) : i < j => v[i].at < v[j].at
  <2>1. v \in Seq(S)
    BY AppendProperties
  <2> HIDE DEF v
  <2>2. InTimeOrder(v)
    BY DEF v
  <2> QED BY <2>1, <2>2, LaterIsLater
<1>9. v[Len(v)] = x /\ x.event # "on"
  BY <1>1
<1> HIDE DEF v
<1>10. CASE ~on
  <2>1. q = r
    <3>1. ~(r.on >= 0)
      BY <1>2, <1>3, <1>10
    <3> QED BY <3>1 DEF Switch
  <2>2. \A k \in 1..Len(r.periods) : \E i \in 1..Len(v) : PairAt(v, i, r.periods[k])
    BY SMTT(20), <1>1, <1>5, <1>6
  <2>3. ASSUME NEW i \in 1..Len(v), i < Len(v), v[i].event = "on", v[i + 1].event = "off"
        PROVE  \E k \in 1..Len(r.periods) : PairAt(v, i, r.periods[k])
    <3>1. i \in 1..Len(w) /\ v[i] = w[i]
      BY <1>1, <2>3
    <3>2. i # Len(w)
      <4>1. w # << >>
        BY <3>1, EmptySeq
      <4> QED BY <1>10, <2>3, <3>1, <4>1
    <3>3. i < Len(w) /\ i + 1 \in 1..Len(w)
      BY <1>1, <3>1, <3>2
    <3>4. PICK k \in 1..Len(r.periods) : PairAt(w, i, r.periods[k])
      BY <1>1, <1>7, <2>3, <3>1, <3>3
    <3> QED BY <1>5, <3>1, <3>4
  <2> HIDE DEF q, on
  <2>4. SirenSound(v, q)
    BY <1>1, <1>2, <1>3, <1>9, <1>10, <2>1, <2>2, <2>3 DEF SirenSound
  <2> QED BY <2>4 DEF v, q
<1>11. CASE on
  <2>1. r.on >= 0 /\ Len(w) \in 1..Len(w) /\ w[Len(w)].event = "on"
    BY <1>1, <1>3, <1>4, <1>11, EmptySeq
  <2>2. q = [on |-> -1, periods |-> Append(r.periods, new)]
    BY <2>1 DEF Switch
  <2> DEFINE s == Append(r.periods, new)
             m == Len(r.periods)
  <2>3. q.on = -1 /\ q.periods = s
    BY <2>2
  <2>4. new \in Periods /\ new.from = r.on /\ new.to = x.at
    BY <1>2 DEF Periods
  <2> HIDE DEF new, q
  <2>5. /\ s \in Seq(Periods) /\ Len(s) = m + 1 /\ s[m + 1] = new /\ m \in Nat
        /\ \A k \in 1..m : s[k] = r.periods[k]
    BY <1>2, <2>4, AppendProperties, LenProperties
  <2> HIDE DEF s
  <2>6. PairAt(v, Len(w), new)
    <3>1. v[Len(w)] = w[Len(w)] /\ Len(w) \in 1..Len(v) /\ Len(w) < Len(v)
      BY <1>1, <2>1
    <3> QED BY <1>1, <1>3, <1>11, <2>1, <2>4, <3>1 DEF PairAt
  <2>7. \A k \in 1..Len(s) : \E i \in 1..Len(v) : PairAt(v, i, s[k])
    <3>1. TAKE k \in 1..Len(s)
    <3>2. CASE k = m + 1
      BY <1>1, <2>1, <2>5, <2>6, <3>2
    <3>3. CASE k \in 1..m
      <4>1. PICK i \in 1..Len(w) : PairAt(w, i, r.periods[k])
        BY <1>6, <3>3
      <4>2. PairAt(v, i, s[k]) /\ i \in 1..Len(v)
        BY <1>1, <1>5, <2>5, <3>3, <4>1
      <4> QED BY <4>2
    <3> QED BY <2>5, <3>2, <3>3
  <2>8. ASSUME NEW i \in 1..Len(s), NEW j \in 1..Len(s), i < j PROVE s[i].to <= s[j].from
    <3>1. CASE j \in 1..m
      <4>1. i \in 1..m /\ s[i] = r.periods[i] /\ s[j] = r.periods[j]
        BY <2>5, <2>8, <3>1
      <4> QED BY <1>2, <2>8, <3>1, <4>1 DEF Follows
    <3>2. CASE j = m + 1
      <4>1. i \in 1..m /\ s[i] = r.periods[i] /\ s[j] = new
        BY <2>5, <2>8, <3>2
      <4>2. PICK k \in 1..Len(w) : PairAt(w, k, r.periods[i])
        BY <1>6, <4>1
      <4>3. /\ k + 1 \in 1..Len(w) /\ s[i].to = w[k + 1].at /\ new.from = w[Len(w)].at
            /\ v[k + 1] = w[k + 1] /\ v[Len(w)] = w[Len(w)]
        BY <1>1, <1>3, <1>11, <2>1, <2>4, <4>1, <4>2 DEF PairAt
      <4>4. w[k + 1].at <= w[Len(w)].at
        <5>1. CASE k + 1 = Len(w)
          <6>1. w[Len(w)].at \in Int
            BY <1>2, <1>3, <1>11
          <6> QED BY <5>1, <6>1
        <5>2. CASE k + 1 < Len(w)
          <6>1. k + 1 \in 1..Len(v) /\ Len(w) \in 1..Len(v)
            BY <1>1, <2>1, <4>3
          <6>2. v[k + 1].at < v[Len(w)].at
            BY <1>8, <5>2, <6>1
          <6>3. w[k + 1].at \in Int /\ w[Len(w)].at \in Int
            <7>1. w[k + 1] \in S /\ w[Len(w)] \in S
              BY <2>1, <4>3, ElementOfSeq
            <7> QED BY <7>1 DEF Timed
          <6> QED BY <4>3, <6>2, <6>3
        <5> QED BY <1>1, <4>3, <5>1, <5>2
      <4> QED BY <4>1, <4>3, <4>4
    <3> QED BY <2>5, <3>1, <3>2
  <2>9. ASSUME NEW i \in 1..Len(v), i < Len(v), v[i].event = "on", v[i + 1].event = "off"
        PROVE  \E k \in 1..Len(s) : PairAt(v, i, s[k])
    <3>1. CASE i = Len(w)
      BY <2>5, <2>6, <3>1
    <3>2. CASE i # Len(w)
      <4>1. i \in 1..Len(w) /\ i < Len(w) /\ i + 1 \in 1..Len(w)
        BY <1>1, <2>9, <3>2
      <4>2. PICK k \in 1..m : PairAt(w, i, r.periods[k])
        BY <1>1, <1>7, <2>9, <4>1
      <4>3. k \in 1..Len(s) /\ s[k] = r.periods[k]
        BY <2>5
      <4>4. PairAt(v, i, s[k])
        BY <1>5, <4>1, <4>2, <4>3
      <4> QED BY <4>3, <4>4
    <3> QED BY <3>1, <3>2
  <2>10. Follows(s)
    BY <2>8 DEF Follows
  <2>a. q \in [on : Int, periods : Seq(Periods)]
    <3>1. q = [on |-> -1, periods |-> s]
      BY <2>2 DEF s
    <3> QED BY <2>5, <3>1
  <2>11. SirenSound(v, q)
    BY <1>1, <1>9, <2>a, <2>3, <2>5, <2>7, <2>9, <2>10 DEF SirenSound
  <2> QED BY <2>11 DEF v, q
<1> QED BY <1>10, <1>11

(* The switches of all events, and the siren they make.                    *)
LEMMA SirenKept ==
  \A S : Timed(S) =>
    \A s \in Seq(S) : InTimeOrder(Kept(s, OnOff(S))) => SirenSound(Kept(s, OnOff(S)), SirenOf(s))
<1> SUFFICES ASSUME NEW S, Timed(S)
             PROVE  \A s \in Seq(S) : InTimeOrder(Kept(s, OnOff(S)))
                                        => SirenSound(Kept(s, OnOff(S)), SirenOf(s))
  OBVIOUS
<1> DEFINE A == OnOff(S)
           T == {s \in Seq(S) : InTimeOrder(Kept(s, A)) => SirenSound(Kept(s, A), SirenOf(s))}
<1>1. << >> \in T
  <2>1. Kept(<< >>, A) = << >> /\ SirenOf(<< >>) = NoSiren
    BY KeptEmpty, SirenEmpty
  <2>2. NoSiren.on = -1 /\ NoSiren.periods = << >>
    BY DEF NoSiren
  <2>3. << >> \in Seq(Periods) /\ Len(<< >>) = 0 /\ << >> \in Seq(S)
    BY EmptySeq
  <2>a. NoSiren \in [on : Int, periods : Seq(Periods)]
    BY <2>3 DEF NoSiren
  <2> HIDE DEF A
  <2>4. SirenSound(<< >>, NoSiren)
    BY <2>a, <2>2, <2>3 DEF SirenSound, Follows
  <2> QED BY <2>1, <2>3, <2>4
<1>2. ASSUME NEW s \in Seq(S), NEW x \in S, s \in T PROVE Append(s, x) \in T
  <2> DEFINE w == Kept(s, A)
             v == Kept(Append(s, x), A)
             r == SirenOf(s)
             q == SirenOf(Append(s, x))
  <2> SUFFICES ASSUME InTimeOrder(v) PROVE SirenSound(v, q)
    BY AppendProperties
  <2>1. q = Switch(r, x)
    BY SirenAppend
  <2>2. v = IF x \in A THEN Append(w, x) ELSE w
    BY KeptAppend
  <2>3. w \in Seq(S)
    BY KeptType
  <2>4. InTimeOrder(w) => SirenSound(w, r)
    BY <1>2
  <2> HIDE DEF w, v, r, q
  <2>5. CASE x \notin A
    <3>1. x.event # "on" /\ x.event # "off"
      BY <2>5 DEF OnOff
    <3>2. q = r
      BY <2>1, <3>1 DEF Switch
    <3> QED BY <2>2, <2>4, <2>5, <3>2
  <2>6. CASE x \in A
    <3>1. x.event \in {"on", "off"} /\ v = Append(w, x)
      BY <2>2, <2>6 DEF OnOff
    <3>2. InTimeOrder(Append(w, x))
      BY <3>1
    <3>3. SirenSound(w, r)
      BY <2>3, <2>4, <3>2, OrderOfPrefix
    <3>4. SirenSound(Append(w, x), Switch(r, x))
      BY <2>3, <3>1, <3>2, <3>3, SwitchOn, SwitchOff
    <3> QED BY <2>1, <3>1, <3>4
  <2> QED BY <2>5, <2>6
<1> HIDE DEF T
<1>3. Seq(S) \subseteq T
  BY <1>1, <1>2, Plus!SeqInduction
<1> QED BY <1>3 DEF T

(* A period begins with a siren_on and lasts to the switch after, if any.  *)
PeriodIs(w, p) ==
  p \in Periods /\ \E i \in 1..Len(w) : /\ w[i].event = "on" /\ p.from = w[i].at
                                        /\ i < Len(w) => p.to = w[i + 1].at

PeriodsSound(w, p) ==
  /\ p \in Seq(Periods) /\ Follows(p)
  /\ \A k \in 1..Len(p) : PeriodIs(w, p[k])
  /\ \A i \in 1..Len(w) : i < Len(w) /\ w[i].event = "on" /\ w[i + 1].event = "off"
       => \E k \in 1..Len(p) : PairAt(w, i, p[k])

LEMMA PeriodsOf ==
  \A S, s, geom :
    /\ Timed(S) /\ s \in Seq(S) /\ InTimeOrder(Kept(s, OnOff(S)))
    /\ geom # << >> => geom[Len(geom)].t \in Int
    => PeriodsSound(Kept(s, OnOff(S)), SirenPeriods(s, geom))
<1> SUFFICES ASSUME NEW S, NEW s, NEW geom, Timed(S), s \in Seq(S), InTimeOrder(Kept(s, OnOff(S))),
                    geom # << >> => geom[Len(geom)].t \in Int
             PROVE  PeriodsSound(Kept(s, OnOff(S)), SirenPeriods(s, geom))
  OBVIOUS
<1> DEFINE w == Kept(s, OnOff(S))
           siren == FoldLeft(Switch, NoSiren, s)
           end == geom[Len(geom)].t
           new == [from |-> siren.on, to |-> end]
           p == SirenPeriods(s, geom)
<1>1. p = IF siren.on >= 0 /\ geom # << >> THEN Append(siren.periods, new) ELSE siren.periods
  BY Zenon DEF SirenPeriods
<1>2. SirenSound(w, siren)
  BY SirenKept DEF SirenOf
<1>3. w \in Seq(S) /\ Len(w) \in Nat
  BY KeptType, LenProperties
<1> HIDE DEF w, siren, p
<1>4. ASSUME NEW q \in Seq(Periods), NEW k \in 1..Len(q), NEW i \in 1..Len(w), PairAt(w, i, q[k])
      PROVE  PeriodIs(w, q[k])
  <2>1. q[k] \in Periods
    BY ElementOfSeq
  <2> QED BY <1>4, <2>1 DEF PeriodIs, PairAt
<1>5. /\ siren.periods \in Seq(Periods) /\ Follows(siren.periods) /\ siren.on \in Int
      /\ \A k \in 1..Len(siren.periods) : \E i \in 1..Len(w) : PairAt(w, i, siren.periods[k])
      /\ \A i \in 1..Len(w) : i < Len(w) /\ w[i].event = "on" /\ w[i + 1].event = "off"
           => \E k \in 1..Len(siren.periods) : PairAt(w, i, siren.periods[k])
  BY <1>2 DEF SirenSound
<1>6. \A k \in 1..Len(siren.periods) : PeriodIs(w, siren.periods[k])
  BY <1>4, <1>5
<1>7. CASE ~(siren.on >= 0 /\ geom # << >>)
  <2>1. p = siren.periods
    BY <1>1, <1>7
  <2>2. PeriodsSound(w, p)
    BY <1>5, <1>6, <2>1 DEF PeriodsSound
  <2> QED BY <2>2 DEF w, p
<1>8. CASE siren.on >= 0 /\ geom # << >>
  <2> DEFINE n == Len(siren.periods)
  <2>1. new \in Periods /\ new.from = siren.on
    BY <1>5, <1>8 DEF Periods
  <2> HIDE DEF new
  <2>2. p = Append(siren.periods, new)
    BY <1>1, <1>8
  <2>3. /\ p \in Seq(Periods) /\ n \in Nat /\ Len(p) = n + 1 /\ p[n + 1] = new
        /\ \A k \in 1..n : p[k] = siren.periods[k]
    BY <1>5, <2>1, <2>2, AppendProperties, LenProperties
  <2>4. w # << >> /\ w[Len(w)].event = "on" /\ siren.on = w[Len(w)].at /\ Len(w) \in 1..Len(w)
    <3>1. ~(siren.on < 0)
      BY <1>5, <1>8
    <3>2. w # << >> /\ w[Len(w)].event = "on"
      BY <1>2, <3>1 DEF SirenSound
    <3>3. siren.on = w[Len(w)].at
      BY <1>2, <3>2 DEF SirenSound
    <3>4. Len(w) \in 1..Len(w)
      BY <1>3, <3>2, EmptySeq
    <3> QED BY <3>2, <3>3, <3>4
  <2>5. PeriodIs(w, new)
    BY <1>3, <2>1, <2>4 DEF PeriodIs
  <2>6. ASSUME NEW k \in 1..Len(p) PROVE PeriodIs(w, p[k])
    <3>1. k = n + 1 \/ k \in 1..n
      BY <2>3
    <3> QED BY <1>6, <2>3, <2>5, <3>1
  <2>7. ASSUME NEW i \in 1..Len(p), NEW j \in 1..Len(p), i < j PROVE p[i].to <= p[j].from
    <3>1. CASE j \in 1..n
      <4>1. i \in 1..n /\ p[i] = siren.periods[i] /\ p[j] = siren.periods[j]
        BY <2>3, <2>7, <3>1
      <4> QED BY <1>5, <2>7, <3>1, <4>1 DEF Follows
    <3>2. CASE j = n + 1
      <4>1. i \in 1..n /\ p[i] = siren.periods[i] /\ p[j] = new
        BY <2>3, <2>7, <3>2
      <4>2. PICK k \in 1..Len(w) : PairAt(w, k, siren.periods[i])
        BY <1>5, <4>1
      <4>3. k + 1 \in 1..Len(w) /\ p[i].to = w[k + 1].at /\ p[j].from = w[Len(w)].at
        BY <1>3, <2>1, <2>4, <4>1, <4>2 DEF PairAt
      <4>4. w[k + 1].at \in Int /\ w[Len(w)].at \in Int
        <5>1. w[k + 1] \in S /\ w[Len(w)] \in S
          BY <1>3, <2>4, <4>3, ElementOfSeq
        <5> QED BY <5>1 DEF Timed
      <4>5. \A a, b \in 1..Len(w) : a < b => w[a].at < w[b].at
        BY <1>3, LaterIsLater DEF w
      <4>6. w[k + 1].at <= w[Len(w)].at
        <5>1. CASE k + 1 = Len(w)
          BY <4>4, <5>1
        <5>2. CASE k + 1 < Len(w)
          BY <2>4, <4>3, <4>4, <4>5, <5>2
        <5> QED BY <1>3, <4>3, <5>1, <5>2
      <4> QED BY <4>3, <4>6
    <3> QED BY <2>3, <3>1, <3>2
  <2>8. ASSUME NEW i \in 1..Len(w), i < Len(w), w[i].event = "on", w[i + 1].event = "off"
        PROVE  \E k \in 1..Len(p) : PairAt(w, i, p[k])
    <3>1. PICK k \in 1..n : PairAt(w, i, siren.periods[k])
      BY <1>5, <2>8
    <3>2. k \in 1..Len(p) /\ p[k] = siren.periods[k]
      BY <2>3
    <3> QED BY <3>1, <3>2
  <2>9. Follows(p)
    BY <2>7 DEF Follows
  <2>10. PeriodsSound(w, p)
    BY <2>3, <2>6, <2>8, <2>9 DEF PeriodsSound
  <2> QED BY <2>10 DEF w, p
<1> QED BY <1>7, <1>8

-----------------------------------------------------------------------------
(* The samples.  The points in time order.                                 *)
Sorted == INSTANCE FoldFacts WITH Op <- InTime

LEMMA SortedIsFold == \A s : ByTime(s) = Sorted!FoldLeft(InTime, << >>, s)
BY Zenon DEF ByTime, FoldLeft, MapThenFoldSet, Max,
             Sorted!FoldLeft, Sorted!MapThenFoldSet, Sorted!Max

LEMMA SortedEmpty == ByTime(<< >>) = << >>
BY SortedIsFold, Sorted!FoldEmpty, Zenon

LEMMA SortedAppend ==
  ASSUME NEW S, NEW s \in Seq(S), NEW x \in S
  PROVE  ByTime(Append(s, x)) = InTime(ByTime(s), x)
BY SortedIsFold, Sorted!FoldAppend, Zenon

LEMMA InTimeTyped ==
  \A S : \A s \in Seq(S), x \in S : InTime(s, x) \in Seq(S)
<1> SUFFICES ASSUME NEW S, NEW s \in Seq(S), NEW x \in S PROVE InTime(s, x) \in Seq(S)
  OBVIOUS
<1> DEFINE early == {i \in DOMAIN s : s[i].t <= x.t}
           n == Cardinality(early)
           a == SubSeq(s, 1, (n + 1) - 1)
           b == SubSeq(s, n + 1, Len(s))
<1>1. InTime(s, x) = a \o <<x>> \o b
  BY DEF InTime, InsertAt
<1>2. n \in 0..Len(s) /\ Len(s) \in Nat
  <2>1. early \subseteq 1..Len(s) /\ Len(s) \in Nat
    BY LenProperties
  <2> HIDE DEF early
  <2>2. IsFiniteSet(1..Len(s)) /\ Cardinality(1..Len(s)) = Len(s)
    BY SMTT(20), <2>1, FS_Interval
  <2>3. Cardinality(early) \in Nat /\ Cardinality(early) <= Len(s)
    BY <2>1, <2>2, FS_Subset, FS_CardinalityType
  <2> QED BY <2>1, <2>3
<1> HIDE DEF n
<1>3. a \in Seq(S)
  <2>1. (n + 1) - 1 \in 0..Len(s) /\ 1 \in 1..(Len(s) + 1)
    BY <1>2
  <2> QED BY <2>1, SubSeqProperties
<1>4. b \in Seq(S)
  <2>1. n + 1 \in 1..(Len(s) + 1) /\ Len(s) \in ((n + 1) - 1)..Len(s)
    BY <1>2
  <2> QED BY <2>1, SubSeqProperties
<1> HIDE DEF a, b
<1>5. <<x>> \in Seq(S)
  OBVIOUS
<1>6. a \o <<x>> \in Seq(S)
  BY <1>3, <1>5, ConcatProperties
<1>7. (a \o <<x>>) \o b \in Seq(S)
  BY <1>4, <1>6, ConcatProperties
<1> QED BY <1>1, <1>7

LEMMA SortedTyped == \A S : \A s \in Seq(S) : ByTime(s) \in Seq(S)
<1> SUFFICES ASSUME NEW S PROVE \A s \in Seq(S) : ByTime(s) \in Seq(S)
  OBVIOUS
<1> DEFINE T == {s \in Seq(S) : ByTime(s) \in Seq(S)}
<1>1. << >> \in T
  BY SortedEmpty, EmptySeq
<1>2. ASSUME NEW s \in Seq(S), NEW x \in S, s \in T PROVE Append(s, x) \in T
  BY <1>2, SortedAppend, InTimeTyped, AppendProperties
<1> HIDE DEF T
<1>3. Seq(S) \subseteq T
  BY <1>1, <1>2, Plus!SeqInduction
<1> QED BY <1>3 DEF T

LEMMA InterpolateTyped ==
  \A points, t : points \in Seq(GpsPoints) /\ points # << >> /\ t \in Int
    => Interpolate(points, t).pos \in Int /\ Interpolate(points, t).fix \in BOOLEAN
<1> SUFFICES ASSUME NEW points, NEW t, points \in Seq(GpsPoints), points # << >>, t \in Int
             PROVE  Interpolate(points, t).pos \in Int /\ Interpolate(points, t).fix \in BOOLEAN
  OBVIOUS
<1> DEFINE later == {i \in DOMAIN points : points[i].t >= t}
           first == Min(later)
           b == points[first]
           a == points[first - 1]
           num == (b.pos - a.pos) * (t - a.t)
           d == num \div (b.t - a.t)
           between == [a EXCEPT !.t = t, !.pos = a.pos + d]
<1>1. Interpolate(points, t) = IF Len(points) = 1 \/ 1 \in later THEN points[1]
                               ELSE IF later = {} THEN points[Len(points)] ELSE between
  BY Zenon DEF Interpolate
<1>2. Len(points) \in Nat /\ 1 \in 1..Len(points) /\ Len(points) \in 1..Len(points)
      /\ DOMAIN points = 1..Len(points)
  BY EmptySeq, LenProperties
<1>3. \A i \in 1..Len(points) : points[i] \in GpsPoints
  BY ElementOfSeq
<1>4. \A p \in GpsPoints : p.pos \in Int /\ p.fix \in BOOLEAN /\ p.t \in Int
  BY DEF GpsPoints
<1>5. ASSUME later # {}, 1 \notin later PROVE between.pos \in Int /\ between.fix \in BOOLEAN
  <2>1. later \subseteq 1..Len(points) /\ later \subseteq Int
    BY <1>2
  <2>2. IsFiniteSet(later)
    <3>1. IsFiniteSet(1..Len(points))
      BY <1>2, FS_Interval
    <3> QED BY <2>1, <3>1, FS_Subset
  <2>3. first \in later /\ \A y \in later : first <= y
    <3> HIDE DEF later
    <3> QED BY <1>5, <2>1, <2>2, MaxAndMin
  <2> HIDE DEF first
  <2>4. first \in 1..Len(points) /\ first # 1 /\ first - 1 \in 1..Len(points)
    BY <1>2, <1>5, <2>1, <2>3
  <2>5. first - 1 \notin later
    BY <2>3, <2>4
  <2>6. a \in GpsPoints /\ b \in GpsPoints
    BY <1>3, <2>4
  <2>7. b.t >= t /\ ~(a.t >= t)
    BY <1>2, <2>3, <2>4, <2>5
  <2> HIDE DEF a, b
  <2>8. /\ b.pos - a.pos \in Int /\ t - a.t \in Int /\ b.t - a.t \in Nat \ {0}
        /\ a.pos \in Int /\ a.fix \in BOOLEAN
    BY <1>4, <2>6, <2>7
  <2>9. num \in Int
    BY <2>8
  <2> HIDE DEF num
  <2>10. d \in Int
    <3> DEFINE w == b.t - a.t
    <3>1. w \in Nat \ {0} /\ d = num \div w
      BY <2>8
    <3> HIDE DEF w, d
    <3> QED BY <2>9, <3>1
  <2> HIDE DEF d
  <2>11. between.pos = a.pos + d /\ between.fix = a.fix
    BY <2>6 DEF GpsPoints
  <2> QED BY <2>8, <2>10, <2>11
<1> HIDE DEF between, later
<1> QED BY <1>1, <1>2, <1>3, <1>4, <1>5

(* The aligned samples: one each GridStep, with places on the line.        *)
SampleAt(s, i, from) ==
  s[i].t = from + (i - 1) * GridStep /\ s[i].pos \in Int /\ s[i].src_pos \in Int

SamplesFrom(s, from) ==
  \E n \in Nat : DOMAIN s = 1..n /\ \A i \in 1..n : SampleAt(s, i, from)

LEMMA TicksAre ==
  \A range : range.from \in Nat /\ range.to \in Nat =>
    \E n \in Nat : /\ DOMAIN Ticks(range) = 1..n
                   /\ \A i \in 1..n : Ticks(range)[i] = range.from + (i - 1) * GridStep
                                      /\ Ticks(range)[i] \in Int
<1> SUFFICES ASSUME NEW range, range.from \in Nat, range.to \in Nat
             PROVE  \E n \in Nat :
                      /\ DOMAIN Ticks(range) = 1..n
                      /\ \A i \in 1..n : Ticks(range)[i] = range.from + (i - 1) * GridStep
                                         /\ Ticks(range)[i] \in Int
  OBVIOUS
<1> DEFINE a == range.from
           b == range.to
           n == (b - a) \div GridStep + 1
           f == [k \in 1..n |-> a + (k - 1) * GridStep]
<1>1. Ticks(range) = IF b < a THEN << >> ELSE f
  BY DEF Ticks
<1>2. CASE b < a
  <2>1. DOMAIN Ticks(range) = 1..0
    BY <1>1, <1>2
  <2> QED BY <2>1
<1>3. CASE ~(b < a)
  <2> HIDE DEF a, b
  <2>1. a \in Nat /\ b \in Nat
    BY DEF a, b
  <2>2. n \in Nat
    <3> DEFINE d == b - a
    <3>1. d \in Nat
      BY <1>3, <2>1
    <3> HIDE DEF d
    <3>2. d \div GridStep \in Nat
      BY <3>1, SceneAssumption
    <3> QED BY <3>2 DEF d
  <2> HIDE DEF n
  <2>3. ASSUME NEW i \in 1..n PROVE f[i] = a + (i - 1) * GridStep /\ f[i] \in Int
    <3>1. i - 1 \in Nat /\ GridStep \in Nat
      BY <2>2, SceneAssumption
    <3> DEFINE j == i - 1
    <3>2. j * GridStep \in Nat
      BY <3>1
    <3>3. f[i] = a + j * GridStep
      OBVIOUS
    <3> DEFINE m == j * GridStep
    <3> HIDE DEF f, m
    <3>4. f[i] \in Int
      BY <2>1, <3>2, <3>3 DEF m
    <3> QED BY <3>3, <3>4
  <2>4. DOMAIN f = 1..n
    OBVIOUS
  <2> QED BY <1>1, <1>3, <2>2, <2>3, <2>4 DEF a, b
<1> QED BY <1>2, <1>3

LEMMA AlignedSamples ==
  \A ego, source, imu, range :
    /\ ego \in Seq(GpsPoints) /\ source \in Seq(GpsPoints)
    /\ range.from \in Nat /\ range.to \in Nat
    => SamplesFrom(Align(Ticks(range), ego, source, imu), range.from)
<1> SUFFICES ASSUME NEW ego, NEW source, NEW imu, NEW range,
                    ego \in Seq(GpsPoints), source \in Seq(GpsPoints),
                    range.from \in Nat, range.to \in Nat
             PROVE  SamplesFrom(Align(Ticks(range), ego, source, imu), range.from)
  OBVIOUS
<1> DEFINE ticks == Ticks(range)
           e == ByTime(ego)
           s == ByTime(source)
           InReach(t) == s # << >> /\ t >= s[1].t - 5 * Second /\ t <= s[Len(s)].t + 5 * Second
           Fix(t) == e # << >> /\ Interpolate(e, t).fix
           Pos(t) == IF e = << >> THEN 0 ELSE Interpolate(e, t).pos
           SrcValid(t) == InReach(t) /\ Interpolate(s, t).fix
           SrcPos(t) == IF InReach(t) THEN Interpolate(s, t).pos ELSE 0
           Imu(t) == \E i \in DOMAIN imu : Abs(imu[i] - t) <= JoinTolerance
           result == [i \in DOMAIN ticks |->
                        [t |-> ticks[i], fix |-> Fix(ticks[i]), pos |-> Pos(ticks[i]),
                         src_valid |-> SrcValid(ticks[i]), src_pos |-> SrcPos(ticks[i]),
                         imu_valid |-> Imu(ticks[i])]]
<1>1. Align(ticks, ego, source, imu) = result
  BY Zenon DEF Align
<1>2. e \in Seq(GpsPoints) /\ s \in Seq(GpsPoints)
  BY SortedTyped
<1>3. PICK n \in Nat : /\ DOMAIN ticks = 1..n
                       /\ \A i \in 1..n : ticks[i] = range.from + (i - 1) * GridStep
                                          /\ ticks[i] \in Int
  BY TicksAre
<1> HIDE DEF e, s
<1>4. ASSUME NEW t \in Int PROVE Pos(t) \in Int /\ SrcPos(t) \in Int
  <2>1. e # << >> => Interpolate(e, t).pos \in Int
    BY <1>2, InterpolateTyped
  <2>2. InReach(t) => Interpolate(s, t).pos \in Int
    <3>1. InReach(t) => s # << >>
      OBVIOUS
    <3> HIDE DEF InReach
    <3> QED BY <1>2, <3>1, InterpolateTyped
  <2> HIDE DEF InReach
  <2> QED BY <2>1, <2>2
<1> HIDE DEF Fix, Pos, SrcValid, SrcPos, Imu
<1>5. ASSUME NEW i \in 1..n PROVE SampleAt(result, i, range.from)
  <2> DEFINE t == ticks[i]
  <2>1. /\ result[i].t = t /\ result[i].pos = Pos(t) /\ result[i].src_pos = SrcPos(t)
    BY <1>3
  <2>2. t \in Int /\ t = range.from + (i - 1) * GridStep
    BY <1>3
  <2> HIDE DEF t, result
  <2> QED BY <1>4, <2>1, <2>2 DEF SampleAt
<1>6. DOMAIN result = 1..n
  BY <1>3
<1> HIDE DEF result
<1>7. SamplesFrom(result, range.from)
  BY <1>5, <1>6 DEF SamplesFrom
<1> QED BY <1>1, <1>7

(* The geometry at each sample, and the closing speed from the sample      *)
(* before.                                                                 *)
Geoms == [t : Int, valid : BOOLEAN, range : Nat, closing : Int]

GeometryFrom(g, from) ==
  /\ g \in Seq(Geoms)
  /\ \A i \in 1..Len(g) : g[i].t = from + (i - 1) * GridStep
  /\ \A i \in 1..Len(g) : i > 1 /\ g[i].valid /\ g[i - 1].valid
       => g[i].closing = ((g[i - 1].range - g[i].range) * Second) \div GridStep
  /\ 1 \in 1..Len(g) => g[1].closing = 0

LEMMA GridPoints ==
  \A from \in Nat : \A i, j \in Nat :
    /\ from + i * GridStep \in Nat
    /\ i < j <=> from + i * GridStep < from + j * GridStep
    /\ (from + j * GridStep) - (from + i * GridStep) = (j - i) * GridStep
<1> SUFFICES ASSUME NEW from \in Nat, NEW i \in Nat, NEW j \in Nat
             PROVE  /\ from + i * GridStep \in Nat
                    /\ i < j <=> from + i * GridStep < from + j * GridStep
                    /\ (from + j * GridStep) - (from + i * GridStep) = (j - i) * GridStep
  OBVIOUS
<1> DEFINE a == i * GridStep
           b == j * GridStep
<1>1. GridStep \in Nat /\ GridStep > 0
  BY SceneAssumption
<1>2. a \in Nat /\ b \in Nat /\ (j - i) * GridStep = b - a
  BY <1>1
<1>3. (i <= j => a <= b) /\ (a <= b => i <= j) /\ (j <= i => b <= a) /\ (b <= a => j <= i)
  BY <1>1, Products
<1>4. i < j <=> a < b
  <2> HIDE DEF a, b
  <2> QED BY <1>2, <1>3
<1>5. (j - i) * GridStep = b - a
  BY <1>2
<1> DEFINE c == (j - i) * GridStep
<1> HIDE DEF a, b, c
<1>6. /\ from + a \in Nat /\ (i < j <=> from + a < from + b) /\ (from + b) - (from + a) = c
  BY <1>2, <1>4, <1>5 DEF c
<1> QED BY <1>6 DEF a, b, c

LEMMA GeometryIs ==
  \A s, from : SamplesFrom(s, from) /\ from \in Nat => GeometryFrom(Geometry(s), from)
<1> SUFFICES ASSUME NEW s, NEW from \in Nat, SamplesFrom(s, from)
             PROVE  GeometryFrom(Geometry(s), from)
  OBVIOUS
<1> DEFINE Earlier(i) == {j \in 1..(i - 1) : ValidAt(s[j])}
           Close(i) == IF Earlier(i) = {} THEN 0 ELSE ClosingSpeed(s[Max(Earlier(i))], s[i])
           Geom(i) == IF ~ValidAt(s[i])
                      THEN [t |-> s[i].t, valid |-> FALSE, range |-> 0, closing |-> 0]
                      ELSE [t |-> s[i].t, valid |-> TRUE, range |-> Distance(s[i]), closing |-> Close(i)]
           g == [i \in DOMAIN s |-> Geom(i)]
<1>1. Geometry(s) = g
  BY Zenon DEF Geometry
<1>2. PICK n \in Nat : DOMAIN s = 1..n /\ \A i \in 1..n : SampleAt(s, i, from)
  BY DEF SamplesFrom
<1>3. \A i \in 1..n : Distance(s[i]) \in Nat
  <2>1. \A a, b \in Int : Abs(a - b) \in Nat
    BY DEF Abs
  <2> QED BY <1>2, <2>1 DEF Distance, SampleAt
<1>4. \A i \in 1..n : s[i].t = from + (i - 1) * GridStep /\ s[i].t \in Int
  <2>1. ASSUME NEW i \in 1..n PROVE s[i].t = from + (i - 1) * GridStep /\ s[i].t \in Int
    <3>1. i - 1 \in Nat /\ s[i].t = from + (i - 1) * GridStep
      BY <1>2 DEF SampleAt
    <3> DEFINE j == i - 1
    <3> HIDE DEF j
    <3>2. from + j * GridStep \in Nat
      BY <3>1, GridPoints DEF j
    <3> QED BY <3>1, <3>2 DEF j
  <2> QED BY <2>1
<1>5. ASSUME NEW i \in 1..n, NEW j \in 1..n, j < i
      PROVE  /\ s[i].t - s[j].t \in Nat \ {0}
             /\ ClosingSpeed(s[j], s[i]) \in Int
             /\ j = i - 1 => ClosingSpeed(s[j], s[i])
                              = ((Distance(s[j]) - Distance(s[i])) * Second) \div GridStep
  <2> DEFINE k == i - 1
             l == j - 1
             u == s[i].t - s[j].t
             x == Distance(s[j]) - Distance(s[i])
             v == x * Second
  <2>1. k \in Nat /\ l \in Nat /\ l < k /\ k - l = i - j
    BY <1>5
  <2>2. s[i].t = from + k * GridStep /\ s[j].t = from + l * GridStep
    BY <1>4
  <2>3. u \in Nat \ {0} /\ (j = i - 1 => u = GridStep)
    <3> HIDE DEF k, l
    <3> DEFINE a == from + k * GridStep
               b == from + l * GridStep
    <3>1. a \in Nat /\ b \in Nat /\ b < a /\ a - b = (k - l) * GridStep
      BY <2>1, GridPoints
    <3>2. j = i - 1 => (k - l) * GridStep = GridStep
      <4>1. j = i - 1 => k - l = 1
        BY <2>1
      <4> QED BY <4>1, SceneAssumption
    <3>3. u = a - b
      BY <2>2
    <3> DEFINE c == (k - l) * GridStep
    <3> HIDE DEF a, b, c, u
    <3>4. a - b = c /\ (j = i - 1 => c = GridStep)
      BY <3>1, <3>2 DEF c
    <3> QED BY <3>1, <3>3, <3>4
  <2>4. x \in Int /\ v \in Int
    <3>1. x \in Int
      BY <1>3
    <3> HIDE DEF x
    <3> QED BY <3>1, SyncAssumption
  <2>5. ClosingSpeed(s[j], s[i]) = v \div u
    BY DEF ClosingSpeed
  <2> HIDE DEF u, v
  <2>6. v \div u \in Int
    BY <2>3, <2>4
  <2>7. u \in Nat \ {0} /\ ClosingSpeed(s[j], s[i]) \in Int
    BY <2>3, <2>5, <2>6
  <2>8. j = i - 1 => ClosingSpeed(s[j], s[i]) = v \div GridStep
    BY <2>3, <2>5
  <2> QED BY <2>7, <2>8 DEF u, v
<1>6. ASSUME NEW i \in 1..n
      PROVE  /\ Close(i) \in Int
             /\ i > 1 /\ ValidAt(s[i - 1])
                  => Close(i) = ((Distance(s[i - 1]) - Distance(s[i])) * Second) \div GridStep
             /\ i = 1 => Close(i) = 0
  <2> DEFINE E == Earlier(i)
             m == Max(E)
  <2>1. E \subseteq 1..(i - 1) /\ E \subseteq Int
    OBVIOUS
  <2>2. IsFiniteSet(E)
    <3>1. IsFiniteSet(1..(i - 1))
      BY FS_Interval
    <3> QED BY <2>1, <3>1, FS_Subset
  <2>3. i > 1 /\ ValidAt(s[i - 1]) => i - 1 \in E
    OBVIOUS
  <2>4. Close(i) = IF E = {} THEN 0 ELSE ClosingSpeed(s[m], s[i])
    OBVIOUS
  <2> HIDE DEF E, Close
  <2>5. E # {} => m \in E /\ \A y \in E : y <= m
    BY <2>1, <2>2, MaxAndMin
  <2> HIDE DEF m
  <2>6. E # {} => m \in 1..n /\ m < i
    <3>1. E # {} => m \in 1..(i - 1)
      BY <2>1, <2>5
    <3>2. \A k \in 1..(i - 1) : k \in 1..n /\ k < i
      BY <1>2
    <3> QED BY <3>1, <3>2
  <2>7. E # {} => /\ ClosingSpeed(s[m], s[i]) \in Int
                  /\ m = i - 1 => ClosingSpeed(s[m], s[i])
                                   = ((Distance(s[m]) - Distance(s[i])) * Second) \div GridStep
    BY <1>5, <2>6
  <2>8. Close(i) \in Int
    BY <2>4, <2>7
  <2>9. ASSUME i > 1, ValidAt(s[i - 1])
        PROVE  Close(i) = ((Distance(s[i - 1]) - Distance(s[i])) * Second) \div GridStep
    <3>1. m = i - 1 /\ E # {}
      BY <2>1, <2>3, <2>5, <2>6, <2>9
    <3> QED BY <2>4, <2>7, <3>1
  <2>10. i = 1 => E = {}
    BY <2>1
  <2> QED BY <2>4, <2>8, <2>9, <2>10
<1> HIDE DEF Close
<1>7. ASSUME NEW i \in 1..n
      PROVE  /\ g[i] \in Geoms /\ g[i].t = from + (i - 1) * GridStep
             /\ g[i].valid => g[i].range = Distance(s[i]) /\ g[i].closing = Close(i) /\ ValidAt(s[i])
             /\ ~g[i].valid => g[i].closing = 0
  <2>1. g[i] = Geom(i)
    BY <1>2
  <2> HIDE DEF g
  <2>2. CASE ValidAt(s[i])
    <3>1. g[i] = [t |-> s[i].t, valid |-> TRUE, range |-> Distance(s[i]), closing |-> Close(i)]
      BY <2>1, <2>2
    <3>2. s[i].t \in Int /\ Distance(s[i]) \in Nat /\ Close(i) \in Int
      BY <1>3, <1>4, <1>6
    <3> QED BY <1>4, <2>2, <3>1, <3>2 DEF Geoms
  <2>3. CASE ~ValidAt(s[i])
    <3>1. g[i] = [t |-> s[i].t, valid |-> FALSE, range |-> 0, closing |-> 0]
      BY <2>1, <2>3
    <3>2. s[i].t \in Int
      BY <1>4
    <3> QED BY <1>4, <3>1, <3>2 DEF Geoms
  <2> QED BY <2>2, <2>3
<1>8. DOMAIN g = 1..n
  BY <1>2
<1>9. g \in Seq(Geoms) /\ Len(g) = n
  <2>1. g = [i \in 1..n |-> g[i]]
    BY <1>2
  <2>2. \A i \in 1..n : g[i] \in Geoms
    BY <1>7
  <2> HIDE DEF g
  <2>3. g \in [1..n -> Geoms]
    BY <2>1, <2>2
  <2> QED BY <2>3, SeqDef
<1> HIDE DEF g
<1>10. ASSUME NEW i \in 1..n, i > 1, g[i].valid, g[i - 1].valid
       PROVE  g[i].closing = ((g[i - 1].range - g[i].range) * Second) \div GridStep
  <2>1. i - 1 \in 1..n
    BY <1>10
  <2>2. /\ g[i].range = Distance(s[i]) /\ g[i].closing = Close(i)
        /\ g[i - 1].range = Distance(s[i - 1]) /\ ValidAt(s[i - 1])
    BY <1>7, <1>10, <2>1
  <2> QED BY <1>6, <1>10, <2>2
<1>11. 1 \in 1..n => g[1].closing = 0
  BY <1>6, <1>7
<1>12. GeometryFrom(g, from)
  BY <1>7, <1>9, <1>10, <1>11 DEF GeometryFrom
<1> QED BY <1>1, <1>12

-----------------------------------------------------------------------------
(* What the session's logs make of the geometry and the events.            *)
LEMMA AlignedEventsTyped ==
  SessionIn /\ synced = SyncResult => AlignedEvents \in Seq(EventRecords)
<1> SUFFICES ASSUME SessionIn, synced = SyncResult PROVE AlignedEvents \in Seq(EventRecords)
  OBVIOUS
<1>1. SourceEvents(SourceFrames) \in Seq(EventRecords)
  BY StreamsTyped
<1>2. synced.offset \in Int
  BY OffsetTyped DEF Offsets
<1>3. AlignEvents(SourceEvents(SourceFrames), synced.offset) \in Seq(EventRecords)
  BY <1>1, <1>2, AlignedAre
<1>4. << >> \in Seq(EventRecords)
  BY EmptySeq
<1> QED BY <1>1, <1>3, <1>4 DEF AlignedEvents

LEMMA GeometryOfSession ==
  /\ SessionIn /\ validation = Report /\ synced = SyncResult
  /\ samples = SampleResult /\ geometry = Geometry(samples)
  => GeometryFrom(geometry, ValidRange.from) /\ ValidRange.from \in Nat
<1> SUFFICES ASSUME SessionIn, validation = Report, synced = SyncResult,
                    samples = SampleResult, geometry = Geometry(samples)
             PROVE  GeometryFrom(geometry, ValidRange.from) /\ ValidRange.from \in Nat
  OBVIOUS
<1>1. EgoGps(Frames) \in Seq(GpsPoints) /\ SourceGnss(SourceFrames) \in Seq(GpsPoints)
  BY StreamsTyped
<1>2. synced.offset \in Int
  BY OffsetTyped DEF Offsets
<1>3. AlignedGnss(synced.offset) \in Seq(GpsPoints)
  <2>1. Shifted(SourceGnss(SourceFrames), synced.offset) \in Seq(GpsPoints)
    BY <1>1, <1>2, ShiftedTyped
  <2>2. << >> \in Seq(GpsPoints)
    BY EmptySeq
  <2> QED BY <2>1, <2>2 DEF AlignedGnss
<1>4. ValidRange.from \in Nat /\ ValidRange.to \in Nat
  BY RangeTyped
<1>5. SamplesFrom(samples, ValidRange.from)
  <2> DEFINE e == EgoGps(Frames)
             s == AlignedGnss(synced.offset)
             m == EgoImu(Frames)
             v == ValidRange
  <2>1. samples = Align(Ticks(v), e, s, m)
    BY DEF SampleResult
  <2>2. e \in Seq(GpsPoints) /\ s \in Seq(GpsPoints) /\ v.from \in Nat /\ v.to \in Nat
    BY <1>1, <1>3, <1>4
  <2> HIDE DEF e, s, m, v
  <2>3. SamplesFrom(Align(Ticks(v), e, s, m), v.from)
    BY <2>2, AlignedSamples
  <2> QED BY <2>1, <2>3 DEF v
<1>6. GeometryFrom(Geometry(samples), ValidRange.from)
  <2> DEFINE f == ValidRange.from
  <2>1. f \in Nat /\ SamplesFrom(samples, f)
    BY <1>4, <1>5
  <2> HIDE DEF f
  <2>2. GeometryFrom(Geometry(samples), f)
    BY <2>1, GeometryIs
  <2> QED BY <2>2 DEF f
<1> QED BY <1>4, <1>6

(* The events in the scenes: the aligned ones, with a range.               *)
FoundSet(events, geom) == {SceneEvents(events, geom)[i] : i \in 1..Len(events)}

LEMMA FoundTyped ==
  \A events, geom : events \in Seq(EventRecords) =>
    SceneEvents(events, geom) \in Seq(FoundSet(events, geom)) /\ Timed(FoundSet(events, geom))
<1> SUFFICES ASSUME NEW events, NEW geom, events \in Seq(EventRecords)
             PROVE  /\ SceneEvents(events, geom) \in Seq(FoundSet(events, geom))
                    /\ Timed(FoundSet(events, geom))
  OBVIOUS
<1> DEFINE R(i) == IF geom # << >> /\ NearestGeom(geom, events[i].at).valid
                   THEN NearestGeom(geom, events[i].at).range ELSE -1
           f == [i \in DOMAIN events |->
                   [event |-> events[i].event, at |-> events[i].at, t |-> events[i].t, range |-> R(i)]]
           S == {f[i] : i \in 1..Len(events)}
<1>1. SceneEvents(events, geom) = f
  BY Zenon DEF SceneEvents
<1>2. FoundSet(events, geom) = S
  BY <1>1 DEF FoundSet
<1> HIDE DEF R
<1>3. ASSUME NEW i \in 1..Len(events) PROVE f[i].at \in Int
  <2>1. events[i] \in EventRecords /\ i \in DOMAIN events
    BY ElementOfSeq, LenProperties
  <2>2. f[i].at = events[i].at
    BY <2>1
  <2> HIDE DEF f
  <2> QED BY <2>1, <2>2 DEF EventRecords
<1>4. LongAs(f, events)
  BY DEF LongAs
<1> HIDE DEF f
<1>5. f \in Seq(S)
  BY <1>4, SeqOver
<1>6. Timed(S)
  BY <1>3 DEF Timed
<1> QED BY <1>1, <1>2, <1>5, <1>6

(* Linking a segment changes its link only.                                *)
LinkOf(seg, events) ==
  {i \in DOMAIN events : events[i].event = "on" /\ 2 * Abs(events[i].at - seg.from) < Second}

LinkSound(p, old, seg, events) ==
  /\ seg.from = p.from /\ seg.to = p.to /\ seg.class = old.class
  /\ seg.range_min = old.range_min /\ seg.at_closest = old.at_closest
  /\ seg.event = IF LinkOf(p, events) = {} THEN 0 ELSE Min(LinkOf(p, events))

LEMMA LinkedIs ==
  \A p, geom, events :
    LinkSound(p, Segment(p, geom), Linked(Segment(p, geom), events), events)
<1> SUFFICES ASSUME NEW p, NEW geom, NEW events
             PROVE  LinkSound(p, Segment(p, geom), Linked(Segment(p, geom), events), events)
  BY Zenon
<1> DEFINE old == Segment(p, geom)
           seg == Linked(old, events)
           near == LinkOf(p, events)
           m == IF near = {} THEN 0 ELSE Min(near)
<1>1. ASSUME NEW a, NEW b, NEW c, NEW d, NEW e, NEW f, NEW g, NEW h, NEW z,
             old = [from |-> a, to |-> b, class |-> c, sampled |-> d, range_min |-> e,
                    range_max |-> f, at_closest |-> g, max_closing |-> h, event |-> 0],
             a = p.from, b = p.to
      PROVE  /\ old.from = p.from
             /\ [old EXCEPT !.event = z].from = p.from /\ [old EXCEPT !.event = z].to = p.to
             /\ [old EXCEPT !.event = z].class = old.class
             /\ [old EXCEPT !.event = z].range_min = old.range_min
             /\ [old EXCEPT !.event = z].at_closest = old.at_closest
             /\ [old EXCEPT !.event = z].event = z
  <2> HIDE DEF old
  <2> QED BY <1>1
<1>2. \E a, b, c, d, e, f, g, h :
         /\ a = p.from /\ b = p.to
         /\ old = [from |-> a, to |-> b, class |-> c, sampled |-> d, range_min |-> e,
                   range_max |-> f, at_closest |-> g, max_closing |-> h, event |-> 0]
  BY Zenon DEF Segment
<1>3. \A z : /\ old.from = p.from
             /\ [old EXCEPT !.event = z].from = p.from /\ [old EXCEPT !.event = z].to = p.to
             /\ [old EXCEPT !.event = z].class = old.class
             /\ [old EXCEPT !.event = z].range_min = old.range_min
             /\ [old EXCEPT !.event = z].at_closest = old.at_closest
             /\ [old EXCEPT !.event = z].event = z
  BY <1>1, <1>2
<1> HIDE DEF old
<1>4. near = {i \in DOMAIN events : events[i].event = "on" /\ 2 * Abs(events[i].at - old.from) < Second}
  BY <1>3 DEF LinkOf
<1>5. seg = [old EXCEPT !.event = m]
  <2> HIDE DEF near
  <2> QED BY <1>4, Zenon DEF Linked
<1> HIDE DEF seg, m
<1>6. /\ seg.from = p.from /\ seg.to = p.to /\ seg.class = old.class
      /\ seg.range_min = old.range_min /\ seg.at_closest = old.at_closest /\ seg.event = m
  BY <1>3, <1>5, Zenon
<1> QED BY <1>6, Zenon DEF LinkSound, seg, m, near, old

(* The segments come from the periods that are long enough.                *)
LongOnly(p) == {i \in DOMAIN p : p[i].to - p[i].from >= SegmentMin}
LongPeriods(events, geom) ==
  Selected(SirenPeriods(events, geom), LongOnly(SirenPeriods(events, geom)))

LEMMA SegmentsAre ==
  \A events, geom :
    LET found == SceneEvents(events, geom)
        q == LongPeriods(found, geom)
        seg == Scenes(events, geom).segments
    IN  /\ Scenes(events, geom).events = found /\ DOMAIN seg = DOMAIN q
        /\ \A k \in DOMAIN q : seg[k] = Linked(Segment(q[k], geom), found)
<1> SUFFICES ASSUME NEW events, NEW geom
             PROVE  LET found == SceneEvents(events, geom)
                        q == LongPeriods(found, geom)
                        seg == Scenes(events, geom).segments
                    IN  /\ Scenes(events, geom).events = found /\ DOMAIN seg = DOMAIN q
                        /\ \A k \in DOMAIN q : seg[k] = Linked(Segment(q[k], geom), found)
  BY Zenon
<1> DEFINE found == SceneEvents(events, geom)
           q == LongPeriods(found, geom)
           built == [i \in DOMAIN q |-> Segment(q[i], geom)]
           linked == [i \in DOMAIN built |-> Linked(built[i], found)]
<1>1. BuildSegments(found, geom) = built
  BY Zenon DEF BuildSegments, LongPeriods, LongOnly, Keep
<1>2. Scenes(events, geom) = [events |-> found, segments |-> linked]
  <2>1. Scenes(events, geom) =
          [events |-> found,
           segments |-> [i \in DOMAIN BuildSegments(found, geom) |->
                           Linked(BuildSegments(found, geom)[i], found)]]
    BY Zenon DEF Scenes
  <2> HIDE DEF found, built
  <2> QED BY <1>1, <2>1
<1> HIDE DEF found, q
<1>3. DOMAIN linked = DOMAIN q /\ \A k \in DOMAIN q : linked[k] = Linked(Segment(q[k], geom), found)
  OBVIOUS
<1> HIDE DEF linked
<1>4. Scenes(events, geom).events = found /\ Scenes(events, geom).segments = linked
  BY <1>2
<1> QED BY <1>3, <1>4 DEF found, q

(* At each moment of a period the last switch before was a siren_on.       *)
OnAt(w, t) ==
  \E i \in DOMAIN w : w[i].event = "on" /\ w[i].at <= t /\ \A j \in DOMAIN w : j > i => w[j].at > t

LEMMA PeriodIsOn ==
  \A S, w, p : Timed(S) /\ w \in Seq(S) /\ InTimeOrder(w) /\ PeriodIs(w, p)
    => \A t \in p.from .. (p.to - 1) : OnAt(w, t)
<1> SUFFICES ASSUME NEW S, NEW w, NEW p, Timed(S), w \in Seq(S), InTimeOrder(w), PeriodIs(w, p),
                    NEW t \in p.from .. (p.to - 1)
             PROVE  OnAt(w, t)
  OBVIOUS
<1>1. PICK i \in 1..Len(w) : /\ w[i].event = "on" /\ p.from = w[i].at
                             /\ i < Len(w) => p.to = w[i + 1].at
  BY DEF PeriodIs
<1>2. p.from \in Int /\ p.to \in Int /\ p.from <= t /\ t < p.to /\ t \in Int
  <2>1. p.from \in Int /\ p.to \in Int
    BY DEF PeriodIs, Periods
  <2> QED BY <2>1
<1>3. Len(w) \in Nat /\ DOMAIN w = 1..Len(w)
  BY LenProperties
<1>4. \A j \in 1..Len(w) : w[j].at \in Int
  <2>1. \A j \in 1..Len(w) : w[j] \in S
    BY ElementOfSeq
  <2> QED BY <2>1 DEF Timed
<1>5. ASSUME NEW j \in 1..Len(w), j > i PROVE w[j].at > t
  <2>1. i + 1 \in 1..Len(w) /\ i < Len(w)
    BY <1>3, <1>5
  <2>2. w[i + 1].at > t
    BY <1>1, <1>2, <2>1
  <2>3. CASE j = i + 1
    BY <2>2, <2>3
  <2>4. CASE j # i + 1
    <3>1. i + 1 < j
      BY <1>3, <1>5, <2>4
    <3>2. w[i + 1].at < w[j].at
      BY <2>1, <3>1, LaterIsLater
    <3>3. w[i + 1].at \in Int /\ w[j].at \in Int
      BY <1>4, <2>1
    <3> QED BY <1>2, <2>2, <3>2, <3>3
  <2> QED BY <2>3, <2>4
<1>6. w[i].at <= t
  BY <1>1, <1>2
<1> QED BY <1>1, <1>3, <1>5, <1>6 DEF OnAt

(* A segment finds the siren_on it starts with, or one before it as near.  *)
LEMMA LinkFound ==
  \A S, s, p : Timed(S) /\ s \in Seq(S) /\ PeriodIs(Kept(s, OnOff(S)), p)
    => /\ LinkOf(p, s) # {} /\ Min(LinkOf(p, s)) \in LinkOf(p, s) /\ Min(LinkOf(p, s)) # 0
<1> SUFFICES ASSUME NEW S, NEW s, NEW p, Timed(S), s \in Seq(S), PeriodIs(Kept(s, OnOff(S)), p)
             PROVE  /\ LinkOf(p, s) # {} /\ Min(LinkOf(p, s)) \in LinkOf(p, s)
                    /\ Min(LinkOf(p, s)) # 0
  OBVIOUS
<1> DEFINE w == Kept(s, OnOff(S))
           L == LinkOf(p, s)
<1>1. PICK i \in 1..Len(w) : w[i].event = "on" /\ p.from = w[i].at
  BY DEF PeriodIs
<1>2. PICK m \in 1..Len(s) : w[i] = s[m]
  BY <1>1, KeptAll
<1>3. p.from \in Int /\ DOMAIN s = 1..Len(s) /\ Len(s) \in Nat
  BY LenProperties DEF PeriodIs, Periods
<1>4. m \in L
  <2> HIDE DEF w
  <2>1. s[m].event = "on" /\ s[m].at = p.from
    BY <1>1, <1>2
  <2>2. Abs(s[m].at - p.from) = 0
    BY <1>3, <2>1 DEF Abs
  <2>3. 2 * Abs(s[m].at - p.from) < Second
    BY <2>2, SyncAssumption
  <2> QED BY <1>3, <2>1, <2>3 DEF LinkOf
<1>5. L \subseteq 1..Len(s)
  BY <1>3 DEF LinkOf
<1> HIDE DEF L
<1>6. IsFiniteSet(L)
  <2>1. IsFiniteSet(1..Len(s))
    BY <1>3, FS_Interval
  <2> QED BY <1>5, <2>1, FS_Subset
<1>7. L \subseteq Int /\ L # {}
  BY <1>3, <1>4, <1>5
<1>8. Min(L) \in L
  BY <1>6, <1>7, MaxAndMin
<1> QED BY <1>3, <1>5, <1>7, <1>8 DEF L

(* What a log in time order has as segments.                               *)
SegmentsSound(seg, found, w) ==
  /\ \A k \in DOMAIN seg :
       /\ \A t \in seg[k].from .. (seg[k].to - 1) : OnAt(w, t)
       /\ k > 1 => seg[k - 1].to <= seg[k].from
       /\ seg[k].event # 0
       /\ 2 * Abs(found[seg[k].event].at - seg[k].from) < Second
  /\ \A i \in 2..Len(w) :
       w[i - 1].event = "on" /\ w[i].event = "off" /\ w[i].at - w[i - 1].at >= SegmentMin
         => \E k \in DOMAIN seg : seg[k].from = w[i - 1].at /\ seg[k].to = w[i].at

LEMMA SegmentsAreSound ==
  \A events, geom :
    LET found == SceneEvents(events, geom)
        w == Kept(found, OnOff(FoundSet(events, geom)))
    IN  /\ events \in Seq(EventRecords) /\ InTimeOrder(w)
        /\ geom # << >> => geom[Len(geom)].t \in Int
        => SegmentsSound(Scenes(events, geom).segments, found, w)
<1> DEFINE Found(events, geom) == SceneEvents(events, geom)
           W(events, geom) == Kept(Found(events, geom), OnOff(FoundSet(events, geom)))
<1> SUFFICES ASSUME NEW events, NEW geom, events \in Seq(EventRecords),
                    InTimeOrder(W(events, geom)),
                    geom # << >> => geom[Len(geom)].t \in Int
             PROVE  SegmentsSound(Scenes(events, geom).segments, Found(events, geom), W(events, geom))
  BY Zenon
<1> DEFINE found == SceneEvents(events, geom)
           S == FoundSet(events, geom)
           w == Kept(found, OnOff(S))
           p == SirenPeriods(found, geom)
           q == LongPeriods(found, geom)
           seg == Scenes(events, geom).segments
<1>1. found \in Seq(S) /\ Timed(S)
  BY FoundTyped
<1>2. InTimeOrder(w)
  OBVIOUS
<1>3. /\ DOMAIN seg = DOMAIN q
      /\ \A k \in DOMAIN q : seg[k] = Linked(Segment(q[k], geom), found)
  BY SegmentsAre, Zenon
<1>4. q = Selected(p, LongOnly(p))
  BY DEF LongPeriods
<1> HIDE DEF found, S, p, q, seg
<1>5. w \in Seq(S)
  BY <1>1, KeptType
<1>6. PeriodsSound(w, p)
  BY <1>1, <1>2, PeriodsOf DEF p
<1>7. /\ p \in Seq(Periods) /\ Follows(p)
      /\ \A k \in 1..Len(p) : PeriodIs(w, p[k])
      /\ \A i \in 1..Len(w) : i < Len(w) /\ w[i].event = "on" /\ w[i + 1].event = "off"
           => \E k \in 1..Len(p) : PairAt(w, i, p[k])
  BY <1>6 DEF PeriodsSound
<1>8. PICK pos : Picks(pos, q, p, LongOnly(p))
  BY <1>4, <1>7, SelectedPositions
<1>9. q \in Seq(Periods) /\ Follows(q) /\ DOMAIN q = 1..Len(q) /\ Len(q) \in Nat
  <2>1. q \in Seq(Periods) /\ Follows(q)
    BY <1>4, <1>7, SelectedType, KeptFollow
  <2> QED BY <2>1, LenProperties
<1>10. \A k \in 1..Len(q) : PeriodIs(w, q[k])
  BY <1>7, <1>8, <1>9 DEF Picks
<1>11. Len(w) \in Nat /\ DOMAIN w = 1..Len(w)
  BY <1>5, LenProperties
<1> HIDE DEF w
<1>12. ASSUME NEW k \in 1..Len(q)
       PROVE  /\ seg[k].from = q[k].from /\ seg[k].to = q[k].to
              /\ seg[k].event # 0 /\ seg[k].event \in LinkOf(q[k], found)
  <2> DEFINE near == LinkOf(q[k], found)
             old == Segment(q[k], geom)
             x == Linked(old, found)
  <2>a. LinkSound(q[k], old, x, found)
    BY LinkedIs
  <2>1. /\ x.from = q[k].from /\ x.to = q[k].to
        /\ x.event = IF near = {} THEN 0 ELSE Min(near)
    <3> HIDE DEF x, old
    <3> QED BY <2>a, Zenon DEF LinkSound
  <2>2. near # {} /\ Min(near) \in near /\ Min(near) # 0
    BY <1>1, <1>10, LinkFound DEF w
  <2>3. seg[k] = x
    BY <1>3, <1>9
  <2> HIDE DEF near, x
  <2>4. x.event = Min(near)
    BY <2>1, <2>2
  <2> QED BY <2>1, <2>2, <2>3, <2>4 DEF near
<1>13. ASSUME NEW k \in DOMAIN seg
       PROVE  /\ \A t \in seg[k].from .. (seg[k].to - 1) : OnAt(w, t)
              /\ k > 1 => seg[k - 1].to <= seg[k].from
              /\ seg[k].event # 0
              /\ 2 * Abs(found[seg[k].event].at - seg[k].from) < Second
  <2>1. k \in 1..Len(q)
    BY <1>3, <1>9
  <2>2. \A t \in seg[k].from .. (seg[k].to - 1) : OnAt(w, t)
    <3>1. \A t \in q[k].from .. (q[k].to - 1) : OnAt(w, t)
      BY <1>1, <1>2, <1>5, <1>10, <2>1, PeriodIsOn DEF w
    <3> QED BY <1>12, <2>1, <3>1
  <2>3. k > 1 => seg[k - 1].to <= seg[k].from
    <3>1. SUFFICES ASSUME k > 1 PROVE seg[k - 1].to <= seg[k].from
      OBVIOUS
    <3>2. k - 1 \in 1..Len(q) /\ k - 1 < k
      BY <1>9, <2>1, <3>1
    <3>3. q[k - 1].to <= q[k].from
      BY <1>9, <2>1, <3>2 DEF Follows
    <3>4. seg[k - 1].to = q[k - 1].to /\ seg[k].from = q[k].from
      BY <1>12, <2>1, <3>2
    <3> QED BY <3>3, <3>4
  <2>4. seg[k].event # 0 /\ seg[k].event \in LinkOf(q[k], found) /\ seg[k].from = q[k].from
    BY <1>12, <2>1
  <2>5. 2 * Abs(found[seg[k].event].at - seg[k].from) < Second
    BY <2>4 DEF LinkOf
  <2> QED BY <2>2, <2>3, <2>4, <2>5
<1>14. ASSUME NEW i \in 2..Len(w), w[i - 1].event = "on", w[i].event = "off",
              w[i].at - w[i - 1].at >= SegmentMin
       PROVE  \E k \in DOMAIN seg : seg[k].from = w[i - 1].at /\ seg[k].to = w[i].at
  <2> DEFINE h == i - 1
  <2>1. h \in 1..Len(w) /\ h < Len(w) /\ h + 1 = i
    BY <1>11
  <2> HIDE DEF h
  <2>2. w[h].event = "on" /\ w[h + 1].event = "off"
    BY <1>14, <2>1 DEF h
  <2>3. PICK m \in 1..Len(p) : PairAt(w, h, p[m])
    BY <1>7, <2>1, <2>2
  <2>4. p[m].from = w[i - 1].at /\ p[m].to = w[i].at
    BY <2>1, <2>3 DEF PairAt, h
  <2>5. m \in LongOnly(p)
    <3>1. DOMAIN p = 1..Len(p)
      BY <1>7, LenProperties
    <3> QED BY <1>14, <2>4, <3>1 DEF LongOnly
  <2>6. PICK k \in 1..Len(pos) : pos[k] = m
    BY <1>8, <2>5 DEF Picks
  <2>7. k \in 1..Len(q) /\ q[k] = p[m]
    BY <1>8, <2>6 DEF Picks
  <2>8. seg[k].from = q[k].from /\ seg[k].to = q[k].to /\ k \in DOMAIN seg
    BY <1>3, <1>9, <1>12, <2>7
  <2> QED BY <2>4, <2>7, <2>8
<1>15. SegmentsSound(seg, found, w)
  BY <1>13, <1>14 DEF SegmentsSound
<1> QED BY <1>15 DEF seg, found, w, S

THEOREM SegmentsHold == PipelineSpec => []SegmentsMatchSiren
<1>1. DataInv => SegmentsMatchSiren
  <2> DEFINE found == SceneEvents(AlignedEvents, geometry)
             S == FoundSet(AlignedEvents, geometry)
             w == Kept(found, OnOff(S))
             w2 == Switches
             seg == scenes.segments
             InOrder == \A i \in DOMAIN w2 : w2[i].at >= 0 /\ (i > 1 => w2[i - 1].at < w2[i].at)
  <2>1. SUFFICES ASSUME DataInv, AfterScenes, InOrder
                 PROVE  SegmentsSound(seg, scenes.events, w2)
    BY Zenon DEF SegmentsMatchSiren, SegmentsSound, OnAt
  <2>2. /\ SessionIn /\ validation = Report /\ synced = SyncResult
        /\ samples = SampleResult /\ geometry = Geometry(samples) /\ scenes = SceneResult
    BY <2>1 DEF DataInv, AfterScenes, DataStages, SceneStages
  <2>3. AlignedEvents \in Seq(EventRecords)
    BY <2>2, AlignedEventsTyped
  <2>4. geometry # << >> => geometry[Len(geometry)].t \in Int
    <3>1. geometry \in Seq(Geoms)
      BY <2>2, GeometryOfSession DEF GeometryFrom
    <3>2. SUFFICES ASSUME geometry # << >> PROVE geometry[Len(geometry)].t \in Int
      OBVIOUS
    <3>3. Len(geometry) \in 1..Len(geometry)
      BY <3>1, <3>2, EmptySeq, LenProperties
    <3>4. geometry[Len(geometry)] \in Geoms
      BY <3>1, <3>3, ElementOfSeq
    <3> QED BY <3>4 DEF Geoms
  <2>5. scenes.events = found /\ scenes.segments = Scenes(AlignedEvents, geometry).segments
    BY <2>2, SegmentsAre, Zenon DEF SceneResult
  <2>6. found \in Seq(S)
    BY <2>3, FoundTyped
  <2>7. w2 = w
    <3>1. w2 = Selected(scenes.events, {i \in DOMAIN scenes.events : scenes.events[i].event \in {"on", "off"}})
      BY Zenon DEF Switches, Keep
    <3> HIDE DEF found, S
    <3>2. DOMAIN found = 1..Len(found) /\ \A i \in 1..Len(found) : found[i] \in S
      BY <2>6, LenProperties, ElementOfSeq
    <3>3. {i \in DOMAIN found : found[i].event \in {"on", "off"}} = {i \in DOMAIN found : found[i] \in OnOff(S)}
      BY <3>2 DEF OnOff
    <3> QED BY <2>5, <3>1, <3>3 DEF Kept
  <2>8. InTimeOrder(w)
    <3>1. w2 \in Seq(S)
      BY <2>6, <2>7, KeptType
    <3>2. DOMAIN w2 = 1..Len(w2)
      BY <3>1, LenProperties
    <3> HIDE DEF w
    <3> QED BY <2>1, <2>7, <3>2 DEF InTimeOrder
  <2>9. SegmentsSound(Scenes(AlignedEvents, geometry).segments, found, w)
    BY <2>3, <2>4, <2>8, SegmentsAreSound, Zenon
  <2> HIDE DEF found, w, w2
  <2> QED BY <2>5, <2>7, <2>9
<1>2. PipelineSpec => []DataInv
  BY ResultsAreOfTheLogs
<1> QED BY <1>1, <1>2, PTL
-----------------------------------------------------------------------------
(* The closing speeds of a segment add up to the change of its range over  *)
(* the grid period, but for what the divisions lose.                       *)
StepsOf(f, r) ==
  /\ \A i \in 1..(Len(f) + 1) : r[i] \in Nat
  /\ \A i \in 1..Len(f) : f[i] = ((r[i] - r[i + 1]) * Second) \div GridStep

Telescopes(f, r) ==
  LET n == Len(f)
      grown == (r[1] - r[n + 1]) * Second
      sum == SumSeq(f) * GridStep
  IN  /\ sum <= grown /\ grown <= sum + n * GridStep
      /\ Second % GridStep = 0 => sum = grown

LEMMA QuotientIs ==
  \A x \in Int : /\ (x \div GridStep) \in Int
                 /\ (x \div GridStep) * GridStep <= x
                 /\ x <= (x \div GridStep) * GridStep + GridStep
                 /\ x % GridStep = 0 => (x \div GridStep) * GridStep = x
<1> SUFFICES ASSUME NEW x \in Int
             PROVE  /\ (x \div GridStep) \in Int
                    /\ (x \div GridStep) * GridStep <= x
                    /\ x <= (x \div GridStep) * GridStep + GridStep
                    /\ x % GridStep = 0 => (x \div GridStep) * GridStep = x
  OBVIOUS
<1>1. GridStep \in Nat /\ GridStep > 0
  BY SceneAssumption
<1>2. /\ (x \div GridStep) \in Int /\ x % GridStep \in 0..(GridStep - 1)
      /\ x = GridStep * (x \div GridStep) + (x % GridStep)
  BY <1>1
<1> QED BY <1>1, <1>2

LEMMA MultiplesDivide ==
  \A d \in Int : Second % GridStep = 0 => (d * Second) % GridStep = 0
<1> SUFFICES ASSUME NEW d \in Int, Second % GridStep = 0 PROVE (d * Second) % GridStep = 0
  OBVIOUS
<1>1. GridStep \in Nat /\ GridStep > 0 /\ Second \in Nat
  BY SceneAssumption, SyncAssumption
<1> DEFINE k == Second \div GridStep
           q == (d * Second) \div GridStep
           m == (d * Second) % GridStep
           e == d * k - q
<1>2. k \in Int /\ Second = GridStep * k
  BY <1>1
<1>3. q \in Int /\ m \in 0..(GridStep - 1) /\ d * Second = GridStep * q + m
  BY <1>1
<1>4. d * Second = GridStep * (d * k)
  BY <1>1, <1>2
<1> HIDE DEF k, q, m
<1>5. e \in Int /\ m = GridStep * e
  BY <1>1, <1>2, <1>3, <1>4
<1> HIDE DEF e
<1>6. m = 0
  <2>1. e >= 1 => GridStep <= GridStep * e
    BY <1>1, <1>5
  <2>2. e <= -1 => GridStep * e <= -GridStep
    BY <1>1, <1>5
  <2>3. e = 0 => GridStep * e = 0
    BY <1>1, <1>5
  <2>4. e >= 1 \/ e <= -1 \/ e = 0
    BY <1>5
  <2> QED BY <1>1, <1>3, <1>5, <2>1, <2>2, <2>3, <2>4
<1> QED BY <1>6 DEF m

LEMMA TelescopeStep ==
  ASSUME NEW f \in Seq(Int), NEW x \in Int, NEW r, StepsOf(Append(f, x), r),
         Telescopes(f, r)
  PROVE  Telescopes(Append(f, x), r)
<1> DEFINE n == Len(f)
           h == Append(f, x)
           d == r[n + 1] - r[n + 2]
           a == SumSeq(f) * GridStep
           b == (r[1] - r[n + 1]) * Second
           u == x * GridStep
           v == d * Second
<1>1. n \in Nat /\ Len(h) = n + 1 /\ h[n + 1] = x /\ SumSeq(h) = SumSeq(f) + x
  BY AppendProperties, LenProperties, SumAppend
<1>2. SumSeq(f) \in Int /\ GridStep \in Nat /\ Second \in Nat /\ GridStep > 0
  BY SumInt, SceneAssumption, SyncAssumption
<1>3. /\ \A i \in 1..(n + 2) : r[i] \in Nat
      /\ x = (d * Second) \div GridStep
  <2> HIDE DEF h
  <2>1. Len(h) + 1 = n + 2 /\ n + 1 \in 1..Len(h) /\ (n + 1) + 1 = n + 2
    BY <1>1
  <2> QED BY <1>1, <2>1 DEF StepsOf, h
<1>4. r[1] \in Nat /\ r[n + 1] \in Nat /\ r[n + 2] \in Nat
  BY <1>1, <1>3
<1>5. d \in Int /\ v \in Int /\ b \in Int /\ a \in Int /\ u \in Int
  <2>1. d \in Int /\ r[1] - r[n + 1] \in Int
    <3> HIDE DEF n
    <3> QED BY <1>4
  <2>2. \A y \in Int : y * Second \in Int /\ y * GridStep \in Int
    BY <1>2
  <2> HIDE DEF d
  <2> QED BY <1>2, <2>1, <2>2
<1>6. /\ u <= v /\ v <= u + GridStep
      /\ Second % GridStep = 0 => u = v
  BY <1>3, <1>5, QuotientIs, MultiplesDivide
<1>7. /\ a <= b /\ b <= a + n * GridStep /\ n * GridStep \in Int
      /\ Second % GridStep = 0 => a = b
  <2>1. /\ a <= b /\ b <= a + n * GridStep
        /\ Second % GridStep = 0 => a = b
    BY Zenon DEF Telescopes
  <2> QED BY <1>1, <1>2, <2>1
<1>8. /\ SumSeq(h) * GridStep = a + u
      /\ (r[1] - r[n + 2]) * Second = b + v
      /\ (n + 1) * GridStep = n * GridStep + GridStep
  <2>1. SumSeq(h) * GridStep = a + u
    BY <1>1, <1>2
  <2>2. (r[1] - r[n + 2]) * Second = b + v
    BY <1>2, <1>4
  <2>3. (n + 1) * GridStep = n * GridStep + GridStep
    BY <1>1, <1>2
  <2> QED BY <2>1, <2>2, <2>3
<1> DEFINE p == n * GridStep
           c == GridStep
           big == SumSeq(h) * GridStep
           wide == (r[1] - r[n + 2]) * Second
           np == (n + 1) * GridStep
<1>9. /\ big <= wide /\ wide <= big + np
      /\ Second % GridStep = 0 => big = wide
  <2>1. big = a + u /\ wide = b + v /\ np = p + c
    BY <1>8
  <2>2. /\ a <= b /\ b <= a + p /\ u <= v /\ v <= u + c
        /\ a \in Int /\ b \in Int /\ u \in Int /\ v \in Int /\ p \in Int /\ c \in Int
        /\ Second % GridStep = 0 => a = b /\ u = v
    BY <1>2, <1>5, <1>6, <1>7
  <2> HIDE DEF a, b, u, v, p, big, wide, np, c
  <2> QED BY <2>1, <2>2
<1>10. Telescopes(h, r)
  <2>1. Len(h) + 1 = n + 2 /\ Len(h) = n + 1
    BY <1>1
  <2>2. SumSeq(h) * GridStep = big /\ (r[1] - r[Len(h) + 1]) * Second = wide /\ Len(h) * GridStep = np
    <3> HIDE DEF h
    <3> QED BY <2>1
  <2> HIDE DEF h, big, wide, np
  <2> QED BY <1>9, <2>2 DEF Telescopes
<1> QED BY <1>10

LEMMA SumTelescopes == \A r : \A f \in Seq(Int) : StepsOf(f, r) => Telescopes(f, r)
<1> SUFFICES ASSUME NEW r PROVE \A f \in Seq(Int) : StepsOf(f, r) => Telescopes(f, r)
  OBVIOUS
<1> DEFINE T == {f \in Seq(Int) : StepsOf(f, r) => Telescopes(f, r)}
<1>1. << >> \in T
  <2>1. ASSUME StepsOf(<< >>, r) PROVE Telescopes(<< >>, r)
    <3>1. r[1] \in Nat
      BY <2>1 DEF StepsOf
    <3>2. SumSeq(<< >>) = 0 /\ Len(<< >>) = 0 /\ GridStep \in Nat /\ Second \in Nat
      BY SumEmpty, SceneAssumption, SyncAssumption
    <3>3. (r[1] - r[0 + 1]) * Second = 0 /\ 0 * GridStep = 0
      BY <3>1, <3>2
    <3> QED BY <3>2, <3>3 DEF Telescopes
  <2> QED BY <2>1, EmptySeq
<1>2. ASSUME NEW f \in Seq(Int), f \in T, NEW x \in Int PROVE Append(f, x) \in T
  <2>1. Append(f, x) \in Seq(Int) /\ Len(Append(f, x)) = Len(f) + 1 /\ Len(f) \in Nat
        /\ \A i \in 1..Len(f) : Append(f, x)[i] = f[i]
    BY AppendProperties, LenProperties
  <2>2. StepsOf(Append(f, x), r) => StepsOf(f, r)
    <3> DEFINE h == Append(f, x)
    <3> HIDE DEF h
    <3>1. Len(h) = Len(f) + 1 /\ Len(f) \in Nat /\ \A i \in 1..Len(f) : h[i] = f[i]
      BY <2>1 DEF h
    <3>2. StepsOf(h, r) => StepsOf(f, r)
      BY <3>1 DEF StepsOf
    <3> QED BY <3>2 DEF h
  <2> QED BY <1>2, <2>1, <2>2, TelescopeStep
<1>3. Seq(Int) \subseteq T
  <2> HIDE DEF T
  <2> QED BY <1>1, <1>2, Plus!SeqInduction
<1> QED BY <1>3

(* A selection of the positions from lo to hi is that part of the list.    *)
Between(s, P, lo, hi) ==
  /\ lo \in 1..Len(s) /\ hi \in 1..Len(s) /\ lo <= hi
  /\ \A i \in 1..Len(s) : i \in P <=> lo <= i /\ i <= hi

LEMMA SelectedBetween ==
  \A S, s, P, lo, hi : s \in Seq(S) /\ Between(s, P, lo, hi)
    => /\ Len(Selected(s, P)) = hi - lo + 1
       /\ \A k \in 1..(hi - lo + 1) : Selected(s, P)[k] = s[lo + k - 1]
<1> SUFFICES ASSUME NEW S, NEW s, NEW P, NEW lo, NEW hi, s \in Seq(S), Between(s, P, lo, hi)
             PROVE  /\ Len(Selected(s, P)) = hi - lo + 1
                    /\ \A k \in 1..(hi - lo + 1) : Selected(s, P)[k] = s[lo + k - 1]
  OBVIOUS
<1> DEFINE t == Selected(s, P)
<1>1. PICK pos : Picks(pos, t, s, P)
  BY SelectedPositions
<1> HIDE DEF t
<1>2. /\ lo \in Nat /\ hi \in Nat /\ 1 <= lo /\ lo <= hi /\ hi <= Len(s) /\ Len(s) \in Nat
      /\ \A i \in 1..Len(s) : i \in P <=> lo <= i /\ i <= hi
  BY LenProperties DEF Between
<1> DEFINE n == Len(pos)
<1>3. n \in Nat /\ n = Len(t)
  BY <1>1, LenProperties DEF Picks
<1>4. /\ \A k \in 1..n : pos[k] \in lo..hi /\ t[k] = s[pos[k]]
      /\ \A k, l \in 1..n : k < l => pos[k] < pos[l]
      /\ \A i \in lo..hi : \E k \in 1..n : pos[k] = i
  <2>1. \A k \in 1..n : pos[k] \in 1..Len(s) /\ pos[k] \in P /\ t[k] = s[pos[k]]
    BY <1>1 DEF Picks
  <2>2. \A i \in 1..Len(s) : i \in P => \E k \in 1..n : pos[k] = i
    BY <1>1 DEF Picks
  <2>3. \A k, l \in 1..n : k < l => pos[k] < pos[l]
    BY <1>1 DEF Picks
  <2>4. \A k \in 1..n : pos[k] \in lo..hi
    BY <1>2, <2>1
  <2>5. \A i \in lo..hi : i \in 1..Len(s) /\ i \in P
    BY <1>2
  <2>6. \A i \in lo..hi : \E k \in 1..n : pos[k] = i
    BY <2>2, <2>5
  <2> QED BY <2>1, <2>3, <2>4, <2>6
<1> HIDE DEF n
<1> DEFINE T == {d \in Nat : d + 1 \in 1..n => pos[d + 1] = lo + d}
<1>5. 0 \in T
  <2>1. ASSUME 1 \in 1..n PROVE pos[1] = lo
    <3>1. PICK k \in 1..n : pos[k] = lo
      BY <1>2, <1>4
    <3>2. pos[1] \in lo..hi
      BY <1>4, <2>1
    <3>3. 1 < k => pos[1] < pos[k]
      BY <1>4, <2>1
    <3> QED BY <1>2, <3>1, <3>2, <3>3
  <2>2. 0 + 1 = 1 /\ lo + 0 = lo
    BY <1>2
  <2> QED BY <2>1, <2>2
<1>6. ASSUME NEW d \in Nat, d \in T PROVE d + 1 \in T
  <2>1. ASSUME (d + 1) + 1 \in 1..n PROVE pos[(d + 1) + 1] = lo + (d + 1)
    <3> DEFINE a == d + 1
               b == (d + 1) + 1
    <3>1. a \in 1..n /\ b \in 1..n /\ a < b /\ b = a + 1 /\ a = d + 1
      BY <1>3, <2>1
    <3> HIDE DEF a, b
    <3>2. pos[a] = lo + d /\ pos[a] < pos[b] /\ pos[b] \in lo..hi
      <4>1. pos[a] = lo + d
        BY <1>6, <3>1
      <4> QED BY <1>4, <3>1, <4>1
    <3>3. lo + a \in lo..hi
      BY <1>2, <3>1, <3>2
    <3>4. PICK k \in 1..n : pos[k] = lo + a
      BY <1>4, <3>3
    <3>5. k > a
      <4>1. CASE k < a
        BY <1>2, <1>4, <3>1, <3>2, <3>4, <4>1
      <4>2. CASE k = a
        BY <1>2, <3>1, <3>2, <3>4, <4>2
      <4> QED BY <1>3, <3>1, <4>1, <4>2
    <3>6. b < k => pos[b] < pos[k]
      BY <1>4, <3>1
    <3>7. pos[b] = lo + a
      BY <1>2, <1>3, <3>1, <3>2, <3>4, <3>5, <3>6
    <3> QED BY <3>1, <3>7 DEF b
  <2> QED BY <2>1
<1>7. ASSUME NEW k \in 1..n PROVE pos[k] = lo + k - 1
  <2>1. Nat \subseteq T
    <3> HIDE DEF T
    <3> QED BY <1>5, <1>6, Plus!Induction
  <2> DEFINE d == k - 1
  <2>2. d \in Nat /\ d + 1 = k
    BY <1>3
  <2> HIDE DEF d
  <2>3. pos[k] = lo + d
    BY <1>7, <2>1, <2>2
  <2> QED BY <1>2, <2>2, <2>3
<1>8. n = hi - lo + 1
  <2>1. PICK k \in 1..n : pos[k] = hi
    BY <1>2, <1>4
  <2>2. k = hi - lo + 1
    BY <1>2, <1>3, <1>7, <2>1
  <2>3. n \in 1..n
    BY <1>3, <2>1
  <2>4. pos[n] = lo + n - 1 /\ pos[n] \in lo..hi
    BY <1>4, <1>7, <2>3
  <2> QED BY <1>2, <1>3, <2>1, <2>2, <2>4
<1>9. \A k \in 1..n : t[k] = s[lo + k - 1]
  BY <1>4, <1>7
<1> QED BY <1>3, <1>8, <1>9 DEF t

(* A period runs from an integer to an integer.                            *)
LEMMA SirenTyped ==
  \A S : Timed(S) => \A s \in Seq(S) : SirenOf(s).periods \in Seq(Periods) /\ SirenOf(s).on \in Int
<1> SUFFICES ASSUME NEW S, Timed(S)
             PROVE  \A s \in Seq(S) : SirenOf(s).periods \in Seq(Periods) /\ SirenOf(s).on \in Int
  OBVIOUS
<1> DEFINE R == [on : Int, periods : Seq(Periods)]
           T == {s \in Seq(S) : SirenOf(s) \in R}
<1>1. << >> \in T
  <2>1. -1 \in Int /\ << >> \in Seq(Periods) /\ << >> \in Seq(S)
    BY EmptySeq
  <2>2. NoSiren \in R
    BY <2>1, Zenon DEF NoSiren
  <2> HIDE DEF R
  <2> QED BY <2>1, <2>2, SirenEmpty
<1>2. ASSUME NEW s \in Seq(S), s \in T, NEW x \in S PROVE Append(s, x) \in T
  <2> DEFINE r == SirenOf(s)
             new == [from |-> r.on, to |-> x.at]
  <2>1. r \in R /\ r.on \in Int /\ r.periods \in Seq(Periods) /\ x.at \in Int
    BY <1>2 DEF Timed
  <2>2. SirenOf(Append(s, x)) = Switch(r, x) /\ Append(s, x) \in Seq(S)
    BY SirenAppend, AppendProperties
  <2> HIDE DEF r
  <2>3. new \in Periods
    BY <2>1 DEF Periods
  <2>4. Append(r.periods, new) \in Seq(Periods)
    BY <2>1, <2>3, AppendProperties
  <2> DEFINE longer == Append(r.periods, new)
  <2>5. \/ Switch(r, x) = [r EXCEPT !.on = x.at]
        \/ Switch(r, x) = [on |-> -1, periods |-> longer]
        \/ Switch(r, x) = r
    BY Zenon DEF Switch
  <2> HIDE DEF longer
  <2>6. Switch(r, x) \in R
    <3>1. [r EXCEPT !.on = x.at] \in R
      BY <2>1
    <3>2. longer \in Seq(Periods) /\ -1 \in Int
      BY <2>4 DEF longer
    <3>3. [on |-> -1, periods |-> longer] \in R
      BY <3>2, Zenon
    <3> HIDE DEF R
    <3> QED BY <2>1, <2>5, <3>1, <3>3
  <2> QED BY <2>2, <2>6
<1>3. Seq(S) \subseteq T
  <2> HIDE DEF T
  <2> QED BY <1>1, <1>2, Switched!SeqInduction
<1> QED BY <1>3

LEMMA PeriodsTyped ==
  \A S, s, geom : Timed(S) /\ s \in Seq(S) /\ (geom # << >> => geom[Len(geom)].t \in Int)
    => SirenPeriods(s, geom) \in Seq(Periods)
<1> SUFFICES ASSUME NEW S, NEW s, NEW geom, Timed(S), s \in Seq(S),
                    geom # << >> => geom[Len(geom)].t \in Int
             PROVE  SirenPeriods(s, geom) \in Seq(Periods)
  OBVIOUS
<1> DEFINE r == SirenOf(s)
           new == [from |-> r.on, to |-> geom[Len(geom)].t]
<1>1. r.periods \in Seq(Periods) /\ r.on \in Int
  BY SirenTyped
<1>2. SirenPeriods(s, geom) =
        IF r.on >= 0 /\ geom # << >> THEN Append(r.periods, new) ELSE r.periods
  BY Zenon DEF SirenPeriods, SirenOf
<1> HIDE DEF r
<1>3. geom # << >> => new \in Periods
  BY <1>1 DEF Periods
<1> HIDE DEF new
<1>4. geom # << >> => Append(r.periods, new) \in Seq(Periods)
  BY <1>1, <1>3, AppendProperties
<1> QED BY <1>1, <1>2, <1>4

(* The samples of a period are those from lo to hi; the one before is the  *)
(* last before the period.                                                 *)
WithinOf(g, p) == {i \in DOMAIN g : p.from <= g[i].t /\ g[i].t <= p.to}
BeforeOf(g, p) == {i \in DOMAIN g : g[i].t < p.from}
FirstOf(g, p) == IF BeforeOf(g, p) = {} THEN Min(WithinOf(g, p)) ELSE Max(BeforeOf(g, p))

Increasing(g) ==
  /\ \A i \in 1..Len(g) : g[i].t \in Int
  /\ \A i, j \in 1..Len(g) : i < j => g[i].t < g[j].t

LEMMA GeometryIncreases ==
  \A g, from : GeometryFrom(g, from) /\ from \in Nat => Increasing(g)
<1> SUFFICES ASSUME NEW g, NEW from, GeometryFrom(g, from), from \in Nat PROVE Increasing(g)
  OBVIOUS
<1>1. Len(g) \in Nat /\ \A i \in 1..Len(g) : g[i].t = from + (i - 1) * GridStep
  BY LenProperties DEF GeometryFrom
<1>2. ASSUME NEW i \in 1..Len(g), NEW j \in 1..Len(g)
      PROVE  g[i].t \in Int /\ (i < j => g[i].t < g[j].t)
  <2> DEFINE a == i - 1
             b == j - 1
  <2>1. a \in Nat /\ b \in Nat /\ (i < j <=> a < b)
    BY <1>1
  <2>2. g[i].t = from + a * GridStep /\ g[j].t = from + b * GridStep
    BY <1>1
  <2> HIDE DEF a, b
  <2>3. from + a * GridStep \in Nat /\ (a < b => from + a * GridStep < from + b * GridStep)
    BY <2>1, GridPoints
  <2> QED BY <2>1, <2>2, <2>3
<1> QED BY <1>2 DEF Increasing

SpanOf(g, p, lo, hi, first) ==
  /\ lo \in 1..Len(g) /\ hi \in 1..Len(g) /\ lo <= hi
  /\ \A i \in 1..Len(g) : i \in WithinOf(g, p) <=> lo <= i /\ i <= hi
  /\ first = IF lo = 1 THEN 1 ELSE lo - 1
  /\ lo = Min(WithinOf(g, p)) /\ hi = Max(WithinOf(g, p)) /\ first = FirstOf(g, p)

LEMMA PeriodSpans ==
  \A g, p : g \in Seq(Geoms) /\ Increasing(g) /\ p \in Periods /\ WithinOf(g, p) # {}
    => SpanOf(g, p, Min(WithinOf(g, p)), Max(WithinOf(g, p)), FirstOf(g, p))
<1> SUFFICES ASSUME NEW g, NEW p, g \in Seq(Geoms), Increasing(g), p \in Periods,
                    WithinOf(g, p) # {}
             PROVE  SpanOf(g, p, Min(WithinOf(g, p)), Max(WithinOf(g, p)), FirstOf(g, p))
  OBVIOUS
<1> DEFINE W == WithinOf(g, p)
           B == BeforeOf(g, p)
           n == Len(g)
           lo == Min(W)
           hi == Max(W)
<1>1. n \in Nat /\ DOMAIN g = 1..n
  BY LenProperties
<1>2. p.from \in Int /\ p.to \in Int
  BY DEF Periods
<1>3. /\ \A i \in 1..n : g[i].t \in Int
      /\ \A i, j \in 1..n : i < j => g[i].t < g[j].t
  BY DEF Increasing
<1>4. /\ \A i \in 1..n : i \in W <=> p.from <= g[i].t /\ g[i].t <= p.to
      /\ W \subseteq 1..n
  BY <1>1 DEF WithinOf
<1>5. /\ \A i \in 1..n : i \in B <=> g[i].t < p.from
      /\ B \subseteq 1..n
  BY <1>1 DEF BeforeOf
<1>6. W # {}
  OBVIOUS
<1> HIDE DEF W, B, n
<1>7. /\ IsFiniteSet(W) /\ W \subseteq Int
      /\ IsFiniteSet(B) /\ B \subseteq Int
  <2>1. IsFiniteSet(1..n)
    BY <1>1, FS_Interval
  <2>2. IsFiniteSet(W) /\ IsFiniteSet(B)
    BY <1>4, <1>5, <2>1, FS_Subset
  <2> QED BY <1>1, <1>4, <1>5, <2>2
<1>8. lo \in W /\ hi \in W /\ \A i \in W : lo <= i /\ i <= hi
  BY <1>6, <1>7, MaxAndMin
<1> HIDE DEF lo, hi
<1>9. lo \in 1..n /\ hi \in 1..n /\ lo <= hi
  BY <1>4, <1>8
<1>10. ASSUME NEW i \in 1..n PROVE i \in W <=> lo <= i /\ i <= hi
  <2>1. i \in W => lo <= i /\ i <= hi
    BY <1>8
  <2>2. ASSUME lo <= i, i <= hi PROVE i \in W
    <3>1. g[lo].t <= g[i].t
      <4>1. lo = i \/ lo < i
        BY <1>9, <2>2
      <4> QED BY <1>3, <1>9, <4>1
    <3>2. g[i].t <= g[hi].t
      <4>1. hi = i \/ i < hi
        BY <1>9, <2>2
      <4> QED BY <1>3, <1>9, <4>1
    <3>3. p.from <= g[lo].t /\ g[hi].t <= p.to
      BY <1>4, <1>8, <1>9
    <3>4. p.from <= g[i].t /\ g[i].t <= p.to
      BY <1>2, <1>3, <1>9, <3>1, <3>2, <3>3
    <3> QED BY <1>4, <3>4
  <2> QED BY <2>1, <2>2
<1>11. ASSUME NEW i \in 1..n PROVE i \in B <=> i < lo
  <2>1. ASSUME i < lo PROVE i \in B
    <3>1. i \notin W
      BY <1>8, <1>9, <2>1
    <3>2. g[i].t < g[lo].t /\ g[lo].t <= p.to
      BY <1>3, <1>4, <1>8, <1>9, <2>1
    <3>3. g[i].t <= p.to
      BY <1>2, <1>3, <1>9, <3>2
    <3>4. ~(p.from <= g[i].t)
      BY <1>4, <3>1, <3>3
    <3> QED BY <1>2, <1>3, <1>5, <3>4
  <2>2. ASSUME ~(i < lo) PROVE i \notin B
    <3>1. lo = i \/ lo < i
      BY <1>9, <2>2
    <3>2. g[lo].t <= g[i].t
      BY <1>3, <1>9, <3>1
    <3>3. p.from <= g[lo].t
      BY <1>4, <1>8, <1>9
    <3>4. ~(g[i].t < p.from)
      BY <1>2, <1>3, <1>9, <3>2, <3>3
    <3> QED BY <1>5, <3>4
  <2> QED BY <2>1, <2>2
<1> DEFINE first == IF B = {} THEN lo ELSE Max(B)
<1>12. first = IF lo = 1 THEN 1 ELSE lo - 1
  <2>1. CASE lo = 1
    <3>1. B = {}
      BY <1>1, <1>5, <1>11, <2>1
    <3> QED BY <2>1, <3>1
  <2>2. CASE lo # 1
    <3>1. lo - 1 \in 1..n /\ lo - 1 \in B
      BY <1>1, <1>9, <1>11, <2>2
    <3>2. B # {}
      BY <3>1
    <3>3. Max(B) \in B /\ \A i \in B : i <= Max(B)
      BY <1>7, <3>2, MaxAndMin
    <3> DEFINE m == Max(B)
    <3> HIDE DEF m
    <3>4. m \in 1..n /\ m < lo /\ lo - 1 <= m
      <4>1. m \in B /\ lo - 1 <= m
        BY <3>1, <3>3 DEF m
      <4> QED BY <1>5, <1>11, <4>1
    <3>5. m = lo - 1
      BY <1>9, <3>4
    <3> QED BY <2>2, <3>2, <3>5 DEF m
  <2> QED BY <2>1, <2>2
<1>13. first = FirstOf(g, p)
  BY Zenon DEF FirstOf, B, W, lo
<1> HIDE DEF first
<1>14. SpanOf(g, p, lo, hi, first)
  BY <1>9, <1>10, <1>12, <1>13, Zenon DEF SpanOf, W, n, lo, hi
<1> QED BY <1>13, <1>14, Zenon DEF lo, hi, W

(* The samples of a segment, all of them valid.                            *)
InsideOf(g, p) == Selected(g, {i \in DOMAIN g : g[i].t >= p.from /\ g[i].t <= p.to})

IsPart(s, g, lo, hi) ==
  /\ s \in Seq(Geoms) /\ Len(s) = hi - lo + 1
  /\ \A k \in 1..(hi - lo + 1) : s[k] = g[lo + k - 1]

LEMMA InsideIs ==
  \A g, p, lo, hi, first : g \in Seq(Geoms) /\ p \in Periods /\ Increasing(g) /\ SpanOf(g, p, lo, hi, first)
    => IsPart(InsideOf(g, p), g, lo, hi)
<1> SUFFICES ASSUME NEW g, NEW p, NEW lo, NEW hi, NEW first,
                    g \in Seq(Geoms), p \in Periods, Increasing(g), SpanOf(g, p, lo, hi, first)
             PROVE  IsPart(InsideOf(g, p), g, lo, hi)
  OBVIOUS
<1> DEFINE P == {i \in DOMAIN g : g[i].t >= p.from /\ g[i].t <= p.to}
<1>1. DOMAIN g = 1..Len(g)
  BY LenProperties
<1>2. p.from \in Int /\ \A i \in 1..Len(g) : g[i].t \in Int
  BY DEF Increasing, Periods
<1>3. \A i \in 1..Len(g) : i \in P <=> i \in WithinOf(g, p)
  BY <1>1, <1>2 DEF WithinOf
<1> HIDE DEF P
<1>4. Between(g, P, lo, hi)
  BY <1>3 DEF Between, SpanOf
<1>5. /\ Len(Selected(g, P)) = hi - lo + 1
      /\ \A k \in 1..(hi - lo + 1) : Selected(g, P)[k] = g[lo + k - 1]
      /\ Selected(g, P) \in Seq(Geoms)
  BY <1>4, SelectedBetween, SelectedType
<1> QED BY <1>5 DEF IsPart, InsideOf, P

LEMMA SelectedWhole ==
  \A S, s, P : s \in Seq(S) /\ (\A i \in 1..Len(s) : i \in P) => Selected(s, P) = s
<1> SUFFICES ASSUME NEW S, NEW s, NEW P, s \in Seq(S), \A i \in 1..Len(s) : i \in P
             PROVE  Selected(s, P) = s
  OBVIOUS
<1>1. CASE s = << >>
  BY <1>1, SelectedEmpty
<1>2. CASE s # << >>
  <2> DEFINE n == Len(s)
             t == Selected(s, P)
  <2>1. n \in Nat /\ n >= 1
    BY <1>2, LenProperties, EmptySeq
  <2>2. Between(s, P, 1, n)
    BY <2>1 DEF Between
  <2>3. Len(t) = n - 1 + 1 /\ (\A k \in 1..(n - 1 + 1) : t[k] = s[1 + k - 1]) /\ t \in Seq(S)
    BY <2>2, SelectedBetween, SelectedType
  <2> HIDE DEF t
  <2>4. Len(t) = Len(s)
    BY <2>1, <2>3
  <2>5. ASSUME NEW k \in 1..Len(s) PROVE t[k] = s[k]
    BY <2>1, <2>3
  <2>6. t = s
    BY <2>3, <2>4, <2>5, SeqEqual
  <2> QED BY <2>6 DEF t
<1> QED BY <1>1, <1>2

RangesOf(s, r) == r \in Seq(Nat) /\ Len(r) = Len(s) /\ \A k \in 1..Len(s) : r[k] = s[k].range

LEMMA RangesAre ==
  \A s : s \in Seq(Geoms) /\ (\A k \in 1..Len(s) : s[k].valid) => RangesOf(s, Ranges(s))
<1> SUFFICES ASSUME NEW s, s \in Seq(Geoms), \A k \in 1..Len(s) : s[k].valid
             PROVE  RangesOf(s, Ranges(s))
  OBVIOUS
<1> DEFINE P == {i \in DOMAIN s : s[i].valid}
           r == [i \in DOMAIN s |-> s[i].range]
<1>1. DOMAIN s = 1..Len(s) /\ Len(s) \in Nat
  BY LenProperties
<1>2. Keep(s, IsValid) = Selected(s, P)
  BY Zenon DEF Keep, IsValid
<1>3. Selected(s, P) = s
  <2>1. \A i \in 1..Len(s) : i \in P
    BY <1>1
  <2> HIDE DEF P
  <2> QED BY <2>1, SelectedWhole
<1>4. Ranges(s) = r
  <2>1. Keep(s, IsValid) = s
    BY <1>2, <1>3
  <2> QED BY <2>1, Zenon DEF Ranges
<1>5. \A k \in 1..Len(s) : s[k].range \in Nat
  <2>1. \A k \in 1..Len(s) : s[k] \in Geoms
    BY ElementOfSeq
  <2> QED BY <2>1 DEF Geoms
<1>6. r \in Seq(Nat) /\ Len(r) = Len(s) /\ \A k \in 1..Len(s) : r[k] = s[k].range
  BY <1>1, <1>5
<1> QED BY <1>4, <1>6 DEF RangesOf

(* What a class needs, of the samples' ranges r and their closing speeds.  *)
Closings(s) == [i \in DOMAIN s |-> IF s[i].valid THEN s[i].closing ELSE 0]

LEMMA ClassNeeds ==
  \A s : LET r == Ranges(s)
             n == Len(r)
             closing == SumSeq(Closings(s))
         IN  /\ Classify(s) = "approach" => n # 0 /\ 2 * closing > n * Metre
             /\ Classify(s) = "recede" => n # 0 /\ 2 * closing < -(n * Metre)
             /\ Classify(s) = "pass_by" => n # 0 /\ FirstMin(r) - 1 > n \div 5
             /\ n = 0 => Classify(s) = "unknown"
<1> SUFFICES ASSUME NEW s
             PROVE  LET r == Ranges(s)
                        n == Len(r)
                        closing == SumSeq(Closings(s))
                    IN  /\ Classify(s) = "approach" => n # 0 /\ 2 * closing > n * Metre
                        /\ Classify(s) = "recede" => n # 0 /\ 2 * closing < -(n * Metre)
                        /\ Classify(s) = "pass_by" => n # 0 /\ FirstMin(r) - 1 > n \div 5
                        /\ n = 0 => Classify(s) = "unknown"
  BY Zenon
<1> DEFINE r == Ranges(s)
           n == Len(r)
           most == Max(ToSet(r))
           spread == most - Min(ToSet(r))
           closing == SumSeq(Closings(s))
           nearest == FirstMin(r) - 1
           Brief == s[Len(s)].t - s[1].t < SegmentMin
           Passing == 20 * spread > 3 * most /\ nearest > n \div 5 /\ nearest < (4 * n) \div 5
           Standing == (most = 0 \/ 10 * spread < most) /\ Abs(closing) < n * Metre
           Nearing == 2 * closing > n * Metre
           Leaving == 2 * closing < -(n * Metre)
           class == IF n = 0 THEN "unknown"
                    ELSE IF Brief THEN "unknown"
                    ELSE IF Passing THEN "pass_by"
                    ELSE IF Standing THEN "stationary"
                    ELSE IF Nearing THEN "approach"
                    ELSE IF Leaving THEN "recede"
                    ELSE "unknown"
<1>1. Classify(s) = class
  BY Zenon DEF Classify, Closings
<1>2. \/ n # 0 /\ Passing /\ class = "pass_by"
      \/ n # 0 /\ class = "stationary"
      \/ n # 0 /\ Nearing /\ class = "approach"
      \/ n # 0 /\ Leaving /\ class = "recede"
      \/ class = "unknown"
  <2> HIDE DEF n, Passing, Standing, Nearing, Leaving, Brief
  <2> QED BY Zenon
<1>3. Passing => nearest > n \div 5
  OBVIOUS
<1>4. n = 0 => class = "unknown"
  <2> HIDE DEF n, Passing, Standing, Nearing, Leaving, Brief
  <2> QED BY Zenon
<1> HIDE DEF class
<1> QED BY <1>1, <1>2, <1>3, <1>4

LEMMA SegmentIs ==
  \A p, g :
    LET s == InsideOf(g, p)
        x == Segment(p, g)
    IN  /\ x.class = Classify(s)
        /\ x.range_min = IF Ranges(s) # << >> THEN Min(ToSet(Ranges(s))) ELSE 0
        /\ x.at_closest = IF Ranges(s) # << >> THEN Closest(s).range ELSE 0
<1> SUFFICES ASSUME NEW p, NEW g
             PROVE  LET s == InsideOf(g, p)
                        x == Segment(p, g)
                    IN  /\ x.class = Classify(s)
                        /\ x.range_min = IF Ranges(s) # << >> THEN Min(ToSet(Ranges(s))) ELSE 0
                        /\ x.at_closest = IF Ranges(s) # << >> THEN Closest(s).range ELSE 0
  BY Zenon
<1> DEFINE s == InsideOf(g, p)
           x == Segment(p, g)
           class == Classify(s)
           least == IF Ranges(s) # << >> THEN Min(ToSet(Ranges(s))) ELSE 0
           near == IF Ranges(s) # << >> THEN Closest(s).range ELSE 0
<1>1. \E a, b, c, d, e :
         x = [from |-> a, to |-> b, class |-> class, sampled |-> c, range_min |-> least,
              range_max |-> d, at_closest |-> near, max_closing |-> e, event |-> 0]
  BY Zenon DEF Segment, Keep, InsideOf
<1> HIDE DEF s, x, class, least, near
<1>2. x.class = class /\ x.range_min = least /\ x.at_closest = near
  BY <1>1
<1> QED BY <1>2, Zenon DEF x, class, least, near, s

(* The least of a list of numbers, and where it is first met.              *)
LEMMA LeastIs ==
  \A r : r \in Seq(Nat) /\ r # << >> =>
    /\ Min(ToSet(r)) \in Nat /\ \A k \in 1..Len(r) : Min(ToSet(r)) <= r[k]
    /\ \E k \in 1..Len(r) : r[k] = Min(ToSet(r))
    /\ FirstMin(r) > 1 => Min(ToSet(r)) < r[1]
<1> SUFFICES ASSUME NEW r, r \in Seq(Nat), r # << >>
             PROVE  /\ Min(ToSet(r)) \in Nat /\ \A k \in 1..Len(r) : Min(ToSet(r)) <= r[k]
                    /\ \E k \in 1..Len(r) : r[k] = Min(ToSet(r))
                    /\ FirstMin(r) > 1 => Min(ToSet(r)) < r[1]
  OBVIOUS
<1> DEFINE S == ToSet(r)
           n == Len(r)
           m == Min(S)
           F == {i \in DOMAIN r : \A j \in DOMAIN r : r[i] <= r[j]}
<1>1. n \in Nat /\ n >= 1 /\ DOMAIN r = 1..n /\ \A k \in 1..n : r[k] \in Nat
  <2>1. \A k \in 1..n : r[k] \in Nat
    BY ElementOfSeq
  <2> QED BY <2>1, LenProperties, EmptySeq
<1>2. S = {r[k] : k \in 1..n}
  BY <1>1, Zenon DEF ToSet
<1>3. IsFiniteSet(S)
  <2>1. IsFiniteSet(1..n)
    BY <1>1, FS_Interval
  <2>2. r = [k \in 1..n |-> r[k]]
    BY <1>1
  <2> HIDE DEF n
  <2>3. IsFiniteSet({r[k] : k \in 1..n})
    BY <2>1, <2>2, ImageFinite
  <2> QED BY <1>2, <2>3
<1>4. S \subseteq Int /\ S # {} /\ S \subseteq Nat
  <2> HIDE DEF S, n
  <2>1. S \subseteq Nat /\ 1 \in 1..n
    BY <1>1, <1>2
  <2> QED BY <1>2, <2>1
<1>5. m \in S /\ \A y \in S : m <= y
  <2> HIDE DEF S
  <2> QED BY <1>3, <1>4, MaxAndMin
<1> HIDE DEF S, m
<1>6. m \in Nat /\ (\A k \in 1..n : m <= r[k]) /\ \E k \in 1..n : r[k] = m
  BY <1>2, <1>4, <1>5
<1>7. ASSUME FirstMin(r) > 1 PROVE m < r[1]
  <2>1. FirstMin(r) = Min(F)
    BY Zenon DEF FirstMin
  <2>2. SUFFICES ASSUME ~(m < r[1]) PROVE FALSE
    OBVIOUS
  <2>3. r[1] = m
    BY <1>1, <1>6, <2>2
  <2>4. 1 \in F /\ F \subseteq 1..n
    BY <1>1, <1>6, <2>3
  <2> HIDE DEF F
  <2>5. IsFiniteSet(F) /\ F \subseteq Int /\ F # {}
    <3>1. IsFiniteSet(1..n)
      BY <1>1, FS_Interval
    <3>2. IsFiniteSet(F)
      BY <2>4, <3>1, FS_Subset
    <3> QED BY <1>1, <2>4, <3>2
  <2>6. Min(F) <= 1 /\ Min(F) \in Int
    BY <2>4, <2>5, MaxAndMin
  <2> QED BY <1>7, <2>1, <2>6
<1> QED BY <1>6, <1>7, Zenon DEF m, S

LEMMA FirstMinTyped == \A r : r \in Seq(Nat) /\ r # << >> => FirstMin(r) \in Int
<1> SUFFICES ASSUME NEW r, r \in Seq(Nat), r # << >> PROVE FirstMin(r) \in Int
  OBVIOUS
<1> DEFINE n == Len(r)
           F == {i \in DOMAIN r : \A j \in DOMAIN r : r[i] <= r[j]}
<1>1. n \in Nat /\ DOMAIN r = 1..n /\ \A k \in 1..n : r[k] \in Nat
  <2>1. \A k \in 1..n : r[k] \in Nat
    BY ElementOfSeq
  <2> QED BY <2>1, LenProperties, EmptySeq
<1>2. PICK k \in 1..n : r[k] = Min(ToSet(r))
  BY LeastIs
<1>3. \A j \in 1..n : r[k] <= r[j]
  BY <1>2, LeastIs
<1>4. k \in F /\ F \subseteq 1..n
  BY <1>1, <1>3
<1>5. FirstMin(r) = Min(F)
  BY Zenon DEF FirstMin
<1> HIDE DEF F
<1>6. IsFiniteSet(F)
  <2>1. IsFiniteSet(1..n)
    BY <1>1, FS_Interval
  <2> QED BY <1>4, <2>1, FS_Subset
<1>7. F \subseteq Int /\ F # {}
  BY <1>1, <1>4
<1>8. Min(F) \in Int
  BY <1>6, <1>7, MaxAndMin
<1> QED BY <1>5, <1>8

(* The sample found to be the closest is at the least range.               *)
LEMMA ClosestIs ==
  \A s, r : /\ s \in Seq(Geoms) /\ s # << >> /\ \A k \in 1..Len(s) : s[k].valid
            /\ RangesOf(s, r)
    => Closest(s).range = Min(ToSet(r))
<1> SUFFICES ASSUME NEW s, NEW r, s \in Seq(Geoms), s # << >>, \A k \in 1..Len(s) : s[k].valid,
                    RangesOf(s, r)
             PROVE  Closest(s).range = Min(ToSet(r))
  OBVIOUS
<1> DEFINE n == Len(s)
           F == {i \in DOMAIN s : s[i].valid /\
                   \A j \in DOMAIN s : s[j].valid => s[i].range <= s[j].range}
           m == Min(ToSet(r))
           c == Min(F)
<1>1. n \in Nat /\ n >= 1 /\ DOMAIN s = 1..n
  BY LenProperties, EmptySeq
<1>2. r \in Seq(Nat) /\ Len(r) = n /\ \A k \in 1..n : r[k] = s[k].range
  BY DEF RangesOf
<1>3. r # << >>
  BY <1>1, <1>2
<1>4. /\ m \in Nat /\ \A k \in 1..n : m <= r[k]
      /\ \E k \in 1..n : r[k] = m
  BY <1>2, <1>3, LeastIs
<1>5. \A i \in 1..n : i \in F <=> \A j \in 1..n : r[i] <= r[j]
  BY <1>1, <1>2
<1>6. F \subseteq 1..n
  BY <1>1
<1>7. Closest(s) = s[c]
  BY Zenon DEF Closest
<1> HIDE DEF F, m, n
<1>8. \A k \in 1..n : r[k] \in Nat
  BY <1>2, ElementOfSeq
<1>9. PICK k \in 1..n : r[k] = m
  BY <1>4
<1>10. k \in F
  BY <1>4, <1>5, <1>9
<1>11. IsFiniteSet(F) /\ F \subseteq Int /\ F # {}
  <2>1. IsFiniteSet(1..n)
    BY <1>1, FS_Interval
  <2>2. IsFiniteSet(F)
    BY <1>6, <2>1, FS_Subset
  <2> QED BY <1>1, <1>6, <1>10, <2>2
<1>12. c \in F
  BY <1>11, MaxAndMin
<1> HIDE DEF c
<1>13. r[c] = m
  <2>1. c \in 1..n /\ r[c] <= r[k]
    BY <1>5, <1>6, <1>12
  <2> QED BY <1>4, <1>8, <1>9, <2>1
<1>14. s[c].range = m
  BY <1>2, <1>6, <1>12, <1>13
<1> QED BY <1>7, <1>14 DEF m

(* What a total of closing speeds says of the ranges at the two ends.      *)
ExactEnough == Metre >= 2 \/ Second % GridStep = 0

LEMMA EndsOf ==
  \A n \in Nat, s, d \in Int :
    /\ s * GridStep <= d * Second /\ d * Second <= s * GridStep + n * GridStep
    /\ Second % GridStep = 0 => s * GridStep = d * Second
    => /\ 2 * s > n * Metre => d > 0
       /\ n # 0 /\ 2 * s < -(n * Metre) /\ ExactEnough => d < 0
<1> SUFFICES ASSUME NEW n \in Nat, NEW s \in Int, NEW d \in Int,
                    s * GridStep <= d * Second, d * Second <= s * GridStep + n * GridStep,
                    Second % GridStep = 0 => s * GridStep = d * Second
             PROVE  /\ 2 * s > n * Metre => d > 0
                    /\ n # 0 /\ 2 * s < -(n * Metre) /\ ExactEnough => d < 0
  OBVIOUS
<1> DEFINE G == GridStep
           a == s * G
           b == d * Second
           c == n * G
           e == n * Metre
<1>1. G \in Nat /\ G > 0 /\ Second \in Nat /\ Second > 0 /\ Metre \in Nat
  BY SceneAssumption, SyncAssumption
<1>2. a \in Int /\ b \in Int /\ c \in Int /\ e \in Nat
  BY <1>1, Products
<1>3. a <= b /\ b <= a + c /\ (Second % G = 0 => a = b)
  OBVIOUS
<1>4. ~(d > 0) => b <= 0
  <2>1. d <= 0 => d * Second <= 0 * Second
    BY <1>1, IntProducts
  <2>2. 0 * Second = 0
    BY <1>1
  <2> QED BY <2>1, <2>2
<1>5. ~(d < 0) => b >= 0
  <2>1. 0 <= d => 0 * Second <= d * Second
    BY <1>1, IntProducts
  <2>2. 0 * Second = 0
    BY <1>1
  <2> QED BY <2>1, <2>2
<1>6. s > 0 => a > 0
  <2>1. 1 <= s => 1 * G <= s * G
    BY <1>1, IntProducts
  <2>2. 1 * G = G
    BY <1>1
  <2> QED BY <1>1, <2>1, <2>2
<1>7. s < 0 => a < 0
  <2>1. s <= -1 => s * G <= (-1) * G
    BY <1>1, IntProducts
  <2>2. (-1) * G = -G
    BY <1>1
  <2> QED BY <1>1, <2>1, <2>2
<1>8. s + n < 0 => a + c < 0
  <2>1. s + n <= -1 => (s + n) * G <= (-1) * G
    BY <1>1, IntProducts
  <2>2. (-1) * G = -G /\ (s + n) * G = s * G + n * G
    BY <1>1
  <2> QED BY <1>1, <2>1, <2>2
<1>9. Metre >= 2 => 2 * n <= e
  <2>1. 2 <= Metre => 2 * n <= Metre * n
    BY <1>1, IntProducts
  <2>2. Metre * n = n * Metre
    BY <1>1
  <2> QED BY <2>1, <2>2
<1> HIDE DEF a, b, c, e, G
<1>10. ASSUME 2 * s > e PROVE d > 0
  BY <1>2, <1>3, <1>4, <1>6, <1>10
<1>11. ASSUME n # 0, 2 * s < -e, ExactEnough PROVE d < 0
  <2>1. CASE Metre >= 2
    <3>1. s + n < 0
      BY <1>2, <1>9, <1>11, <2>1
    <3> QED BY <1>2, <1>3, <1>5, <1>8, <3>1
  <2>2. CASE Second % G = 0
    BY <1>2, <1>3, <1>5, <1>7, <1>11, <2>2
  <2> QED BY <1>11, <2>1, <2>2 DEF ExactEnough, G
<1> QED BY <1>10, <1>11 DEF e

(* The ranges from the sample before a segment to its end.                 *)
LEMMA ClosingsTelescope ==
  \A g, from, p, lo, hi, first :
    /\ GeometryFrom(g, from) /\ SpanOf(g, p, lo, hi, first)
    /\ \A i \in first..hi : g[i].valid
    => \A s : IsPart(s, g, lo, hi) =>
         LET sum == SumSeq(Closings(s)) * GridStep
             grown == (g[first].range - g[hi].range) * Second
         IN  /\ sum <= grown /\ grown <= sum + Len(s) * GridStep
             /\ Second % GridStep = 0 => sum = grown
             /\ SumSeq(Closings(s)) \in Int
<1> SUFFICES ASSUME NEW g, NEW from, NEW p, NEW lo, NEW hi, NEW first,
                    GeometryFrom(g, from), SpanOf(g, p, lo, hi, first),
                    \A i \in first..hi : g[i].valid,
                    NEW s, IsPart(s, g, lo, hi)
             PROVE  LET sum == SumSeq(Closings(s)) * GridStep
                        grown == (g[first].range - g[hi].range) * Second
                    IN  /\ sum <= grown /\ grown <= sum + Len(s) * GridStep
                        /\ Second % GridStep = 0 => sum = grown
                        /\ SumSeq(Closings(s)) \in Int
  OBVIOUS
<1> DEFINE n == hi - lo + 1
           Ix(i) == IF lo + i = 2 THEN 1 ELSE lo + i - 2
           r == [i \in 1..(n + 1) |-> g[Ix(i)].range]
           f == Closings(s)
<1>1. /\ lo \in 1..Len(g) /\ hi \in 1..Len(g) /\ lo <= hi /\ Len(g) \in Nat
      /\ first = IF lo = 1 THEN 1 ELSE lo - 1
  BY LenProperties DEF SpanOf, GeometryFrom
<1>2. n \in Nat /\ n >= 1
  BY <1>1
<1>3. /\ \A i \in 1..Len(g) : g[i] \in Geoms
      /\ \A i \in 1..Len(g) : i > 1 /\ g[i].valid /\ g[i - 1].valid
           => g[i].closing = ((g[i - 1].range - g[i].range) * Second) \div GridStep
      /\ g[1].closing = 0
  <2>1. g \in Seq(Geoms) /\ 1 \in 1..Len(g)
    BY <1>1 DEF GeometryFrom
  <2>2. \A i \in 1..Len(g) : g[i] \in Geoms
    BY <2>1, ElementOfSeq
  <2> QED BY <2>1, <2>2 DEF GeometryFrom
<1>4. /\ Len(s) = n /\ DOMAIN s = 1..n
      /\ \A k \in 1..n : s[k] = g[lo + k - 1]
  BY LenProperties DEF IsPart
<1>5. \A i \in 1..(n + 1) : Ix(i) \in 1..Len(g) /\ Ix(i) \in first..hi
  BY <1>1
<1>6. \A i \in 1..(n + 1) : r[i] = g[Ix(i)].range /\ r[i] \in Nat
  <2>1. \A i \in 1..Len(g) : g[i].range \in Nat
    BY <1>3 DEF Geoms
  <2> HIDE DEF n, Ix
  <2> QED BY <1>5, <2>1
<1>7. ASSUME NEW k \in 1..n
      PROVE  f[k] = g[lo + k - 1].closing /\ lo + k - 1 \in 1..Len(g) /\ g[lo + k - 1].valid
  <2>1. lo + k - 1 \in 1..Len(g) /\ lo + k - 1 \in first..hi
    BY <1>1
  <2>2. g[lo + k - 1].valid
    BY <2>1
  <2>3. f[k] = IF s[k].valid THEN s[k].closing ELSE 0
    <3> HIDE DEF n
    <3> QED BY <1>4 DEF Closings
  <2>4. s[k] = g[lo + k - 1]
    BY <1>4
  <2> HIDE DEF n, f
  <2> QED BY <2>1, <2>2, <2>3, <2>4
<1>8. f \in Seq(Int) /\ Len(f) = n
  <2>1. \A k \in 1..n : f[k] \in Int
    <3>1. \A i \in 1..Len(g) : g[i].closing \in Int
      BY <1>3 DEF Geoms
    <3> HIDE DEF n, f
    <3> QED BY <1>7, <3>1
  <2>2. f = [k \in 1..n |-> f[k]]
    <3> HIDE DEF n
    <3> QED BY <1>4 DEF Closings
  <2> HIDE DEF n, f
  <2> QED BY <1>2, <2>1, <2>2
<1>9. ASSUME NEW k \in 1..n
      PROVE  f[k] = ((r[k] - r[k + 1]) * Second) \div GridStep
  <2> DEFINE j == lo + k - 1
  <2>1. f[k] = g[j].closing /\ j \in 1..Len(g) /\ g[j].valid
    BY <1>7
  <2>2. k \in 1..(n + 1) /\ k + 1 \in 1..(n + 1) /\ Ix(k + 1) = j
    BY <1>1
  <2>3. r[k] = g[Ix(k)].range /\ r[k + 1] = g[j].range /\ r[k] \in Nat /\ r[k + 1] \in Nat
    <3> HIDE DEF n, j, r, Ix
    <3> QED BY <1>6, <2>2
  <2>4. CASE j = 1
    <3>1. Ix(k) = 1
      BY <1>1, <2>4
    <3>2. r[k] - r[k + 1] = 0
      <4> HIDE DEF Ix, r, n, j
      <4> QED BY <2>3, <2>4, <3>1
    <3>3. (0 * Second) \div GridStep = 0
      BY SceneAssumption, SyncAssumption
    <3> HIDE DEF Ix, r, n, j, f
    <3> QED BY <1>3, <2>1, <2>4, <3>2, <3>3
  <2>5. CASE j # 1
    <3>1. Ix(k) = j - 1 /\ j > 1 /\ Ix(k) \in first..hi
      BY <1>1, <2>1, <2>5
    <3>2. g[j - 1].valid
      <4> HIDE DEF Ix, r, n, j
      <4> QED BY <3>1
    <3> HIDE DEF Ix, r, n, j, f
    <3> QED BY <1>3, <2>1, <2>3, <3>1, <3>2
  <2> QED BY <2>4, <2>5
<1>10. r[1] = g[first].range /\ r[n + 1] = g[hi].range
  <2>1. Ix(1) = first /\ Ix(n + 1) = hi /\ 1 \in 1..(n + 1) /\ n + 1 \in 1..(n + 1)
    BY <1>1, <1>2
  <2> HIDE DEF Ix, n, r
  <2> QED BY <1>6, <2>1
<1> HIDE DEF f, r, n
<1>11. StepsOf(f, r)
  BY <1>6, <1>8, <1>9 DEF StepsOf
<1>12. Telescopes(f, r)
  BY <1>8, <1>11, SumTelescopes
<1>13. SumSeq(f) \in Int
  BY <1>8, SumInt
<1> QED BY <1>4, <1>8, <1>10, <1>12, <1>13 DEF Telescopes, f

ClassSound(seg, g, first, lo, hi) ==
  /\ seg.class = "approach" => g[hi].range < g[first].range
  /\ seg.class = "recede" => g[hi].range > g[first].range
  /\ seg.class = "pass_by" => seg.range_min < g[lo].range
  /\ seg.class # "unknown" => seg.at_closest = seg.range_min

LEMMA SegmentClassed ==
  \A g, from, p, lo, hi, first :
    /\ ExactEnough /\ GeometryFrom(g, from) /\ from \in Nat /\ p \in Periods
    /\ SpanOf(g, p, lo, hi, first)
    /\ \A i \in first..hi : g[i].valid
    => ClassSound(Segment(p, g), g, first, lo, hi)
<1> SUFFICES ASSUME NEW g, NEW from, NEW p, NEW lo, NEW hi, NEW first,
                    ExactEnough, GeometryFrom(g, from), from \in Nat, p \in Periods,
                    SpanOf(g, p, lo, hi, first),
                    \A i \in first..hi : g[i].valid
             PROVE  ClassSound(Segment(p, g), g, first, lo, hi)
  OBVIOUS
<1> DEFINE s == InsideOf(g, p)
           r == Ranges(s)
           n == Len(r)
           closing == SumSeq(Closings(s))
           x == Segment(p, g)
           d == g[first].range - g[hi].range
           m == Min(ToSet(r))
<1>1. g \in Seq(Geoms) /\ Increasing(g)
  BY GeometryIncreases DEF GeometryFrom
<1>2. /\ lo \in 1..Len(g) /\ hi \in 1..Len(g) /\ lo <= hi /\ Len(g) \in Nat
      /\ first = IF lo = 1 THEN 1 ELSE lo - 1
  BY <1>1, LenProperties DEF SpanOf
<1>3. IsPart(s, g, lo, hi)
  BY <1>1, InsideIs
<1>4. /\ s \in Seq(Geoms) /\ Len(s) = hi - lo + 1
      /\ \A k \in 1..(hi - lo + 1) : s[k] = g[lo + k - 1]
  BY <1>3 DEF IsPart
<1> HIDE DEF s
<1>5. \A k \in 1..Len(s) : s[k].valid
  <2>1. ASSUME NEW k \in 1..Len(s) PROVE s[k].valid
    <3>1. lo + k - 1 \in first..hi /\ k \in 1..(hi - lo + 1)
      BY <1>2, <1>4
    <3> QED BY <1>4, <3>1
  <2> QED BY <2>1
<1>6. RangesOf(s, r)
  BY <1>4, <1>5, RangesAre
<1>7. /\ r \in Seq(Nat) /\ n = hi - lo + 1 /\ n >= 1 /\ n \in Nat /\ Len(s) = n
      /\ r[1] = g[lo].range /\ r # << >> /\ s # << >>
  <2> HIDE DEF r
  <2>1. r \in Seq(Nat) /\ Len(r) = Len(s) /\ \A k \in 1..Len(s) : r[k] = s[k].range
    BY <1>6 DEF RangesOf
  <2>2. Len(s) >= 1 /\ Len(s) \in Nat /\ 1 \in 1..Len(s) /\ 1 \in 1..(hi - lo + 1) /\ lo + 1 - 1 = lo
    BY <1>2, <1>4
  <2>3. s[1] = g[lo]
    BY <1>4, <2>2
  <2>4. r # << >> /\ s # << >>
    BY <2>1, <2>2
  <2> QED BY <1>4, <2>1, <2>2, <2>3, <2>4
<1>8. /\ m \in Nat
      /\ FirstMin(r) > 1 => m < r[1]
      /\ \E k \in 1..Len(r) : r[k] = m
  BY <1>7, LeastIs
<1>9. /\ x.class = Classify(s) /\ x.range_min = m /\ x.at_closest = m
  <2>1. /\ x.class = Classify(s)
        /\ x.range_min = IF r # << >> THEN m ELSE 0
        /\ x.at_closest = IF r # << >> THEN Closest(s).range ELSE 0
    BY SegmentIs, Zenon DEF s
  <2>2. Closest(s).range = m
    BY <1>4, <1>5, <1>6, <1>7, ClosestIs
  <2> HIDE DEF r, m, x
  <2> QED BY <1>7, <2>1, <2>2
<1>10. /\ closing * GridStep <= d * Second /\ d * Second <= closing * GridStep + n * GridStep
       /\ Second % GridStep = 0 => closing * GridStep = d * Second
       /\ closing \in Int
  <2>1. /\ closing * GridStep <= d * Second /\ d * Second <= closing * GridStep + Len(s) * GridStep
        /\ Second % GridStep = 0 => closing * GridStep = d * Second
        /\ closing \in Int
    BY <1>3, ClosingsTelescope
  <2> QED BY <1>7, <2>1
<1>11. g[first].range \in Nat /\ g[hi].range \in Nat /\ g[lo].range \in Nat /\ d \in Int
  <2>1. first \in 1..Len(g)
    BY <1>2
  <2>2. \A i \in 1..Len(g) : g[i].range \in Nat
    <3>1. \A i \in 1..Len(g) : g[i] \in Geoms
      BY <1>1, ElementOfSeq
    <3> QED BY <3>1 DEF Geoms
  <2> QED BY <1>2, <2>1, <2>2
<1>12. /\ Classify(s) = "approach" => n # 0 /\ 2 * closing > n * Metre
       /\ Classify(s) = "recede" => n # 0 /\ 2 * closing < -(n * Metre)
       /\ Classify(s) = "pass_by" => n # 0 /\ FirstMin(r) - 1 > n \div 5
  BY ClassNeeds, Zenon
<1> HIDE DEF closing, x, r, n
<1>13. /\ 2 * closing > n * Metre => d > 0
       /\ n # 0 /\ 2 * closing < -(n * Metre) /\ ExactEnough => d < 0
  <2> HIDE DEF d
  <2> QED BY <1>7, <1>10, <1>11, EndsOf
<1>14. x.class = "approach" => g[hi].range < g[first].range
  BY <1>9, <1>11, <1>12, <1>13
<1>15. x.class = "recede" => g[hi].range > g[first].range
  BY <1>9, <1>11, <1>12, <1>13
<1>16. x.class = "pass_by" => x.range_min < g[lo].range
  <2>1. SUFFICES ASSUME x.class = "pass_by" PROVE m < r[1]
    BY <1>7, <1>9
  <2>2. FirstMin(r) - 1 > n \div 5
    BY <1>9, <1>12, <2>1
  <2>3. n \div 5 >= 0 /\ n \div 5 \in Int
    BY <1>7
  <2>4. FirstMin(r) \in Int
    BY <1>7, FirstMinTyped
  <2>5. FirstMin(r) > 1
    <3> DEFINE a == FirstMin(r)
               b == n \div 5
    <3>1. a - 1 > b /\ b >= 0 /\ a \in Int /\ b \in Int
      BY <2>2, <2>3, <2>4
    <3> HIDE DEF a, b
    <3>2. a > 1
      BY <3>1
    <3> QED BY <3>2 DEF a
  <2> QED BY <1>8, <2>5
<1> QED BY <1>9, <1>14, <1>15, <1>16 DEF ClassSound, x

(* A class says what the ranges did (scene_builder.cpp:59), if a metre is  *)
(* two units of length or more, or the grid divides the second: the ranges *)
(* and speeds of the code are real numbers, those of the model are whole,  *)
(* and a division loses up to one unit in each sample.                     *)
THEOREM ClassesHold ==
  ASSUME Metre >= 2 \/ Second % GridStep = 0
  PROVE  PipelineSpec => []ClassesAreTrue
<1>1. DataInv => ClassesAreTrue
  <2> DEFINE seg(k) == scenes.segments[k]
             before(k) == BeforeOf(geometry, seg(k))
             within(k) == WithinOf(geometry, seg(k))
             first(k) == FirstOf(geometry, seg(k))
             last(k) == Max(within(k))
  <2>1. SUFFICES ASSUME DataInv, AfterScenes, NEW k \in DOMAIN scenes.segments,
                        within(k) # {}, \A i \in first(k)..last(k) : geometry[i].valid
                 PROVE  ClassSound(seg(k), geometry, first(k), Min(within(k)), last(k))
    BY Zenon DEF ClassesAreTrue, ClassSound, BeforeOf, WithinOf, FirstOf
  <2> HIDE DEF seg, within, first, last
  <2>2. /\ SessionIn /\ validation = Report /\ synced = SyncResult
        /\ samples = SampleResult /\ geometry = Geometry(samples) /\ scenes = SceneResult
    BY <2>1 DEF DataInv, AfterScenes, DataStages, SceneStages
  <2>3. AlignedEvents \in Seq(EventRecords)
    BY <2>2, AlignedEventsTyped
  <2>4. /\ GeometryFrom(geometry, ValidRange.from) /\ ValidRange.from \in Nat
        /\ geometry \in Seq(Geoms) /\ Increasing(geometry)
    <3>1. GeometryFrom(geometry, ValidRange.from) /\ ValidRange.from \in Nat
      BY <2>2, GeometryOfSession
    <3> QED BY <3>1, GeometryIncreases DEF GeometryFrom
  <2> DEFINE found == SceneEvents(AlignedEvents, geometry)
             q == LongPeriods(found, geometry)
             x == Segment(q[k], geometry)
             y == Linked(x, found)
  <2>5. seg(k) = y /\ k \in DOMAIN q
    <3>1. /\ DOMAIN scenes.segments = DOMAIN q
          /\ \A i \in DOMAIN q : scenes.segments[i] = Linked(Segment(q[i], geometry), found)
      BY <2>2, SegmentsAre, ZenonT(40) DEF SceneResult
    <3> QED BY <2>1, <3>1, Zenon DEF seg
  <2>6. /\ y.from = q[k].from /\ y.to = q[k].to /\ y.class = x.class
        /\ y.range_min = x.range_min /\ y.at_closest = x.at_closest
    <3>1. LinkSound(q[k], x, y, found)
      BY LinkedIs
    <3> HIDE DEF x, y, q
    <3> QED BY <3>1, Zenon DEF LinkSound
  <2>7. q[k] \in Periods
    <3> DEFINE S == FoundSet(AlignedEvents, geometry)
               p == SirenPeriods(found, geometry)
    <3>1. found \in Seq(S) /\ Timed(S)
      BY <2>3, FoundTyped
    <3>2. geometry # << >> => geometry[Len(geometry)].t \in Int
      <4>1. geometry # << >> => Len(geometry) \in 1..Len(geometry)
        BY <2>4, EmptySeq, LenProperties
      <4> QED BY <2>4, <4>1 DEF Increasing
    <3> HIDE DEF found, S
    <3>3. p \in Seq(Periods)
      BY <3>1, <3>2, PeriodsTyped
    <3>4. q = Selected(p, LongOnly(p))
      BY DEF LongPeriods
    <3> HIDE DEF p, q
    <3>5. q \in Seq(Periods)
      BY <3>3, <3>4, SelectedType
    <3> QED BY <2>5, <3>5, ElementOfSeq, LenProperties
  <2> HIDE DEF q, x, y, found
  <2>8. seg(k).from = q[k].from /\ seg(k).to = q[k].to
    BY <2>5, <2>6
  <2>9. /\ within(k) = WithinOf(geometry, q[k]) /\ first(k) = FirstOf(geometry, q[k])
        /\ last(k) = Max(WithinOf(geometry, q[k]))
    BY <2>8, Zenon DEF within, first, last, WithinOf, BeforeOf, FirstOf
  <2>10. SpanOf(geometry, q[k], Min(within(k)), last(k), first(k))
    BY <2>1, <2>4, <2>7, <2>9, PeriodSpans
  <2>11. ClassSound(x, geometry, first(k), Min(within(k)), last(k))
    BY <2>1, <2>4, <2>7, <2>10, SegmentClassed DEF ExactEnough, x
  <2> QED BY <2>5, <2>6, <2>11 DEF ClassSound
<1>2. PipelineSpec => []DataInv
  BY ResultsAreOfTheLogs
<1> QED BY <1>1, <1>2, PTL
=============================================================================
