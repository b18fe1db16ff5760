------------------------------ MODULE TimeSync ------------------------------
(***************************************************************************)
(* Synchronisation of the source's clock with the ego clock                *)
(* (offline/src/sync/time_sync.cpp): source time minus offset is ego time. *)
(* The offset is searched by correlating the speeds of the two GNSS logs,  *)
(* or else by matching sirens with audio blocks.                           *)
(*                                                                         *)
(* The unit of time is the step of the search (0.1 s in the code).  A      *)
(* confidence is (c + 1) / 2 for a correlation c; an estimate holds c as   *)
(* num / sqrt(den), so that confidences are compared in whole numbers.     *)
(***************************************************************************)
EXTENDS Lists

CONSTANTS
  Second,        (* steps in the grid period of one second                 *)
  Heard,         (* a siren and an audio block closer than this match      *)
  SearchWindow   (* max_offset_search_s                                    *)

ASSUME SyncAssumption == {Second, Heard, SearchWindow} \subseteq Nat /\ Second > 0

Abs(n) == IF n < 0 THEN -n ELSE n

NoEstimate == [method |-> "none", offset |-> 0, num |-> -1, den |-> 1]

(* num / sqrt(den) against p / q and against another estimate.             *)
SignedSquare(n) == IF n < 0 THEN -(n * n) ELSE n * n
AtLeast(e, p, q) == SignedSquare(e.num) * q * q >= SignedSquare(p) * e.den
Better(e, f) == SignedSquare(e.num) * f.den > SignedSquare(f.num) * e.den

(* min_confidence is 0.7: a correlation of 2/5; half of it is -3/10.       *)
Confident(e) == AtLeast(e, 2, 5)
Doubtful(e)  == AtLeast(e, -3, 10)

-----------------------------------------------------------------------------
(* The speed at the points of the grid: the last sample's before each.     *)
Resample(points, start, n) ==
  [i \in 1..n |->
     LET past == {j \in 2..Len(points) : \A k \in 2..j : points[k].t <= start + (i - 1) * Second}
     IN  points[Max(past \cup {1})].speed]

(* n times the deviation from the mean.                                    *)
Deviations(f) == [i \in DOMAIN f |-> Len(f) * f[i] - SumSeq(f)]
Dot(f, g) == SumSeq([i \in DOMAIN f |-> f[i] * g[i]])

Shifted(points, offset) == [i \in DOMAIN points |-> [points[i] EXCEPT !.t = @ - offset]]

(* The correlation of the two logs when the source is shifted by offset;   *)
(* den = 0 when one of them shows no change of speed.                      *)
Correlation(ego, source, offset) ==
  LET n == ((ego[Len(ego)].t - ego[1].t) \div Second) + 1
      x == Deviations(Resample(ego, ego[1].t, n))
      y == Deviations(Resample(Shifted(source, offset), ego[1].t, n))
  IN  [method |-> "gnss", offset |-> offset, num |-> Dot(x, y), den |-> Dot(x, x) * Dot(y, y)]

(* The first of the best trials.                                           *)
Best(e, f) == IF Better(f, e) THEN f ELSE e

Good(p) == p.fix

(* Deviation: the source is shifted the other way. *)
GnssEstimateReversed(ego, source) ==
  LET e == Keep(ego, Good)
      s == Keep(source, Good)
      Defined(c) == c.den # 0
      trials == Keep([k \in 1..(2 * SearchWindow + 1) |->
                             [Correlation(e, s, SearchWindow + 1 - k)
                                EXCEPT !.offset = k - 1 - SearchWindow]], Defined)
  IN  IF e = << >> \/ s = << >> THEN NoEstimate
      ELSE IF e[Len(e)].t - e[1].t < 4 * Second \/ trials = << >> THEN NoEstimate
      ELSE FoldLeft(Best, trials[1], trials)

(* sync_gnss_xcorr, without its estimate of the drift, which is reported   *)
(* and not used.                                                           *)
GnssEstimate(ego, source) ==
  LET e == Keep(ego, Good)
      s == Keep(source, Good)
      Defined(c) == c.den # 0
      trials == Keep([k \in 1..(2 * SearchWindow + 1) |->
                             Correlation(e, s, k - 1 - SearchWindow)], Defined)
  IN  IF e = << >> \/ s = << >> THEN NoEstimate
      ELSE IF e[Len(e)].t - e[1].t < 4 * Second \/ trials = << >> THEN NoEstimate
      ELSE FoldLeft(Best, trials[1], trials)

(* How many sirens begin near an audio block.                              *)
Matches(sirens, audio, offset) ==
  Cardinality({i \in DOMAIN sirens :
    \E j \in DOMAIN audio : Abs(audio[j] - (sirens[i].t - offset)) < Heard})

(* sync_event_audio_fallback: confidence is 0.8 of the matched share.      *)
AudioEstimate(events, audio) ==
  LET Siren(e) == e.event = "on"
      sirens == Keep(events, Siren)
      n == Len(sirens)
      offsets == (-SearchWindow)..SearchWindow
      most == Max({Matches(sirens, audio, o) : o \in offsets})
      first == Min({o \in offsets : Matches(sirens, audio, o) = most})
  IN  IF sirens = << >> \/ audio = << >> \/ most = 0 THEN NoEstimate
      ELSE [method |-> "audio", offset |-> first,
            num |-> 8 * most - 5 * n, den |-> 25 * n * n]

-----------------------------------------------------------------------------
(* LogSynchroniser::synchronise.  The source's points are chosen by their  *)
(* own clock, which is not aligned yet.                                    *)
Synchronise(gps, gnss, events, audio, range) ==
  LET Inside(p) == p.t >= range.from /\ p.t <= range.to
      primary  == GnssEstimate(Keep(gps, Inside), Keep(gnss, Inside))
      fallback == AudioEstimate(events, audio)
      chosen   == IF ~Confident(primary) /\ Better(fallback, primary) THEN fallback ELSE primary
  IN  [offset |-> chosen.offset, method |-> chosen.method,
       status |-> IF Confident(chosen) THEN "ok"
                  ELSE IF Doubtful(chosen) THEN "degraded" ELSE "failed"]

NoSync == [offset |-> 0, method |-> "none", status |-> "failed"]

(* apply_offset                                                            *)
AlignEvents(events, offset) ==
  [i \in DOMAIN events |-> [events[i] EXCEPT !.at = events[i].t - offset]]
=============================================================================
