--------------------------- MODULE LogValidation ----------------------------
(***************************************************************************)
(* The validation report of a session (offline/src/validate and the scan   *)
(* accumulator of offline/src/pipeline/pipeline.cpp): counts of what is    *)
(* lost and damaged in a stream, the time ranges in which it is valid, and *)
(* the verdict.                                                            *)
(***************************************************************************)
EXTENDS EgoLog

CONSTANTS
  MaxJump,       (* max_timestamp_jump_ms                                  *)
  AudioGap,      (* audio_gap_factor times the period of an audio block    *)
  TelemetryGap,  (* telemetry_gap_ms                                       *)
  ErrorLoss,     (* a gap of more frames is an error: 10 in the code       *)
  MonotonicLimit,(* more steps back in time are a warning: 5 in the code   *)
  MinValid       (* min_valid_duration_s                                   *)

ASSUME ValidationAssumption ==
  {MaxJump, AudioGap, TelemetryGap, ErrorLoss, MonotonicLimit, MinValid} \subseteq Nat

NoStats ==
  [file_ok |-> TRUE, total |-> 0, valid |-> 0, damaged |-> 0, lost |-> 0,
   backward |-> 0, stamps |-> 0, audio |-> 0, telemetry |-> 0,
   gaps |-> {}, t_first |-> 0, t_last |-> 0]

Gap(type, t, length, severity) ==
  [type |-> type, t |-> t, length |-> length, severity |-> severity]

GapIf(condition, gap) == IF condition THEN {gap} ELSE {}
CountIf(condition) == IF condition THEN 1 ELSE 0

SeqSeverity(lost) == IF lost > ErrorLoss THEN "error" ELSE "warning"

(* Frame types 1 and 3 mean audio and IMU in the legacy format only.       *)
IsAudio(raw) == ~raw.contract /\ raw.kind = "audio"
IsImu(raw)   == ~raw.contract /\ raw.kind = "imu"

-----------------------------------------------------------------------------
(* ScanAccumulator: the counts, and what it remembers of earlier frames.   *)
NoFrames ==
  [stats |-> NoStats, first |-> TRUE, seq |-> 0, t |-> 0, audio |-> 0, imu |-> 0]

(* Deviation: a gap is counted as one frame.                               *)
LostBeforeOnce(a, raw) == IF ~a.first /\ raw.seq > a.seq + 1 THEN 1 ELSE 0

(* Deviation: the frame after the gap is counted as well.                  *)
LostBeforeAndOne(a, raw) ==
  IF ~a.first /\ raw.seq > a.seq + 1 THEN raw.seq - a.seq ELSE 0

(* Counted from the frame before, be it late or not.                       *)
LostBefore(a, raw) ==
  IF ~a.first /\ raw.seq > a.seq + 1 THEN raw.seq - a.seq - 1 ELSE 0

Feed(a, raw) ==
  IF ~Accepted(raw)
  THEN [a EXCEPT !.stats.total = @ + 1, !.stats.damaged = @ + 1, !.stats.lost = @ + 1]
  ELSE
    LET lost     == LostBefore(a, raw)
        jump     == raw.t - a.t
        back     == ~a.first /\ jump < 0
        far      == ~a.first /\ jump > MaxJump
        silence  == IsAudio(raw) /\ a.audio # 0 /\ raw.t - a.audio > AudioGap
        pause    == IsImu(raw) /\ a.imu # 0 /\ raw.t - a.imu > TelemetryGap
    IN  [first |-> FALSE, seq |-> raw.seq, t |-> raw.t,
         audio |-> IF IsAudio(raw) THEN raw.t ELSE a.audio,
         imu   |-> IF IsImu(raw) THEN raw.t ELSE a.imu,
         stats |-> [a.stats EXCEPT
           !.total = @ + 1, !.valid = @ + 1, !.lost = @ + lost,
           !.backward = @ + CountIf(back),
           !.stamps = @ + CountIf(raw.t = 0) + CountIf(far),
           !.audio = @ + CountIf(silence), !.telemetry = @ + CountIf(pause),
           !.gaps = @ \cup GapIf(lost > 0, Gap("seq", raw.t, jump, SeqSeverity(lost)))
                      \cup GapIf(back, Gap("timestamp", raw.t, -jump, "warning"))
                      \cup GapIf(far, Gap("timestamp", raw.t, jump, "warning"))
                      \cup GapIf(silence, Gap("audio", raw.t, raw.t - a.audio, "warning"))
                      \cup GapIf(pause, Gap("telemetry", raw.t, raw.t - a.imu, "warning")),
           !.t_first = IF a.first \/ raw.t < @ THEN raw.t ELSE @,
           !.t_last = IF raw.t > @ THEN raw.t ELSE @]]

Accumulate(raws, file_ok) ==
  [FoldLeft(Feed, NoFrames, raws).stats EXCEPT !.file_ok = file_ok]

-----------------------------------------------------------------------------
(* The frames of the stream at the positions P that come too long after    *)
(* the one before; a frame of time 0 is not remembered.                    *)
LastOf(v, P) == IF P = {} THEN 0 ELSE v[Max(P)].t
Pause(v, P, i) == v[i].t - LastOf(v, {j \in P : j < i})
Pauses(v, P, limit) == {i \in P : LastOf(v, {j \in P : j < i}) # 0 /\ Pause(v, P, i) > limit}

(* LogValidator::validate_ego, the validator the accumulator replaced: a   *)
(* scan of the log, a pass over the sequence numbers of its valid frames,  *)
(* and a comparison with the frame count of the manifest.  Each count is   *)
(* the number of frames i it is increased for.                             *)
ValidateEgo(chunks, packet_count) ==
  LET raws     == Scan(chunks)
      IsValid(raw) == ParseStatus(raw) = "ok"
      v        == Keep(raws, IsValid)
      bad      == {i \in DOMAIN raws : ParseStatus(raws[i]) # "ok"}
      later    == DOMAIN v \ {1}
      Jump(i)  == v[i].t - v[i - 1].t
      Lost(i)  == IF i \in later THEN Max({0, v[i].seq - v[i - 1].seq - 1}) ELSE 0
      zero     == {i \in DOMAIN v : v[i].t = 0}
      back     == {i \in later : Jump(i) < 0}
      far      == {i \in later : Jump(i) > MaxJump}
      skipped  == {i \in later : Lost(i) > 0}
      audio    == {i \in DOMAIN v : IsAudio(v[i])}
      imu      == {i \in DOMAIN v : IsImu(v[i])}
      times    == {v[i].t : i \in DOMAIN v}
  IN  IF \E i \in DOMAIN chunks : ~chunks[i].present THEN [NoStats EXCEPT !.file_ok = FALSE]
      ELSE
        [file_ok |-> TRUE, total |-> Len(raws), valid |-> Len(v),
         damaged |-> Cardinality({i \in bad : ParseStatus(raws[i]) = "crc"}),
         lost |-> Cardinality(bad) + SumSeq([i \in DOMAIN v |-> Lost(i)])
                  + Max({0, packet_count - Len(v)}),
         backward |-> Cardinality(back), stamps |-> Cardinality(zero) + Cardinality(far),
         audio |-> Cardinality(Pauses(v, audio, AudioGap)),
         telemetry |-> Cardinality(Pauses(v, imu, TelemetryGap)),
         gaps |-> {Gap("damage", raws[i].t, 0, "error") : i \in bad}
                  \cup {Gap("timestamp", 0, 0, "error") : i \in zero}
                  \cup {Gap("timestamp", v[i].t, -Jump(i), "warning") : i \in back}
                  \cup {Gap("timestamp", v[i].t, Jump(i), "warning") : i \in far}
                  \cup {Gap("seq", v[i].t, Jump(i), SeqSeverity(Lost(i))) : i \in skipped}
                  \cup {Gap("audio", v[i].t, Pause(v, audio, i), "warning")
                          : i \in Pauses(v, audio, AudioGap)}
                  \cup {Gap("telemetry", v[i].t, Pause(v, imu, i), "warning")
                          : i \in Pauses(v, imu, TelemetryGap)},
         t_first |-> IF v = << >> THEN 0 ELSE Min(times),
         t_last |-> Max(times \cup {0})]

-----------------------------------------------------------------------------
Span(from, to) == [from |-> from, to |-> to]
Duration(r) == r.to - r.from
LongEnough(r) == Duration(r) >= MinValid

(* The span of a stream, cut at each error.                                *)
StreamRanges(stats) ==
  LET errors == {g.t : g \in {g \in stats.gaps : g.severity = "error"}}
      cuts   == Ascending({t \in errors : t > stats.t_first})
      points == <<stats.t_first>> \o cuts \o <<stats.t_last>>
      pieces == [i \in 1..(Len(points) - 1) |-> Span(points[i], points[i + 1])]
  IN  IF ~stats.file_ok \/ stats.t_last <= stats.t_first THEN << >>
      ELSE Keep(pieces, LongEnough)

(* Deviation: the overlap is not checked for its length. *)
ValidRangesAnyLength(ego, source) ==
  LET er == StreamRanges(ego)
      sr == StreamRanges(source)
      Overlap(a, b) == Span(Max({a.from, b.from}), Min({a.to, b.to}))
      pairs  == FlattenSeq([i \in DOMAIN er |-> [j \in DOMAIN sr |-> Overlap(er[i], sr[j])]])
      Holds(r) == r.to > r.from
      common == Keep(pairs, Holds)
  IN  IF common = << >> THEN er ELSE common

(* The time both streams are valid, or the ego stream alone when there is  *)
(* no such time.  The two clocks are not yet aligned.                      *)
ValidRanges(ego, source) ==
  LET er == StreamRanges(ego)
      sr == StreamRanges(source)
      Overlap(a, b) == Span(Max({a.from, b.from}), Min({a.to, b.to}))
      pairs  == FlattenSeq([i \in DOMAIN er |-> [j \in DOMAIN sr |-> Overlap(er[i], sr[j])]])
      Holds(r) == r.to > r.from /\ LongEnough(r)
      common == Keep(pairs, Holds)
  IN  IF common = << >> THEN er ELSE common

TotalDuration(ranges) == SumSeq([i \in DOMAIN ranges |-> Duration(ranges[i])])

HasErrors(stats) == \E g \in stats.gaps : g.severity = "error"

Integrity(ego, source, ranges) ==
  IF ~ego.file_ok \/ TotalDuration(ranges) < MinValid THEN "failed"
  ELSE IF \/ ego.damaged > 0 \/ ego.backward > MonotonicLimit
          \/ HasErrors(ego) \/ HasErrors(source)
       THEN "warning" ELSE "ok"

(* LogValidator::build_report.                                             *)
ValidationReport(ego, source) ==
  LET ranges == ValidRanges(ego, source)
  IN  [ego |-> ego, source |-> source, ranges |-> ranges,
       integrity |-> Integrity(ego, source, ranges),
       valid |-> TotalDuration(ranges), total |-> ego.t_last - ego.t_first]
=============================================================================
