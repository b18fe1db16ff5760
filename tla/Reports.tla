------------------------------ MODULE Reports -------------------------------
(***************************************************************************)
(* The reports about quality and events (offline/src/reports): scores of   *)
(* the streams, the verdict whether a session is of use for training, and  *)
(* the table of events with the segments linked to them.                   *)
(*                                                                         *)
(* A score is a fraction [num, den].                                       *)
(***************************************************************************)
EXTENDS LogValidation

Least(a, b) == Min({a, b})

(* Deviation: lost frames do not lower the score.                          *)
StreamScoreOfReceived(stats) ==
  LET hundreds == Max({1, stats.total \div 100})
  IN  IF ~stats.file_ok \/ stats.total = 0 THEN [num |-> 0, den |-> 1]
      ELSE [num |-> (IF stats.backward > 0 THEN 9 ELSE 10)
                    * (hundreds - Least(stats.audio + stats.telemetry, hundreds)),
            den |-> 10 * hundreds]

(* stream_score: the product of 1 minus the loss, 0.9 for steps back in    *)
(* time, and 1 minus the gaps per hundred packets.                         *)
StreamScore(stats) ==
  LET hundreds == Max({1, stats.total \div 100})
  IN  IF ~stats.file_ok \/ stats.total = 0 THEN [num |-> 0, den |-> 1]
      ELSE [num |-> (stats.total - Least(stats.lost, stats.total))
                    * (IF stats.backward > 0 THEN 9 ELSE 10)
                    * (hundreds - Least(stats.audio + stats.telemetry, hundreds)),
            den |-> stats.total * 10 * hundreds]

(* The mean over the three ego streams and the two source streams, those   *)
(* that are there; all of one log have one score.                          *)
OverallScore(ego, source) ==
  LET e == StreamScore(ego)
      s == StreamScore(source)
      ego_part    == IF ego.file_ok THEN 3 ELSE 0
      source_part == IF source.file_ok THEN 2 ELSE 0
  IN  IF ego_part + source_part = 0 THEN [num |-> 0, den |-> 1]
      ELSE [num |-> ego_part * e.num * s.den + source_part * s.num * e.den,
            den |-> (ego_part + source_part) * e.den * s.den]

(* build_data_quality_report: usable from a score of 0.7 and a valid       *)
(* fraction of 0.8.                                                        *)
FractionAtLeast(rpt, p, q) ==
  IF rpt.total > 0 THEN q * rpt.valid >= p * rpt.total ELSE p = 0

DataQuality(rpt) ==
  LET score == OverallScore(rpt.ego, rpt.source)
  IN  [usable |-> 10 * score.num >= 7 * score.den /\ FractionAtLeast(rpt, 4, 5),
       flags |-> {flag \in {"ego_crc_errors", "source_crc_errors", "source_missing",
                            "low_valid_fraction"} :
                    CASE flag = "ego_crc_errors" -> rpt.ego.damaged > 0
                      [] flag = "source_crc_errors" -> rpt.source.damaged > 0
                      [] flag = "source_missing" -> ~rpt.source.file_ok
                      [] OTHER -> ~FractionAtLeast(rpt, 1, 2)}]

(* build_events_report                                                     *)
Classes == {"unknown", "approach", "pass_by", "recede", "stationary"}

EventsReport(events, segments) ==
  LET Count(P(_)) == Cardinality({i \in DOMAIN segments : P(segments[i])})
  IN  [rows |-> [i \in DOMAIN events |-> {k \in DOMAIN segments : segments[k].event = i}],
       segments |-> Len(segments),
       by_class |-> [class \in Classes |-> Count(LAMBDA s : s.class = class)],
       linked |-> Count(LAMBDA s : s.event # 0),
       unlinked |-> Count(LAMBDA s : s.event = 0)]
=============================================================================
