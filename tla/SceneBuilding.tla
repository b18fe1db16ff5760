--------------------------- MODULE SceneBuilding ----------------------------
(***************************************************************************)
(* From synchronised logs to scenes (offline/src/align, offline/src/scene, *)
(* offline/src/finalize): the samples of all streams on one time grid, the *)
(* geometry between the car and the sound source at each of them, and the  *)
(* segments during which the siren sounds, each with its class.            *)
(*                                                                         *)
(* The car and the source move on a line; a range is a distance on it, and *)
(* Metre is one metre in its unit.  Azimuths, velocities and attitude are  *)
(* left out: they are copied beside the values kept here.                  *)
(***************************************************************************)
EXTENDS TimeSync

CONSTANTS
  GridStep,        (* grid_dt_ms                                           *)
  JoinTolerance,   (* join_tolerance_ms                                    *)
  SegmentMin,      (* segment_min_duration_ms                              *)
  Metre

ASSUME SceneAssumption ==
  {GridStep, JoinTolerance, SegmentMin, Metre} \subseteq Nat /\ GridStep > 0

(* TimeGrid::build.                                                        *)
Ticks(range) ==
  IF range.to < range.from THEN << >>
  ELSE [k \in 1..((range.to - range.from) \div GridStep + 1) |-> range.from + (k - 1) * GridStep]

(* interpolate_gnss: linear between the samples around t; the fix is that  *)
(* of the earlier one.  Outside the samples the nearest is held.           *)
Interpolate(points, t) ==
  LET later == {i \in DOMAIN points : points[i].t >= t}
      b == points[Min(later)]
      a == points[Min(later) - 1]
  IN  IF Len(points) = 1 \/ 1 \in later THEN points[1]
      ELSE IF later = {} THEN points[Len(points)]
      ELSE [a EXCEPT !.t = t, !.pos = @ + ((b.pos - @) * (t - a.t)) \div (b.t - a.t)]

(* Points sorted by time; those of one time keep their order, which        *)
(* std::sort leaves open.                                                  *)
InTime(sorted, p) ==
  InsertAt(sorted, Cardinality({i \in DOMAIN sorted : sorted[i].t <= p.t}) + 1, p)

ByTime(points) == FoldLeft(InTime, << >>, points)

(* TimeAligner::align: one sample per tick.                                *)
Align(ticks, ego, source, imu) ==
  LET e == ByTime(ego)
      s == ByTime(source)
      InReach(t) == s # << >> /\ t >= s[1].t - 5 * Second /\ t <= s[Len(s)].t + 5 * Second
      At(t) ==
        [t |-> t,
         fix |-> e # << >> /\ Interpolate(e, t).fix,
         pos |-> IF e = << >> THEN 0 ELSE Interpolate(e, t).pos,
         src_valid |-> InReach(t) /\ Interpolate(s, t).fix,
         src_pos |-> IF InReach(t) THEN Interpolate(s, t).pos ELSE 0,
         imu_valid |-> \E i \in DOMAIN imu : Abs(imu[i] - t) <= JoinTolerance]
  IN  [i \in DOMAIN ticks |-> At(ticks[i])]

-----------------------------------------------------------------------------
(* SceneCalculator::compute.  The closing speed is taken from the last     *)
(* sample before that is valid, in whole units per second.                 *)
ValidAt(sample) == sample.src_valid /\ sample.fix
Distance(sample) == Abs(sample.pos - sample.src_pos)

(* Deviation: the sign is that of the range's growth.                      *)
OpeningSpeed(before, sample) ==
  ((Distance(sample) - Distance(before)) * Second) \div (sample.t - before.t)

ClosingSpeed(before, sample) ==
  ((Distance(before) - Distance(sample)) * Second) \div (sample.t - before.t)

Geometry(samples) ==
  LET Earlier(i) == {j \in 1..(i - 1) : ValidAt(samples[j])}
  IN  [i \in DOMAIN samples |->
         IF ~ValidAt(samples[i])
         THEN [t |-> samples[i].t, valid |-> FALSE, range |-> 0, closing |-> 0]
         ELSE [t |-> samples[i].t, valid |-> TRUE, range |-> Distance(samples[i]),
               closing |-> IF Earlier(i) = {} THEN 0
                           ELSE ClosingSpeed(samples[Max(Earlier(i))], samples[i])]]

IsValid(g) == g.valid
Ranges(geom) == [i \in DOMAIN Keep(geom, IsValid) |-> Keep(geom, IsValid)[i].range]
FirstMin(seq) == Min({i \in DOMAIN seq : \A j \in DOMAIN seq : seq[i] <= seq[j]})

(* classify_segment: the thresholds 0.15, 0.10, 1 m/s and 0.5 m/s, and the *)
(* middle three fifths, in whole numbers.                                  *)
Classify(geom) ==
  LET r       == Ranges(geom)
      n       == Len(r)
      most    == Max(ToSet(r))
      spread  == most - Min(ToSet(r))
      closing == SumSeq([i \in DOMAIN geom |-> IF geom[i].valid THEN geom[i].closing ELSE 0])
      nearest == FirstMin(r) - 1
  IN  IF n = 0 THEN "unknown"
      ELSE IF geom[Len(geom)].t - geom[1].t < SegmentMin THEN "unknown"
      ELSE IF 20 * spread > 3 * most /\ nearest > n \div 5 /\ nearest < (4 * n) \div 5 THEN "pass_by"
      ELSE IF (most = 0 \/ 10 * spread < most) /\ Abs(closing) < n * Metre THEN "stationary"
      ELSE IF 2 * closing > n * Metre THEN "approach"
      ELSE IF 2 * closing < -(n * Metre) THEN "recede"
      ELSE "unknown"
-----------------------------------------------------------------------------
(* extract_events: the event with the geometry nearest to it, if valid.    *)
NearestGeom(geom, t) ==
  geom[Min({i \in DOMAIN geom : \A j \in DOMAIN geom : Abs(geom[i].t - t) <= Abs(geom[j].t - t)})]

SceneEvents(events, geom) ==
  [i \in DOMAIN events |->
     [event |-> events[i].event, at |-> events[i].at, t |-> events[i].t,
      range |-> IF geom # << >> /\ NearestGeom(geom, events[i].at).valid
                THEN NearestGeom(geom, events[i].at).range ELSE -1]]

(* The periods from a siren_on to the next siren_off: a second siren_on    *)
(* replaces the first; -1 stands for none, so a start before time 0 counts *)
(* as none.  A siren still on at the end sounds to the end of the grid.    *)
NoSiren == [on |-> -1, periods |-> << >>]

(* Deviation: the end of a period does not reset the start.                *)
SwitchKeepsOn(siren, event) ==
  CASE event.event = "on" -> [siren EXCEPT !.on = event.at]
    [] event.event = "off" /\ siren.on >= 0 ->
         [siren EXCEPT !.periods = Append(@, [from |-> siren.on, to |-> event.at])]
    [] OTHER -> siren

Switch(siren, event) ==
  CASE event.event = "on" -> [siren EXCEPT !.on = event.at]
    [] event.event = "off" /\ siren.on >= 0 ->
         [on |-> -1, periods |-> Append(siren.periods, [from |-> siren.on, to |-> event.at])]
    [] OTHER -> siren

SirenPeriods(events, geom) ==
  LET siren == FoldLeft(Switch, NoSiren, events)
  IN  IF siren.on >= 0 /\ geom # << >>
      THEN Append(siren.periods, [from |-> siren.on, to |-> geom[Len(geom)].t])
      ELSE siren.periods

(* The first of the valid samples at the least range.                      *)
Closest(geom) ==
  geom[Min({i \in DOMAIN geom : geom[i].valid /\
              \A j \in DOMAIN geom : geom[j].valid => geom[i].range <= geom[j].range})]

(* build_segments                                                          *)
Segment(period, geom) ==
  LET Within(g) == g.t >= period.from /\ g.t <= period.to
      inside == Keep(geom, Within)
      some   == Ranges(inside) # << >>
      Closings == {inside[i].closing : i \in {j \in DOMAIN inside : inside[j].valid}}
  IN  [from |-> period.from, to |-> period.to, class |-> Classify(inside),
       sampled |-> inside # << >>,
       range_min |-> IF some THEN Min(ToSet(Ranges(inside))) ELSE 0,
       range_max |-> IF some THEN Max(ToSet(Ranges(inside))) ELSE 0,
       at_closest |-> IF some THEN Closest(inside).range ELSE 0,
       max_closing |-> Max(Closings \cup {0}),
       event |-> 0]

BuildSegments(events, geom) ==
  LET Long(p) == p.to - p.from >= SegmentMin
      periods == Keep(SirenPeriods(events, geom), Long)
  IN  [i \in DOMAIN periods |-> Segment(periods[i], geom)]

(* link_segments_to_events: the first siren_on within half a second.       *)
Linked(segment, events) ==
  LET near == {i \in DOMAIN events : events[i].event = "on"
                                     /\ 2 * Abs(events[i].at - segment.from) < Second}
  IN  [segment EXCEPT !.event = IF near = {} THEN 0 ELSE Min(near)]

(* Stage 9 of the pipeline.                                                *)
Scenes(events, geom) ==
  LET found == SceneEvents(events, geom)
      segments == BuildSegments(found, geom)
  IN  [events |-> found, segments |-> [i \in DOMAIN segments |-> Linked(segments[i], found)]]
=============================================================================
