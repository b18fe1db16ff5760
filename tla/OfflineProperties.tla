------------------------- MODULE OfflineProperties --------------------------
(***************************************************************************)
(* What a run of ego-offline promises about its results.  The properties   *)
(* of the stages and files are stated in OfflineDriver; those here are     *)
(* about the data.                                                         *)
(***************************************************************************)
EXTENDS OfflinePipeline

Validated == stage \in {"sync", "exited"} /\ validation # None
Synced == stage \in {"mdf4", "scene_events"} /\ synced # None
Mdf4Written == stage = "sidecar"
AfterScenes == stage = "scene_segments"
AfterReports == stage = "finish"

-----------------------------------------------------------------------------
(* The accumulator that is fed during the one scan finds what the          *)
(* validator of two passes finds in a log of the older format, but for the *)
(* gaps at damaged frames, the errors for a timestamp of zero, the frames  *)
(* the manifest counts beyond the log, and the frames of another version,  *)
(* which only the one scan counts as damaged (pipeline.cpp:37,             *)
(* log_validator.cpp:66).                                                  *)
Counters == {"total", "valid", "backward", "stamps", "audio", "telemetry", "t_first", "t_last"}

SinglePassAgrees ==
  LET legacy == \A i \in DOMAIN Frames : ~Frames[i].contract
      two    == ValidateEgo(Chunks, session.count)
      one    == validation.ego
      unmarked == {g \in two.gaps :
                     ~(g.type = "damage" \/ (g.type = "timestamp" /\ g.severity = "error"))}
  IN  Validated /\ legacy /\ two.file_ok /\ one.file_ok =>
        /\ \A c \in Counters : one[c] = two[c]
        /\ one.damaged = two.damaged + Cardinality({i \in DOMAIN Frames : Frames[i].check = "bad"})
        /\ two.lost = one.lost + Max({0, session.count - two.valid})
        /\ one.gaps = unmarked

(* The sequence numbers missing between the first accepted frame and the   *)
(* highest.                                                                *)
Missing(frames) ==
  LET accepted == {i \in DOMAIN frames : Accepted(frames[i])}
      seqs == {frames[i].seq : i \in accepted}
  IN  IF accepted = {} THEN {} ELSE (frames[Min(accepted)].seq .. Max(seqs)) \ seqs

(* The report never states a smaller loss than the sequence numbers show,  *)
(* in whatever order the frames come, across chunks and whatever is        *)
(* damaged; it is exact for frames in order without damage                 *)
(* (pipeline.cpp:74: a late frame moves the expected number back).         *)
LossNeverUnderstated ==
  Validated =>
    /\ validation.ego.lost >= Cardinality(Missing(Frames))
    /\ (\A i \in DOMAIN Frames : Accepted(Frames[i])
                                 /\ (i > 1 => Frames[i - 1].seq < Frames[i].seq))
         => validation.ego.lost = Cardinality(Missing(Frames))

(* The valid ranges are in order and disjoint, inside the span of the ego  *)
(* log and long enough, none holds a serious gap of the ego log inside,    *)
(* and a session with none is a failed one (log_validator.cpp:276-354).    *)
RangesAreSound ==
  LET r == validation.ranges
  IN  Validated =>
        /\ \A i \in DOMAIN r :
             /\ LongEnough(r[i])
             /\ validation.ego.t_first <= r[i].from /\ r[i].to <= validation.ego.t_last
             /\ \A g \in validation.ego.gaps :
                  g.severity = "error" => ~(r[i].from < g.t /\ g.t < r[i].to)
             /\ i > 1 => r[i - 1].to <= r[i].from
        /\ validation.integrity # "failed" => r # << >>
        /\ validation.valid <= Max({0, validation.total})

(* A session that is said to be usable for training has valid ranges, and  *)
(* at most half of the frames of its ego log are missing                   *)
(* (report_builder.cpp:155; the two source streams may make up for the     *)
(* rest in the mean).                                                      *)
UsableIsSound ==
  AfterReports /\ quality.usable =>
    /\ validation.integrity # "failed"
    /\ 2 * Cardinality(Missing(Frames)) <= Len(Frames)
-----------------------------------------------------------------------------
(* The search measures what the application does: once the offset is       *)
(* applied, no further shift within the window fits better, in speeds for  *)
(* the GNSS method and in sirens heard for the audio method                *)
(* (time_sync.cpp:156 against :332-340).  The offset 0 is left aside: it   *)
(* is not applied to the events.                                           *)
SyncIsApplied ==
  LET Inside(p) == p.t >= ValidRange.from /\ p.t <= ValidRange.to
      Fixed(p)  == Inside(p) /\ p.fix
      e == Keep(EgoGps(Frames), Fixed)
      s == Shifted(Keep(SourceGnss(SourceFrames), Fixed), synced.offset)
      Siren(ev) == ev.event = "on"
      sirens == Keep(AlignedEvents, Siren)
      heard  == [i \in DOMAIN sirens |-> [t |-> sirens[i].at]]
      within == {o \in -SearchWindow .. SearchWindow : Abs(synced.offset + o) <= SearchWindow}
  IN  Synced /\ synced.offset # 0 =>
        /\ synced.method = "gnss" =>
             \A o \in within : ~Better(Correlation(e, s, o), Correlation(e, s, 0))
        /\ synced.method = "audio" =>
             \A o \in within : Matches(heard, EgoAudio(Frames), o)
                                 <= Matches(heard, EgoAudio(Frames), 0)

(* The segments are the siren's: for a log in time order, at each moment   *)
(* inside a segment the last switch before was a siren_on, the segments    *)
(* follow each other, each is linked to a siren_on near its start, and no  *)
(* siren_on followed by its siren_off in the log, long enough and at a     *)
(* time from 0 on, is without one (scene_builder.cpp:162-246).  A second   *)
(* siren_on replaces the first: the segment starts at the second.          *)
Switches == Keep(scenes.events, LAMBDA ev : ev.event \in {"on", "off"})

SegmentsMatchSiren ==
  LET w == Switches
      seg == scenes.segments
      InOrder == \A i \in DOMAIN w : w[i].at >= 0 /\ (i > 1 => w[i - 1].at < w[i].at)
      On(t) == \E i \in DOMAIN w : /\ w[i].event = "on" /\ w[i].at <= t
                                   /\ \A j \in DOMAIN w : j > i => w[j].at > t
  IN  AfterScenes /\ InOrder =>
        /\ \A k \in DOMAIN seg :
             /\ \A t \in seg[k].from .. (seg[k].to - 1) : On(t)
             /\ k > 1 => seg[k - 1].to <= seg[k].from
             /\ seg[k].event # 0
             /\ 2 * Abs(scenes.events[seg[k].event].at - seg[k].from) < Second
        /\ \A i \in 2..Len(w) :
             w[i - 1].event = "on" /\ w[i].event = "off" /\ w[i].at - w[i - 1].at >= SegmentMin
               => \E k \in DOMAIN seg : seg[k].from = w[i - 1].at /\ seg[k].to = w[i].at

(* A class says what the ranges did: where the geometry is valid from the  *)
(* sample before the segment to its end, an approach ends nearer and a     *)
(* recede farther than it began, and a pass_by was farther away before its *)
(* closest point (scene_builder.cpp:59-102).                               *)
ClassesAreTrue ==
  AfterScenes =>
    \A k \in DOMAIN scenes.segments :
      LET seg == scenes.segments[k]
          before == {i \in DOMAIN geometry : geometry[i].t < seg.from}
          within == {i \in DOMAIN geometry : seg.from <= geometry[i].t /\ geometry[i].t <= seg.to}
          first == IF before = {} THEN Min(within) ELSE Max(before)
          last  == Max(within)
      IN  within # {} /\ (\A i \in first..last : geometry[i].valid) =>
            /\ seg.class = "approach" => geometry[last].range < geometry[first].range
            /\ seg.class = "recede" => geometry[last].range > geometry[first].range
            /\ seg.class = "pass_by" => seg.range_min < geometry[Min(within)].range
            /\ seg.class # "unknown" => seg.at_closest = seg.range_min
-----------------------------------------------------------------------------
(* A reader of the measurement file: it starts at the header, follows the  *)
(* links, as many as there are blocks, and reads the cell at the offset a  *)
(* channel states.                                                         *)
Chain(file, first) ==
  LET follow[k \in 0..Cardinality(DOMAIN file.blocks)] ==
        LET c    == follow[k - 1]
            next == IF c = << >> THEN first ELSE file.blocks[c[Len(c)]].links[1]
        IN  IF k = 0 THEN << >> ELSE IF next = 0 THEN c ELSE Append(c, next)
  IN  follow[Cardinality(DOMAIN file.blocks)]

Cell(row, channel) ==
  LET at == {i \in DOMAIN row : /\ SumSeq([j \in 1..(i - 1) |-> row[j].size]) = channel.offset
                                /\ row[i].size = ByteSize(channel.type)}
  IN  IF at = {} THEN NaN ELSE row[Max(at)].value

ReadGroup(file, dg) ==
  LET cg == file.blocks[file.blocks[dg].links[2]]
      dt == file.blocks[file.blocks[dg].links[3]]
      cns == Chain(file, cg.links[2])
      Text(a) == file.blocks[a].data
      Column(a) == [row \in DOMAIN dt.data |-> Cell(dt.data[row], file.blocks[a].data)]
  IN  [name |-> Text(cg.links[3]), times |-> Column(cns[1]),
       channels |-> [i \in 1..(Len(cns) - 1) |->
         LET cn == file.blocks[cns[i + 1]]
         IN  Channel(Text(cn.links[3]), Text(cn.links[7]), cn.data.type, Column(cns[i + 1]))]]

(* The file can be read: following its links gives back every group with   *)
(* its names, units, times and values, the records have the stated size,   *)
(* and the blocks, each as long as it states, fill the file without a gap  *)
(* (mdf4_lib_adapter.cpp:219-418; comments there tell of links once        *)
(* written in a wrong place).                                              *)
Mdf4Readable ==
  Mdf4Written =>
    LET file == measurement
        dgs  == Chain(file, file.blocks[64].links[1])
    IN  /\ [i \in DOMAIN dgs |-> ReadGroup(file, dgs[i])]
             = Keep(Prepare(samples, geometry, ValidRange.from), HasSamples)
        /\ \A i \in DOMAIN dgs :
             LET cg == file.blocks[file.blocks[dgs[i]].links[2]].data
                 dt == file.blocks[file.blocks[dgs[i]].links[3]].data
             IN  cg.cycles = Len(dt) /\ \A row \in DOMAIN dt : RowBytes(dt[row]) = cg.bytes
        /\ \A a \in DOMAIN file.blocks :
             a + file.blocks[a].len \in DOMAIN file.blocks \cup {file.size}

(* Stated by the code: the events handed to the scene builder are in the   *)
(* ego clock (scene_builder.cpp:136: "already in ego clock").              *)
EventsInEgoClock ==
  AfterScenes => \A i \in DOMAIN scenes.events :
                   scenes.events[i].at = scenes.events[i].t - synced.offset
=============================================================================
