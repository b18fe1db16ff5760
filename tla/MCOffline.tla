------------------------------ MODULE MCOffline -----------------------------
(***************************************************************************)
(* Sessions for TLC: damaged ego logs, pairs of logs of a drive with a     *)
(* siren, and runs with faults over one session.  Four units of time are a *)
(* second.                                                                 *)
(***************************************************************************)
EXTENDS OfflineProperties

Cmd(command, only) ==
  [command |-> command, only |-> only, skip_s3 |-> FALSE, dry_run |-> FALSE,
   enabled |-> FALSE, configured |-> TRUE, fail_valid |-> TRUE, fail_sync |-> FALSE,
   require_mdf4 |-> TRUE, require_success |-> FALSE]

Plain   == Cmd("process", "none")
Lenient == [Plain EXCEPT !.fail_valid = FALSE]
Cloud   == [Plain EXCEPT !.enabled = TRUE]

MCCommands ==
  {Plain, Lenient, Cloud, Cmd("validate", "none"), Cmd("export", "none"),
   Cmd("process", "sync"), Cmd("process", "scenes"), Cmd("process", "validate"),
   [Cloud EXCEPT !.skip_s3 = TRUE], [Cloud EXCEPT !.dry_run = TRUE, !.configured = FALSE],
   [Plain EXCEPT !.fail_sync = TRUE],
   Cmd("upload", "none"), [Cmd("upload", "none") EXCEPT !.require_mdf4 = FALSE],
   [Cmd("upload", "none") EXCEPT !.require_success = TRUE],
   [Cmd("upload", "none") EXCEPT !.dry_run = TRUE]}

Frame(seq, t, kind) ==
  [contract |-> FALSE, whole |-> TRUE, check |-> "ok", seq |-> seq, t |-> t, kind |-> kind,
   fix |-> TRUE, speed |-> 0, pos |-> 0]

Chunk(frames) == [present |-> TRUE, frames |-> frames]
NoChunk == [present |-> FALSE, frames |-> << >>]
Dir(chunks) == [listed |-> TRUE, chunks |-> chunks, single |-> NoChunk]
NoSource == [present |-> FALSE, packets |-> << >>]

Session(dir, source, commands, steady) ==
  [metadata |-> TRUE, manifest |-> TRUE, count |-> 4, dir |-> dir, source |-> source,
   commands |-> commands, steady |-> steady]

-----------------------------------------------------------------------------
(* Every log of three frames with a gap, a step back, a jump, a zero       *)
(* timestamp or a damaged frame, and pauses of two streams.                *)
Checked(frame, check) == [frame EXCEPT !.check = check]

Frames1 ==
  {Checked(Frame(seq, t, "audio"), check) : seq \in {1, 2, 4}, t \in {0, 4, 12}, check \in {"ok", "crc"}}
  \cup {Checked(Frame(2, 4, "audio"), "bad")}
Frames2 ==
  {Frame(seq, t, kind) : seq \in {2, 3}, t \in {4, 6, 12}, kind \in {"audio", "imu"}}

DamagedLogs ==
  {Session(Dir(<<Chunk(frames)>>), NoSource, <<Cmd("validate", "none")>>, TRUE) :
     frames \in [1..3 -> Frames1] \cup [1..3 -> Frames2]}

(* The same frames in two chunks, of two formats, with an unreadable frame *)
(* or a missing chunk, with and without a list of chunks; processed to the *)
(* end although no range may be valid.                                     *)
A == Frame(1, 4, "audio")
B == Frame(2, 6, "imu")
C == Frame(5, 12, "audio")
OfContract(frame) == [frame EXCEPT !.contract = TRUE]
Cut(frame) == [frame EXCEPT !.whole = FALSE]

Layouts ==
  {<<Chunk(<<A, B>>), Chunk(<<C>>)>>, <<Chunk(<<A>>), Chunk(<<OfContract(B), C>>)>>,
   <<Chunk(<<OfContract(A), OfContract(B)>>), Chunk(<<OfContract(C)>>)>>,
   <<NoChunk, Chunk(<<A, B>>)>>, <<Chunk(<<A, Cut(B), C>>), Chunk(<<C>>)>>,
   <<Chunk(<<C>>), NoChunk>>, <<Chunk(<< >>), Chunk(<<A, B, C>>)>>, << >>}

Layed ==
  {Session([listed |-> listed, chunks |-> chunks, single |-> single], NoSource, <<Lenient>>, TRUE) :
     listed \in BOOLEAN, chunks \in Layouts, single \in {NoChunk, Chunk(<<A, B>>)}}

Packet(seq, t, kind) == [event |-> "none"] @@ Frame(seq, t, kind)

Lossy == {[i \in 1..4 |-> Frame(seq[i], 4 * i, "audio")] :
            seq \in {s \in [1..4 -> 1..7] : s[1] = 1 /\ \A i \in 1..3 : s[i] < s[i + 1]}}
Usable ==
  {Session(Dir(<<Chunk(frames)>>), source, <<Lenient>>, TRUE) :
     frames \in Lossy,
     source \in {NoSource} \cup {[present |-> TRUE, packets |->
       <<Packet(1, t, "status"), Packet(2, t + 12, "status")>>] : t \in {4, 14}}}
-----------------------------------------------------------------------------
(* A drive of five seconds: a GPS frame each second, two audio blocks and  *)
(* an IMU frame; the source logs its speed with another clock, and the     *)
(* switches of the siren.                                                  *)
Speeds == <<0, 2, 1, 0, 1, 1>>
Tracks ==
  {<<20, 16, 12, 8, 4, 1>>, <<12, 6, 1, 6, 12, 18>>, <<1, 5, 9, 13, 17, 21>>,
   <<10, 10, 10, 10, 10, 10>>, <<12, 8, 8, 9, 8, 8>>}

Drive(track, lost) ==
  [i \in 1..6 |-> [Frame(2 * i, 4 * i, "gps") EXCEPT
                     !.speed = Speeds[i], !.pos = track[i], !.fix = i # lost]]

WithAudio(frames) ==
  <<frames[1], Frame(3, 6, "audio"), frames[2], Frame(5, 10, "imu"), frames[3], frames[4],
    Frame(9, 17, "audio"), frames[5], frames[6]>>

Gnss(i, shift) == [Packet(i, 4 * i + shift, "gnss") EXCEPT !.speed = Speeds[i]]
Event(seq, t, event) == [Packet(seq, t, "event") EXCEPT !.event = event]

SourceLog(shift, gnss, switches) ==
  (IF gnss THEN [i \in 1..6 |-> Gnss(i, shift)] ELSE << >>)
  \o [i \in DOMAIN switches |-> Event(6 + i, switches[i].t + shift, switches[i].event)]

Times == {5, 6, 9, 17, 22}
SwitchSeqs ==
  {<< >>}
  \cup {<<[t |-> t, event |-> e]>> : t \in Times, e \in {"on", "off"}}
  \cup {s \in [1..2 -> [t : Times, event : {"on", "off"}]] : s[1].t < s[2].t}
  \cup {s \in [1..3 -> [t : Times, event : {"on", "off"}]] :
          s[1].t < s[2].t /\ s[2].t < s[3].t /\ s[1].event = "on"}
  \cup {<<[t |-> 5, event |-> "on"], [t |-> 9, event |-> "mark"], [t |-> 17, event |-> "off"],
          [t |-> 22, event |-> "on"]>>}

Siren == <<[t |-> 6, event |-> "on"], [t |-> 17, event |-> "off"]>>
Source(shift, gnss, switches) == [present |-> TRUE, packets |-> SourceLog(shift, gnss, switches)]

Drives ==
  {Session(Dir(<<Chunk(WithAudio(Drive(track, lost)))>>), Source(shift, TRUE, Siren), <<Plain>>, TRUE) :
     track \in Tracks, lost \in {0, 3}, shift \in {-3, 0, 2}}
  \cup
  {Session(Dir(<<Chunk(WithAudio(Drive(<<20, 16, 12, 8, 4, 1>>, 0)))>>), Source(shift, gnss, switches),
           <<Plain>>, TRUE) :
     shift \in {-2, 2}, gnss \in BOOLEAN, switches \in SwitchSeqs}
-----------------------------------------------------------------------------
(* A short session run twice, with faults.                                 *)
Short1 == Dir(<<Chunk(<<A, Frame(2, 8, "audio"), Frame(3, 12, "audio")>>)>>)

Pairs ==
  {Session(Short1, NoSource, <<first, second>>, FALSE) :
     first \in {Plain, Cloud, [Cmd("upload", "none") EXCEPT !.require_mdf4 = FALSE]},
     second \in MCCommands}

Spoilt == Session(Dir(<<Chunk(<<A>>)>>), NoSource, <<Plain, Plain>>, FALSE)

MCSessions ==
  DamagedLogs \cup Layed \cup Usable \cup Drives \cup Pairs
  \cup {Spoilt, [Spoilt EXCEPT !.metadata = FALSE, !.commands = <<Lenient, Cmd("validate", "none")>>],
        [Spoilt EXCEPT !.manifest = FALSE, !.commands = <<Plain, Cmd("validate", "none")>>]}
=============================================================================
