------------------------------- MODULE EgoLog -------------------------------
(***************************************************************************)
(* How the offline pipeline reads a recorded session back                  *)
(* (offline/src/load, offline/src/parse): the ego log as the recorder left *)
(* it, in chunk files, and the log of the sound source, in one file.       *)
(*                                                                         *)
(* A frame of the ego log is a record                                      *)
(*   contract   its format: ego-contract, or the older "legacy" packets    *)
(*   whole      FALSE when the reader cannot read it: the magic is wrong   *)
(*              or the file ends inside it                                 *)
(*   check      "ok", "crc" for a failed checksum, "bad" for another fault *)
(*   seq, t     sequence number and timestamp                              *)
(*   kind       "audio", "imu", "gps", "session" (legacy: a GPS fix and an *)
(*              IMU sample in one frame) or "other"                        *)
(*   fix, speed, pos   of a GPS sample; pos is the place on a line, and a  *)
(*              fix is one precise enough for the synchronisation            *)
(* and a chunk file is [present, frames].                                  *)
(***************************************************************************)
EXTENDS Lists

EgoFrames ==
  [contract : BOOLEAN, whole : BOOLEAN, check : {"ok", "crc", "bad"}, seq : Nat, t : Nat,
   kind : STRING, fix : BOOLEAN, speed : Int, pos : Int]

ChunkFiles == [present : BOOLEAN, frames : Seq(EgoFrames)]

(* The chunk files the manifest names; without a list of chunks the files  *)
(* ego_0.bin, ego_1.bin, ... up to the first that is missing, or ego.bin.  *)
ManifestChunks(dir) ==
  IF dir.listed THEN dir.chunks
  ELSE LET present == {n \in 0..Len(dir.chunks) : \A i \in 1..n : dir.chunks[i].present}
       IN  IF Max(present) > 0 THEN SubSeq(dir.chunks, 1, Max(present))
           ELSE IF dir.single.present THEN <<dir.single>> ELSE << >>

(* The format is recognised by the magic of the first frame.               *)
DetectFormat(chunk) ==
  IF ~chunk.present \/ chunk.frames = << >> THEN "unknown"
  ELSE IF chunk.frames[1].contract THEN "contract" ELSE "legacy"

(* The frames before the first that is not a whole frame of the format.    *)
ScanChunk(chunk, contract) ==
  LET good == {n \in 0..Len(chunk.frames) :
                 \A i \in 1..n : chunk.frames[i].whole /\ chunk.frames[i].contract = contract}
  IN  IF chunk.present THEN SubSeq(chunk.frames, 1, Max(good)) ELSE << >>

(* All chunks are read in the format of the first, unless that is unknown. *)
Scan(chunks) ==
  LET format == IF chunks = << >> THEN "unknown" ELSE DetectFormat(chunks[1])
  IN  FlattenSeq([i \in DOMAIN chunks |->
        ScanChunk(chunks[i],
          (IF format = "unknown" THEN DetectFormat(chunks[i]) ELSE format) = "contract")])

(* The pipeline checks the header and payload checksums of a contract      *)
(* frame itself.                                                           *)
Accepted(raw) == raw.check = "ok"

(* BinaryParser::validate knows the legacy magic only.                     *)
ParseStatus(raw) == IF raw.contract THEN "bad" ELSE raw.check

-----------------------------------------------------------------------------
(* The streams the accepted frames carry.  A contract GPS frame has no fix *)
(* quality: the decoded point keeps the default, no fix.                   *)
GpsPoint(raw) ==
  [t |-> raw.t, fix |-> ~raw.contract /\ raw.fix, speed |-> raw.speed, pos |-> raw.pos]

CarriesGps(raw) ==
  Accepted(raw) /\ (raw.kind = "gps" \/ (raw.kind = "session" /\ ~raw.contract /\ raw.fix))

CarriesImu(raw) ==
  Accepted(raw) /\ (raw.kind = "imu" \/ (raw.kind = "session" /\ ~raw.contract))

EgoGps(raws) ==
  LET carriers == Keep(raws, CarriesGps)
  IN  [i \in DOMAIN carriers |-> GpsPoint(carriers[i])]

EgoImu(raws) ==
  LET carriers == Keep(raws, CarriesImu) IN [i \in DOMAIN carriers |-> carriers[i].t]

EgoAudio(raws) ==
  LET CarriesAudio(raw) == Accepted(raw) /\ raw.kind = "audio"
      blocks == Keep(raws, CarriesAudio)
  IN  [i \in DOMAIN blocks |-> blocks[i].t]

-----------------------------------------------------------------------------
(* The log of the sound source: packets with a kind "event" (event "on",   *)
(* "off" or another), "gnss", "status" or "ego", a type of the other log,  *)
(* which the reader steps over.                                            *)
SourcePackets ==
  [event : STRING, contract : BOOLEAN, whole : BOOLEAN, check : {"ok", "crc", "bad"}, seq : Nat,
   t : Nat, kind : STRING, fix : BOOLEAN, speed : Int, pos : Int]

ScanSource(packets) ==
  LET good == {n \in 0..Len(packets) : \A i \in 1..n : packets[i].whole}
      OfSource(p) == p.kind # "ego"
  IN  Keep(SubSeq(packets, 1, Max(good)), OfSource)

SourceEvents(raws) ==
  LET IsEvent(raw) == raw.check = "ok" /\ raw.kind = "event"
      events == Keep(raws, IsEvent)
  IN  [i \in DOMAIN events |-> [t |-> events[i].t, at |-> 0, event |-> events[i].event]]

SourceGnss(raws) ==
  LET IsGnss(raw) == raw.check = "ok" /\ raw.kind = "gnss"
      fixes == Keep(raws, IsGnss)
  IN  [i \in DOMAIN fixes |->
         [t |-> fixes[i].t, fix |-> fixes[i].fix, speed |-> fixes[i].speed, pos |-> fixes[i].pos]]
=============================================================================
