-------------------------- MODULE OfflinePipeline ---------------------------
(***************************************************************************)
(* ego-offline at work on a recorded session: the stages of OfflineDriver  *)
(* with what they compute from the logs (Pipeline::run_full and            *)
(* run_validate in offline/src/pipeline/pipeline.cpp).                     *)
(*                                                                         *)
(* A session is                                                            *)
(*   metadata, manifest   whether the two files can be read                *)
(*   dir                  the ego log (EgoLog)                             *)
(*   source               the log of the source, [present, packets]        *)
(*   commands             the command lines the user runs on it, in turn   *)
(*   steady               no write or upload fails and nobody kills it     *)
(***************************************************************************)
EXTENDS OfflineDriver, SceneBuilding, Mdf4File, Reports

CONSTANT Sessions

ASSUME SessionsAssumption ==
  \A s \in Sessions :
    /\ {s.metadata, s.manifest, s.steady} \subseteq BOOLEAN
    /\ s.commands \in Seq(Commands) /\ s.commands # << >>
    /\ s.dir \in [listed : BOOLEAN, chunks : Seq(ChunkFiles), single : ChunkFiles]
    /\ s.source \in [present : BOOLEAN, packets : Seq(SourcePackets)]
    /\ s.count \in Nat

VARIABLES
  session,
  validation,  (* the validation report of the latest run, and so on       *)
  synced,
  samples,
  geometry,
  measurement,
  scenes,
  quality,
  summary

results == <<validation, synced, samples, geometry, measurement, scenes, quality, summary>>
pipeline_vars == <<vars, session, results>>

None == [none |-> TRUE]

PipelineInit ==
  /\ session \in Sessions
  /\ cmd = session.commands[1] /\ faults = (IF session.steady THEN MaxFaults ELSE 0)
  /\ Init
  /\ validation = None /\ synced = None /\ samples = << >> /\ geometry = << >>
  /\ measurement = None /\ scenes = None /\ quality = None /\ summary = None

-----------------------------------------------------------------------------
(* What the scans find.  The ego log is there if the manifest names a      *)
(* chunk; a missing source log is not an error.                            *)
Chunks == ManifestChunks(session.dir)
Frames == Scan(Chunks)
SourceFrames == ScanSource(session.source.packets)

EgoStats == Accumulate(Frames, Chunks # << >>)
SourceStats ==
  IF session.source.present THEN Accumulate(SourceFrames, TRUE)
  ELSE [NoStats EXCEPT !.file_ok = FALSE]

(* The first valid range; without one, the empty range at time 0.          *)
ValidRange ==
  IF validation.ranges = << >> THEN Span(0, 0) ELSE validation.ranges[1]

SyncResult ==
  IF session.source.present
  THEN Synchronise(EgoGps(Frames), SourceGnss(SourceFrames), SourceEvents(SourceFrames),
                   EgoAudio(Frames), ValidRange)
  ELSE NoSync

(* The offset is applied to the logs of the source, unless it is zero.     *)
AlignedEvents ==
  IF ~session.source.present THEN << >>
  ELSE IF synced.offset # 0 THEN AlignEvents(SourceEvents(SourceFrames), synced.offset)
  ELSE SourceEvents(SourceFrames)

AlignedGnss(offset) ==
  IF session.source.present THEN Shifted(SourceGnss(SourceFrames), offset) ELSE << >>

-----------------------------------------------------------------------------
PBegin ==
  /\ run < Len(session.commands)
  /\ Begin(session.commands[run + 1])
  /\ UNCHANGED <<session, results>>

PLoadMetadata == LoadMetadata(session.metadata) /\ UNCHANGED <<session, results>>
PLoadManifest == LoadManifest(session.manifest) /\ UNCHANGED <<session, results>>

PValidate ==
  /\ stage = "validation"
  /\ validation' = ValidationReport(EgoStats, SourceStats)
  /\ WriteValidation(validation'.integrity)
  /\ UNCHANGED <<session, synced, samples, geometry, measurement, scenes, quality, summary>>

PSync ==
  /\ stage = "sync"
  /\ synced' = SyncResult
  /\ WriteSync(synced'.status)
  /\ IF stage' = "exited" THEN UNCHANGED <<samples, geometry>>
     ELSE /\ samples' = Align(Ticks(ValidRange), EgoGps(Frames), AlignedGnss(synced'.offset),
                              EgoImu(Frames))
          /\ geometry' = Geometry(samples')
  /\ UNCHANGED <<session, validation, measurement, scenes, quality, summary>>

PWriteMdf4 ==
  /\ WriteMdf4
  /\ measurement' = IF errors' = errors
                    THEN BuildMdf4(Prepare(samples, geometry, ValidRange.from), ValidRange.from)
                    ELSE measurement
  /\ UNCHANGED <<session, validation, synced, samples, geometry, scenes, quality, summary>>

PWriteSidecar == WriteSidecar /\ UNCHANGED <<session, results>>

PWriteReport ==
  /\ WriteReport
  /\ scenes' = IF stage = "scene_events" THEN Scenes(AlignedEvents, geometry) ELSE scenes
  /\ quality' = IF stage = "data_quality_report" THEN DataQuality(validation) ELSE quality
  /\ summary' = IF stage = "events_report"
                THEN EventsReport(scenes.events, scenes.segments) ELSE summary
  /\ UNCHANGED <<session, validation, synced, samples, geometry, measurement>>

PUpload ==
  /\ Finish \/ Gate \/ PutFile \/ FinishUpload \/ ReportUpload
  /\ UNCHANGED <<session, results>>

PKill == Kill /\ UNCHANGED <<session, results>>

(* The user has run all the commands.                                      *)
PEnded == stage = "exited" /\ run = Len(session.commands) /\ UNCHANGED pipeline_vars

PipelineNext ==
  \/ PBegin \/ PLoadMetadata \/ PLoadManifest \/ PValidate \/ PSync \/ PWriteMdf4 \/ PWriteSidecar
  \/ PWriteReport \/ PUpload \/ PKill \/ PEnded

PipelineSpec == PipelineInit /\ [][PipelineNext]_pipeline_vars
=============================================================================
