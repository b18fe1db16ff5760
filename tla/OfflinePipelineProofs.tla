----------------------- MODULE OfflinePipelineProofs ------------------------
(***************************************************************************)
(* Theorems about ego-offline, in three parts.                             *)
(*                                                                         *)
(* The driver.  What the runs leave in the output directory and in the     *)
(* bucket, for any command lines, any number of runs, failed writes,       *)
(* failed uploads and kills, and any number of retries.                    *)
(*                                                                         *)
(* The pipeline.  On real logs it takes no step that OfflineDriver does    *)
(* not allow: what it computes is one of the verdicts the driver reckons   *)
(* with, so that the driver's promises hold for every session and all      *)
(* data; and what its variables hold at each stage is said of the          *)
(* session's logs (DataInv).                                               *)
(*                                                                         *)
(* The validation.  From DataInv: the loss, the valid ranges, the usable   *)
(* verdict, and that one scan finds what two passes find.                  *)
(***************************************************************************)
EXTENDS OfflineProperties, ListFacts, TLAPS

(* A step writes one file.                                                 *)
Info(n) == [run : 0..n, whole : BOOLEAN]
Wrote(f) ==
  /\ out' \in [Files -> Info(run)]
  /\ out'[f].run = run
  /\ \A g \in Files : g # f => out'[g] = out[g]

Budget == faults' \in 0..MaxFaults

LEMMA FileNames ==
  /\ Outputs = {"mdf4", "sidecar", "session_report", "validation_report", "sync_report",
                "scene_events", "scene_segments", "data_quality_report", "events_report"}
  /\ Files = Outputs \cup {"upload_manifest", "upload_report"}
  /\ Len(Include) = 9
  /\ \A i \in 1..9 : Include[i] \in Outputs
<1>1. Len(Include) = 9
  BY DEF Include
<1>2. \A i \in 1..9 : i = 1 \/ i = 2 \/ i = 3 \/ i = 4 \/ i = 5 \/ i = 6 \/ i = 7 \/ i = 8 \/ i = 9
  OBVIOUS
<1>3. /\ Include[1] = "mdf4" /\ Include[2] = "sidecar" /\ Include[3] = "session_report"
      /\ Include[4] = "validation_report" /\ Include[5] = "sync_report"
      /\ Include[6] = "scene_events" /\ Include[7] = "scene_segments"
      /\ Include[8] = "data_quality_report" /\ Include[9] = "events_report"
  BY DEF Include
<1> QED
  BY <1>1, <1>2, <1>3 DEF Outputs, Files

LEMMA StageNames ==
  /\ DOMAIN NextReport = {"scene_events", "scene_segments", "session_report",
                          "data_quality_report", "events_report"}
  /\ NextReport["scene_events"] = "scene_segments"
  /\ NextReport["scene_segments"] = "session_report"
  /\ NextReport["session_report"] = "data_quality_report"
  /\ NextReport["data_quality_report"] = "events_report"
  /\ NextReport["events_report"] = "finish"
BY DEF NextReport

LEMMA FaultTyped ==
  ASSUME DriverAssumption, faults \in 0..MaxFaults, Fault \/ UNCHANGED faults
  PROVE  Budget
BY DEF DriverAssumption, Fault, Budget

LEMMA PutOut ==
  ASSUME out \in [Files -> Info(run)], run \in Nat, NEW f \in Files, NEW b \in BOOLEAN,
         out' = [out EXCEPT ![f] = [run |-> run, whole |-> b]]
  PROVE  Wrote(f)
<1>1. [run |-> run, whole |-> b] \in Info(run)
  BY DEF Info
<1> HIDE DEF Info
<1>2. out' \in [Files -> Info(run)]
  BY <1>1
<1>3. out'[f] = [run |-> run, whole |-> b] /\ \A g \in Files : g # f => out'[g] = out[g]
  OBVIOUS
<1> QED
  BY <1>2, <1>3 DEF Wrote

LEMMA WrittenFile ==
  ASSUME DriverAssumption, DriverTypeOK, NEW f \in Files, Written(f) \/ Short(f)
  PROVE  Wrote(f) /\ Budget
<1>1. out \in [Files -> Info(run)] /\ run \in Nat
  BY DEF DriverTypeOK, DriverAssumption, Info
<1>2. \E b \in BOOLEAN : out' = [out EXCEPT ![f] = [run |-> run, whole |-> b]]
  BY DEF Written, Whole, Short
<1>3. Wrote(f)
  BY <1>1, <1>2, PutOut
<1>4. Fault \/ UNCHANGED faults
  BY DEF Written, Whole, Short
<1> QED
  BY <1>3, <1>4, FaultTyped DEF DriverTypeOK

-----------------------------------------------------------------------------
LEMMA InitTyped == DriverAssumption /\ Init => DriverTypeOK
<1>1. SUFFICES ASSUME DriverAssumption, Init PROVE DriverTypeOK
  OBVIOUS
<1>2. [f \in Files |-> NoFile] \in [Files -> Info(run)]
  BY <1>1 DEF Init, NoFile, Info, DriverAssumption
<1>3. [f \in Outputs |-> 0] \in [Outputs -> 0..run]
  BY <1>1 DEF Init
<1>4. NoUpload \in [next : 1..10, attempt : 0..MaxRetries, all_ok : BOOLEAN]
  BY <1>1 DEF DriverAssumption, NoUpload
<1>5. /\ run \in 0..MaxRuns /\ faults \in 0..MaxFaults
  BY <1>1 DEF Init, DriverAssumption
<1>7. cmd \in Commands /\ errors \in BOOLEAN /\ stage \in Stages /\ exit \in Codes
  BY <1>1 DEF Init, Stages, Codes
<1>6. /\ integrity \in Verdicts \cup {"none"} /\ sync \in Statuses \cup {"none"}
      /\ report \in [status : {"success", "partial", "failed", "unknown"}, mdf4 : BOOLEAN]
  BY <1>1 DEF Init
<1> QED
  BY <1>1, <1>2, <1>3, <1>4, <1>5, <1>6, <1>7 DEF Init, DriverTypeOK, Info

(* The stage and the code an action leaves.                                *)
Placed == stage' \in Stages /\ exit' \in Codes

LEMMA CodesTyped ==
  /\ FinalCode \in Codes
  /\ \A code \in Codes : UploadCode(code) \in Codes
BY DEF FinalCode, UploadCode, Codes

LEMMA OutTyped ==
  ASSUME DriverTypeOK, NEW f \in Files, Wrote(f) \/ UNCHANGED out, UNCHANGED run
  PROVE  out' \in [Files -> [run : 0..run', whole : BOOLEAN]]
BY DEF DriverTypeOK, Wrote, Info

LEMMA WriteMoves ==
  ASSUME DriverAssumption, DriverTypeOK, NEW f \in Files, UNCHANGED run,
         Written(f) \/ NotOpened \/ Torn(f) \/ (Fault /\ UNCHANGED out)
  PROVE  out' \in [Files -> [run : 0..run', whole : BOOLEAN]] /\ Budget
<1>1. CASE Written(f) \/ Short(f)
  BY <1>1, WrittenFile, OutTyped
<1>2. CASE Fault /\ UNCHANGED out
  BY <1>2, FaultTyped, OutTyped DEF DriverTypeOK
<1> QED
  BY <1>1, <1>2 DEF NotOpened, Torn

LEMMA TypesKept == DriverAssumption /\ DriverTypeOK /\ [Next]_vars => DriverTypeOK'
<1>1. SUFFICES ASSUME DriverAssumption, DriverTypeOK, [Next]_vars PROVE DriverTypeOK'
  OBVIOUS
<1> USE <1>1
<1>2. ASSUME NEW c \in Commands, Begin(c) PROVE DriverTypeOK'
  <2>1. run' = run + 1 /\ run' \in 0..MaxRuns /\ run \in Nat
    BY <1>2 DEF Begin, DriverTypeOK, DriverAssumption
  <2>2. out' \in [Files -> [run : 0..run', whole : BOOLEAN]]
    <3>1. \A f \in Files : out[f] \in [run : 0..run', whole : BOOLEAN]
      BY <2>1 DEF DriverTypeOK
    <3> QED
      BY <1>2, <3>1 DEF Begin, file_vars, DriverTypeOK
  <2>3. bucket' \in [Outputs -> 0..run']
    BY <1>2, <2>1 DEF Begin, DriverTypeOK
  <2>4. upload' \in [next : 1..10, attempt : 0..MaxRetries, all_ok : BOOLEAN]
    BY <1>2 DEF Begin, NoUpload, DriverAssumption
  <2>5. stage' \in Stages
    BY <1>2 DEF Begin, Stages
  <2> QED
    BY <1>2, <2>1, <2>2, <2>3, <2>4, <2>5 DEF Begin, DriverTypeOK, Codes, file_vars
<1>3. ASSUME NEW ok \in BOOLEAN, LoadMetadata(ok) \/ LoadManifest(ok) PROVE DriverTypeOK'
  <2>1. Placed
    BY <1>3 DEF LoadMetadata, LoadManifest, Goto, Exit, Placed, Stages, Codes, DriverTypeOK
  <2>2. errors' \in BOOLEAN
    BY <1>3 DEF LoadMetadata, LoadManifest, DriverTypeOK
  <2> QED
    BY <1>3, <2>1, <2>2
       DEF LoadMetadata, LoadManifest, Placed, DriverTypeOK, run_vars, file_vars
<1>4. ASSUME NEW v \in Verdicts, WriteValidation(v) PROVE DriverTypeOK'
  <2>1. Placed
    BY <1>4 DEF WriteValidation, NotOpened, Torn, Goto, Exit, Placed, Stages, Codes, DriverTypeOK
  <2>2. out' \in [Files -> [run : 0..run', whole : BOOLEAN]] /\ Budget
    BY <1>4, WriteMoves, FileNames DEF WriteValidation, run_vars
  <2> QED
    BY <1>4, <2>1, <2>2 DEF WriteValidation, Placed, Budget, DriverTypeOK, run_vars
<1>5. ASSUME NEW s \in Statuses, WriteSync(s) PROVE DriverTypeOK'
  <2>1. Placed
    BY <1>5 DEF WriteSync, NotOpened, Torn, Goto, Exit, Placed, Stages, Codes, DriverTypeOK, NextReport
  <2>2. out' \in [Files -> [run : 0..run', whole : BOOLEAN]] /\ Budget
    BY <1>5, WriteMoves, FileNames DEF WriteSync, run_vars
  <2> QED
    BY <1>5, <2>1, <2>2 DEF WriteSync, Placed, Budget, DriverTypeOK, run_vars
<1>6. CASE WriteMdf4
  <2>1. Placed /\ errors' \in BOOLEAN
    BY <1>6, StageNames DEF WriteMdf4, Goto, Placed, Stages, DriverTypeOK
  <2>2. out' \in [Files -> [run : 0..run', whole : BOOLEAN]] /\ Budget
    BY <1>6, WriteMoves, FileNames DEF WriteMdf4, run_vars
  <2> QED
    BY <1>6, <2>1, <2>2 DEF WriteMdf4, Placed, Budget, DriverTypeOK, run_vars
<1>7. CASE WriteSidecar
  <2>1. Placed
    BY <1>7, StageNames DEF WriteSidecar, Goto, Placed, Stages, DriverTypeOK
  <2>2. out' \in [Files -> [run : 0..run', whole : BOOLEAN]] /\ Budget
    <3>1. CASE UNCHANGED <<out, faults>>
      BY <3>1, <1>7 DEF WriteSidecar, run_vars, DriverTypeOK, Budget
    <3> QED
      BY <1>7, <3>1, WriteMoves, FileNames DEF WriteSidecar, run_vars
  <2> QED
    BY <1>7, <2>1, <2>2 DEF WriteSidecar, Placed, Budget, DriverTypeOK, run_vars
<1>8. CASE WriteReport
  <2>1. Placed
    BY <1>8, StageNames DEF WriteReport, NotOpened, Torn, Goto, Exit, Placed, Stages, Codes, DriverTypeOK
  <2>2. out' \in [Files -> [run : 0..run', whole : BOOLEAN]] /\ Budget
    BY <1>8, WriteMoves, FileNames, StageNames DEF WriteReport, run_vars
  <2>3. report' \in [status : {"success", "partial", "failed", "unknown"}, mdf4 : BOOLEAN]
    <3>1. SessionStatus \in {"success", "partial", "failed"}
      BY DEF SessionStatus
    <3>2. NewReport \in [status : {"success", "partial", "failed", "unknown"}, mdf4 : BOOLEAN]
      BY <3>1 DEF NewReport, DriverTypeOK
    <3> QED
      BY <1>8, <3>2 DEF WriteReport, DriverTypeOK
  <2> QED
    BY <1>8, <2>1, <2>2, <2>3 DEF WriteReport, Placed, Budget, DriverTypeOK, run_vars
<1>9. CASE Finish
  <2>1. Placed
    BY <1>9, CodesTyped DEF Finish, Goto, Exit, Placed, Stages, DriverTypeOK
  <2> QED
    BY <1>9, <2>1 DEF Finish, Placed, DriverTypeOK, run_vars, file_vars
<1>10. CASE Gate
  <2>1. Placed
    <3>1. {"upload_blocked", "upload_failed", "success"} \subseteq Codes
      BY DEF Codes
    <3> QED
      BY <1>10, <3>1, CodesTyped DEF Gate, Goto, Exit, Placed, Stages, DriverTypeOK
  <2>2. out' \in [Files -> [run : 0..run', whole : BOOLEAN]] /\ Budget
    <3>1. CASE UNCHANGED <<out, faults>>
      BY <3>1, <1>10 DEF Gate, run_vars, DriverTypeOK, Budget
    <3> QED
      BY <1>10, <3>1, WriteMoves, FileNames DEF Gate, WriteUploadReport, run_vars
  <2> QED
    BY <1>10, <2>1, <2>2 DEF Gate, Placed, Budget, DriverTypeOK, run_vars
<1>11. CASE PutFile
  <2>1. upload.next \in 1..9 /\ Include[upload.next] \in Outputs
    BY <1>11, FileNames DEF PutFile, DriverTypeOK
  <2>2. upload' \in [next : 1..10, attempt : 0..MaxRetries, all_ok : BOOLEAN]
    <3> DEFINE N == 1..10
    <3> DEFINE A == 0..MaxRetries
    <3> DEFINE n == upload.next + 1
    <3> DEFINE a == upload.attempt + 1
    <3> DEFINE Uploads == [next : N, attempt : A, all_ok : BOOLEAN]
    <3>1. upload \in Uploads /\ n \in N /\ 0 \in A /\ (MayRetry => a \in A)
      BY <2>1 DEF DriverTypeOK, DriverAssumption, MayRetry
    <3>2. /\ NextFile = [upload EXCEPT !.next = n, !.attempt = 0]
          /\ GiveUp = [upload EXCEPT !.next = n, !.attempt = 0, !.all_ok = FALSE]
      BY DEF NextFile, GiveUp
    <3>3. upload' = NextFile \/ upload' = GiveUp
          \/ (MayRetry /\ upload' = [upload EXCEPT !.attempt = a])
      BY <1>11 DEF PutFile
    <3> HIDE DEF N, A, n, a
    <3>4. upload' \in Uploads
      BY <3>1, <3>2, <3>3
    <3> QED
      BY <3>4 DEF N, A
  <2>3. bucket' \in [Outputs -> 0..run]
    <3>1. out[Include[upload.next]].run \in 0..run
      BY <2>1, FileNames DEF DriverTypeOK
    <3> QED
      BY <1>11, <2>1, <3>1 DEF PutFile, DriverTypeOK
  <2>4. Budget
    BY <1>11, FaultTyped DEF PutFile, DriverTypeOK
  <2> QED
    BY <1>11, <2>2, <2>3, <2>4 DEF PutFile, Budget, DriverTypeOK, run_vars, file_vars
<1>12. CASE FinishUpload
  <2>1. Placed
    BY <1>12 DEF FinishUpload, Goto, Placed, Stages, DriverTypeOK
  <2>2. out' \in [Files -> [run : 0..run', whole : BOOLEAN]] /\ Budget
    BY <1>12, WriteMoves, FileNames DEF FinishUpload, run_vars
  <2> QED
    BY <1>12, <2>1, <2>2 DEF FinishUpload, Placed, Budget, DriverTypeOK, run_vars
<1>13. CASE ReportUpload
  <2>1. Placed
    <3>1. {"upload_failed", "success"} \subseteq Codes
      BY DEF Codes
    <3> QED
      BY <1>13, <3>1, CodesTyped DEF ReportUpload, Exit, Placed, Stages
  <2>2. out' \in [Files -> [run : 0..run', whole : BOOLEAN]] /\ Budget
    BY <1>13, WriteMoves, FileNames DEF ReportUpload, WriteUploadReport, run_vars
  <2> QED
    BY <1>13, <2>1, <2>2 DEF ReportUpload, Placed, Budget, DriverTypeOK, run_vars
<1>14. CASE Kill
  <2>1. Placed /\ Budget
    BY <1>14, FaultTyped DEF Kill, Exit, Placed, Stages, Codes, DriverTypeOK
  <2> QED
    BY <1>14, <2>1 DEF Kill, Placed, Budget, DriverTypeOK, run_vars, file_vars
<1>15. CASE UNCHANGED vars
  BY <1>15 DEF vars, DriverTypeOK
<1> QED
  BY <1>2, <1>3, <1>4, <1>5, <1>6, <1>7, <1>8, <1>9, <1>10, <1>11, <1>12, <1>13, <1>14, <1>15
     DEF Next, Ended

(* The variables keep their types (DriverTypeOK), for any command lines    *)
(* and any bounds.                                                         *)
THEOREM DriverTypes == Spec => []DriverTypeOK
<1> QED
  BY InitTyped, TypesKept, DriverAssumption, PTL DEF Spec

-----------------------------------------------------------------------------
(* What a step does to the files: nothing, or it writes one, and only the  *)
(* step that writes session_report.json changes what that report says.     *)
Writes(f) == Wrote(f) \/ UNCHANGED out

LEMMA WriteEffect ==
  ASSUME DriverAssumption, DriverTypeOK, NEW f \in Files,
         Written(f) \/ NotOpened \/ Torn(f) \/ (Fault /\ UNCHANGED out) \/ UNCHANGED <<out, faults>>
  PROVE  Writes(f)
BY WrittenFile DEF Writes, NotOpened, Torn

LEMMA FilesStep ==
  ASSUME DriverAssumption, DriverTypeOK, [Next]_vars
  PROVE  \/ UNCHANGED file_vars
         \/ UNCHANGED <<report, run>> /\ \E f \in Files \ {"session_report"} : Wrote(f)
         \/ /\ stage = "session_report" /\ UNCHANGED run
            /\ Wrote("session_report") /\ report' = NewReport
<1>1. CASE \E v \in Verdicts : WriteValidation(v)
  BY <1>1, WriteEffect, FileNames DEF WriteValidation, Writes, run_vars, file_vars
<1>2. CASE \E s \in Statuses : WriteSync(s)
  BY <1>2, WriteEffect, FileNames DEF WriteSync, Writes, run_vars, file_vars
<1>3. CASE WriteMdf4
  BY <1>3, WriteEffect, FileNames DEF WriteMdf4, Writes, run_vars, file_vars
<1>4. CASE WriteSidecar
  BY <1>4, WriteEffect, FileNames DEF WriteSidecar, Writes, run_vars, file_vars
<1>5. CASE WriteReport
  <2>1. stage \in Files /\ UNCHANGED run
    BY <1>5, StageNames, FileNames DEF WriteReport, run_vars
  <2>2. CASE NotOpened /\ UNCHANGED report
    BY <2>2 DEF NotOpened, file_vars
  <2>3. CASE (Written(stage) \/ Torn(stage)) /\ report' = NewReport
    <3>1. Wrote(stage)
      BY <2>1, <2>3, WrittenFile DEF Torn
    <3> QED
      BY <2>1, <2>3, <3>1 DEF NewReport
  <2> QED
    BY <1>5, <2>2, <2>3 DEF WriteReport
<1>6. CASE Gate \/ FinishUpload \/ ReportUpload
  <2>1. UNCHANGED report /\ UNCHANGED run
    BY <1>6 DEF Gate, FinishUpload, ReportUpload, run_vars
  <2>2. \E f \in {"upload_manifest", "upload_report"} :
          Written(f) \/ (Fault /\ UNCHANGED out) \/ UNCHANGED <<out, faults>>
    BY <1>6 DEF Gate, FinishUpload, ReportUpload, WriteUploadReport
  <2> QED
    BY <2>1, <2>2, WriteEffect, FileNames DEF Writes, file_vars
<1> QED
  BY <1>1, <1>2, <1>3, <1>4, <1>5, <1>6
     DEF Next, Ended, vars, file_vars, Begin, LoadMetadata, LoadManifest, Finish, PutFile, Kill

LEMMA NamedKept ==
  ASSUME DriverAssumption, DriverTypeOK, NamedFileStays, [Next]_vars
  PROVE  NamedFileStays'
<1>1. {"mdf4", "session_report"} \subseteq Files
  BY FileNames
<1>2. \A f \in Files : out[f].run \in 0..run
  BY DEF DriverTypeOK
<1>3. run \in Nat
  BY DEF DriverTypeOK
<1>4. CASE UNCHANGED file_vars
  BY <1>4 DEF file_vars, NamedFileStays
<1>5. ASSUME UNCHANGED <<report, run>>, NEW f \in Files \ {"session_report"}, Wrote(f)
      PROVE  NamedFileStays'
  BY <1>1, <1>2, <1>3, <1>5 DEF Wrote, NamedFileStays
<1>6. CASE /\ stage = "session_report" /\ UNCHANGED run
           /\ Wrote("session_report") /\ report' = NewReport
  <2>1. report'.mdf4 => out["mdf4"].run = run
    BY <1>6 DEF NewReport
  <2>2. out'["mdf4"] = out["mdf4"] /\ out'["session_report"].run = run
    BY <1>1, <1>6 DEF Wrote
  <2> QED
    BY <1>3, <2>1, <2>2 DEF NamedFileStays
<1> QED
  BY <1>4, <1>5, <1>6, FilesStep

(* A session report that names a measurement file is never left without it *)
(* (NamedFileStays), whatever writes fail and wherever a run is killed.    *)
THEOREM NamedFileKept == Spec => []NamedFileStays
<1>1. Init => NamedFileStays
  BY DEF Init, NamedFileStays
<1>2. DriverTypeOK /\ NamedFileStays /\ [Next]_vars => NamedFileStays'
  BY NamedKept, DriverAssumption
<1> QED
  BY <1>1, <1>2, DriverTypes, PTL DEF Spec

-----------------------------------------------------------------------------
(* How far a run that is to go to its end has come: what it has written    *)
(* when it is at a stage, and that without an error the measurement file   *)
(* is its own and the session report says so.                              *)
Uploading == {"finish", "gate", "put", "upload_report"}
AfterQuality    == {"events_report"} \cup Uploading
AfterReport     == {"data_quality_report"} \cup AfterQuality
AfterSegments   == {"session_report"} \cup AfterReport
AfterEvents     == {"scene_segments"} \cup AfterSegments
AfterMdf4       == {"sidecar", "scene_events"} \cup AfterEvents
AfterSync       == {"mdf4"} \cup AfterMdf4
AfterValidation == {"sync"} \cup AfterSync

Fresh(f) == out[f].run = run

Reached ==
  /\ stage \in AfterValidation => Fresh("validation_report")
  /\ stage \in AfterSync => Fresh("sync_report")
  /\ stage \in AfterEvents => Fresh("scene_events")
  /\ stage \in AfterSegments => Fresh("scene_segments")
  /\ stage \in AfterReport => Fresh("session_report")
  /\ stage \in AfterQuality => Fresh("data_quality_report")
  /\ stage \in Uploading => Fresh("events_report")
  /\ stage \in AfterMdf4 /\ WithMdf4 /\ ~errors => Fresh("mdf4")
  /\ stage \in AfterReport => report.mdf4 = (WithMdf4 /\ Fresh("mdf4"))

Progress == ToTheEnd => Reached

(* A run that has come to the upload without an error.                     *)
LEMMA FreshAtEnd ==
  ASSUME DriverAssumption, DriverTypeOK, Reached, stage \in Uploading, ~errors
  PROVE  /\ \A f \in Outputs \ {"mdf4", "sidecar"} : out[f].run = run
         /\ WithMdf4 => out["mdf4"].run = run
         /\ report.mdf4 = WithMdf4
<1>1. stage \in AfterValidation /\ stage \in AfterSync /\ stage \in AfterMdf4 /\ stage \in AfterEvents
      /\ stage \in AfterSegments /\ stage \in AfterReport /\ stage \in AfterQuality
  BY DEF AfterValidation, AfterSync, AfterMdf4, AfterEvents, AfterSegments, AfterReport, AfterQuality
<1>2. \A f \in Outputs \ {"mdf4", "sidecar"} : Fresh(f)
  BY <1>1, FileNames DEF Reached
<1>3. WithMdf4 => Fresh("mdf4")
  BY <1>1 DEF Reached
<1>4. report.mdf4 = WithMdf4
  BY <1>1, <1>3 DEF Reached, WithMdf4
<1> QED
  BY <1>2, <1>3, <1>4 DEF Fresh

(* A step to another stage that leaves the run, and writes f at most.      *)
LEMMA SameRun ==
  ASSUME NEW f \in Files, Writes(f), UNCHANGED run_vars
  PROVE  /\ \A g \in Files : Fresh(g) => Fresh(g)'
         /\ \A g \in Files : g # f => (Fresh(g)' = Fresh(g))
         /\ WithMdf4' = WithMdf4 /\ ToTheEnd' = ToTheEnd /\ WantsUpload' = WantsUpload
         /\ OnlyValidate' = OnlyValidate
<1>1. run' = run /\ cmd' = cmd
  BY DEF run_vars
<1>2. \A g \in Files : g # f => out'[g] = out[g]
  BY DEF Writes, Wrote
<1>3. out' = out \/ out'[f].run = run
  BY DEF Writes, Wrote
<1> QED
  BY <1>1, <1>2, <1>3 DEF Fresh, WithMdf4, ToTheEnd, WantsUpload, OnlyValidate

LEMMA NothingYet ==
  ASSUME stage' \in {"metadata", "manifest", "validation", "exited"}
  PROVE  Reached'
BY DEF Reached, AfterValidation, AfterSync, AfterMdf4, AfterEvents, AfterSegments, AfterReport,
       AfterQuality, Uploading

(* A run that ends otherwise than with success.                            *)
LEMMA EndsBadly ==
  ASSUME stage' = "exited", exit' # "success"
  PROVE  Progress' /\ SuccessIsFresh'
BY NothingYet DEF Progress, SuccessIsFresh

(* A run that ends with success before its end was told to.                *)
LEMMA EndsEarly ==
  ASSUME stage' = "exited", ~ToTheEnd'
  PROVE  Progress' /\ SuccessIsFresh'
BY NothingYet DEF Progress, SuccessIsFresh

LEMMA GoesOn ==
  ASSUME stage' # "exited", ToTheEnd' => Reached'
  PROVE  Progress' /\ SuccessIsFresh'
BY DEF Progress, SuccessIsFresh

LEMMA StartKept ==
  ASSUME \/ \E c \in Commands : Begin(c)
         \/ \E ok \in BOOLEAN : LoadMetadata(ok) \/ LoadManifest(ok)
  PROVE  Progress' /\ SuccessIsFresh'
<1>1. ASSUME NEW c \in Commands, Begin(c) PROVE Progress' /\ SuccessIsFresh'
  <2>1. CASE c.command = "upload"
    BY <1>1, <2>1, GoesOn DEF Begin, ToTheEnd
  <2>2. CASE c.command # "upload"
    BY <1>1, <2>2, GoesOn, NothingYet DEF Begin
  <2> QED
    BY <2>1, <2>2
<1>2. ASSUME NEW ok \in BOOLEAN, LoadMetadata(ok) \/ LoadManifest(ok)
      PROVE  Progress' /\ SuccessIsFresh'
  BY <1>2, GoesOn, NothingYet, EndsBadly DEF LoadMetadata, LoadManifest, Goto, Exit
<1> QED
  BY <1>1, <1>2

LEMMA ValidationKept ==
  ASSUME DriverAssumption, DriverTypeOK, NEW v \in Verdicts, WriteValidation(v)
  PROVE  Progress' /\ SuccessIsFresh'
<1>1. Writes("validation_report") /\ UNCHANGED run_vars
  BY WriteEffect, FileNames DEF WriteValidation
<1>2. ToTheEnd' = ToTheEnd /\ OnlyValidate' = OnlyValidate
  BY <1>1, SameRun, FileNames
<1>3. CASE NotOpened \/ Torn("validation_report")
  BY <1>3, EndsBadly DEF NotOpened, Torn, Exit
<1>4. CASE Written("validation_report") /\ stage' = "sync"
  <2>1. Wrote("validation_report")
    BY <1>4, WrittenFile, FileNames
  <2>2. Fresh("validation_report")'
    BY <1>1, <2>1 DEF Wrote, Fresh, run_vars
  <2> QED
    BY <1>4, <2>2, GoesOn
       DEF Reached, AfterValidation, AfterSync, AfterMdf4, AfterEvents, AfterSegments, AfterReport,
           AfterQuality, Uploading
<1>5. CASE stage' = "exited" /\ exit' = "validation_error"
  BY <1>5, EndsBadly
<1>6. CASE stage' = "exited" /\ OnlyValidate
  BY <1>2, <1>6, EndsEarly DEF OnlyValidate, ToTheEnd
<1> QED
  BY <1>3, <1>4, <1>5, <1>6 DEF WriteValidation, Goto, Exit

LEMMA SyncKept ==
  ASSUME DriverAssumption, DriverTypeOK, Progress, NEW s \in Statuses, WriteSync(s)
  PROVE  Progress' /\ SuccessIsFresh'
<1>1. Writes("sync_report") /\ UNCHANGED run_vars
  BY WriteEffect, FileNames DEF WriteSync
<1>2. ToTheEnd' = ToTheEnd
  BY <1>1, SameRun, FileNames
<1>3. CASE NotOpened \/ Torn("sync_report")
  BY <1>3, EndsBadly DEF NotOpened, Torn, Exit
<1>4. CASE Written("sync_report") /\ stage' = (IF WithMdf4 THEN "mdf4" ELSE "scene_events")
  <2>1. Wrote("sync_report")
    BY <1>4, WrittenFile, FileNames
  <2>2. Fresh("sync_report")'
    BY <1>1, <2>1 DEF Wrote, Fresh, run_vars
  <2>3. ToTheEnd => Fresh("validation_report")'
    <3>1. ToTheEnd => Fresh("validation_report")
      BY DEF Progress, Reached, WriteSync, AfterValidation
    <3> QED
      BY <1>1, <3>1, SameRun, FileNames
  <2>4. stage' = "scene_events" => ~WithMdf4'
    BY <1>1, <1>4, SameRun, FileNames
  <2> QED
    BY <1>2, <1>4, <2>2, <2>3, <2>4, GoesOn
       DEF Reached, AfterValidation, AfterSync, AfterMdf4, AfterEvents, AfterSegments, AfterReport,
           AfterQuality, Uploading
<1>5. CASE stage' = "exited" /\ exit' = "sync_error"
  BY <1>5, EndsBadly
<1>6. CASE stage' = "exited" /\ cmd.only = "sync"
  BY <1>2, <1>6, EndsEarly DEF ToTheEnd
<1> QED
  BY <1>3, <1>4, <1>5, <1>6 DEF WriteSync, Goto, Exit

(* Stage 8.                                                                *)
LEMMA MeasurementKept ==
  ASSUME DriverAssumption, DriverTypeOK, Progress, WriteMdf4 \/ WriteSidecar
  PROVE  Progress' /\ SuccessIsFresh'
<1>1. UNCHANGED run_vars /\ stage \in AfterSync /\ stage \in AfterValidation
  BY DEF WriteMdf4, WriteSidecar, AfterSync, AfterValidation, AfterMdf4
<1>2. \E f \in {"mdf4", "sidecar"} : Writes(f)
  BY WriteEffect, FileNames DEF WriteMdf4, WriteSidecar
<1>3. ToTheEnd' = ToTheEnd /\ (\A g \in Files : Fresh(g) => Fresh(g)')
  BY <1>1, <1>2, SameRun, FileNames
<1>4. ToTheEnd => Fresh("validation_report")' /\ Fresh("sync_report")'
  BY <1>1, <1>3, FileNames DEF Progress, Reached
<1>5. stage' \in {"sidecar", "scene_events"}
  BY DEF WriteMdf4, WriteSidecar, Goto
<1>6. ToTheEnd /\ WithMdf4 /\ ~errors' => Fresh("mdf4")'
  <2>1. CASE WriteSidecar
    <3>1. ToTheEnd /\ WithMdf4 /\ ~errors => Fresh("mdf4")
      BY <2>1 DEF Progress, Reached, WriteSidecar, AfterMdf4
    <3> QED
      BY <1>3, <2>1, <3>1, FileNames DEF WriteSidecar
  <2>2. CASE WriteMdf4
    BY <1>1, <2>2, WrittenFile, FileNames DEF WriteMdf4, Wrote, Fresh, run_vars
  <2> QED
    BY <2>1, <2>2
<1>7. WithMdf4' = WithMdf4
  BY <1>1, <1>2, SameRun, FileNames
<1> QED
  BY <1>3, <1>4, <1>5, <1>6, <1>7, GoesOn
     DEF Reached, AfterValidation, AfterSync, AfterMdf4, AfterEvents, AfterSegments, AfterReport,
         AfterQuality, Uploading

(* Stages 9 and 10.                                                        *)
LEMMA ReportsKept ==
  ASSUME DriverAssumption, DriverTypeOK, Progress, WriteReport
  PROVE  Progress' /\ SuccessIsFresh'
<1>1. UNCHANGED run_vars /\ UNCHANGED errors /\ stage \in Files \ {"mdf4"}
  BY StageNames, FileNames DEF WriteReport
<1>2. Writes(stage)
  BY <1>1, WriteEffect DEF WriteReport
<1>3. CASE NotOpened \/ Torn(stage)
  BY <1>3, EndsBadly DEF NotOpened, Torn, Exit
<1>4. CASE Written(stage) /\ stage' = NextReport[stage] /\ report' = NewReport
  <2>1. Wrote(stage)
    BY <1>1, <1>4, WrittenFile
  <2>2. \A g \in Files : g = stage => Fresh(g)'
    BY <1>1, <2>1 DEF Wrote, Fresh, run_vars
  <2>3. /\ \A g \in Files : Fresh(g) => Fresh(g)'
        /\ Fresh("mdf4")' = Fresh("mdf4")
        /\ WithMdf4' = WithMdf4 /\ ToTheEnd' = ToTheEnd
    BY <1>1, <1>2, SameRun, FileNames
  <2>5. stage = "session_report" => report'.mdf4 = (WithMdf4 /\ Fresh("mdf4"))'
    BY <1>4, <2>3 DEF NewReport, Fresh
  <2>6. stage # "session_report" => report' = report
    BY <1>4 DEF NewReport
  <2>7. ToTheEnd => Reached
    BY DEF Progress
  <2>8. \/ stage = "scene_events" /\ stage' = "scene_segments"
        \/ stage = "scene_segments" /\ stage' = "session_report"
        \/ stage = "session_report" /\ stage' = "data_quality_report"
        \/ stage = "data_quality_report" /\ stage' = "events_report"
        \/ stage = "events_report" /\ stage' = "finish"
    BY <1>4, StageNames DEF WriteReport
  <2>9. ToTheEnd /\ WithMdf4 /\ ~errors => Fresh("mdf4")'
    BY <2>3, <2>7, <2>8
       DEF Reached, AfterMdf4, AfterEvents, AfterSegments, AfterReport, AfterQuality
  <2>10. ToTheEnd => Fresh("validation_report")' /\ Fresh("sync_report")'
    BY <2>3, <2>7, <2>8, FileNames
       DEF Reached, AfterValidation, AfterSync, AfterMdf4, AfterEvents, AfterSegments, AfterReport,
           AfterQuality
  <2>11. ToTheEnd => Reached'
    <3>1. ASSUME ToTheEnd PROVE stage' \in AfterEvents => Fresh("scene_events")'
      BY <3>1, <2>2, <2>3, <2>7, <2>8, FileNames
         DEF Reached, AfterEvents, AfterSegments, AfterReport, AfterQuality, Uploading
    <3>2. ASSUME ToTheEnd PROVE stage' \in AfterSegments => Fresh("scene_segments")'
      BY <3>2, <2>2, <2>3, <2>7, <2>8, FileNames
         DEF Reached, AfterSegments, AfterReport, AfterQuality, Uploading
    <3>3. ASSUME ToTheEnd PROVE stage' \in AfterReport => Fresh("session_report")'
      BY <3>3, <2>2, <2>3, <2>7, <2>8, FileNames DEF Reached, AfterReport, AfterQuality, Uploading
    <3>4. ASSUME ToTheEnd PROVE stage' \in AfterQuality => Fresh("data_quality_report")'
      BY <3>4, <2>2, <2>3, <2>7, <2>8, FileNames DEF Reached, AfterQuality, Uploading
    <3>5. stage' \in Uploading => Fresh("events_report")'
      BY <2>2, <2>8, FileNames DEF Uploading
    <3>6. ASSUME ToTheEnd PROVE stage' \in AfterReport => report'.mdf4 = (WithMdf4 /\ Fresh("mdf4"))'
      BY <3>6, <2>3, <2>5, <2>6, <2>7, <2>8 DEF Reached, AfterReport, AfterQuality, Uploading
    <3> QED
      BY <1>1, <2>3, <2>9, <2>10, <3>1, <3>2, <3>3, <3>4, <3>5, <3>6 DEF Reached
  <2> QED
    BY <2>3, <2>8, <2>11, GoesOn
<1> QED
  BY <1>3, <1>4 DEF WriteReport, Goto

(* The upload writes no output.                                            *)
LEMMA SuccessCode ==
  ASSUME NEW code, UploadCode(code) = "success", cmd.command # "upload"
  PROVE  ~errors
BY DEF UploadCode, FinalCode

LEMMA UploadStagesKept ==
  ASSUME DriverAssumption, DriverTypeOK, Progress,
         Finish \/ Gate \/ PutFile \/ FinishUpload \/ ReportUpload
  PROVE  Progress' /\ SuccessIsFresh'
<1>1. /\ UNCHANGED run_vars /\ UNCHANGED errors /\ UNCHANGED report /\ stage \in Uploading
  BY DEF Finish, Gate, PutFile, FinishUpload, ReportUpload, Uploading, file_vars
<1>2. \E f \in {"upload_manifest", "upload_report"} : Writes(f)
  BY WriteEffect, FileNames
     DEF Finish, Gate, PutFile, FinishUpload, ReportUpload, WriteUploadReport, file_vars, Writes
<1>3. /\ \A g \in Outputs : out'[g] = out[g]
      /\ run' = run /\ WithMdf4' = WithMdf4 /\ ToTheEnd' = ToTheEnd
  BY <1>1, <1>2, SameRun, FileNames DEF Writes, Wrote, run_vars
<1>4. \A g \in Outputs : Fresh(g)' = Fresh(g)
  BY <1>3 DEF Fresh
<1>5. CASE stage' # "exited"
  <2>1. stage' \in Uploading
    BY <1>1, <1>5
       DEF Finish, Gate, PutFile, FinishUpload, ReportUpload, Uploading, Goto, Exit
  <2>2. stage \in AfterValidation /\ stage \in AfterSync /\ stage \in AfterMdf4
        /\ stage \in AfterEvents /\ stage \in AfterSegments /\ stage \in AfterReport
        /\ stage \in AfterQuality
    BY <1>1
       DEF AfterValidation, AfterSync, AfterMdf4, AfterEvents, AfterSegments, AfterReport, AfterQuality
  <2>3. Reached => Reached'
    BY <1>1, <1>3, <1>4, <2>2, FileNames DEF Reached
  <2> QED
    BY <1>3, <1>5, <2>3, GoesOn DEF Progress
<1>6. CASE stage' = "exited" /\ exit' = "success"
  <2>1. ToTheEnd => ~errors
    BY <1>6, SuccessCode
       DEF Finish, Gate, PutFile, FinishUpload, ReportUpload, Goto, Exit, ToTheEnd, FinalCode
  <2>2. ToTheEnd => Reached
    BY DEF Progress
  <2>3. ToTheEnd => /\ \A f \in Outputs \ {"mdf4", "sidecar"} : out[f].run = run
                    /\ WithMdf4 => out["mdf4"].run = run
                    /\ report.mdf4 = WithMdf4
    BY <1>1, <2>1, <2>2, FreshAtEnd
  <2> QED
    BY <1>1, <1>3, <1>6, <2>3, NothingYet, FileNames DEF Progress, SuccessIsFresh
<1>7. CASE stage' = "exited" /\ exit' # "success"
  BY <1>7, EndsBadly
<1> QED
  BY <1>5, <1>6, <1>7

LEMMA ProgressKept ==
  ASSUME DriverAssumption, DriverTypeOK, Progress, SuccessIsFresh, [Next]_vars
  PROVE  Progress' /\ SuccessIsFresh'
<1>1. CASE Kill
  BY <1>1, EndsBadly DEF Kill, Exit
<1>2. CASE UNCHANGED vars
  BY <1>2 DEF vars, Progress, SuccessIsFresh, Reached, Fresh, ToTheEnd, WithMdf4
<1> QED
  BY <1>1, <1>2, StartKept, ValidationKept, SyncKept, MeasurementKept, ReportsKept, UploadStagesKept
     DEF Next, Ended

(* A run that goes to its end with success has written every file, and no  *)
(* file of an earlier run is left among its results (SuccessIsFresh).      *)
THEOREM SuccessMeansFresh == Spec => []SuccessIsFresh
<1>1. Init => Progress /\ SuccessIsFresh
  BY DEF Init, Progress, SuccessIsFresh, Reached, AfterValidation, AfterSync, AfterMdf4, AfterEvents,
         AfterSegments, AfterReport, AfterQuality, Uploading
<1>2. DriverTypeOK /\ Progress /\ SuccessIsFresh /\ [Next]_vars => (Progress /\ SuccessIsFresh)'
  BY ProgressKept, DriverAssumption
<1> QED
  BY <1>1, <1>2, DriverTypes, PTL DEF Spec

-----------------------------------------------------------------------------
(* The upload: while all went well, each file it has come past is in the   *)
(* bucket as it is in the directory.                                       *)
Sent(i) == Exists(Include[i]) => bucket[Include[i]] = out[Include[i]].run
Owed == upload.all_ok => \A i \in 1..9 : i < upload.next => Sent(i)

Puts ==
  /\ stage \notin {"put", "upload_report", "exited"} => upload = NoUpload
  /\ stage \notin {"gate", "put", "upload_report", "exited"} => cmd.command # "upload"
  /\ stage \in {"put", "upload_report"} => ~cmd.dry_run /\ Owed
  /\ stage = "upload_report" => upload.next > 9

Wanted == (cmd.command = "upload" \/ WantsUpload) /\ ~cmd.dry_run

(* A run that ends without success, or was not to upload.                  *)
LEMMA NoUploadEnd ==
  ASSUME stage' = "exited", exit' # "success" \/ ~Wanted'
  PROVE  Puts' /\ UploadComplete'
BY DEF Puts, UploadComplete, Wanted

LEMMA SameCommand ==
  ASSUME UNCHANGED run_vars
  PROVE  Wanted' = Wanted /\ cmd' = cmd
BY DEF run_vars, Wanted, WantsUpload

(* A stage of the pipeline before the upload.                              *)
LEMMA PipelinePuts ==
  ASSUME Puts, UNCHANGED run_vars, UNCHANGED upload,
         stage \notin {"gate", "put", "upload_report", "exited"},
         \/ stage' \notin {"put", "upload_report", "exited"}
         \/ stage' = "exited" /\ (exit' # "success" \/ ~Wanted)
  PROVE  Puts' /\ UploadComplete'
<1>1. cmd' = cmd /\ Wanted' = Wanted
  BY SameCommand
<1>2. CASE stage' \notin {"put", "upload_report", "exited"}
  BY <1>1, <1>2 DEF Puts, UploadComplete, NoUpload
<1>3. CASE stage' = "exited" /\ (exit' # "success" \/ ~Wanted)
  BY <1>1, <1>3, NoUploadEnd
<1> QED
  BY <1>2, <1>3

LEMMA BeginPuts ==
  ASSUME NEW c \in Commands, Begin(c)
  PROVE  Puts' /\ UploadComplete'
<1>1. CASE c.command = "upload"
  BY <1>1 DEF Begin, Puts, UploadComplete, NoUpload
<1>2. CASE c.command # "upload"
  BY <1>2 DEF Begin, Puts, UploadComplete, NoUpload
<1> QED
  BY <1>1, <1>2

LEMMA StagesPut ==
  ASSUME Puts,
         \/ \E ok \in BOOLEAN : LoadMetadata(ok) \/ LoadManifest(ok)
         \/ \E v \in Verdicts : WriteValidation(v)
         \/ \E s \in Statuses : WriteSync(s)
         \/ WriteMdf4 \/ WriteSidecar \/ WriteReport \/ Finish
  PROVE  Puts' /\ UploadComplete'
<1>1. UNCHANGED run_vars /\ UNCHANGED upload
  BY DEF LoadMetadata, LoadManifest, WriteValidation, WriteSync, WriteMdf4, WriteSidecar, WriteReport,
         Finish
<1>2. stage \notin {"gate", "put", "upload_report", "exited"}
  BY StageNames
     DEF LoadMetadata, LoadManifest, WriteValidation, WriteSync, WriteMdf4, WriteSidecar, WriteReport,
         Finish
<1>3. ASSUME NEW ok \in BOOLEAN, LoadMetadata(ok) \/ LoadManifest(ok)
      PROVE  Puts' /\ UploadComplete'
  BY <1>1, <1>2, <1>3, PipelinePuts DEF LoadMetadata, LoadManifest, Goto, Exit
<1>4. ASSUME NEW v \in Verdicts, WriteValidation(v) PROVE Puts' /\ UploadComplete'
  <2>1. \/ stage' = "sync"
        \/ stage' = "exited" /\ (exit' # "success" \/ OnlyValidate)
    BY <1>4 DEF WriteValidation, NotOpened, Torn, Goto, Exit
  <2>2. cmd.command # "upload"
    BY <1>2 DEF Puts
  <2>3. OnlyValidate => ~Wanted
    BY <2>2 DEF OnlyValidate, Wanted, WantsUpload
  <2> QED
    BY <1>1, <1>2, <2>1, <2>3, PipelinePuts
<1>5. ASSUME NEW s \in Statuses, WriteSync(s) PROVE Puts' /\ UploadComplete'
  <2>1. \/ stage' \in {"mdf4", "scene_events"}
        \/ stage' = "exited" /\ (exit' # "success" \/ cmd.only = "sync")
    BY <1>5 DEF WriteSync, NotOpened, Torn, Goto, Exit
  <2>2. cmd.command # "upload"
    BY <1>2 DEF Puts
  <2>3. cmd.only = "sync" => ~Wanted
    BY <2>2 DEF Wanted, WantsUpload
  <2> QED
    BY <1>1, <1>2, <2>1, <2>3, PipelinePuts
<1>6. CASE WriteMdf4 \/ WriteSidecar
  BY <1>1, <1>2, <1>6, PipelinePuts DEF WriteMdf4, WriteSidecar, Goto
<1>7. CASE WriteReport
  <2>1. \/ stage' \in {"scene_segments", "session_report", "data_quality_report", "events_report",
                      "finish"}
        \/ stage' = "exited" /\ exit' = "abort"
    BY <1>7, StageNames DEF WriteReport, NotOpened, Torn, Goto, Exit
  <2> QED
    BY <1>1, <1>2, <2>1, PipelinePuts
<1>8. CASE Finish
  <2>1. cmd.command # "upload"
    BY <1>2 DEF Puts
  <2>2. stage' = "gate" \/ (stage' = "exited" /\ ~Wanted)
    BY <1>8, <2>1 DEF Finish, Goto, Exit, Wanted
  <2> QED
    BY <1>1, <1>2, <2>2, PipelinePuts
<1> QED
  BY <1>3, <1>4, <1>5, <1>6, <1>7, <1>8

LEMMA GateCodes ==
  /\ UploadCode("upload_failed") = "upload_failed"
  /\ UploadCode("upload_blocked") = "success" => cmd.dry_run
BY DEF UploadCode

LEMMA GatePuts ==
  ASSUME Puts, Gate
  PROVE  Puts' /\ UploadComplete'
<1>1. UNCHANGED run_vars /\ UNCHANGED upload /\ stage = "gate" /\ upload = NoUpload
  BY DEF Gate, Puts
<1>2. cmd' = cmd /\ Wanted' = Wanted
  BY <1>1, SameCommand
<1>3. CASE stage' = "exited" /\ (exit' # "success" \/ ~Wanted)
  BY <1>2, <1>3, NoUploadEnd
<1>4. CASE stage' = "put" /\ ~cmd.dry_run
  BY <1>1, <1>2, <1>4 DEF Puts, Owed, NoUpload, UploadComplete
<1>5. \/ stage' = "exited" /\ exit' = UploadCode("upload_blocked")
      \/ stage' = "exited" /\ exit' = UploadCode("upload_failed")
      \/ stage' = "exited" /\ cmd.dry_run
      \/ stage' = "put" /\ ~cmd.dry_run
  BY DEF Gate, Goto, Exit
<1> QED
  BY <1>3, <1>4, <1>5, GateCodes DEF Wanted

LEMMA PutFilePuts ==
  ASSUME DriverTypeOK, Puts, PutFile
  PROVE  Puts' /\ UploadComplete'
<1>1. /\ UNCHANGED run_vars /\ out' = out /\ stage = "put" /\ stage' = "put"
      /\ ~cmd.dry_run /\ Owed
  BY DEF PutFile, Puts, file_vars
<1>2. upload.next \in 1..9 /\ Include[upload.next] \in Outputs /\ (\A i \in 1..9 : Include[i] \in Outputs)
  BY FileNames DEF PutFile, DriverTypeOK
<1>3. \A i \in 1..9 : Sent(i) => Sent(i)'
  <2>1. bucket' = bucket \/ bucket' = [bucket EXCEPT ![Include[upload.next]] = out[Include[upload.next]].run]
    BY DEF PutFile
  <2>2. bucket \in [Outputs -> 0..run]
    BY DEF DriverTypeOK
  <2> QED
    BY <1>1, <1>2, <2>1, <2>2 DEF Sent, Exists
<1>4. CASE upload' = GiveUp
  <2>1. ~upload'.all_ok
    BY <1>4 DEF GiveUp, DriverTypeOK
  <2> QED
    BY <1>1, <2>1, SameCommand DEF Puts, Owed, UploadComplete
<1>5. CASE upload' = [upload EXCEPT !.attempt = @ + 1]
  <2>1. upload'.all_ok = upload.all_ok /\ upload'.next = upload.next
    BY <1>5 DEF DriverTypeOK
  <2> QED
    BY <1>1, <1>3, <2>1, SameCommand DEF Puts, Owed, UploadComplete
<1>6. CASE /\ upload' = NextFile
           /\ \/ ~Exists(Include[upload.next])
              \/ bucket' = [bucket EXCEPT ![Include[upload.next]] = out[Include[upload.next]].run]
  <2>1. upload'.all_ok = upload.all_ok /\ upload'.next = upload.next + 1
    BY <1>6 DEF NextFile, DriverTypeOK
  <2>2. \A i \in 1..9 : i = upload.next => Sent(i)'
    BY <1>1, <1>2, <1>6 DEF Sent, Exists, DriverTypeOK
  <2>3. Owed'
    BY <1>1, <1>2, <1>3, <2>1, <2>2 DEF Owed
  <2> QED
    BY <1>1, <2>3, SameCommand DEF Puts, UploadComplete
<1> QED
  BY <1>4, <1>5, <1>6 DEF PutFile

(* The files that are reported of the upload are none of its own.          *)
LEMMA SentKept ==
  ASSUME DriverAssumption, DriverTypeOK, FinishUpload \/ ReportUpload
  PROVE  \A i \in 1..9 : Sent(i)' = Sent(i)
<1>1. \E f \in {"upload_manifest", "upload_report"} : Writes(f)
  BY WriteEffect, FileNames DEF FinishUpload, ReportUpload, WriteUploadReport
<1>2. \A g \in Outputs : out'[g] = out[g]
  BY <1>1, FileNames DEF Writes, Wrote
<1>3. bucket' = bucket
  BY DEF FinishUpload, ReportUpload
<1> QED
  BY <1>2, <1>3, FileNames DEF Sent, Exists

LEMMA UploadEndPuts ==
  ASSUME DriverAssumption, DriverTypeOK, Puts, FinishUpload \/ ReportUpload
  PROVE  Puts' /\ UploadComplete'
<1>1. UNCHANGED run_vars /\ UNCHANGED upload /\ Owed /\ ~cmd.dry_run
  BY DEF FinishUpload, ReportUpload, Puts
<1>2. cmd' = cmd /\ Wanted' = Wanted
  BY <1>1, SameCommand
<1>3. Owed'
  BY <1>1, SentKept DEF Owed
<1>4. CASE FinishUpload
  <2>1. stage' = "upload_report" /\ upload'.next > 9
    BY <1>1, <1>4, FileNames DEF FinishUpload, Goto
  <2> QED
    BY <1>1, <1>2, <1>3, <2>1 DEF Puts, UploadComplete
<1>5. CASE ReportUpload
  <2>1. stage' = "exited" /\ upload.next > 9 /\ upload.next \in 1..10
    BY <1>5 DEF ReportUpload, Exit, Puts, DriverTypeOK
  <2>2. exit' = "success" => upload.all_ok
    BY <1>5, GateCodes DEF ReportUpload, Exit
  <2>3. exit' = "success" => \A i \in 1..9 : Sent(i)'
    BY <1>1, <1>3, <2>1, <2>2 DEF Owed
  <2>4. exit' = "success" => \A f \in Outputs : Exists(f)' => bucket'[f] = out'[f].run
    BY <2>3 DEF Sent, Outputs
  <2> QED
    BY <2>1, <2>4 DEF Puts, UploadComplete, Exists
<1> QED
  BY <1>4, <1>5

LEMMA PutsKept ==
  ASSUME DriverAssumption, DriverTypeOK, Puts, UploadComplete, [Next]_vars
  PROVE  Puts' /\ UploadComplete'
<1>1. CASE Kill
  BY <1>1, NoUploadEnd DEF Kill, Exit
<1>2. CASE UNCHANGED vars
  BY <1>2 DEF vars, Puts, UploadComplete, Owed, Sent, Exists, WantsUpload
<1> QED
  BY <1>1, <1>2, BeginPuts, StagesPut, GatePuts, PutFilePuts, UploadEndPuts DEF Next, Ended

(* A run that was to upload and ends with success has put every file of    *)
(* the directory, as it is there, into the bucket (UploadComplete),        *)
(* however often uploads failed and were tried again.                      *)
THEOREM UploadIsComplete == Spec => []UploadComplete
<1>1. Init => Puts /\ UploadComplete
  BY DEF Init, Puts, UploadComplete
<1>2. DriverTypeOK /\ Puts /\ UploadComplete /\ [Next]_vars => (Puts /\ UploadComplete)'
  BY PutsKept, DriverAssumption
<1> QED
  BY <1>1, <1>2, DriverTypes, PTL DEF Spec
-----------------------------------------------------------------------------
LEMMA VerdictsComputed ==
  /\ \A ego, source, ranges : Integrity(ego, source, ranges) \in Verdicts
  /\ \A ego, source : ValidationReport(ego, source).integrity \in Verdicts
<1>1. \A ego, source, ranges : Integrity(ego, source, ranges) \in Verdicts
  BY DEF Integrity, Verdicts
<1> QED
  BY <1>1 DEF ValidationReport

LEMMA StatusComputed == SyncResult.status \in Statuses
<1>1. \A gps, gnss, events, audio, range : Synchronise(gps, gnss, events, audio, range).status \in Statuses
  BY DEF Synchronise, Statuses
<1> QED
  BY <1>1 DEF SyncResult, NoSync, Statuses

LEMMA PipelineStarts == PipelineInit => Init
BY DEF PipelineInit

(* What a session says of its files and commands does not change.          *)
SessionIn == session \in Sessions

LEMMA PipelineSteps ==
  ASSUME SessionIn, run \in Nat, [PipelineNext]_pipeline_vars, SessionsAssumption
  PROVE  [Next]_vars /\ SessionIn'
<1>1. CASE PBegin
  <2>1. session.commands[run + 1] \in Commands
    BY <1>1 DEF PBegin, SessionIn, SessionsAssumption
  <2> QED
    BY <1>1, <2>1 DEF PBegin, Next, SessionIn
<1>2. CASE PLoadMetadata \/ PLoadManifest
  BY <1>2 DEF PLoadMetadata, PLoadManifest, Next, SessionIn, SessionsAssumption
<1>3. CASE PValidate
  <2>1. validation'.integrity \in Verdicts
    BY <1>3, VerdictsComputed DEF PValidate
  <2> QED
    BY <1>3, <2>1 DEF PValidate, Next, SessionIn
<1>4. CASE PSync
  <2>1. synced'.status \in Statuses
    BY <1>4, StatusComputed DEF PSync
  <2> QED
    BY <1>4, <2>1 DEF PSync, Next, SessionIn
<1>5. CASE PWriteMdf4 \/ PWriteSidecar \/ PWriteReport \/ PUpload \/ PKill
  BY <1>5 DEF PWriteMdf4, PWriteSidecar, PWriteReport, PUpload, PKill, Next, SessionIn
<1>6. CASE PEnded \/ UNCHANGED pipeline_vars
  BY <1>6 DEF PEnded, pipeline_vars, SessionIn
<1> QED
  BY <1>1, <1>2, <1>3, <1>4, <1>5, <1>6 DEF PipelineNext

(* The pipeline with its data implements the driver.                       *)
THEOREM PipelineIsDriver == PipelineSpec => Spec
<1>1. PipelineInit => Init /\ SessionIn
  BY PipelineStarts DEF PipelineInit, SessionIn
<1>2. DriverTypeOK => run \in Nat
  BY DriverAssumption DEF DriverTypeOK, DriverAssumption
<1>3. SessionIn /\ DriverTypeOK /\ [PipelineNext]_pipeline_vars => [Next]_vars /\ SessionIn'
  BY <1>2, PipelineSteps, SessionsAssumption
<1>4. Init => DriverTypeOK
  BY InitTyped, DriverAssumption
<1>5. DriverTypeOK /\ [Next]_vars => DriverTypeOK'
  BY TypesKept, DriverAssumption
<1> QED
  BY <1>1, <1>3, <1>4, <1>5, PTL DEF PipelineSpec, Spec

(* What is proved of the driver holds of the pipeline on every session.    *)
THEOREM PipelinePromises ==
  PipelineSpec => [](SuccessIsFresh /\ UploadComplete /\ NamedFileStays)
<1> QED
  BY PipelineIsDriver, SuccessMeansFresh, UploadIsComplete, NamedFileKept, PTL
-----------------------------------------------------------------------------
(* What the scans read is made of frames and packets.                      *)
LEMMA PrefixTyped ==
  ASSUME NEW S, NEW s \in Seq(S), NEW I \in SUBSET (0..Len(s)), 0 \in I
  PROVE  Max(I) \in 0..Len(s) /\ SubSeq(s, 1, Max(I)) \in Seq(S)
<1>1. Len(s) \in Nat
  BY LenProperties
<1>2. IsFiniteSet(0..Len(s))
  BY <1>1, FS_Interval
<1>3. IsFiniteSet(I)
  BY <1>2, FS_Subset
<1>4. Max(I) \in I
  <2>1. I \subseteq Int /\ I # {}
    BY <1>1
  <2> QED BY <1>3, <2>1, MaxAndMin
<1>5. Max(I) \in 0..Len(s)
  BY <1>4
<1> QED BY <1>1, <1>5, SubSeqProperties

LEMMA ChunksTyped ==
  ASSUME SessionsAssumption, SessionIn
  PROVE  Chunks \in Seq(ChunkFiles)
<1> DEFINE dir == session.dir
           present == {n \in 0..Len(dir.chunks) : \A i \in 1..n : dir.chunks[i].present}
<1>1. dir.chunks \in Seq(ChunkFiles) /\ dir.single \in ChunkFiles
  BY DEF SessionsAssumption, SessionIn
<1>2. /\ dir.listed => Chunks = dir.chunks
      /\ ~dir.listed => Chunks \in {SubSeq(dir.chunks, 1, Max(present)), <<dir.single>>, << >>}
  BY Zenon DEF Chunks, ManifestChunks
<1>3. 0 \in present /\ present \in SUBSET (0..Len(dir.chunks))
  BY <1>1, LenProperties
<1> HIDE DEF dir, present
<1>4. SubSeq(dir.chunks, 1, Max(present)) \in Seq(ChunkFiles)
  BY <1>1, <1>3, PrefixTyped
<1>5. <<dir.single>> \in Seq(ChunkFiles) /\ << >> \in Seq(ChunkFiles)
  BY <1>1
<1>6. CASE dir.listed
  BY <1>1, <1>2, <1>6, Zenon
<1>7. CASE ~dir.listed
  BY <1>2, <1>4, <1>5, <1>7, Zenon
<1> QED BY <1>6, <1>7

LEMMA ChunkScanTyped ==
  \A chunk \in ChunkFiles : \A contract : ScanChunk(chunk, contract) \in Seq(EgoFrames)
<1> SUFFICES ASSUME NEW chunk \in ChunkFiles, NEW contract
             PROVE  ScanChunk(chunk, contract) \in Seq(EgoFrames)
  OBVIOUS
<1> DEFINE good == {n \in 0..Len(chunk.frames) :
                      \A i \in 1..n : chunk.frames[i].whole /\ chunk.frames[i].contract = contract}
<1>1. chunk.frames \in Seq(EgoFrames)
  BY DEF ChunkFiles
<1>2. 0 \in good /\ good \in SUBSET (0..Len(chunk.frames))
  BY <1>1, LenProperties
<1>3. ScanChunk(chunk, contract) \in {SubSeq(chunk.frames, 1, Max(good)), << >>}
  BY Zenon DEF ScanChunk
<1> HIDE DEF good
<1>4. SubSeq(chunk.frames, 1, Max(good)) \in Seq(EgoFrames)
  BY <1>1, <1>2, PrefixTyped
<1>5. << >> \in Seq(EgoFrames)
  BY EmptySeq
<1> QED BY <1>3, <1>4, <1>5, Zenon

LEMMA FramesTyped ==
  ASSUME SessionsAssumption, SessionIn
  PROVE  Frames \in Seq(EgoFrames)
<1> DEFINE format == IF Chunks = << >> THEN "unknown" ELSE DetectFormat(Chunks[1])
           Contract(i) ==
             (IF format = "unknown" THEN DetectFormat(Chunks[i]) ELSE format) = "contract"
           scans == [i \in DOMAIN Chunks |-> ScanChunk(Chunks[i], Contract(i))]
<1>1. Chunks \in Seq(ChunkFiles)
  BY ChunksTyped
<1>2. Frames = FlattenSeq(scans)
  BY Zenon DEF Frames, Scan
<1>3. scans \in Seq(Seq(EgoFrames))
  <2> HIDE DEF format
  <2>1. DOMAIN Chunks = 1..Len(Chunks) /\ Len(Chunks) \in Nat
    BY <1>1, LenProperties
  <2>2. \A i \in 1..Len(Chunks) : Chunks[i] \in ChunkFiles
    BY <1>1, ElementOfSeq
  <2> HIDE DEF Contract
  <2>3. \A i \in 1..Len(Chunks) : ScanChunk(Chunks[i], Contract(i)) \in Seq(EgoFrames)
    BY <2>2, ChunkScanTyped
  <2> QED BY <2>1, <2>3
<1> HIDE DEF scans
<1> QED BY <1>2, <1>3, FlattenAppend

LEMMA SourceTyped ==
  ASSUME SessionsAssumption, SessionIn
  PROVE  SourceFrames \in Seq(SourcePackets)
<1> DEFINE packets == session.source.packets
           good == {n \in 0..Len(packets) : \A i \in 1..n : packets[i].whole}
           whole == SubSeq(packets, 1, Max(good))
<1>1. packets \in Seq(SourcePackets)
  BY DEF SessionsAssumption, SessionIn
<1>2. 0 \in good /\ good \in SUBSET (0..Len(packets))
  BY <1>1, LenProperties
<1>3. SourceFrames = Selected(whole, {i \in DOMAIN whole : whole[i].kind # "ego"})
  BY Zenon DEF SourceFrames, ScanSource, Keep
<1> HIDE DEF packets, good
<1>4. whole \in Seq(SourcePackets)
  BY <1>1, <1>2, PrefixTyped
<1> HIDE DEF whole
<1> QED BY <1>3, <1>4, SelectedType
-----------------------------------------------------------------------------
(* The accumulator is a fold of Feed over the frames.                      *)
Acc(raws) == FoldLeft(Feed, NoFrames, raws)

Fed == INSTANCE FoldFacts WITH Op <- Feed

LEMMA AccIsFold == \A s : Acc(s) = Fed!FoldLeft(Feed, NoFrames, s)
BY Zenon DEF Acc, FoldLeft, MapThenFoldSet, Max, Fed!FoldLeft, Fed!MapThenFoldSet, Fed!Max

LEMMA AccEmpty == Acc(<< >>) = NoFrames
BY AccIsFold, Fed!FoldEmpty, Zenon

LEMMA AccAppend ==
  ASSUME NEW S, NEW s \in Seq(S), NEW x \in S
  PROVE  Acc(Append(s, x)) = Feed(Acc(s), x)
BY AccIsFold, Fed!FoldAppend, Zenon

GapTypes == {"seq", "timestamp", "audio", "telemetry"}

Gaps == [type : GapTypes, t : Nat, length : Int, severity : {"error", "warning"}]

Stats ==
  [file_ok : BOOLEAN, total : Nat, valid : Nat, damaged : Nat, lost : Nat, backward : Nat,
   stamps : Nat, audio : Nat, telemetry : Nat, gaps : SUBSET Gaps, t_first : Nat, t_last : Nat]

Accs == [first : BOOLEAN, seq : Nat, t : Nat, audio : Nat, imu : Nat, stats : Stats]

(* The frames of both logs have what the accumulator reads.                *)
Scanned(S) == \A r \in S : r.seq \in Nat /\ r.t \in Nat

LEMMA FramesScanned == Scanned(EgoFrames) /\ Scanned(SourcePackets)
BY DEF Scanned, EgoFrames, SourcePackets

(* The gaps one frame adds.                                                *)
NewGaps(a, raw) ==
  LET jump == raw.t - a.t
  IN  GapIf(LostBefore(a, raw) > 0, Gap("seq", raw.t, jump, SeqSeverity(LostBefore(a, raw))))
      \cup GapIf(~a.first /\ jump < 0, Gap("timestamp", raw.t, -jump, "warning"))
      \cup GapIf(~a.first /\ jump > MaxJump, Gap("timestamp", raw.t, jump, "warning"))
      \cup GapIf(IsAudio(raw) /\ a.audio # 0 /\ raw.t - a.audio > AudioGap,
                 Gap("audio", raw.t, raw.t - a.audio, "warning"))
      \cup GapIf(IsImu(raw) /\ a.imu # 0 /\ raw.t - a.imu > TelemetryGap,
                 Gap("telemetry", raw.t, raw.t - a.imu, "warning"))

LEMMA FeedDamaged ==
  ASSUME NEW a \in Accs, NEW raw, ~Accepted(raw)
  PROVE  Feed(a, raw) =
           [first |-> a.first, seq |-> a.seq, t |-> a.t, audio |-> a.audio, imu |-> a.imu,
            stats |->
              [file_ok |-> a.stats.file_ok, total |-> a.stats.total + 1, valid |-> a.stats.valid,
               damaged |-> a.stats.damaged + 1, lost |-> a.stats.lost + 1,
               backward |-> a.stats.backward, stamps |-> a.stats.stamps, audio |-> a.stats.audio,
               telemetry |-> a.stats.telemetry, gaps |-> a.stats.gaps,
               t_first |-> a.stats.t_first, t_last |-> a.stats.t_last]]
<1>1. a.stats \in Stats
  BY DEF Accs
<1> QED BY <1>1 DEF Feed, Accs, Stats

LEMMA FeedAccepted ==
  ASSUME NEW a \in Accs, NEW raw, Accepted(raw)
  PROVE  Feed(a, raw) =
           [first |-> FALSE, seq |-> raw.seq, t |-> raw.t,
            audio |-> IF IsAudio(raw) THEN raw.t ELSE a.audio,
            imu   |-> IF IsImu(raw) THEN raw.t ELSE a.imu,
            stats |->
              [file_ok |-> a.stats.file_ok, total |-> a.stats.total + 1,
               valid |-> a.stats.valid + 1, damaged |-> a.stats.damaged,
               lost |-> a.stats.lost + LostBefore(a, raw),
               backward |-> a.stats.backward + CountIf(~a.first /\ raw.t - a.t < 0),
               stamps |-> a.stats.stamps + CountIf(raw.t = 0)
                          + CountIf(~a.first /\ raw.t - a.t > MaxJump),
               audio |-> a.stats.audio + CountIf(IsAudio(raw) /\ a.audio # 0
                                                 /\ raw.t - a.audio > AudioGap),
               telemetry |-> a.stats.telemetry + CountIf(IsImu(raw) /\ a.imu # 0
                                                         /\ raw.t - a.imu > TelemetryGap),
               gaps |-> a.stats.gaps \cup NewGaps(a, raw),
               t_first |-> IF a.first \/ raw.t < a.stats.t_first THEN raw.t ELSE a.stats.t_first,
               t_last |-> IF raw.t > a.stats.t_last THEN raw.t ELSE a.stats.t_last]]
<1>1. a.stats \in Stats
  BY DEF Accs
<1> QED BY <1>1, ZenonT(40) DEF Feed, Stats, NewGaps

LEMMA LostBeforeTyped ==
  ASSUME NEW a \in Accs, NEW raw, raw.seq \in Nat
  PROVE  LostBefore(a, raw) \in Nat
BY DEF LostBefore, Accs

LEMMA NewGapsTyped ==
  ASSUME NEW a \in Accs, NEW raw, raw.seq \in Nat, raw.t \in Nat
  PROVE  /\ NewGaps(a, raw) \in SUBSET Gaps
         /\ \A g \in NewGaps(a, raw) : g.t = raw.t
<1>1. a.t \in Nat /\ a.audio \in Nat /\ a.imu \in Nat
  BY DEF Accs
<1>2. \A type \in GapTypes, l \in Int, severity \in {"error", "warning"} :
        Gap(type, raw.t, l, severity) \in Gaps /\ Gap(type, raw.t, l, severity).t = raw.t
  BY DEF Gap, Gaps
<1>3. \A c, g : (g \in Gaps /\ g.t = raw.t) =>
        GapIf(c, g) \in SUBSET Gaps /\ \A h \in GapIf(c, g) : h.t = raw.t
  BY DEF GapIf
<1>4. SeqSeverity(LostBefore(a, raw)) \in {"error", "warning"}
  BY DEF SeqSeverity
<1>5. /\ raw.t - a.t \in Int /\ -(raw.t - a.t) \in Int
      /\ raw.t - a.audio \in Int /\ raw.t - a.imu \in Int
  BY <1>1
<1> DEFINE g1 == Gap("seq", raw.t, raw.t - a.t, SeqSeverity(LostBefore(a, raw)))
           g2 == Gap("timestamp", raw.t, -(raw.t - a.t), "warning")
           g3 == Gap("timestamp", raw.t, raw.t - a.t, "warning")
           g4 == Gap("audio", raw.t, raw.t - a.audio, "warning")
           g5 == Gap("telemetry", raw.t, raw.t - a.imu, "warning")
<1>6. \A g \in {g1, g2, g3, g4, g5} : g \in Gaps /\ g.t = raw.t
  <2>1. {"seq", "timestamp", "audio", "telemetry"} = GapTypes
    BY DEF GapTypes
  <2>2. g1 \in Gaps /\ g1.t = raw.t
    BY <1>2, <1>4, <1>5, <2>1
  <2>3. g2 \in Gaps /\ g2.t = raw.t
    BY <1>2, <1>5, <2>1
  <2>4. g3 \in Gaps /\ g3.t = raw.t
    BY <1>2, <1>5, <2>1
  <2>5. g4 \in Gaps /\ g4.t = raw.t
    BY <1>2, <1>5, <2>1
  <2>6. g5 \in Gaps /\ g5.t = raw.t
    BY <1>2, <1>5, <2>1
  <2> HIDE DEF g1, g2, g3, g4, g5
  <2> QED BY <2>2, <2>3, <2>4, <2>5, <2>6
<1>7. NewGaps(a, raw) =
        GapIf(LostBefore(a, raw) > 0, g1) \cup GapIf(~a.first /\ raw.t - a.t < 0, g2)
        \cup GapIf(~a.first /\ raw.t - a.t > MaxJump, g3)
        \cup GapIf(IsAudio(raw) /\ a.audio # 0 /\ raw.t - a.audio > AudioGap, g4)
        \cup GapIf(IsImu(raw) /\ a.imu # 0 /\ raw.t - a.imu > TelemetryGap, g5)
  BY DEF NewGaps
<1> HIDE DEF g1, g2, g3, g4, g5
<1>8. \A c : \A g \in {g1, g2, g3, g4, g5} :
        GapIf(c, g) \in SUBSET Gaps /\ \A h \in GapIf(c, g) : h.t = raw.t
  BY <1>3, <1>6
<1> QED BY <1>7, <1>8

LEMMA CountIfTyped == \A c : CountIf(c) \in {0, 1}
BY DEF CountIf

LEMMA FeedTyped ==
  ASSUME NEW a \in Accs, NEW raw, raw.seq \in Nat, raw.t \in Nat
  PROVE  Feed(a, raw) \in Accs
<1>1. /\ a.first \in BOOLEAN /\ a.seq \in Nat /\ a.t \in Nat /\ a.audio \in Nat /\ a.imu \in Nat
      /\ a.stats.file_ok \in BOOLEAN /\ a.stats.total \in Nat /\ a.stats.valid \in Nat
      /\ a.stats.damaged \in Nat /\ a.stats.lost \in Nat /\ a.stats.backward \in Nat
      /\ a.stats.stamps \in Nat /\ a.stats.audio \in Nat /\ a.stats.telemetry \in Nat
      /\ a.stats.gaps \in SUBSET Gaps /\ a.stats.t_first \in Nat /\ a.stats.t_last \in Nat
  BY DEF Accs, Stats
<1>2. CASE ~Accepted(raw)
  <2> DEFINE total == a.stats.total + 1
             damaged == a.stats.damaged + 1
             lost == a.stats.lost + 1
             st == [file_ok |-> a.stats.file_ok, total |-> total, valid |-> a.stats.valid,
                    damaged |-> damaged, lost |-> lost,
                    backward |-> a.stats.backward, stamps |-> a.stats.stamps,
                    audio |-> a.stats.audio, telemetry |-> a.stats.telemetry,
                    gaps |-> a.stats.gaps,
                    t_first |-> a.stats.t_first, t_last |-> a.stats.t_last]
  <2>1. total \in Nat /\ damaged \in Nat /\ lost \in Nat
    BY <1>1
  <2>2. Feed(a, raw) = [first |-> a.first, seq |-> a.seq, t |-> a.t, audio |-> a.audio,
                        imu |-> a.imu, stats |-> st]
    BY <1>2, FeedDamaged
  <2> HIDE DEF total, damaged, lost
  <2>3. st \in Stats
    BY <1>1, <2>1 DEF Stats
  <2> HIDE DEF st
  <2> QED BY <1>1, <2>2, <2>3 DEF Accs
<1>3. CASE Accepted(raw)
  <2> DEFINE total == a.stats.total + 1
             valid == a.stats.valid + 1
             lost == a.stats.lost + LostBefore(a, raw)
             backward == a.stats.backward + CountIf(~a.first /\ raw.t - a.t < 0)
             stamps == a.stats.stamps + CountIf(raw.t = 0)
                       + CountIf(~a.first /\ raw.t - a.t > MaxJump)
             audio == a.stats.audio + CountIf(IsAudio(raw) /\ a.audio # 0
                                              /\ raw.t - a.audio > AudioGap)
             telemetry == a.stats.telemetry + CountIf(IsImu(raw) /\ a.imu # 0
                                                      /\ raw.t - a.imu > TelemetryGap)
             gaps == a.stats.gaps \cup NewGaps(a, raw)
             t_first == IF a.first \/ raw.t < a.stats.t_first THEN raw.t ELSE a.stats.t_first
             t_last == IF raw.t > a.stats.t_last THEN raw.t ELSE a.stats.t_last
             last_audio == IF IsAudio(raw) THEN raw.t ELSE a.audio
             last_imu == IF IsImu(raw) THEN raw.t ELSE a.imu
             st == [file_ok |-> a.stats.file_ok, total |-> total, valid |-> valid,
                    damaged |-> a.stats.damaged, lost |-> lost, backward |-> backward,
                    stamps |-> stamps, audio |-> audio, telemetry |-> telemetry, gaps |-> gaps,
                    t_first |-> t_first, t_last |-> t_last]
  <2>1. /\ LostBefore(a, raw) \in Nat
        /\ NewGaps(a, raw) \in SUBSET Gaps
        /\ \A c : CountIf(c) \in Nat
    BY LostBeforeTyped, NewGapsTyped, CountIfTyped
  <2>2. \A n \in Nat : \A c, d : n + CountIf(c) \in Nat /\ n + CountIf(c) + CountIf(d) \in Nat
    BY <2>1
  <2>3. backward \in Nat /\ stamps \in Nat /\ audio \in Nat /\ telemetry \in Nat
    BY <1>1, <2>2
  <2>4. total \in Nat /\ valid \in Nat /\ lost \in Nat /\ gaps \in SUBSET Gaps
    BY <1>1, <2>1
  <2>5. last_audio \in Nat /\ last_imu \in Nat /\ t_first \in Nat /\ t_last \in Nat
    BY <1>1
  <2>6. Feed(a, raw) = [first |-> FALSE, seq |-> raw.seq, t |-> raw.t, audio |-> last_audio,
                        imu |-> last_imu, stats |-> st]
    BY <1>3, FeedAccepted
  <2> HIDE DEF total, valid, lost, backward, stamps, audio, telemetry, gaps, t_first, t_last,
               last_audio, last_imu
  <2>7. st \in Stats
    BY <1>1, <2>3, <2>4, <2>5 DEF Stats
  <2> HIDE DEF st
  <2> QED BY <2>5, <2>6, <2>7 DEF Accs
<1> QED BY <1>2, <1>3

LEMMA NoFramesTyped == NoFrames \in Accs
BY DEF NoFrames, NoStats, Accs, Stats

LEMMA AccTyped ==
  ASSUME NEW S, Scanned(S)
  PROVE  \A s \in Seq(S) : Acc(s) \in Accs
<1> DEFINE T == {s \in Seq(S) : Acc(s) \in Accs}
<1>1. << >> \in T
  BY AccEmpty, NoFramesTyped, EmptySeq
<1>2. ASSUME NEW s \in Seq(S), NEW x \in S, s \in T PROVE Append(s, x) \in T
  <2>1. Acc(Append(s, x)) = Feed(Acc(s), x) /\ Append(s, x) \in Seq(S)
    BY AccAppend, AppendProperties
  <2> QED BY <1>2, <2>1, FeedTyped DEF Scanned
<1> HIDE DEF T
<1>3. Seq(S) \subseteq T
  BY <1>1, <1>2, Fed!SeqInduction
<1> QED BY <1>3 DEF T

(* Every gap lies in the span of the stream, whatever the order of times.  *)
SpanHolds(a) ==
  /\ a.stats.t_first <= a.stats.t_last
  /\ \A g \in a.stats.gaps : g.t <= a.stats.t_last

LEMMA SpanKept ==
  ASSUME NEW a \in Accs, NEW raw, raw.seq \in Nat, raw.t \in Nat, SpanHolds(a)
  PROVE  SpanHolds(Feed(a, raw))
<1> DEFINE b == Feed(a, raw)
<1>1. /\ a.stats.t_first \in Nat /\ a.stats.t_last \in Nat
      /\ \A g \in a.stats.gaps : g.t \in Nat
  BY DEF Accs, Stats, Gaps
<1>2. CASE ~Accepted(raw)
  <2>1. /\ b.stats.t_first = a.stats.t_first /\ b.stats.t_last = a.stats.t_last
        /\ b.stats.gaps = a.stats.gaps
    BY <1>2, FeedDamaged DEF Accs, Stats
  <2> QED BY <2>1 DEF SpanHolds
<1>3. CASE Accepted(raw)
  <2>1. /\ b.stats.t_first = IF a.first \/ raw.t < a.stats.t_first THEN raw.t ELSE a.stats.t_first
        /\ b.stats.t_last = IF raw.t > a.stats.t_last THEN raw.t ELSE a.stats.t_last
        /\ b.stats.gaps = a.stats.gaps \cup NewGaps(a, raw)
    BY <1>3, FeedAccepted
  <2>2. \A g \in NewGaps(a, raw) : g.t = raw.t
    BY NewGapsTyped
  <2> HIDE DEF b
  <2>3. b.stats.t_last >= raw.t /\ b.stats.t_last >= a.stats.t_last /\ b.stats.t_last \in Nat
    BY <1>1, <2>1
  <2>4. b.stats.t_first <= b.stats.t_last
    BY <1>1, <2>1 DEF SpanHolds
  <2>5. \A g \in b.stats.gaps : g.t <= b.stats.t_last
    <3>1. TAKE g \in b.stats.gaps
    <3>2. CASE g \in a.stats.gaps
      <4>1. g.t <= a.stats.t_last /\ g.t \in Nat
        BY <1>1, <3>2 DEF SpanHolds
      <4> QED BY <1>1, <2>3, <4>1
    <3>3. CASE g \in NewGaps(a, raw)
      BY <2>2, <2>3, <3>3
    <3> QED BY <2>1, <3>2, <3>3
  <2> QED BY <2>4, <2>5 DEF SpanHolds, b
<1> QED BY <1>2, <1>3

LEMMA AccSpan ==
  ASSUME NEW S, Scanned(S)
  PROVE  \A s \in Seq(S) : SpanHolds(Acc(s))
<1> DEFINE T == {s \in Seq(S) : SpanHolds(Acc(s))}
<1>1. << >> \in T
  <2>1. SpanHolds(NoFrames)
    BY DEF SpanHolds, NoFrames, NoStats
  <2> QED BY <2>1, AccEmpty, EmptySeq
<1>2. ASSUME NEW s \in Seq(S), NEW x \in S, s \in T PROVE Append(s, x) \in T
  <2>1. Acc(Append(s, x)) = Feed(Acc(s), x) /\ Append(s, x) \in Seq(S)
    BY AccAppend, AppendProperties
  <2>2. Acc(s) \in Accs
    BY AccTyped
  <2> QED BY <1>2, <2>1, <2>2, SpanKept DEF Scanned
<1> HIDE DEF T
<1>3. Seq(S) \subseteq T
  BY <1>1, <1>2, Fed!SeqInduction
<1> QED BY <1>3 DEF T
-----------------------------------------------------------------------------
(* The loss.  The accepted frames of a log, and their sequence numbers.    *)
AcceptedIn(s) == {i \in DOMAIN s : Accepted(s[i])}
SeqsIn(s) == {s[i].seq : i \in AcceptedIn(s)}

LEMMA MissingIs ==
  \A s : Missing(s) =
    IF AcceptedIn(s) = {} THEN {} ELSE (s[Min(AcceptedIn(s))].seq .. Max(SeqsIn(s))) \ SeqsIn(s)
BY Zenon DEF Missing, AcceptedIn, SeqsIn

LEMMA AcceptedFinite ==
  ASSUME NEW S, Scanned(S), NEW s \in Seq(S)
  PROVE  /\ IsFiniteSet(AcceptedIn(s)) /\ AcceptedIn(s) \subseteq Int
         /\ AcceptedIn(s) \subseteq 1..Len(s)
         /\ IsFiniteSet(SeqsIn(s)) /\ SeqsIn(s) \subseteq Nat
<1>1. Len(s) \in Nat /\ DOMAIN s = 1..Len(s)
  BY LenProperties
<1>2. IsFiniteSet(1..Len(s))
  BY <1>1, FS_Interval
<1>3. AcceptedIn(s) \subseteq 1..Len(s)
  BY <1>1 DEF AcceptedIn
<1>4. IsFiniteSet(AcceptedIn(s))
  BY <1>2, <1>3, FS_Subset
<1> DEFINE f == [i \in AcceptedIn(s) |-> s[i].seq]
<1>5. f = [i \in AcceptedIn(s) |-> f[i]] /\ SeqsIn(s) = {f[i] : i \in AcceptedIn(s)}
  BY DEF SeqsIn
<1> HIDE DEF f
<1>6. IsFiniteSet(SeqsIn(s))
  BY <1>4, <1>5, ImageFinite
<1>7. \A i \in AcceptedIn(s) : s[i].seq \in Nat
  <2>1. \A i \in 1..Len(s) : s[i] \in S
    BY ElementOfSeq
  <2> QED BY <1>3, <2>1 DEF Scanned
<1> QED BY <1>3, <1>4, <1>6, <1>7 DEF SeqsIn

(* One more frame.                                                         *)
LEMMA AcceptedAppend ==
  ASSUME NEW S, NEW s \in Seq(S), NEW x \in S
  PROVE  /\ AcceptedIn(Append(s, x)) =
              IF Accepted(x) THEN AcceptedIn(s) \cup {Len(s) + 1} ELSE AcceptedIn(s)
         /\ SeqsIn(Append(s, x)) = IF Accepted(x) THEN SeqsIn(s) \cup {x.seq} ELSE SeqsIn(s)
<1> DEFINE r == Append(s, x)
           n == Len(s)
<1>1. /\ n \in Nat /\ DOMAIN s = 1..n /\ DOMAIN r = 1..(n + 1) /\ r[n + 1] = x
      /\ \A i \in 1..n : r[i] = s[i]
  BY AppendProperties, LenProperties
<1> HIDE DEF r, n
<1>2. AcceptedIn(r) = IF Accepted(x) THEN AcceptedIn(s) \cup {n + 1} ELSE AcceptedIn(s)
  <2>1. \A i : i \in 1..(n + 1) <=> i \in 1..n \/ i = n + 1
    BY <1>1
  <2>2. n + 1 \notin 1..n
    BY <1>1
  <2> QED BY <1>1, <2>1, <2>2 DEF AcceptedIn
<1>3. \A i \in AcceptedIn(s) : i \in 1..n /\ r[i] = s[i]
  BY <1>1 DEF AcceptedIn
<1>4. SeqsIn(r) = IF Accepted(x) THEN SeqsIn(s) \cup {x.seq} ELSE SeqsIn(s)
  <2>1. CASE Accepted(x)
    <3>1. SeqsIn(r) = {r[i].seq : i \in AcceptedIn(s)} \cup {r[n + 1].seq}
      BY <1>2, <2>1 DEF SeqsIn
    <3>2. {r[i].seq : i \in AcceptedIn(s)} = SeqsIn(s)
      BY <1>3 DEF SeqsIn
    <3> QED BY <1>1, <2>1, <3>1, <3>2
  <2>2. CASE ~Accepted(x)
    BY <1>2, <1>3, <2>2 DEF SeqsIn
  <2> QED BY <2>1, <2>2
<1> QED BY <1>2, <1>4 DEF r, n

LEMMA MissingDamaged ==
  ASSUME NEW S, Scanned(S), NEW s \in Seq(S), NEW x \in S, ~Accepted(x)
  PROVE  Missing(Append(s, x)) = Missing(s)
<1>1. AcceptedIn(Append(s, x)) = AcceptedIn(s) /\ SeqsIn(Append(s, x)) = SeqsIn(s)
  BY AcceptedAppend
<1>2. AcceptedIn(s) # {} => Append(s, x)[Min(AcceptedIn(s))] = s[Min(AcceptedIn(s))]
  <2>1. AcceptedIn(s) # {} => Min(AcceptedIn(s)) \in 1..Len(s)
    BY AcceptedFinite, MaxAndMin
  <2> QED BY <2>1, AppendProperties
<1> QED BY <1>1, <1>2, MissingIs

LEMMA MissingFirst ==
  ASSUME NEW S, Scanned(S), NEW s \in Seq(S), NEW x \in S, Accepted(x), AcceptedIn(s) = {}
  PROVE  Missing(Append(s, x)) = {}
<1> DEFINE A == AcceptedIn(Append(s, x))
           Q == SeqsIn(Append(s, x))
<1>1. A = {Len(s) + 1} /\ Q = {x.seq} /\ Append(s, x)[Len(s) + 1] = x
  BY AcceptedAppend, AppendProperties DEF SeqsIn
<1>2. Len(s) \in Nat /\ x.seq \in Nat
  BY LenProperties DEF Scanned
<1>3. IsFiniteSet(A) /\ IsFiniteSet(Q) /\ A \subseteq Int /\ Q \subseteq Int
  <2>1. IsFiniteSet(A) /\ IsFiniteSet(Q)
    BY ZenonT(40), <1>1, FS_Singleton
  <2> HIDE DEF A, Q
  <2> QED BY <1>1, <1>2, <2>1
<1>4. Min(A) = Len(s) + 1 /\ Max(Q) = x.seq
  BY <1>1, <1>3, MaxAndMin
<1>5. Missing(Append(s, x)) = (x.seq .. x.seq) \ {x.seq}
  BY <1>1, <1>4, MissingIs
<1> QED BY <1>2, <1>5

(* A later frame with a higher number leaves open what is between.         *)
LEMMA MissingLater ==
  ASSUME NEW S, Scanned(S), NEW s \in Seq(S), NEW x \in S, Accepted(x), AcceptedIn(s) # {}
  PROVE  LET hi == Max(SeqsIn(s))
         IN  /\ hi \in Nat /\ \A q \in SeqsIn(s) : q <= hi
             /\ x.seq <= hi => Missing(Append(s, x)) \subseteq Missing(s)
             /\ x.seq > hi => Missing(Append(s, x)) = Missing(s) \cup ((hi + 1) .. (x.seq - 1))
             /\ Missing(s) \subseteq 0..hi
             /\ Max(SeqsIn(Append(s, x))) = IF x.seq <= hi THEN hi ELSE x.seq
<1> DEFINE A == AcceptedIn(s)
           Q == SeqsIn(s)
           r == Append(s, x)
           n == Len(s)
           hi == Max(Q)
           lo == s[Min(A)].seq
<1>1. /\ n \in Nat /\ x.seq \in Nat
      /\ \A i \in 1..n : r[i] = s[i]
  BY AppendProperties, LenProperties DEF Scanned
<1>2. /\ IsFiniteSet(A) /\ A \subseteq Int /\ A \subseteq 1..n
      /\ IsFiniteSet(Q) /\ Q \subseteq Nat /\ Q # {}
  BY AcceptedFinite DEF SeqsIn
<1>3. Min(A) \in A /\ Min(A) \in 1..n /\ \A i \in A : Min(A) <= i
  BY <1>2, MaxAndMin
<1>4. hi \in Nat /\ hi \in Q /\ \A q \in Q : q <= hi
  <2>1. Q \subseteq Int
    BY <1>2
  <2> QED BY <1>2, <2>1, MaxAndMin
<1>5. lo \in Q
  BY <1>3 DEF SeqsIn
<1>6. AcceptedIn(r) = A \cup {n + 1} /\ SeqsIn(r) = Q \cup {x.seq}
  BY AcceptedAppend
<1>7. Missing(s) = (lo .. hi) \ Q
  BY MissingIs
<1> HIDE DEF A, Q, n, hi, lo
<1>8. Min(A \cup {n + 1}) = Min(A)
  <2> DEFINE B == A \cup {n + 1}
  <2>1. IsFiniteSet(B) /\ B \subseteq Int /\ B # {}
    BY <1>1, <1>2, FS_AddElement
  <2>2. Min(A) \in B /\ \A i \in B : Min(A) <= i
    BY <1>1, <1>3
  <2> HIDE DEF B
  <2>3. Min(B) \in B /\ Min(B) \in Int /\ Min(B) <= Min(A)
    BY <2>1, <2>2, MaxAndMin
  <2>4. Min(A) <= Min(B) /\ Min(A) \in Int
    BY <1>3, <2>2, <2>3
  <2>5. Min(B) = Min(A)
    BY <2>3, <2>4
  <2> QED BY <2>5 DEF B
<1>9. Max(Q \cup {x.seq}) = IF x.seq <= hi THEN hi ELSE x.seq
  <2> DEFINE B == Q \cup {x.seq}
             m == IF x.seq <= hi THEN hi ELSE x.seq
  <2>1. IsFiniteSet(B) /\ B \subseteq Int /\ B # {}
    <3>1. IsFiniteSet(B)
      BY <1>2, FS_AddElement
    <3>2. Q \subseteq Int /\ x.seq \in Int
      BY <1>1, <1>2
    <3> QED BY <3>1, <3>2
  <2>2. m \in B /\ m \in Nat /\ \A q \in B : q <= m
    <3>1. m \in B /\ m \in Nat /\ hi <= m /\ x.seq <= m
      BY <1>1, <1>4
    <3>2. \A q \in Q : q \in Nat /\ q <= hi
      BY <1>2, <1>4
    <3> HIDE DEF m
    <3> QED BY <1>4, <3>1, <3>2
  <2> HIDE DEF B, m
  <2>3. Max(B) \in B /\ Max(B) \in Int /\ m <= Max(B) /\ Max(B) <= m
    BY <2>1, <2>2, MaxAndMin
  <2>4. Max(B) = m
    BY <2>2, <2>3
  <2> QED BY <2>4 DEF B, m
<1>10. r[Min(A)].seq = lo
  BY <1>1, <1>3 DEF lo
<1>11. Missing(r) = (lo .. (IF x.seq <= hi THEN hi ELSE x.seq)) \ (Q \cup {x.seq})
  <2>1. A \cup {n + 1} # {}
    OBVIOUS
  <2> HIDE DEF r
  <2> QED BY <1>6, <1>8, <1>9, <1>10, <2>1, MissingIs
<1>12. lo \in Nat /\ lo <= hi
  BY <1>2, <1>4, <1>5
<1>13. x.seq <= hi => Missing(r) \subseteq Missing(s)
  BY <1>7, <1>11
<1>14. x.seq > hi => Missing(r) = Missing(s) \cup ((hi + 1) .. (x.seq - 1))
  <2>1. SUFFICES ASSUME x.seq > hi PROVE Missing(r) = Missing(s) \cup ((hi + 1) .. (x.seq - 1))
    OBVIOUS
  <2>2. Missing(r) = (lo .. x.seq) \ (Q \cup {x.seq})
    BY <1>1, <1>4, <1>11, <2>1
  <2>3. \A y : y \in lo .. x.seq /\ y # x.seq <=> y \in lo .. hi \/ y \in (hi + 1) .. (x.seq - 1)
    BY <1>1, <1>4, <1>12, <2>1
  <2>4. \A y \in (hi + 1) .. (x.seq - 1) : y \notin Q
    BY <1>1, <1>2, <1>4
  <2> QED BY <1>7, <2>2, <2>3, <2>4
<1>15. Missing(s) \subseteq 0..hi
  BY <1>4, <1>7, <1>12
<1> QED BY <1>4, <1>6, <1>9, <1>13, <1>14, <1>15 DEF hi, Q, r

(* The accumulator remembers the last accepted number, and has counted at  *)
(* least what is missing; what it has counted beyond that is due to        *)
(* damaged or late frames.                                                 *)
InSequence(s) ==
  \A i \in DOMAIN s : Accepted(s[i]) /\ (i > 1 => s[i - 1].seq < s[i].seq)

LossCounted(s) ==
  LET a == Acc(s)
  IN  /\ a.first <=> AcceptedIn(s) = {}
      /\ ~a.first => a.seq \in SeqsIn(s)
      /\ IsFiniteSet(Missing(s)) /\ a.stats.lost >= Cardinality(Missing(s))
      /\ a.stats.total = Len(s)
      /\ InSequence(s) => /\ a.stats.lost = Cardinality(Missing(s))
                          /\ ~a.first => a.seq = Max(SeqsIn(s)) /\ a.seq = s[Len(s)].seq

LEMMA LossStarts == LossCounted(<< >>)
<1>1. AcceptedIn(<< >>) = {}
  BY DEF AcceptedIn
<1>2. Missing(<< >>) = {}
  BY <1>1, MissingIs
<1>3. IsFiniteSet({}) /\ Cardinality({}) = 0
  BY FS_EmptySet
<1>4. /\ Acc(<< >>).first = TRUE /\ Acc(<< >>).stats.lost = 0
      /\ Acc(<< >>).stats.total = 0
  BY AccEmpty DEF NoFrames, NoStats
<1>5. Len(<< >>) = 0
  OBVIOUS
<1> DEFINE a == Acc(<< >>)
<1> HIDE DEF a
<1>6. IsFiniteSet(Missing(<< >>)) /\ Cardinality(Missing(<< >>)) = 0
  BY <1>2, <1>3
<1>7. a.first = TRUE /\ a.stats.lost = 0 /\ a.stats.total = 0
  BY <1>4 DEF a
<1> QED BY <1>1, <1>5, <1>6, <1>7 DEF LossCounted, a

LEMMA InSequencePrefix ==
  ASSUME NEW S, NEW s \in Seq(S), NEW x \in S, InSequence(Append(s, x))
  PROVE  /\ InSequence(s) /\ Accepted(x)
         /\ s # << >> => s[Len(s)].seq < x.seq
<1> DEFINE r == Append(s, x)
           n == Len(s)
<1>1. /\ n \in Nat /\ DOMAIN s = 1..n /\ DOMAIN r = 1..(n + 1) /\ r[n + 1] = x
      /\ \A i \in 1..n : r[i] = s[i]
  BY AppendProperties, LenProperties
<1>2. \A i \in 1..(n + 1) : Accepted(r[i]) /\ (i > 1 => r[i - 1].seq < r[i].seq)
  BY <1>1 DEF InSequence
<1>3. s # << >> => n >= 1
  BY EmptySeq, LenProperties
<1> HIDE DEF r, n
<1>4. InSequence(s)
  <2>1. ASSUME NEW i \in 1..n PROVE Accepted(s[i]) /\ (i > 1 => s[i - 1].seq < s[i].seq)
    <3>1. i \in 1..(n + 1) /\ r[i] = s[i] /\ (i > 1 => i - 1 \in 1..n)
      BY <1>1
    <3>2. i > 1 => r[i - 1] = s[i - 1]
      BY <1>1, <3>1
    <3> QED BY <1>2, <3>1, <3>2
  <2> QED BY <1>1, <2>1 DEF InSequence
<1>5. n + 1 \in 1..(n + 1) /\ (n + 1) - 1 = n
  BY <1>1
<1>6. Accepted(r[n + 1]) /\ (n + 1 > 1 => r[n].seq < r[n + 1].seq)
  BY <1>2, <1>5
<1>7. s # << >> => s[n].seq < x.seq
  BY <1>1, <1>3, <1>6
<1> QED BY <1>1, <1>4, <1>6, <1>7 DEF n

LEMMA LossStep ==
  ASSUME NEW S, Scanned(S), NEW s \in Seq(S), NEW x \in S, LossCounted(s)
  PROVE  LossCounted(Append(s, x))
<1> DEFINE a == Acc(s)
           b == Acc(Append(s, x))
           r == Append(s, x)
<1>1. /\ a \in Accs /\ b = Feed(a, x) /\ x.seq \in Nat /\ x.t \in Nat
      /\ a.seq \in Nat /\ a.stats.lost \in Nat /\ a.stats.total \in Nat /\ a.first \in BOOLEAN
  BY AccTyped, AccAppend DEF Scanned, Accs, Stats
<1>2. /\ Len(s) \in Nat /\ Len(r) = Len(s) + 1 /\ r[Len(r)] = x
  BY AppendProperties, LenProperties
<1>3. /\ IsFiniteSet(Missing(s)) /\ Cardinality(Missing(s)) \in Nat
      /\ a.stats.lost >= Cardinality(Missing(s)) /\ a.stats.total = Len(s)
      /\ a.first <=> AcceptedIn(s) = {}
      /\ ~a.first => a.seq \in SeqsIn(s)
      /\ InSequence(s) => /\ a.stats.lost = Cardinality(Missing(s))
                          /\ ~a.first => a.seq = Max(SeqsIn(s)) /\ a.seq = s[Len(s)].seq
  BY FS_CardinalityType DEF LossCounted
<1>4. InSequence(r) => InSequence(s) /\ Accepted(x) /\ (s # << >> => s[Len(s)].seq < x.seq)
  BY InSequencePrefix
<1>5. /\ AcceptedIn(r) = IF Accepted(x) THEN AcceptedIn(s) \cup {Len(s) + 1} ELSE AcceptedIn(s)
      /\ SeqsIn(r) = IF Accepted(x) THEN SeqsIn(s) \cup {x.seq} ELSE SeqsIn(s)
  BY AcceptedAppend
<1> HIDE DEF a, b, r
<1>6. CASE ~Accepted(x)
  <2>1. /\ b.first = a.first /\ b.seq = a.seq /\ b.stats.lost = a.stats.lost + 1
        /\ b.stats.total = a.stats.total + 1
    BY <1>1, <1>6, FeedDamaged
  <2>2. Missing(r) = Missing(s)
    BY <1>6, MissingDamaged DEF r
  <2> QED BY <1>1, <1>2, <1>3, <1>4, <1>5, <1>6, <2>1, <2>2 DEF LossCounted, b, r
<1>7. CASE Accepted(x)
  <2>1. /\ b.first = FALSE /\ b.seq = x.seq /\ b.stats.total = a.stats.total + 1
        /\ b.stats.lost = a.stats.lost + LostBefore(a, x)
    BY <1>1, <1>7, FeedAccepted
  <2>2. LostBefore(a, x) \in Nat
    BY <1>1, LostBeforeTyped
  <2>3. /\ AcceptedIn(r) # {} /\ b.seq \in SeqsIn(r) /\ b.stats.total = Len(r)
        /\ b.stats.lost \in Nat
    BY <1>1, <1>2, <1>3, <1>5, <1>7, <2>1, <2>2
  <2>4. CASE a.first
    <3>1. Missing(r) = {} /\ LostBefore(a, x) = 0
      BY <1>3, <1>7, <2>4, MissingFirst DEF r, LostBefore
    <3>2. IsFiniteSet({}) /\ Cardinality({}) = 0
      BY FS_EmptySet
    <3>3. InSequence(r) => b.stats.lost = 0
      <4>1. SUFFICES ASSUME InSequence(r) PROVE b.stats.lost = 0
        OBVIOUS
      <4>2. AcceptedIn(s) = {} /\ Missing(s) = {}
        BY <1>3, <2>4, MissingIs
      <4> QED BY <1>1, <1>3, <1>4, <2>1, <3>1, <3>2, <4>1, <4>2
    <3>4. Max(SeqsIn(r)) = x.seq
      <4>1. AcceptedIn(s) = {} /\ SeqsIn(s) = {}
        BY <1>3, <2>4 DEF SeqsIn
      <4>2. SeqsIn(r) = {x.seq}
        BY <1>5, <1>7, <4>1
      <4>3. IsFiniteSet({x.seq})
        BY FS_Singleton
      <4>4. {x.seq} \subseteq Int /\ {x.seq} # {}
        BY <1>1
      <4>5. Max({x.seq}) \in {x.seq}
        BY <4>3, <4>4, MaxAndMin
      <4> QED BY <4>2, <4>5
    <3> QED BY <1>2, <2>1, <2>3, <3>1, <3>2, <3>3, <3>4 DEF LossCounted, b, r
  <2>5. CASE ~a.first
    <3> DEFINE hi == Max(SeqsIn(s))
               new == (hi + 1) .. (x.seq - 1)
    <3>1. /\ hi \in Nat /\ a.seq <= hi
          /\ x.seq <= hi => Missing(r) \subseteq Missing(s)
          /\ x.seq > hi => Missing(r) = Missing(s) \cup new
          /\ Missing(s) \subseteq 0..hi /\ Max(SeqsIn(r)) = IF x.seq <= hi THEN hi ELSE x.seq
      BY <1>3, <1>7, <2>5, MissingLater DEF r
    <3> HIDE DEF hi
    <3>2. CASE x.seq <= hi
      <4>1. IsFiniteSet(Missing(r)) /\ Cardinality(Missing(r)) <= Cardinality(Missing(s))
        BY <1>3, <3>1, <3>2, FS_Subset
      <4>2. Cardinality(Missing(r)) \in Nat
        BY <4>1, FS_CardinalityType
      <4>3. b.stats.lost >= Cardinality(Missing(r))
        BY <1>1, <1>3, <2>1, <2>2, <4>1, <4>2
      <4>4. ~InSequence(r)
        <5>1. SUFFICES ASSUME InSequence(r) PROVE FALSE
          OBVIOUS
        <5>2. s # << >>
          BY <1>3, <2>5 DEF AcceptedIn
        <5>3. a.seq = hi /\ a.seq = s[Len(s)].seq
          BY <1>3, <1>4, <2>5, <5>1 DEF hi
        <5>4. s[Len(s)].seq < x.seq
          BY <1>4, <5>1, <5>2
        <5> QED BY <1>1, <3>1, <3>2, <5>3, <5>4
      <4> QED BY <2>1, <2>3, <4>1, <4>3, <4>4 DEF LossCounted, b, r
    <3>3. CASE x.seq > hi
      <4>1. IsFiniteSet(new) /\ Cardinality(new) = (x.seq - 1) - hi
        <5>1. hi + 1 \in Int /\ x.seq - 1 \in Int
          BY <1>1, <3>1
        <5>2. /\ IsFiniteSet(new)
              /\ Cardinality(new) = IF hi + 1 > x.seq - 1 THEN 0 ELSE (x.seq - 1) - (hi + 1) + 1
          BY <5>1, FS_Interval
        <5> QED BY <1>1, <3>1, <3>3, <5>2
      <4>2. Missing(s) \cap new = {}
        BY <3>1
      <4>3. Missing(r) = Missing(s) \cup new
        BY <3>1, <3>3
      <4> HIDE DEF new
      <4>4. /\ IsFiniteSet(Missing(r))
            /\ Cardinality(Missing(r)) = Cardinality(Missing(s)) + ((x.seq - 1) - hi)
        <5>1. Cardinality(Missing(s) \cap new) = 0
          BY <4>2, FS_EmptySet
        <5>2. /\ IsFiniteSet(Missing(s) \cup new)
              /\ Cardinality(Missing(s) \cup new)
                   = Cardinality(Missing(s)) + Cardinality(new) - Cardinality(Missing(s) \cap new)
          BY <1>3, <4>1, FS_Union
        <5> QED BY <1>1, <1>3, <3>1, <4>1, <4>3, <5>1, <5>2
      <4>5. LostBefore(a, x) = x.seq - a.seq - 1
        BY <1>1, <2>5, <3>1, <3>3 DEF LostBefore
      <4>6. b.stats.lost >= Cardinality(Missing(r))
        BY SMTT(20), <1>1, <1>3, <2>1, <3>1, <4>4, <4>5
      <4>7. InSequence(r) => b.stats.lost = Cardinality(Missing(r))
        <5>1. SUFFICES ASSUME InSequence(r) PROVE b.stats.lost = Cardinality(Missing(r))
          OBVIOUS
        <5>2. a.seq = hi /\ a.stats.lost = Cardinality(Missing(s))
          BY <1>3, <1>4, <2>5, <5>1 DEF hi
        <5> QED BY <1>1, <2>1, <3>1, <4>4, <4>5, <5>2
      <4>8. Max(SeqsIn(r)) = x.seq
        BY <1>1, <3>1, <3>3
      <4> QED BY <1>2, <2>1, <2>3, <4>4, <4>6, <4>7, <4>8 DEF LossCounted, b, r
    <3> QED BY <1>1, <3>1, <3>2, <3>3
  <2> QED BY <1>1, <2>4, <2>5
<1> QED BY <1>6, <1>7

LEMMA LossIsCounted ==
  ASSUME NEW S, Scanned(S)
  PROVE  \A s \in Seq(S) : LossCounted(s)
<1> DEFINE T == {s \in Seq(S) : LossCounted(s)}
<1>1. << >> \in T
  BY LossStarts, EmptySeq
<1>2. ASSUME NEW s \in Seq(S), NEW x \in S, s \in T PROVE Append(s, x) \in T
  BY <1>2, LossStep, AppendProperties
<1> HIDE DEF T
<1>3. Seq(S) \subseteq T
  BY <1>1, <1>2, Fed!SeqInduction
<1> QED BY <1>3 DEF T
-----------------------------------------------------------------------------
(* What the variables hold at each stage, said of the session's logs.      *)
Report == ValidationReport(EgoStats, SourceStats)
SampleResult ==
  Align(Ticks(ValidRange), EgoGps(Frames), AlignedGnss(synced.offset), EgoImu(Frames))
MeasurementResult == BuildMdf4(Prepare(samples, geometry, ValidRange.from), ValidRange.from)
SceneResult == Scenes(AlignedEvents, geometry)

QualityStages == {"events_report", "finish"}
SceneStages == {"scene_segments", "session_report", "data_quality_report"} \cup QualityStages
DataStages == {"mdf4", "sidecar", "scene_events"} \cup SceneStages

DataInv ==
  /\ SessionIn
  /\ validation \in {None, Report}
  /\ stage \in DataStages \cup {"sync"} => validation = Report
  /\ stage \in DataStages => /\ synced = SyncResult
                             /\ samples = SampleResult /\ geometry = Geometry(samples)
  /\ stage = "sidecar" => measurement = MeasurementResult
  /\ stage \in SceneStages => scenes = SceneResult
  /\ stage \in QualityStages => quality = DataQuality(validation)

(* The stages an action leads to.                                          *)
LEMMA StagesWritten ==
  /\ WriteValidation(validation'.integrity) => stage' \in {"sync", "exited"}
  /\ WriteSync(synced'.status) => stage' \in {"mdf4", "scene_events", "exited"}
  /\ WriteMdf4 => stage' = "scene_events" \/ (stage' = "sidecar" /\ UNCHANGED errors)
  /\ WriteReport => stage' \in {NextReport[stage], "exited"}
<1>1. WriteValidation(validation'.integrity) => stage' \in {"sync", "exited"}
  BY DEF WriteValidation, Exit, Goto, NotOpened, Torn
<1>2. WriteSync(synced'.status) => stage' \in {"mdf4", "scene_events", "exited"}
  BY DEF WriteSync, Exit, Goto, NotOpened, Torn
<1>3. WriteMdf4 => stage' = "scene_events" \/ (stage' = "sidecar" /\ UNCHANGED errors)
  BY DEF WriteMdf4, Goto
<1>4. WriteReport => stage' \in {NextReport[stage], "exited"}
  BY DEF WriteReport, Exit, Goto, NotOpened, Torn
<1> QED BY <1>1, <1>2, <1>3, <1>4

LEMMA OtherStages ==
  /\ \A c : Begin(c) => stage' \in {"gate", "metadata"}
  /\ \A ok : LoadMetadata(ok) \/ LoadManifest(ok) => stage' \in {"manifest", "validation", "exited"}
  /\ WriteSidecar => stage = "sidecar" /\ stage' = "scene_events"
  /\ Finish \/ Gate \/ PutFile \/ FinishUpload \/ ReportUpload
       => stage' \in {"gate", "put", "upload_report", "exited"}
  /\ Kill => stage' = "exited"
<1>1. \A c : Begin(c) => stage' \in {"gate", "metadata"}
  BY DEF Begin
<1>2. \A ok : LoadMetadata(ok) \/ LoadManifest(ok) => stage' \in {"manifest", "validation", "exited"}
  BY DEF LoadMetadata, LoadManifest, Exit, Goto
<1>3. WriteSidecar => stage = "sidecar" /\ stage' = "scene_events"
  BY DEF WriteSidecar, Goto
<1>4. Finish => stage' \in {"gate", "exited"}
  BY DEF Finish, Exit, Goto
<1>5. Gate => stage' \in {"put", "exited"}
  BY DEF Gate, Exit, Goto
<1>6. PutFile => stage' = "put"
  BY DEF PutFile
<1>7. FinishUpload => stage' = "upload_report"
  BY DEF FinishUpload, Goto
<1>8. ReportUpload => stage' = "exited"
  BY DEF ReportUpload, Exit
<1>9. Kill => stage' = "exited"
  BY DEF Kill, Exit
<1> QED BY <1>1, <1>2, <1>3, <1>4, <1>5, <1>6, <1>7, <1>8, <1>9

(* The logs are the session's, and so is what is made of them.             *)
LEMMA SameLogs ==
  ASSUME UNCHANGED session
  PROVE  /\ UNCHANGED <<Report, EgoStats, SourceStats, Frames, SourceFrames>>
         /\ SessionIn => SessionIn'
<1>1. Chunks' = Chunks
  BY DEF Chunks
<1>2. Frames' = Frames /\ SourceFrames' = SourceFrames
  BY <1>1 DEF Frames, SourceFrames
<1>3. EgoStats' = EgoStats
  BY <1>1, <1>2 DEF EgoStats
<1>4. SourceStats' = SourceStats
  BY <1>2 DEF SourceStats
<1>5. Report' = Report
  BY <1>3, <1>4 DEF Report
<1> QED BY <1>2, <1>3, <1>4, <1>5 DEF SessionIn

LEMMA SameResults ==
  ASSUME UNCHANGED <<session, validation>>
  PROVE  /\ UNCHANGED <<ValidRange, SyncResult>>
         /\ UNCHANGED synced => UNCHANGED <<SampleResult, AlignedEvents>>
         /\ UNCHANGED <<samples, geometry>> => UNCHANGED MeasurementResult
         /\ UNCHANGED <<synced, geometry>> => UNCHANGED SceneResult
<1>1. Frames' = Frames /\ SourceFrames' = SourceFrames
  BY SameLogs
<1>2. ValidRange' = ValidRange
  BY DEF ValidRange
<1>3. SyncResult' = SyncResult
  BY <1>1, <1>2 DEF SyncResult
<1> QED BY <1>1, <1>2, <1>3 DEF SampleResult, AlignedGnss, AlignedEvents, MeasurementResult, SceneResult

LEMMA DataStart == PipelineInit => DataInv
BY DEF PipelineInit, Init, DataInv, SessionIn, DataStages, SceneStages, QualityStages

(* An action that leaves the data alone, and the stage among those that    *)
(* ask no more of it.                                                      *)
Weaker ==
  \/ stage' = stage
  \/ stage' \notin DataStages \cup {"sync"}
  \/ stage = "sidecar" /\ stage' = "scene_events"

LEMMA DataUntouched ==
  ASSUME DataInv, UNCHANGED <<session, results>>, Weaker
  PROVE  DataInv'
<1>1. UNCHANGED <<session, validation, synced, samples, geometry, measurement, scenes, quality>>
  BY DEF results
<1>2. UNCHANGED <<Report, SyncResult, SampleResult, MeasurementResult, SceneResult>> /\ SessionIn'
  BY <1>1, SameLogs, SameResults DEF DataInv
<1>3. (validation \in {None, Report})'
  BY <1>1, <1>2 DEF DataInv, None
<1>4. CASE stage' = stage
  BY <1>1, <1>2, <1>3, <1>4 DEF DataInv
<1>5. CASE stage' \notin DataStages \cup {"sync"}
  <2>1. stage' # "sidecar" /\ stage' \notin SceneStages /\ stage' \notin QualityStages
    BY <1>5 DEF DataStages, SceneStages
  <2> QED BY <1>2, <1>3, <1>5, <2>1 DEF DataInv
<1>6. CASE stage = "sidecar" /\ stage' = "scene_events"
  <2>1. stage' # "sidecar" /\ stage' \notin SceneStages /\ stage' \notin QualityStages /\ stage \in DataStages
    BY <1>6 DEF DataStages, SceneStages, QualityStages
  <2> QED BY <1>1, <1>2, <1>3, <2>1 DEF DataInv
<1> QED BY <1>4, <1>5, <1>6 DEF Weaker

LEMMA DataKept == DataInv /\ [PipelineNext]_pipeline_vars => DataInv'
<1>1. SUFFICES ASSUME DataInv, [PipelineNext]_pipeline_vars PROVE DataInv'
  OBVIOUS
<1>2. CASE PBegin \/ PLoadMetadata \/ PLoadManifest \/ PWriteSidecar \/ PUpload \/ PKill \/ PEnded
           \/ UNCHANGED pipeline_vars
  <2>1. UNCHANGED <<session, results>>
    BY <1>2 DEF PBegin, PLoadMetadata, PLoadManifest, PWriteSidecar, PUpload, PKill, PEnded,
                pipeline_vars
  <2>2. CASE UNCHANGED stage
    BY <1>1, <2>1, <2>2, DataUntouched DEF Weaker
  <2>3. CASE PBegin \/ PLoadMetadata \/ PLoadManifest \/ PUpload \/ PKill
    <3>1. stage' \in {"gate", "put", "upload_report", "metadata", "manifest", "validation", "exited"}
      BY <2>3, OtherStages DEF PBegin, PLoadMetadata, PLoadManifest, PUpload, PKill
    <3>2. Weaker
      BY <3>1 DEF Weaker, DataStages, SceneStages, QualityStages
    <3> QED BY <1>1, <2>1, <3>2, DataUntouched
  <2>4. CASE PWriteSidecar
    <3>1. Weaker
      BY <2>4, OtherStages DEF PWriteSidecar, Weaker
    <3> QED BY <1>1, <2>1, <3>1, DataUntouched
  <2>5. PEnded \/ UNCHANGED pipeline_vars => UNCHANGED stage
    BY DEF PEnded, pipeline_vars, vars
  <2> QED BY <1>2, <2>2, <2>3, <2>4, <2>5
<1>3. CASE PValidate
  <2>1. /\ UNCHANGED session /\ validation' = Report
        /\ stage' \in {"sync", "exited"}
    BY <1>3, StagesWritten DEF PValidate, Report
  <2>2. Report' = Report /\ SessionIn'
    BY <1>1, <2>1, SameLogs DEF DataInv
  <2>3. stage' # "sidecar" /\ stage' \notin DataStages /\ stage' \notin SceneStages
        /\ stage' \notin QualityStages
    BY <2>1 DEF DataStages, SceneStages, QualityStages
  <2> QED BY <2>1, <2>2, <2>3 DEF DataInv
<1>4. CASE PSync
  <2>1. /\ UNCHANGED <<session, validation>> /\ stage = "sync" /\ synced' = SyncResult
        /\ stage' \in {"mdf4", "scene_events", "exited"}
        /\ stage' # "exited" =>
             /\ samples' = Align(Ticks(ValidRange), EgoGps(Frames), AlignedGnss(synced'.offset),
                                 EgoImu(Frames))
             /\ geometry' = Geometry(samples')
    BY <1>4, StagesWritten DEF PSync
  <2>2. Report' = Report /\ SessionIn' /\ validation' = Report
    BY <1>1, <2>1, SameLogs DEF DataInv
  <2>3. stage' # "exited" => samples' = SampleResult'
    <3>1. Frames' = Frames /\ SourceFrames' = SourceFrames /\ ValidRange' = ValidRange
      BY <2>1, SameLogs, SameResults
    <3> QED BY <2>1, <3>1 DEF SampleResult, AlignedGnss
  <2>4. SyncResult' = SyncResult
    BY <2>1, SameResults
  <2>5. stage' # "sidecar" /\ stage' \notin SceneStages /\ stage' \notin QualityStages
        /\ (stage' \in DataStages => stage' # "exited")
    BY <2>1 DEF DataStages, SceneStages, QualityStages
  <2> QED BY <2>1, <2>2, <2>3, <2>4, <2>5 DEF DataInv
<1>5. CASE PWriteMdf4
  <2>1. /\ UNCHANGED <<session, validation, synced, samples, geometry>> /\ stage = "mdf4"
        /\ stage' = "scene_events" \/ (stage' = "sidecar" /\ UNCHANGED errors)
        /\ UNCHANGED errors => measurement' = MeasurementResult
    BY <1>5, StagesWritten DEF PWriteMdf4, MeasurementResult, WriteMdf4
  <2>2. /\ UNCHANGED <<Report, SyncResult, SampleResult, MeasurementResult>> /\ SessionIn'
    BY <1>1, <2>1, SameLogs, SameResults DEF DataInv
  <2>3. stage' \notin SceneStages /\ stage' \notin QualityStages /\ stage \in DataStages
    BY <2>1 DEF DataStages, SceneStages, QualityStages
  <2>4. (validation \in {None, Report})' /\ validation' = Report'
    BY <1>1, <2>1, <2>2, <2>3 DEF DataInv
  <2> QED BY <1>1, <2>1, <2>2, <2>3, <2>4 DEF DataInv
<1>6. CASE PWriteReport
  <2>1. /\ UNCHANGED <<session, validation, synced, samples, geometry>>
        /\ stage \in DOMAIN NextReport /\ stage' \in {NextReport[stage], "exited"}
        /\ scenes' = IF stage = "scene_events" THEN SceneResult ELSE scenes
        /\ quality' = IF stage = "data_quality_report" THEN DataQuality(validation) ELSE quality
    BY <1>6, StagesWritten DEF PWriteReport, SceneResult, WriteReport
  <2>2. /\ UNCHANGED <<Report, SyncResult, SampleResult, SceneResult>> /\ SessionIn'
    BY <1>1, <2>1, SameLogs, SameResults DEF DataInv
  <2>3. /\ stage \in DataStages /\ stage' # "sidecar"
        /\ stage' \in SceneStages => stage = "scene_events" \/ stage \in SceneStages
        /\ stage' \in QualityStages => stage = "data_quality_report" \/ stage \in QualityStages
        /\ stage \in QualityStages => stage # "data_quality_report"
        /\ stage \in SceneStages => stage # "scene_events"
    BY <2>1, StageNames DEF DataStages, SceneStages, QualityStages
  <2>4. (validation \in {None, Report})' /\ validation' = Report'
    BY <1>1, <2>1, <2>2, <2>3 DEF DataInv
  <2>5. stage' \in SceneStages => scenes' = SceneResult'
    BY <1>1, <2>1, <2>2, <2>3 DEF DataInv
  <2>6. stage' \in QualityStages => quality' = DataQuality(validation')
    BY <1>1, <2>1, <2>2, <2>3 DEF DataInv
  <2>7. synced' = SyncResult' /\ samples' = SampleResult' /\ geometry' = Geometry(samples')
    BY <1>1, <2>1, <2>2, <2>3 DEF DataInv
  <2> QED BY <2>2, <2>3, <2>4, <2>5, <2>6, <2>7 DEF DataInv
<1> QED BY <1>1, <1>2, <1>3, <1>4, <1>5, <1>6 DEF PipelineNext

(* At every stage the variables hold what the logs of the session give     *)
(* (pipeline.cpp:378-550): no result of an earlier run is taken for one of *)
(* this run.                                                               *)
THEOREM ResultsAreOfTheLogs == PipelineSpec => []DataInv
<1>1. PipelineInit => DataInv
  BY DataStart
<1>2. DataInv /\ [PipelineNext]_pipeline_vars => DataInv'
  BY DataKept
<1> QED BY <1>1, <1>2, PTL DEF PipelineSpec
-----------------------------------------------------------------------------
(* The statistics in the report are those of the scan.                     *)
LEMMA StatsOf ==
  \A S : Scanned(S) => \A s \in Seq(S) : \A b \in BOOLEAN :
    LET stats == Accumulate(s, b)
    IN  /\ stats = [Acc(s).stats EXCEPT !.file_ok = b]
        /\ stats \in Stats /\ stats.file_ok = b
        /\ stats.t_first <= stats.t_last /\ \A g \in stats.gaps : g.t <= stats.t_last
        /\ stats.lost = Acc(s).stats.lost /\ stats.total = Acc(s).stats.total
<1> SUFFICES ASSUME NEW S, Scanned(S), NEW s \in Seq(S), NEW b \in BOOLEAN
             PROVE  LET stats == Accumulate(s, b)
                    IN  /\ stats = [Acc(s).stats EXCEPT !.file_ok = b]
                        /\ stats \in Stats /\ stats.file_ok = b
                        /\ stats.t_first <= stats.t_last /\ \A g \in stats.gaps : g.t <= stats.t_last
                        /\ stats.lost = Acc(s).stats.lost /\ stats.total = Acc(s).stats.total
  OBVIOUS
<1>1. Accumulate(s, b) = [Acc(s).stats EXCEPT !.file_ok = b]
  BY Zenon DEF Accumulate, Acc
<1>2. Acc(s).stats \in Stats
  BY AccTyped DEF Accs
<1>3. SpanHolds(Acc(s))
  BY AccSpan
<1> QED BY <1>1, <1>2, <1>3 DEF Stats, SpanHolds

LEMMA ReportIs ==
  /\ Report.ego = EgoStats /\ Report.source = SourceStats
  /\ Report.ranges = ValidRanges(EgoStats, SourceStats)
  /\ Report.integrity = Integrity(EgoStats, SourceStats, Report.ranges)
  /\ Report.valid = TotalDuration(Report.ranges)
  /\ Report.total = EgoStats.t_last - EgoStats.t_first
BY DEF Report, ValidationReport

(* The report never states a smaller loss than the sequence numbers of the *)
(* log show, and the exact one for a log in order without damage           *)
(* (pipeline.cpp:74).                                                      *)
THEOREM LossIsReported == PipelineSpec => []LossNeverUnderstated
<1>1. DataInv => LossNeverUnderstated
  <2>1. SUFFICES ASSUME DataInv, Validated PROVE LossNeverUnderstated
    BY DEF LossNeverUnderstated
  <2>2. validation.ego = EgoStats
    BY <2>1, ReportIs DEF DataInv, Validated
  <2>3. Frames \in Seq(EgoFrames)
    BY <2>1, FramesTyped, SessionsAssumption DEF DataInv
  <2>4. EgoStats.lost = Acc(Frames).stats.lost
    BY <2>3, StatsOf, FramesScanned DEF EgoStats
  <2>5. LossCounted(Frames)
    BY <2>3, LossIsCounted, FramesScanned
  <2>6. Acc(Frames).stats.lost >= Cardinality(Missing(Frames))
    BY <2>5 DEF LossCounted
  <2>7. InSequence(Frames) => Acc(Frames).stats.lost = Cardinality(Missing(Frames))
    BY <2>5 DEF LossCounted
  <2> QED BY <2>2, <2>4, <2>6, <2>7 DEF LossNeverUnderstated, InSequence
<1> QED BY <1>1, ResultsAreOfTheLogs, PTL
-----------------------------------------------------------------------------
(* Ranges.  Those of a stream lie in its span and have no serious gap      *)
(* inside.                                                                 *)
Spans == [from : Nat, to : Nat]

Sound(stats) ==
  {r \in Spans : /\ stats.t_first <= r.from /\ r.to <= stats.t_last
                 /\ \A g \in stats.gaps : g.severity = "error" => ~(r.from < g.t /\ g.t < r.to)}

(* Each range ends before the next begins.                                 *)
Follows(s) == \A i, j \in 1..Len(s) : i < j => s[i].to <= s[j].from

(* What the statistics of a stream satisfy.                                *)
InSpan(stats) ==
  /\ stats \in Stats /\ stats.t_first <= stats.t_last
  /\ \A g \in stats.gaps : g.t <= stats.t_last

Errors(stats) == {g.t : g \in {g \in stats.gaps : g.severity = "error"}}
Cuts(stats) == {t \in Errors(stats) : t > stats.t_first}
Points(stats) == <<stats.t_first>> \o Ascending(Cuts(stats)) \o <<stats.t_last>>
Pieces(stats) ==
  [i \in 1..(Len(Points(stats)) - 1) |-> Span(Points(stats)[i], Points(stats)[i + 1])]

LEMMA PointsInOrder ==
  \A stats : InSpan(stats) =>
    LET p == Points(stats)
        n == Cardinality(Cuts(stats))
    IN  /\ n \in Nat /\ p \in Seq(Nat) /\ Len(p) = n + 2
        /\ p[1] = stats.t_first /\ p[n + 2] = stats.t_last
        /\ \A k, l \in 1..(n + 2) : k < l => p[k] <= p[l]
        /\ \A t \in Cuts(stats) : \E k \in 1..(n + 2) : p[k] = t
<1> SUFFICES ASSUME NEW stats, InSpan(stats)
             PROVE  LET p == Points(stats)
                        n == Cardinality(Cuts(stats))
                    IN  /\ n \in Nat /\ p \in Seq(Nat) /\ Len(p) = n + 2
                        /\ p[1] = stats.t_first /\ p[n + 2] = stats.t_last
                        /\ \A k, l \in 1..(n + 2) : k < l => p[k] <= p[l]
                        /\ \A t \in Cuts(stats) : \E k \in 1..(n + 2) : p[k] = t
  OBVIOUS
<1> DEFINE p == Points(stats)
           C == Cuts(stats)
           n == Cardinality(C)
           c == Ascending(C)
           lo == stats.t_first
           hi == stats.t_last
<1>1. lo \in Nat /\ hi \in Nat /\ lo <= hi
  BY DEF InSpan, Stats
<1>2. C \subseteq lo..hi
  <2>1. \A g \in stats.gaps : g.t \in Nat /\ g.t <= hi
    BY DEF InSpan, Stats, Gaps
  <2> QED BY <1>1, <2>1 DEF Cuts, Errors
<1>3. IsFiniteSet(C) /\ C \subseteq Int
  <2>1. IsFiniteSet(lo..hi)
    BY <1>1, FS_Interval
  <2> QED BY <1>1, <1>2, <2>1, FS_Subset
<1>4. n \in Nat
  BY <1>3, FS_CardinalityType
<1>5. p = <<lo>> \o c \o <<hi>>
  BY DEF Points
<1> HIDE DEF p, C, n, lo, hi, c
<1>6. /\ c \in Seq(C) /\ Len(c) = n
      /\ \A k, l \in 1..n : k < l => c[k] < c[l]
      /\ \A t \in C : \E k \in 1..n : c[k] = t
  BY <1>3, AscendingInOrder DEF n, c
<1>7. \A k \in 1..n : c[k] \in C
  BY <1>4, <1>6, ElementOfSeq
<1>8. C \subseteq Nat
  BY <1>1, <1>2
<1>9. c \in Seq(Nat)
  BY <1>6, <1>8, SeqMonotonic
<1>10. <<lo>> \o c \in Seq(Nat) /\ Len(<<lo>> \o c) = n + 1
       /\ \A i \in 1..(n + 1) : (<<lo>> \o c)[i] = IF i = 1 THEN lo ELSE c[i - 1]
  BY <1>1, <1>4, <1>6, <1>9
<1> DEFINE d == <<lo>> \o c
<1> HIDE DEF d
<1>11. p = Append(d, hi) /\ d \in Seq(Nat) /\ Len(d) = n + 1
  BY <1>1, <1>5, <1>10 DEF d
<1>12. /\ p \in Seq(Nat) /\ Len(p) = n + 2 /\ p[n + 2] = hi
       /\ \A i \in 1..(n + 1) : p[i] = d[i]
  BY <1>1, <1>4, <1>11, AppendProperties
<1>13. \A i \in 1..(n + 2) : p[i] = IF i = 1 THEN lo ELSE IF i = n + 2 THEN hi ELSE c[i - 1]
  BY <1>4, <1>10, <1>12 DEF d
<1>14. \A i \in 2..(n + 1) : i - 1 \in 1..n /\ lo <= c[i - 1] /\ c[i - 1] <= hi /\ c[i - 1] \in Nat
  <2>1. TAKE i \in 2..(n + 1)
  <2>2. i - 1 \in 1..n
    BY <1>4
  <2>3. c[i - 1] \in C
    BY <1>7, <2>2
  <2>4. c[i - 1] \in lo..hi
    BY <1>2, <2>3
  <2> QED BY <1>1, <2>2, <2>4
<1>15. ASSUME NEW k \in 1..(n + 2), NEW l \in 1..(n + 2), k < l PROVE p[k] <= p[l]
  <2>1. CASE k = 1 \/ l = n + 2
    BY <1>1, <1>4, <1>13, <1>14, <1>15, <2>1
  <2>2. CASE k # 1 /\ l # n + 2
    <3>1. k - 1 \in 1..n /\ l - 1 \in 1..n /\ k - 1 < l - 1
      BY <1>4, <1>15, <2>2
    <3>2. p[k] = c[k - 1] /\ p[l] = c[l - 1]
      BY <1>4, <1>13, <1>15, <2>2
    <3>3. c[k - 1] < c[l - 1]
      BY <1>6, <3>1
    <3>4. c[k - 1] \in Nat /\ c[l - 1] \in Nat
      BY <1>7, <1>8, <3>1
    <3> QED BY <3>2, <3>3, <3>4
  <2> QED BY <2>1, <2>2
<1>16. ASSUME NEW t \in C PROVE \E k \in 1..(n + 2) : p[k] = t
  <2>1. PICK k \in 1..n : c[k] = t
    BY <1>6
  <2>2. k + 1 \in 1..(n + 2) /\ k + 1 # 1 /\ k + 1 # n + 2 /\ (k + 1) - 1 = k
    BY <1>4
  <2>3. p[k + 1] = t
    BY <1>13, <2>1, <2>2
  <2> QED BY <2>2, <2>3
<1>17. p[1] = lo
  BY <1>4, <1>13
<1> QED BY <1>4, <1>12, <1>15, <1>16, <1>17 DEF p, n, C, lo, hi

LEMMA PiecesSound ==
  \A stats : InSpan(stats) => Pieces(stats) \in Seq(Sound(stats)) /\ Follows(Pieces(stats))
<1> SUFFICES ASSUME NEW stats, InSpan(stats)
             PROVE  Pieces(stats) \in Seq(Sound(stats)) /\ Follows(Pieces(stats))
  OBVIOUS
<1> DEFINE p == Points(stats)
           q == Pieces(stats)
           n == Cardinality(Cuts(stats))
<1>1. /\ n \in Nat /\ p \in Seq(Nat) /\ Len(p) = n + 2
      /\ p[1] = stats.t_first /\ p[n + 2] = stats.t_last
      /\ \A k, l \in 1..(n + 2) : k < l => p[k] <= p[l]
      /\ \A t \in Cuts(stats) : \E k \in 1..(n + 2) : p[k] = t
  BY PointsInOrder
<1>2. q = [i \in 1..(Len(p) - 1) |-> Span(p[i], p[i + 1])]
  BY DEF Pieces
<1> HIDE DEF p, q, n
<1>3. q = [i \in 1..(n + 1) |-> Span(p[i], p[i + 1])]
  <2>1. Len(p) - 1 = n + 1
    BY <1>1
  <2> QED BY <1>2, <2>1, Zenon
<1>4. \A k \in 1..(n + 2) : p[k] \in Nat
  BY <1>1, ElementOfSeq
<1>5. \A i \in 1..(n + 1) : i \in 1..(n + 2) /\ i + 1 \in 1..(n + 2)
  BY <1>1
<1>6. \A i \in 1..(n + 1) : q[i] = [from |-> p[i], to |-> p[i + 1]]
  BY <1>3 DEF Span
<1>7. \A i \in 1..(n + 1) : q[i].from = p[i] /\ q[i].to = p[i + 1] /\ q[i] \in Spans
  <2>1. TAKE i \in 1..(n + 1)
  <2>2. p[i] \in Nat /\ p[i + 1] \in Nat
    BY <1>4, <1>5
  <2>3. q[i] = [from |-> p[i], to |-> p[i + 1]]
    BY <1>6
  <2>4. \A u, v \in Nat : [from |-> u, to |-> v] \in Spans
    BY DEF Spans
  <2>5. q[i] \in Spans
    BY <2>2, <2>3, <2>4
  <2> QED BY <2>3, <2>5
<1>8. \A k, l \in 1..(n + 2) : k <= l => p[k] <= p[l]
  BY <1>1, <1>4
<1>9. ASSUME NEW i \in 1..(n + 1), NEW g \in stats.gaps, g.severity = "error", p[i] < g.t, g.t < p[i + 1]
      PROVE FALSE
  <2>1. g.t \in Nat /\ stats.t_first \in Nat
    BY DEF InSpan, Stats, Gaps
  <2>2. p[1] <= p[i] /\ p[i] \in Nat /\ p[1] \in Nat /\ p[i + 1] \in Nat
    BY <1>1, <1>4, <1>5, <1>8
  <2>3. g.t \in Cuts(stats)
    <3>1. g.t > stats.t_first
      BY <1>1, <1>9, <2>1, <2>2
    <3> QED BY <1>9, <3>1 DEF Cuts, Errors
  <2>4. PICK k \in 1..(n + 2) : p[k] = g.t
    BY <1>1, <2>3
  <2>5. k <= i \/ i + 1 <= k
    BY <1>1
  <2>6. p[k] <= p[i] \/ p[i + 1] <= p[k]
    BY <1>5, <1>8, <2>5
  <2> QED BY <1>9, <2>1, <2>2, <2>4, <2>6
<1>10. ASSUME NEW i \in 1..(n + 1) PROVE q[i] \in Sound(stats)
  <2>1. stats.t_first <= p[i] /\ p[i + 1] <= stats.t_last
    <3>1. 1 \in 1..(n + 2) /\ n + 2 \in 1..(n + 2)
      BY <1>1
    <3>2. p[1] <= p[i] /\ p[i + 1] <= p[n + 2]
      BY <1>1, <1>5, <1>8, <3>1
    <3> QED BY <1>1, <3>2
  <2>2. \A g \in stats.gaps : g.severity = "error" => ~(p[i] < g.t /\ g.t < p[i + 1])
    BY <1>9
  <2> QED BY <1>7, <2>1, <2>2 DEF Sound
<1>11. q \in Seq(Sound(stats)) /\ Len(q) = n + 1
  <2>1. n + 1 \in Nat
    BY <1>1
  <2>2. q \in [1..(n + 1) -> Sound(stats)]
    BY <1>3, <1>10
  <2> QED BY <2>1, <2>2, SeqDef
<1>12. Follows(q)
  <2>1. ASSUME NEW i \in 1..(n + 1), NEW j \in 1..(n + 1), i < j PROVE q[i].to <= q[j].from
    <3>1. i + 1 \in 1..(n + 2) /\ j \in 1..(n + 2) /\ i + 1 <= j
      BY <1>1, <2>1
    <3>2. p[i + 1] <= p[j]
      BY <1>8, <3>1
    <3> QED BY <1>7, <3>2
  <2> QED BY <1>11, <2>1 DEF Follows
<1> QED BY <1>11, <1>12 DEF q

(* A selection of ranges that follow each other.                           *)
LEMMA KeptFollow ==
  \A S, P, s : s \in Seq(S) /\ Follows(s) => Follows(Selected(s, P))
<1> SUFFICES ASSUME NEW S, NEW P, NEW s \in Seq(S), Follows(s) PROVE Follows(Selected(s, P))
  OBVIOUS
<1>1. PICK pos : Picks(pos, Selected(s, P), s, P)
  BY SelectedPositions
<1> DEFINE r == Selected(s, P)
<1> HIDE DEF r
<1>2. Picks(pos, r, s, P)
  BY <1>1 DEF r
<1>3. \A k \in 1..Len(r) : pos[k] \in 1..Len(s) /\ r[k] = s[pos[k]]
  BY <1>2 DEF Picks
<1>4. ASSUME NEW i \in 1..Len(r), NEW j \in 1..Len(r), i < j PROVE r[i].to <= r[j].from
  <2>1. pos[i] < pos[j]
    BY <1>2, <1>4 DEF Picks
  <2>2. s[pos[i]].to <= s[pos[j]].from
    BY <1>3, <2>1 DEF Follows
  <2> QED BY <1>3, <2>2
<1> QED BY <1>4 DEF Follows, r

LEMMA StreamRangesSound ==
  \A stats : InSpan(stats) =>
    LET r == StreamRanges(stats)
    IN  /\ r \in Seq(Sound(stats)) /\ Follows(r)
        /\ \A i \in 1..Len(r) : LongEnough(r[i])
<1> SUFFICES ASSUME NEW stats, InSpan(stats)
             PROVE  LET r == StreamRanges(stats)
                    IN  /\ r \in Seq(Sound(stats)) /\ Follows(r)
                        /\ \A i \in 1..Len(r) : LongEnough(r[i])
  OBVIOUS
<1> DEFINE r == StreamRanges(stats)
           q == Pieces(stats)
           P == {i \in DOMAIN q : LongEnough(q[i])}
<1>1. r \in {<< >>, Selected(q, P)}
  BY Zenon DEF StreamRanges, Pieces, Points, Cuts, Errors, Keep
<1>2. q \in Seq(Sound(stats)) /\ Follows(q)
  BY PiecesSound
<1>3. CASE r = << >>
  <2>1. << >> \in Seq(Sound(stats)) /\ Len(<< >>) = 0
    OBVIOUS
  <2> HIDE DEF r
  <2> QED BY <1>3, <2>1 DEF Follows, r
<1>4. CASE r = Selected(q, P)
  <2> HIDE DEF r, q
  <2>1. r \in Seq(Sound(stats)) /\ Follows(r)
    BY <1>2, <1>4, SelectedType, KeptFollow
  <2>2. \A k \in 1..Len(r) : \E i \in 1..Len(q) : i \in P /\ r[k] = q[i]
    BY <1>2, <1>4, KeptPass
  <2> QED BY <2>1, <2>2 DEF r
<1> QED BY <1>1, <1>3, <1>4

(* Rows of ranges that follow each other, one after the other.             *)
RowsFollow(ss) ==
  /\ \A i \in 1..Len(ss) : Follows(ss[i])
  /\ \A i, j \in 1..Len(ss) : i < j =>
       \A k \in 1..Len(ss[i]), l \in 1..Len(ss[j]) : ss[i][k].to <= ss[j][l].from

FromRow(x, ss) == \E i \in 1..Len(ss) : \E k \in 1..Len(ss[i]) : x = ss[i][k]

LEMMA RowsAppend ==
  ASSUME NEW S, NEW ss \in Seq(Seq(S)), NEW x \in Seq(S), RowsFollow(Append(ss, x))
  PROVE  /\ RowsFollow(ss) /\ Follows(x)
         /\ \A y : FromRow(y, ss) => \A l \in 1..Len(x) : y.to <= x[l].from
<1> DEFINE r == Append(ss, x)
           n == Len(ss)
<1>1. /\ n \in Nat /\ Len(r) = n + 1 /\ r[n + 1] = x
      /\ \A i \in 1..n : r[i] = ss[i]
  BY AppendProperties, LenProperties
<1> HIDE DEF r, n
<1>2. RowsFollow(r)
  BY DEF r
<1>3. \A i \in 1..n : i \in 1..(n + 1) /\ i < n + 1
  BY <1>1
<1>4. n + 1 \in 1..(n + 1)
  BY <1>1
<1>5. Follows(x)
  BY <1>1, <1>2, <1>4 DEF RowsFollow
<1>6. ASSUME NEW i \in 1..n PROVE Follows(ss[i])
  BY <1>1, <1>2, <1>3 DEF RowsFollow
<1>7. ASSUME NEW i \in 1..n, NEW j \in 1..n, i < j,
             NEW k \in 1..Len(ss[i]), NEW l \in 1..Len(ss[j])
      PROVE  ss[i][k].to <= ss[j][l].from
  <2>1. i \in 1..Len(r) /\ j \in 1..Len(r) /\ r[i] = ss[i] /\ r[j] = ss[j]
    BY <1>1, <1>3
  <2> QED BY <1>2, <1>7, <2>1 DEF RowsFollow
<1>8. ASSUME NEW i \in 1..n, NEW k \in 1..Len(ss[i]), NEW l \in 1..Len(x)
      PROVE  ss[i][k].to <= x[l].from
  <2>1. i \in 1..Len(r) /\ n + 1 \in 1..Len(r) /\ r[i] = ss[i] /\ i < n + 1
    BY <1>1, <1>3, <1>4
  <2> QED BY <1>1, <1>2, <2>1 DEF RowsFollow
<1> QED BY <1>5, <1>6, <1>7, <1>8 DEF RowsFollow, FromRow, n

LEMMA FlattenFollows ==
  \A S : \A ss \in Seq(Seq(S)) : RowsFollow(ss) => Follows(FlattenSeq(ss))
<1> SUFFICES ASSUME NEW S
             PROVE  \A ss \in Seq(Seq(S)) : RowsFollow(ss) => Follows(FlattenSeq(ss))
  OBVIOUS
<1> DEFINE All(ss) == \A m \in 1..Len(FlattenSeq(ss)) : FromRow(FlattenSeq(ss)[m], ss)
           T == {ss \in Seq(Seq(S)) : All(ss) /\ (RowsFollow(ss) => Follows(FlattenSeq(ss)))}
<1>1. << >> \in T
  <2>1. Len(<< >>) = 0
    OBVIOUS
  <2> QED BY <2>1, FlattenEmpty, EmptySeq DEF Follows
<1>2. ASSUME NEW ss \in Seq(Seq(S)), NEW x \in Seq(S), ss \in T PROVE Append(ss, x) \in T
  <2> DEFINE r == Append(ss, x)
             f == FlattenSeq(ss)
             g == FlattenSeq(r)
             n == Len(f)
             m == Len(x)
  <2>1. /\ f \in Seq(S) /\ g = f \o x
        /\ \A i \in 1..n : FromRow(f[i], ss)
        /\ RowsFollow(ss) => Follows(f)
    BY <1>2, FlattenAppend
  <2>2. /\ r \in Seq(Seq(S)) /\ Len(r) = Len(ss) + 1 /\ r[Len(ss) + 1] = x
        /\ \A i \in 1..Len(ss) : r[i] = ss[i]
    BY AppendProperties
  <2>3. n \in Nat /\ m \in Nat /\ Len(ss) \in Nat
    BY <2>1, LenProperties
  <2> HIDE DEF f, g, r
  <2>4. Len(g) = n + m /\ \A i \in 1..(n + m) : g[i] = IF i <= n THEN f[i] ELSE x[i - n]
    BY <2>1, ConcatProperties
  <2> HIDE DEF n, m
  <2>5. \A i \in 1..(n + m) : i \in 1..n \/ (i - n \in 1..m /\ ~(i <= n))
    BY <2>3
  <2>6. ASSUME NEW i \in 1..(n + m) PROVE FromRow(g[i], r)
    <3>1. CASE i \in 1..n
      <4>1. g[i] = f[i]
        BY <2>3, <2>4, <3>1
      <4>2. PICK j \in 1..Len(ss) : \E k \in 1..Len(ss[j]) : g[i] = ss[j][k]
        BY <2>1, <3>1, <4>1 DEF FromRow
      <4>3. j \in 1..Len(r) /\ r[j] = ss[j]
        BY <2>2, <2>3
      <4> QED BY <4>2, <4>3 DEF FromRow
    <3>2. CASE i - n \in 1..m /\ ~(i <= n)
      <4>1. g[i] = x[i - n] /\ Len(ss) + 1 \in 1..Len(r) /\ r[Len(ss) + 1] = x
        BY <2>2, <2>3, <2>4, <3>2
      <4> QED BY <3>2, <4>1 DEF FromRow, m
    <3> QED BY <2>5, <3>1, <3>2
  <2>7. ASSUME RowsFollow(r), NEW i \in 1..(n + m), NEW j \in 1..(n + m), i < j
        PROVE  g[i].to <= g[j].from
    <3>1. /\ Follows(f) /\ Follows(x)
          /\ \A y : FromRow(y, ss) => \A l \in 1..m : y.to <= x[l].from
      BY <2>1, <2>7, RowsAppend DEF r, m
    <3>2. CASE i \in 1..n /\ j \in 1..n
      <4>1. g[i] = f[i] /\ g[j] = f[j]
        BY <2>3, <2>4, <3>2
      <4> QED BY <2>7, <3>1, <3>2, <4>1 DEF Follows, n
    <3>3. CASE i \in 1..n /\ ~(j <= n) /\ j - n \in 1..m
      <4>1. g[i] = f[i] /\ g[j] = x[j - n]
        BY <2>3, <2>4, <3>3
      <4>2. FromRow(f[i], ss)
        BY <2>1, <3>3 DEF n
      <4> QED BY <3>1, <3>3, <4>1, <4>2
    <3>4. CASE ~(i <= n) /\ i - n \in 1..m /\ ~(j <= n) /\ j - n \in 1..m
      <4>1. g[i] = x[i - n] /\ g[j] = x[j - n]
        BY <2>4, <3>4
      <4>2. i - n < j - n
        BY <2>3, <2>7
      <4> QED BY <3>1, <3>4, <4>1, <4>2 DEF Follows, m
    <3>5. i \in 1..n \/ ~(j <= n)
      BY <2>3, <2>7
    <3> QED BY <2>5, <3>2, <3>3, <3>4, <3>5
  <2>8. All(r)
    BY <2>4, <2>6 DEF g
  <2>9. RowsFollow(r) => Follows(g)
    BY <2>4, <2>7 DEF Follows
  <2> QED BY <2>2, <2>8, <2>9 DEF g, r
<1> HIDE DEF T
<1>3. Seq(Seq(S)) \subseteq T
  BY <1>1, <1>2, Plus!SeqInduction
<1> QED BY <1>3 DEF T

(* The overlap of two ranges.  It lies in the first.                       *)
OverlapOf(a, b) == Span(Max({a.from, b.from}), Min({a.to, b.to}))

LEMMA MostAndLeast ==
  \A x, y \in Int : /\ Max({x, y}) = IF x >= y THEN x ELSE y
                    /\ Min({x, y}) = IF x <= y THEN x ELSE y
<1> SUFFICES ASSUME NEW x \in Int, NEW y \in Int
             PROVE  /\ Max({x, y}) = IF x >= y THEN x ELSE y
                    /\ Min({x, y}) = IF x <= y THEN x ELSE y
  OBVIOUS
<1>1. IsFiniteSet({x, y})
  <2>1. IsFiniteSet({x}) /\ IsFiniteSet({y}) /\ {x, y} = {x} \cup {y}
    BY FS_Singleton
  <2> QED BY <2>1, FS_Union
<1>2. {x, y} \subseteq Int /\ {x, y} # {}
  OBVIOUS
<1>3. /\ Max({x, y}) \in {x, y} /\ \A z \in {x, y} : z <= Max({x, y})
      /\ Min({x, y}) \in {x, y} /\ \A z \in {x, y} : Min({x, y}) <= z
  BY <1>1, <1>2, MaxAndMin
<1> QED BY <1>3

LEMMA OverlapIs ==
  \A a, b \in Spans :
    LET c == OverlapOf(a, b)
    IN  /\ c \in Spans
        /\ a.from <= c.from /\ c.to <= a.to
        /\ b.from <= c.from /\ c.to <= b.to
<1> SUFFICES ASSUME NEW a \in Spans, NEW b \in Spans
             PROVE  LET c == OverlapOf(a, b)
                    IN  /\ c \in Spans
                        /\ a.from <= c.from /\ c.to <= a.to
                        /\ b.from <= c.from /\ c.to <= b.to
  OBVIOUS
<1>1. a.from \in Nat /\ a.to \in Nat /\ b.from \in Nat /\ b.to \in Nat
  BY DEF Spans
<1>2. /\ Max({a.from, b.from}) = IF a.from >= b.from THEN a.from ELSE b.from
      /\ Min({a.to, b.to}) = IF a.to <= b.to THEN a.to ELSE b.to
  <2> DEFINE x == a.from
             y == b.from
             u == a.to
             v == b.to
  <2>1. x \in Int /\ y \in Int /\ u \in Int /\ v \in Int
    BY <1>1
  <2> HIDE DEF x, y, u, v
  <2>2. Max({x, y}) = (IF x >= y THEN x ELSE y) /\ Min({u, v}) = (IF u <= v THEN u ELSE v)
    BY <2>1, MostAndLeast
  <2> QED BY <2>2 DEF x, y, u, v
<1>3. OverlapOf(a, b) = [from |-> Max({a.from, b.from}), to |-> Min({a.to, b.to})]
  BY DEF OverlapOf, Span
<1> QED BY <1>1, <1>2, <1>3 DEF Spans

Rows(er, sr) == [i \in DOMAIN er |-> [j \in DOMAIN sr |-> OverlapOf(er[i], sr[j])]]

LEMMA RowsSound ==
  \A stats, er, sr :
    /\ er \in Seq(Sound(stats)) /\ Follows(er)
    /\ sr \in Seq(Spans) /\ Follows(sr) /\ InSpan(stats)
    => Rows(er, sr) \in Seq(Seq(Sound(stats))) /\ RowsFollow(Rows(er, sr))
<1> SUFFICES ASSUME NEW stats, NEW er, NEW sr, er \in Seq(Sound(stats)), Follows(er),
                    sr \in Seq(Spans), Follows(sr), InSpan(stats)
             PROVE  Rows(er, sr) \in Seq(Seq(Sound(stats))) /\ RowsFollow(Rows(er, sr))
  OBVIOUS
<1> DEFINE n == Len(er)
           m == Len(sr)
           R == Rows(er, sr)
           G == Sound(stats)
<1>1. n \in Nat /\ m \in Nat /\ DOMAIN er = 1..n /\ DOMAIN sr = 1..m
  BY LenProperties
<1>2. \A i \in 1..n : er[i] \in Spans /\ er[i] \in G
  BY ElementOfSeq DEF Sound
<1>3. \A j \in 1..m : sr[j] \in Spans
  BY ElementOfSeq
<1>4. R = [i \in 1..n |-> [j \in 1..m |-> OverlapOf(er[i], sr[j])]]
  BY <1>1, Zenon DEF Rows
<1> HIDE DEF n, m, R
<1>5. ASSUME NEW i \in 1..n, NEW j \in 1..m
      PROVE  /\ OverlapOf(er[i], sr[j]) \in G
             /\ er[i].from <= OverlapOf(er[i], sr[j]).from /\ OverlapOf(er[i], sr[j]).to <= er[i].to
             /\ sr[j].from <= OverlapOf(er[i], sr[j]).from /\ OverlapOf(er[i], sr[j]).to <= sr[j].to
  <2> DEFINE a == er[i]
             b == sr[j]
             c == OverlapOf(a, b)
  <2>1. a \in Spans /\ b \in Spans /\ a \in G
    BY <1>2, <1>3
  <2> HIDE DEF a, b
  <2>2. /\ c \in Spans /\ a.from <= c.from /\ c.to <= a.to
        /\ b.from <= c.from /\ c.to <= b.to
    BY <2>1, OverlapIs
  <2> HIDE DEF c
  <2>3. /\ a.from \in Nat /\ a.to \in Nat /\ c.from \in Nat /\ c.to \in Nat
        /\ stats.t_first \in Nat /\ stats.t_last \in Nat /\ \A g \in stats.gaps : g.t \in Nat
    BY <2>1, <2>2 DEF Spans, InSpan, Stats, Gaps
  <2>4. /\ stats.t_first <= a.from /\ a.to <= stats.t_last
        /\ \A g \in stats.gaps : g.severity = "error" => ~(a.from < g.t /\ g.t < a.to)
    BY <2>1 DEF Sound
  <2>5. stats.t_first <= c.from /\ c.to <= stats.t_last
    BY <2>2, <2>3, <2>4
  <2>6. ASSUME NEW g \in stats.gaps, g.severity = "error" PROVE ~(c.from < g.t /\ g.t < c.to)
    <3>1. ~(a.from < g.t /\ g.t < a.to) /\ g.t \in Nat
      BY <2>3, <2>4, <2>6
    <3> QED BY <2>2, <2>3, <3>1
  <2>7. c \in G
    BY <2>2, <2>5, <2>6 DEF Sound
  <2> QED BY <2>2, <2>7 DEF a, b, c
<1> HIDE DEF G
<1>6. \A i \in 1..n : R[i] = [j \in 1..m |-> OverlapOf(er[i], sr[j])]
  BY <1>4
<1>7. \A i \in 1..n : R[i] \in Seq(G) /\ Len(R[i]) = m
  <2>1. TAKE i \in 1..n
  <2>2. R[i] \in [1..m -> G]
    BY <1>5, <1>6
  <2> QED BY <1>1, <2>2, SeqDef
<1>8. R \in Seq(Seq(G)) /\ Len(R) = n
  <2>1. R \in [1..n -> Seq(G)]
    BY <1>4, <1>6, <1>7
  <2> QED BY <1>1, <2>1, SeqDef
<1>9. \A i \in 1..n, j \in 1..m : R[i][j] = OverlapOf(er[i], sr[j])
  BY <1>6
<1>10. \A i \in 1..n, j \in 1..m :
         /\ R[i][j].from \in Nat /\ R[i][j].to \in Nat
         /\ er[i].from <= R[i][j].from /\ R[i][j].to <= er[i].to
         /\ sr[j].from <= R[i][j].from /\ R[i][j].to <= sr[j].to
  <2>1. TAKE i \in 1..n, j \in 1..m
  <2>2. R[i][j] = OverlapOf(er[i], sr[j])
    BY <1>9
  <2>3. OverlapOf(er[i], sr[j]) \in Spans
    BY <1>5 DEF G, Sound
  <2>4. OverlapOf(er[i], sr[j]).from \in Nat /\ OverlapOf(er[i], sr[j]).to \in Nat
    BY <2>3 DEF Spans
  <2> QED BY <1>5, <2>2, <2>4
<1>11. /\ \A i \in 1..n : er[i].from \in Nat /\ er[i].to \in Nat
       /\ \A j \in 1..m : sr[j].from \in Nat /\ sr[j].to \in Nat
  BY <1>2, <1>3 DEF Spans
<1>12. ASSUME NEW i \in 1..n PROVE Follows(R[i])
  <2>1. ASSUME NEW j \in 1..m, NEW k \in 1..m, j < k PROVE R[i][j].to <= R[i][k].from
    <3>1. sr[j].to <= sr[k].from
      BY <2>1 DEF Follows, m
    <3>2. R[i][j].to <= sr[j].to /\ sr[k].from <= R[i][k].from
      BY <1>10
    <3>3. /\ R[i][j].to \in Nat /\ sr[j].to \in Nat /\ sr[k].from \in Nat /\ R[i][k].from \in Nat
      BY <1>10, <1>11
    <3> QED BY <3>1, <3>2, <3>3
  <2> QED BY <1>7, <2>1 DEF Follows
<1>13. ASSUME NEW i \in 1..n, NEW h \in 1..n, i < h, NEW j \in 1..m, NEW k \in 1..m
       PROVE  R[i][j].to <= R[h][k].from
  <2>1. er[i].to <= er[h].from
    BY <1>13 DEF Follows, n
  <2>2. R[i][j].to <= er[i].to /\ er[h].from <= R[h][k].from
    BY <1>10
  <2>3. R[i][j].to \in Nat /\ er[i].to \in Nat /\ er[h].from \in Nat /\ R[h][k].from \in Nat
    BY <1>10, <1>11
  <2> QED BY <2>1, <2>2, <2>3
<1>14. RowsFollow(R)
  BY <1>7, <1>8, <1>12, <1>13 DEF RowsFollow
<1> QED BY <1>8, <1>14 DEF R, G

LEMMA ValidRangesSound ==
  \A ego, source : InSpan(ego) /\ InSpan(source) =>
    LET r == ValidRanges(ego, source)
    IN  /\ r \in Seq(Sound(ego)) /\ Follows(r)
        /\ \A i \in 1..Len(r) : LongEnough(r[i])
<1> SUFFICES ASSUME NEW ego, NEW source, InSpan(ego), InSpan(source)
             PROVE  LET r == ValidRanges(ego, source)
                    IN  /\ r \in Seq(Sound(ego)) /\ Follows(r)
                        /\ \A i \in 1..Len(r) : LongEnough(r[i])
  OBVIOUS
<1> DEFINE r == ValidRanges(ego, source)
           er == StreamRanges(ego)
           sr == StreamRanges(source)
           pairs == FlattenSeq(Rows(er, sr))
           P == {i \in DOMAIN pairs : pairs[i].to > pairs[i].from /\ LongEnough(pairs[i])}
<1>1. r \in {er, Selected(pairs, P)}
  BY Zenon DEF ValidRanges, Rows, OverlapOf, Keep
<1>2. er \in Seq(Sound(ego)) /\ Follows(er) /\ \A i \in 1..Len(er) : LongEnough(er[i])
  BY StreamRangesSound
<1>3. sr \in Seq(Spans) /\ Follows(sr)
  <2>1. sr \in Seq(Sound(source)) /\ Follows(sr)
    BY StreamRangesSound
  <2>2. Sound(source) \subseteq Spans
    BY DEF Sound
  <2> HIDE DEF sr
  <2> QED BY <2>1, <2>2, SeqMonotonic
<1> HIDE DEF r, er, sr
<1>4. Rows(er, sr) \in Seq(Seq(Sound(ego))) /\ RowsFollow(Rows(er, sr))
  BY <1>2, <1>3, RowsSound
<1>5. pairs \in Seq(Sound(ego)) /\ Follows(pairs)
  BY <1>4, FlattenAppend, FlattenFollows
<1> HIDE DEF pairs
<1>6. CASE r = Selected(pairs, P)
  <2>1. r \in Seq(Sound(ego)) /\ Follows(r)
    BY <1>5, <1>6, SelectedType, KeptFollow
  <2>2. \A i \in P : LongEnough(pairs[i])
    OBVIOUS
  <2> HIDE DEF P
  <2>3. \A k \in 1..Len(Selected(pairs, P)) :
          \E i \in 1..Len(pairs) : i \in P /\ Selected(pairs, P)[k] = pairs[i]
    BY <1>5, KeptPass
  <2>4. \A k \in 1..Len(r) : \E i \in 1..Len(pairs) : i \in P /\ r[k] = pairs[i]
    BY <1>6, <2>3
  <2> QED BY <2>1, <2>2, <2>4 DEF r
<1>7. CASE r = er
  BY <1>2, <1>7 DEF r
<1> QED BY <1>1, <1>6, <1>7

(* The total of the durations.                                             *)
Durations(s) == [i \in DOMAIN s |-> Duration(s[i])]

(* Ranges that do not end before they begin.                               *)
LongSpans == {r \in Spans : r.from <= r.to}

LEMMA DurationsAppend ==
  ASSUME NEW s \in Seq(LongSpans), NEW x \in LongSpans
  PROVE  /\ Durations(s) \in Seq(Nat) /\ Len(Durations(s)) = Len(s)
         /\ Durations(Append(s, x)) = Append(Durations(s), Duration(x)) /\ Duration(x) \in Nat
<1> DEFINE n == Len(s)
           r == Append(s, x)
           d == Durations(s)
<1>1. /\ n \in Nat /\ DOMAIN s = 1..n /\ r \in Seq(LongSpans) /\ DOMAIN r = 1..(n + 1)
      /\ r[n + 1] = x /\ \A i \in 1..n : r[i] = s[i]
  BY AppendProperties, LenProperties
<1>2. \A y \in LongSpans : Duration(y) \in Nat
  BY DEF LongSpans, Spans, Duration
<1>3. \A i \in 1..n : s[i] \in LongSpans
  BY ElementOfSeq
<1> HIDE DEF n, r
<1>4. d = [i \in 1..n |-> Duration(s[i])]
  BY <1>1 DEF Durations
<1> HIDE DEF d
<1>5. d \in [1..n -> Nat]
  BY <1>2, <1>3, <1>4
<1>6. d \in Seq(Nat) /\ Len(d) = n
  BY <1>1, <1>5, SeqDef
<1> DEFINE e == Append(d, Duration(x))
<1>7. /\ e \in Seq(Nat) /\ Len(e) = n + 1 /\ e[n + 1] = Duration(x)
      /\ \A i \in 1..n : e[i] = d[i]
  BY <1>2, <1>6, AppendProperties
<1> DEFINE f == Durations(r)
<1>8. f = [i \in 1..(n + 1) |-> Duration(r[i])]
  BY <1>1 DEF Durations
<1> HIDE DEF e, f
<1>9. \A i \in 1..(n + 1) : f[i] = e[i]
  <2>1. TAKE i \in 1..(n + 1)
  <2>2. CASE i \in 1..n
    BY <1>1, <1>4, <1>7, <1>8, <2>2
  <2>3. CASE i = n + 1
    BY <1>1, <1>7, <1>8, <2>3
  <2> QED BY <1>1, <2>2, <2>3
<1>10. e = [i \in 1..(n + 1) |-> e[i]]
  <2>1. e \in [1..(n + 1) -> Nat]
    BY <1>7, LenProperties
  <2> QED BY <2>1
<1>11. f = e
  BY <1>8, <1>9, <1>10
<1> QED BY <1>2, <1>6, <1>11 DEF n, r, d, e, f

(* The total is a number, at least the duration of any range, and at most  *)
(* the time from the first range to the end of the last.                   *)
LEMMA TotalBounds ==
  \A s \in Seq(LongSpans) :
    /\ TotalDuration(s) \in Nat
    /\ \A i \in 1..Len(s) : Duration(s[i]) <= TotalDuration(s)
    /\ s = << >> => TotalDuration(s) = 0
    /\ \A lo \in Nat : Follows(s) /\ s # << >> /\ (\A i \in 1..Len(s) : lo <= s[i].from)
                         => TotalDuration(s) <= s[Len(s)].to - lo
<1> DEFINE Bounds(s) ==
             /\ TotalDuration(s) \in Nat
             /\ \A i \in 1..Len(s) : Duration(s[i]) <= TotalDuration(s)
             /\ s = << >> => TotalDuration(s) = 0
             /\ \A lo \in Nat : Follows(s) /\ s # << >> /\ (\A i \in 1..Len(s) : lo <= s[i].from)
                                  => TotalDuration(s) <= s[Len(s)].to - lo
           T == {s \in Seq(LongSpans) : Bounds(s)}
<1>0. \A s : TotalDuration(s) = SumSeq(Durations(s))
  BY Zenon DEF TotalDuration, Durations
<1>1. << >> \in T
  <2>1. Durations(<< >>) = << >> /\ Len(<< >>) = 0
    BY DEF Durations
  <2>2. TotalDuration(<< >>) = 0
    BY <1>0, <2>1, SumEmpty
  <2> QED BY <2>1, <2>2, EmptySeq
<1>2. ASSUME NEW s \in Seq(LongSpans), NEW x \in LongSpans, s \in T PROVE Append(s, x) \in T
  <2> DEFINE r == Append(s, x)
             n == Len(s)
             total == TotalDuration(s)
             D == Duration(x)
  <2>1. /\ Durations(s) \in Seq(Nat) /\ D \in Nat
        /\ Durations(r) = Append(Durations(s), D)
    BY <1>2, DurationsAppend
  <2>2. TotalDuration(r) = total + D
    <3>1. Durations(s) \in Seq(Int) /\ D \in Int
      BY <2>1, NatSeqIsIntSeq
    <3> HIDE DEF D
    <3>2. SumSeq(Append(Durations(s), D)) = SumSeq(Durations(s)) + D
      BY <3>1, SumAppend
    <3> QED BY <1>0, <2>1, <3>2
  <2>3. /\ n \in Nat /\ r \in Seq(LongSpans) /\ Len(r) = n + 1
        /\ r[n + 1] = x /\ \A i \in 1..n : r[i] = s[i]
    BY <1>2, AppendProperties, LenProperties
  <2>4. Bounds(s)
    BY <1>2
  <2>5. r # << >>
    BY <2>3
  <2>6. /\ D = x.to - x.from /\ x.to \in Nat /\ x.from \in Nat
        /\ \A i \in 1..n : s[i].from \in Nat /\ s[i].to \in Nat /\ s[i].from <= s[i].to
                           /\ Duration(s[i]) \in Nat
    BY <1>2, ElementOfSeq DEF Duration, LongSpans, Spans
  <2>7. s # << >> => n \in 1..n
    BY <1>2, <2>3, EmptySeq, LenProperties
  <2> HIDE DEF r, n, D
  <2>8. total + D \in Nat /\ total \in Nat
    BY <2>1, <2>4
  <2> HIDE DEF total
  <2>9. ASSUME NEW i \in 1..(n + 1) PROVE Duration(r[i]) <= total + D
    <3>1. CASE i \in 1..n
      <4>1. Duration(s[i]) <= total /\ Duration(s[i]) \in Nat /\ r[i] = s[i]
        BY <2>3, <2>4, <2>6, <3>1 DEF total, n
      <4> QED BY <2>1, <2>8, <4>1
    <3>2. CASE i = n + 1
      BY <2>1, <2>3, <2>8, <3>2 DEF D
    <3> QED BY <2>3, <3>1, <3>2
  <2>10. ASSUME NEW lo \in Nat, Follows(r), \A i \in 1..(n + 1) : lo <= r[i].from
         PROVE  total + D <= x.to - lo
    <3>1. lo <= x.from /\ \A i \in 1..n : lo <= s[i].from
      <4>1. n + 1 \in 1..(n + 1) /\ \A i \in 1..n : i \in 1..(n + 1)
        BY <2>3
      <4> QED BY <2>3, <2>10, <4>1
    <3>2. CASE s = << >>
      <4>1. total = 0
        BY <2>4, <3>2 DEF total
      <4> QED BY <2>6, <3>1, <4>1
    <3>3. CASE s # << >>
      <4>1. Follows(s)
        <5>1. ASSUME NEW i \in 1..n, NEW j \in 1..n, i < j PROVE s[i].to <= s[j].from
          <6>1. i \in 1..Len(r) /\ j \in 1..Len(r) /\ r[i] = s[i] /\ r[j] = s[j]
            BY <2>3
          <6> QED BY <2>10, <5>1, <6>1 DEF Follows
        <5> QED BY <5>1 DEF Follows, n
      <4>2. total <= s[n].to - lo
        BY <2>4, <3>1, <3>3, <4>1 DEF total, n
      <4>3. s[n].to <= x.from
        <5>1. n \in 1..Len(r) /\ n + 1 \in 1..Len(r) /\ n < n + 1 /\ r[n] = s[n]
          BY <2>3, <2>7, <3>3
        <5> QED BY <2>3, <2>10, <5>1 DEF Follows
      <4>4. s[n].to \in Nat
        BY <2>6, <2>7, <3>3
      <4> QED BY <2>6, <2>8, <4>2, <4>3, <4>4
    <3> QED BY <3>2, <3>3
  <2>11. Bounds(r)
    BY <2>2, <2>3, <2>5, <2>8, <2>9, <2>10
  <2> QED BY <2>3, <2>11 DEF r
<1> HIDE DEF T
<1>3. Seq(LongSpans) \subseteq T
  BY <1>1, <1>2, Plus!SeqInduction
<1> QED BY <1>3 DEF T

LEMMA StatsInSpan ==
  SessionIn => InSpan(EgoStats) /\ InSpan(SourceStats)
<1>1. SUFFICES ASSUME SessionIn PROVE InSpan(EgoStats) /\ InSpan(SourceStats)
  OBVIOUS
<1>2. \A b \in BOOLEAN : InSpan(Accumulate(Frames, b)) /\ InSpan(Accumulate(SourceFrames, b))
  <2>1. Frames \in Seq(EgoFrames) /\ SourceFrames \in Seq(SourcePackets)
    BY <1>1, FramesTyped, SourceTyped, SessionsAssumption
  <2> QED BY <2>1, StatsOf, FramesScanned DEF InSpan
<1>3. InSpan([NoStats EXCEPT !.file_ok = FALSE])
  <2> DEFINE e == [NoStats EXCEPT !.file_ok = FALSE]
  <2>1. e \in Stats
    BY DEF NoStats, Stats
  <2>2. e.gaps = {} /\ e.t_first = 0 /\ e.t_last = 0
    BY DEF NoStats
  <2> HIDE DEF e
  <2>3. InSpan(e)
    BY <2>1, <2>2 DEF InSpan
  <2> QED BY <2>3 DEF e
<1>4. (Chunks # << >>) \in BOOLEAN
  OBVIOUS
<1> QED BY <1>2, <1>3, <1>4 DEF EgoStats, SourceStats

(* What is proved of the ranges in the report.                             *)
LEMMA RangesOfReport ==
  ASSUME SessionIn
  PROVE  /\ Report.ranges \in Seq(Sound(EgoStats)) /\ Follows(Report.ranges)
         /\ \A i \in 1..Len(Report.ranges) : LongEnough(Report.ranges[i])
         /\ Report.ranges \in Seq(LongSpans)
<1> DEFINE r == Report.ranges
<1>1. /\ r \in Seq(Sound(EgoStats)) /\ Follows(r)
      /\ \A i \in 1..Len(r) : LongEnough(r[i])
  BY StatsInSpan, ValidRangesSound, ReportIs
<1> HIDE DEF r
<1>2. \A i \in 1..Len(r) : r[i] \in LongSpans
  <2>1. TAKE i \in 1..Len(r)
  <2>2. r[i] \in Spans
    BY <1>1, ElementOfSeq DEF Sound
  <2> QED BY <1>1, <2>2, ValidationAssumption DEF LongSpans, LongEnough, Duration, Spans
<1>3. r \in Seq(LongSpans)
  <2>1. Len(r) \in Nat /\ r \in [1..Len(r) -> Sound(EgoStats)]
    BY <1>1, LenProperties
  <2>2. r \in [1..Len(r) -> LongSpans]
    BY <1>2, <2>1
  <2> QED BY <2>1, <2>2, SeqDef
<1> QED BY <1>1, <1>3 DEF r

(* The range the pipeline works on.                                        *)
LEMMA RangeTyped ==
  ASSUME SessionIn, validation = Report
  PROVE  ValidRange.from \in Nat /\ ValidRange.to \in Nat
<1>1. CASE validation.ranges = << >>
  BY <1>1 DEF ValidRange, Span
<1>2. CASE validation.ranges # << >>
  <2> DEFINE r == validation.ranges
  <2>1. r \in Seq(LongSpans)
    BY RangesOfReport
  <2> HIDE DEF r
  <2>2. r[1] \in LongSpans
    BY <1>2, <2>1, EmptySeq, LenProperties, ElementOfSeq DEF r
  <2>3. ValidRange = r[1]
    BY <1>2 DEF ValidRange, r
  <2> QED BY <2>2, <2>3 DEF LongSpans, Spans
<1> QED BY <1>1, <1>2

(* The verdict.                                                            *)
LEMMA NotFailed ==
  Report.integrity # "failed" => EgoStats.file_ok /\ ~(Report.valid < MinValid)
<1>1. \A ego, source, ranges :
        Integrity(ego, source, ranges) # "failed" => ego.file_ok /\ ~(TotalDuration(ranges) < MinValid)
  BY DEF Integrity
<1> QED BY <1>1, ReportIs

(* The valid ranges of the report: in order, inside the span of the ego    *)
(* log, long enough and without a serious gap inside; a session that is    *)
(* not failed has one (log_validator.cpp:276-354).  A configuration that   *)
(* asks for no valid time accepts a session without any.                   *)
THEOREM RangesHold ==
  ASSUME MinValid > 0
  PROVE  PipelineSpec => []RangesAreSound
<1>1. DataInv => RangesAreSound
  <2>1. SUFFICES ASSUME DataInv, Validated PROVE RangesAreSound
    BY DEF RangesAreSound
  <2>2. validation = Report /\ SessionIn
    BY <2>1 DEF DataInv, Validated
  <2> DEFINE r == Report.ranges
             e == EgoStats
             n == Len(r)
  <2>3. /\ r \in Seq(Sound(e)) /\ Follows(r) /\ r \in Seq(LongSpans)
        /\ \A i \in 1..n : LongEnough(r[i])
    BY <2>2, RangesOfReport
  <2>4. validation.ranges = r /\ validation.ego = e
    BY <2>2, ReportIs
  <2>5. /\ Report.valid = TotalDuration(r) /\ Report.total = e.t_last - e.t_first
    BY ReportIs
  <2>6. e.t_first \in Nat /\ e.t_last \in Nat /\ e.t_first <= e.t_last
    BY <2>2, StatsInSpan DEF InSpan, Stats
  <2> HIDE DEF r, e
  <2>7. n \in Nat /\ DOMAIN r = 1..n
    BY <2>3, LenProperties
  <2>8. \A i \in 1..n : r[i] \in Sound(e)
    BY <2>3, ElementOfSeq
  <2> HIDE DEF n
  <2>9. ASSUME NEW i \in 1..n
        PROVE  /\ LongEnough(r[i]) /\ e.t_first <= r[i].from /\ r[i].to <= e.t_last
               /\ \A g \in e.gaps : g.severity = "error" => ~(r[i].from < g.t /\ g.t < r[i].to)
               /\ i > 1 => r[i - 1].to <= r[i].from
    <3>1. i > 1 => i - 1 \in 1..n /\ i - 1 < i
      BY <2>7
    <3>2. i > 1 => r[i - 1].to <= r[i].from
      BY <2>3, <3>1 DEF Follows, n
    <3> QED BY <2>3, <2>8, <3>2 DEF Sound
  <2>10. TotalDuration(r) \in Nat /\ (r = << >> => TotalDuration(r) = 0)
    BY <2>3, TotalBounds
  <2>11. validation.integrity # "failed" => r # << >>
    <3>1. SUFFICES ASSUME validation.integrity # "failed", r = << >> PROVE FALSE
      OBVIOUS
    <3>2. ~(TotalDuration(r) < MinValid)
      BY <2>2, <2>5, <3>1, NotFailed
    <3> QED BY <2>10, <3>1, <3>2
  <2>12. TotalDuration(r) <= e.t_last - e.t_first
    <3>1. CASE r = << >>
      BY <2>6, <2>10, <3>1
    <3>2. CASE r # << >>
      <4>1. n \in 1..n
        BY <2>3, <2>7, <3>2, EmptySeq DEF n
      <4>2. TotalDuration(r) <= r[n].to - e.t_first
        BY <2>3, <2>6, <2>9, <3>2, TotalBounds DEF n
      <4>3. r[n].to <= e.t_last /\ r[n].to \in Nat
        BY <2>8, <2>9, <4>1 DEF Sound, Spans
      <4> QED BY <2>6, <2>10, <4>2, <4>3
    <3> QED BY <3>1, <3>2
  <2>13. validation.valid <= Max({0, validation.total})
    <3> DEFINE d == e.t_last - e.t_first
    <3>1. d \in Int
      BY <2>6
    <3>2. validation.valid = TotalDuration(r) /\ validation.total = d
      BY <2>2, <2>5
    <3>3. TotalDuration(r) <= d /\ d \in Nat
      BY <2>6, <2>12
    <3> HIDE DEF d
    <3>4. 0 \in Int
      OBVIOUS
    <3>5. Max({0, d}) = IF 0 >= d THEN 0 ELSE d
      BY <3>1, <3>4, MostAndLeast
    <3> QED BY <2>10, <3>2, <3>3, <3>5
  <2>14. \A i \in DOMAIN r :
             /\ LongEnough(r[i]) /\ e.t_first <= r[i].from /\ r[i].to <= e.t_last
             /\ \A g \in e.gaps : g.severity = "error" => ~(r[i].from < g.t /\ g.t < r[i].to)
             /\ i > 1 => r[i - 1].to <= r[i].from
    BY <2>7, <2>9
  <2> QED BY <2>4, <2>11, <2>13, <2>14 DEF RangesAreSound
<1> QED BY <1>1, ResultsAreOfTheLogs, PTL
-----------------------------------------------------------------------------
(* Scores.  The arithmetic they need.                                      *)
LEMMA Products ==
  \A a, b, c \in Nat : /\ a * c \in Nat
                       /\ a <= b => a * c <= b * c
                       /\ c > 0 /\ a * c <= b * c => a <= b
<1> SUFFICES ASSUME NEW a \in Nat, NEW b \in Nat, NEW c \in Nat
             PROVE  /\ a * c \in Nat
                    /\ a <= b => a * c <= b * c
                    /\ c > 0 /\ a * c <= b * c => a <= b
  OBVIOUS
<1>1. a * c \in Nat
  OBVIOUS
<1>2. a <= b => a * c <= b * c
  <2>1. SUFFICES ASSUME a <= b PROVE a * c <= b * c
    OBVIOUS
  <2>2. PICK d \in Nat : b = a + d
    <3>1. b - a \in Nat /\ b = a + (b - a)
      BY <2>1
    <3> QED BY <3>1
  <2>3. b * c = a * c + d * c /\ d * c \in Nat
    BY <2>2
  <2> QED BY <1>1, <2>3
<1>3. c > 0 /\ a * c <= b * c => a <= b
  <2>1. SUFFICES ASSUME c > 0, a > b PROVE a * c > b * c
    OBVIOUS
  <2>2. PICK d \in Nat : a = b + d /\ d > 0
    <3>1. a - b \in Nat /\ a = b + (a - b) /\ a - b > 0
      BY <2>1
    <3> QED BY <3>1
  <2>3. a * c = b * c + d * c /\ d * c > 0 /\ b * c \in Nat
    BY <2>1, <2>2
  <2> QED BY <2>3
<1> QED BY <1>1, <1>2, <1>3

(* A score is a fraction of at most 1, and the score of a log with more    *)
(* than half of its frames lost is less than a half.                       *)
LEMMA ScoreIs ==
  \A stats \in Stats :
    LET s == StreamScore(stats)
    IN  /\ s.num \in Nat /\ s.den \in Nat /\ s.den > 0 /\ s.num <= s.den
        /\ 2 * s.num >= s.den => 2 * stats.lost <= stats.total
<1> SUFFICES ASSUME NEW stats \in Stats
             PROVE  LET s == StreamScore(stats)
                    IN  /\ s.num \in Nat /\ s.den \in Nat /\ s.den > 0 /\ s.num <= s.den
                        /\ 2 * s.num >= s.den => 2 * stats.lost <= stats.total
  OBVIOUS
<1> DEFINE s == StreamScore(stats)
           total == stats.total
           lost == stats.lost
           gaps == stats.audio + stats.telemetry
           h == Max({1, total \div 100})
           k == IF stats.backward > 0 THEN 9 ELSE 10
           l == Least(lost, total)
           m == Least(gaps, h)
<1>1. total \in Nat /\ lost \in Nat /\ gaps \in Nat /\ k \in {9, 10}
  BY DEF Stats
<1>2. /\ s = IF ~stats.file_ok \/ total = 0 THEN [num |-> 0, den |-> 1]
             ELSE [num |-> (total - l) * k * (h - m), den |-> total * 10 * h]
  BY DEF StreamScore
<1> HIDE DEF s, total, lost, gaps, k
<1>3. h \in Nat /\ h > 0
  <2>1. total \div 100 \in Nat
    BY <1>1
  <2> DEFINE d == total \div 100
  <2> HIDE DEF d
  <2>2. Max({1, d}) = IF 1 >= d THEN 1 ELSE d
    BY <2>1, MostAndLeast DEF d
  <2>3. d \in Nat
    BY <2>1 DEF d
  <2> QED BY <2>2, <2>3 DEF d
<1> HIDE DEF h
<1>4. l = (IF lost <= total THEN lost ELSE total) /\ m = (IF gaps <= h THEN gaps ELSE h)
  BY <1>1, <1>3, MostAndLeast DEF Least
<1> HIDE DEF l, m
<1>5. /\ total - l \in Nat /\ h - m \in Nat /\ h - m <= h /\ total - l <= total
  BY <1>1, <1>3, <1>4
<1>6. CASE ~stats.file_ok \/ total = 0
  <2>1. s.num = 0 /\ s.den = 1
    BY <1>2, <1>6
  <2> QED BY <2>1 DEF s
<1>7. CASE ~(~stats.file_ok \/ total = 0)
  <2> DEFINE x == total - l
             y == h - m
             z == 10 * h
  <2>1. s.num = x * k * y /\ s.den = total * 10 * h /\ total > 0
    BY <1>1, <1>2, <1>7
  <2>2. x \in Nat /\ y \in Nat /\ z \in Nat /\ z > 0 /\ y <= h /\ x <= total /\ k \in Nat
    BY <1>1, <1>3, <1>5
  <2>3. k * y \in Nat /\ k * y <= z
    BY <1>1, <1>3, <2>2
  <2>4. s.den = total * z
    BY <1>1, <1>3, <2>1
  <2> HIDE DEF x, y, z
  <2>5. s.num = (k * y) * x
    BY <2>1, <2>2
  <2> DEFINE w == k * y
  <2> HIDE DEF w
  <2>6. w \in Nat /\ w <= z /\ s.num = w * x
    BY <2>3, <2>5 DEF w
  <2>7. s.num \in Nat /\ s.num <= z * x /\ z * x \in Nat
    BY <2>2, <2>6, Products
  <2>8. z * x = x * z
    BY <2>2
  <2>9. x * z <= total * z /\ total * z \in Nat
    BY <1>1, <2>2, Products
  <2>10. s.den > 0
    <3>1. 1 * z <= total * z
      <4>1. 1 <= total /\ 1 \in Nat
        BY <1>1, <2>1
      <4> QED BY <1>1, <2>2, <4>1, Products
    <3> QED BY <2>2, <2>4, <2>9, <3>1
  <2>11. ASSUME 2 * s.num >= s.den PROVE 2 * lost <= total
    <3>1. total * z <= (2 * x) * z
      BY <2>2, <2>4, <2>7, <2>8, <2>9, <2>11
    <3>2. total <= 2 * x
      <4>1. 2 * x \in Nat
        BY <2>2
      <4> HIDE DEF x
      <4> DEFINE v == 2 * x
      <4> HIDE DEF v
      <4>2. v \in Nat /\ total * z <= v * z
        BY <3>1, <4>1 DEF v
      <4>3. total <= v
        BY <1>1, <2>2, <4>2, Products
      <4> QED BY <4>3 DEF v
    <3> QED BY <1>1, <1>4, <2>1, <3>2 DEF x
  <2> QED BY <2>4, <2>7, <2>8, <2>9, <2>10, <2>11 DEF s, lost, total
<1> QED BY <1>6, <1>7

(* The two streams of the source make up at most for half of the ego log.  *)
LEMMA OverallIs ==
  \A ego, source \in Stats :
    LET score == OverallScore(ego, source)
    IN  ego.file_ok /\ 10 * score.num >= 7 * score.den => 2 * ego.lost <= ego.total
<1> SUFFICES ASSUME NEW ego \in Stats, NEW source \in Stats, ego.file_ok,
                    10 * OverallScore(ego, source).num >= 7 * OverallScore(ego, source).den
             PROVE  2 * ego.lost <= ego.total
  OBVIOUS
<1> DEFINE e == StreamScore(ego)
           s == StreamScore(source)
           part == IF source.file_ok THEN 2 ELSE 0
           score == OverallScore(ego, source)
           A == e.num * s.den
           B == e.den * s.den
           C == s.num * e.den
<1>1. /\ e.num \in Nat /\ e.den \in Nat /\ e.den > 0
      /\ 2 * e.num >= e.den => 2 * ego.lost <= ego.total
  BY ScoreIs
<1>2. s.num \in Nat /\ s.den \in Nat /\ s.den > 0 /\ s.num <= s.den
  BY ScoreIs
<1>3. score = IF 3 + part = 0 THEN [num |-> 0, den |-> 1]
              ELSE [num |-> 3 * e.num * s.den + part * s.num * e.den,
                    den |-> (3 + part) * e.den * s.den]
  BY DEF OverallScore
<1>4. part \in {0, 2}
  OBVIOUS
<1>5. 10 * score.num >= 7 * score.den
  OBVIOUS
<1> HIDE DEF e, s, part, score
<1>6. score.num = 3 * e.num * s.den + part * s.num * e.den /\ score.den = (3 + part) * e.den * s.den
  <2>1. 3 + part # 0
    BY <1>4
  <2> QED BY <1>3, <2>1
<1>7. A \in Nat /\ B \in Nat /\ C \in Nat /\ C <= B
  <2>1. s.num * e.den <= s.den * e.den /\ s.num * e.den \in Nat
    BY <1>1, <1>2, Products
  <2>2. s.den * e.den = e.den * s.den
    BY <1>1, <1>2
  <2>3. e.num * s.den \in Nat /\ e.den * s.den \in Nat
    BY <1>1, <1>2, Products
  <2> QED BY <2>1, <2>2, <2>3
<1>8. score.num = 3 * A + part * C /\ score.den = (3 + part) * B
  <2>1. 3 * e.num * s.den = 3 * (e.num * s.den)
    BY <1>1, <1>2
  <2>2. part * s.num * e.den = part * (s.num * e.den)
    BY <1>1, <1>2, <1>4
  <2>3. (3 + part) * e.den * s.den = (3 + part) * (e.den * s.den)
    BY <1>1, <1>2, <1>4
  <2> QED BY <1>6, <2>1, <2>2, <2>3
<1> HIDE DEF A, B, C
<1>9. 2 * A >= B
  <2>1. CASE part = 0
    BY <1>5, <1>7, <1>8, <2>1
  <2>2. CASE part = 2
    BY <1>5, <1>7, <1>8, <2>2
  <2> QED BY <1>4, <2>1, <2>2
<1>10. 2 * e.num >= e.den
  <2> DEFINE v == 2 * e.num
  <2>1. v \in Nat /\ e.den * s.den <= v * s.den
    BY <1>1, <1>2, <1>7, <1>9 DEF A, B
  <2> HIDE DEF v
  <2>2. e.den <= v
    BY <1>1, <1>2, <2>1, Products
  <2> QED BY <2>2 DEF v
<1> QED BY <1>1, <1>10

(* Without an ego log the report states no time at all.                    *)
LEMMA NoLogNoTime == SessionIn /\ ~EgoStats.file_ok => Report.total = 0
<1>1. SUFFICES ASSUME SessionIn, ~EgoStats.file_ok PROVE Report.total = 0
  OBVIOUS
<1>2. EgoStats = Accumulate(Frames, Chunks # << >>)
  BY DEF EgoStats
<1>3. Frames \in Seq(EgoFrames)
  BY <1>1, FramesTyped, SessionsAssumption
<1>4. Chunks = << >>
  <2>1. (Chunks # << >>) \in BOOLEAN
    OBVIOUS
  <2> DEFINE b == Chunks # << >>
  <2> HIDE DEF b
  <2>2. EgoStats = Accumulate(Frames, b) /\ b \in BOOLEAN
    BY <1>2, <2>1 DEF b
  <2>3. EgoStats.file_ok = b
    BY <1>3, <2>2, StatsOf, FramesScanned
  <2> QED BY <1>1, <2>3 DEF b
<1>5. Frames = << >>
  <2>1. Scan(<< >>) = FlattenSeq(<< >>)
    BY DEF Scan
  <2> QED BY <1>4, <2>1, FlattenEmpty DEF Frames
<1>6. EgoStats = [NoStats EXCEPT !.file_ok = FALSE]
  <2>1. Acc(Frames) = NoFrames
    BY <1>5, AccEmpty
  <2>2. EgoStats = [Acc(Frames).stats EXCEPT !.file_ok = (Chunks # << >>)]
    BY <1>2, Zenon DEF Accumulate, Acc
  <2>3. Acc(Frames).stats = NoStats
    BY <2>1 DEF NoFrames
  <2> QED BY <1>4, <2>2, <2>3
<1>7. EgoStats.t_first = 0 /\ EgoStats.t_last = 0
  BY <1>6 DEF NoStats
<1> QED BY <1>7, ReportIs

(* A session reported usable has not failed, and at most half of its       *)
(* frames are missing (report_builder.cpp:155).                            *)
THEOREM UsableHolds == PipelineSpec => []UsableIsSound
<1>1. DataInv => UsableIsSound
  <2>1. SUFFICES ASSUME DataInv, AfterReports, quality.usable
                 PROVE  /\ validation.integrity # "failed"
                        /\ 2 * Cardinality(Missing(Frames)) <= Len(Frames)
    BY DEF UsableIsSound
  <2>2. validation = Report /\ quality = DataQuality(Report) /\ SessionIn
    BY <2>1 DEF DataInv, AfterReports, DataStages, SceneStages, QualityStages
  <2> DEFINE score == OverallScore(EgoStats, SourceStats)
             d == Report.total
             v == Report.valid
  <2>3. 10 * score.num >= 7 * score.den /\ FractionAtLeast(Report, 4, 5)
    BY <2>1, <2>2, ReportIs DEF DataQuality
  <2> HIDE DEF score
  <2>4. d > 0 /\ 5 * v >= 4 * d
    BY <2>3 DEF FractionAtLeast
  <2>5. EgoStats.file_ok
    <3>1. ~EgoStats.file_ok => d = 0
      BY <2>2, NoLogNoTime
    <3> HIDE DEF d
    <3> QED BY <2>4, <3>1
  <2> DEFINE r == Report.ranges
  <2>6. /\ r \in Seq(LongSpans) /\ v = TotalDuration(r)
        /\ \A i \in 1..Len(r) : LongEnough(r[i])
        /\ d = EgoStats.t_last - EgoStats.t_first
    BY <2>2, RangesOfReport, ReportIs
  <2>7. d \in Int
    BY SMTT(20), <2>2, <2>6, StatsInSpan DEF InSpan, Stats
  <2> HIDE DEF r, v, d
  <2>8. v \in Nat /\ (r = << >> => v = 0) /\ \A i \in 1..Len(r) : Duration(r[i]) <= v
    BY <2>6, TotalBounds
  <2>9. r # << >>
    BY <2>4, <2>7, <2>8
  <2>10. 1 \in 1..Len(r)
    BY <2>6, <2>9, EmptySeq, LenProperties
  <2>11. Duration(r[1]) >= MinValid /\ Duration(r[1]) <= v /\ Duration(r[1]) \in Int
    <3>1. r[1] \in LongSpans
      BY <2>6, <2>10, ElementOfSeq
    <3>2. Duration(r[1]) \in Int
      BY <3>1 DEF LongSpans, Spans, Duration
    <3> QED BY <2>6, <2>8, <2>10, <3>2 DEF LongEnough
  <2>12. ~(v < MinValid)
    BY <2>8, <2>11, ValidationAssumption
  <2>13. validation.integrity # "failed"
    <3>1. Report.integrity = Integrity(EgoStats, SourceStats, r)
      BY ReportIs DEF r
    <3>2. ~(~EgoStats.file_ok \/ TotalDuration(r) < MinValid)
      BY <2>5, <2>6, <2>12
    <3> QED BY <2>2, <3>1, <3>2 DEF Integrity
  <2>14. 2 * EgoStats.lost <= EgoStats.total
    <3>1. EgoStats \in Stats /\ SourceStats \in Stats
      BY <2>2, StatsInSpan DEF InSpan
    <3> QED BY <2>3, <2>5, <3>1, OverallIs DEF score
  <2>15. Frames \in Seq(EgoFrames)
    BY <2>2, FramesTyped, SessionsAssumption
  <2>16. EgoStats.lost = Acc(Frames).stats.lost /\ EgoStats.total = Acc(Frames).stats.total
    BY <2>15, StatsOf, FramesScanned DEF EgoStats
  <2>17. LossCounted(Frames)
    BY <2>15, LossIsCounted, FramesScanned
  <2>18. /\ EgoStats.lost >= Cardinality(Missing(Frames)) /\ EgoStats.total = Len(Frames)
         /\ Cardinality(Missing(Frames)) \in Nat
    BY <2>16, <2>17, FS_CardinalityType DEF LossCounted
  <2>19. EgoStats.lost \in Nat /\ EgoStats.total \in Nat
    BY <2>2, StatsInSpan DEF InSpan, Stats
  <2> QED BY <2>13, <2>14, <2>18, <2>19
<1> QED BY <1>1, ResultsAreOfTheLogs, PTL
-----------------------------------------------------------------------------
(* The two validators.  What the second pass finds in the accepted frames  *)
(* v grows with each of them.                                              *)
Grown(A, B, n) ==
  n \in Nat /\ A \subseteq 1..n /\ B \subseteq 1..(n + 1) /\ \A i \in 1..n : i \in A <=> i \in B

LEMMA CountGrows ==
  \A A, B, n : Grown(A, B, n) =>
    /\ Cardinality(A) \in Nat /\ Cardinality(B) = Cardinality(A) + CountIf(n + 1 \in B)
<1> SUFFICES ASSUME NEW A, NEW B, NEW n, Grown(A, B, n)
             PROVE  /\ Cardinality(A) \in Nat
                    /\ Cardinality(B) = Cardinality(A) + CountIf(n + 1 \in B)
  OBVIOUS
<1>1. n \in Nat /\ A \subseteq 1..n /\ B \subseteq 1..(n + 1) /\ \A i \in 1..n : i \in A <=> i \in B
  BY DEF Grown
<1>2. IsFiniteSet(A) /\ Cardinality(A) \in Nat
  <2>1. IsFiniteSet(1..n)
    BY <1>1, FS_Interval
  <2>2. IsFiniteSet(A)
    BY <1>1, <2>1, FS_Subset
  <2> QED BY <2>2, FS_CardinalityType
<1>5. /\ \A i \in B : i \in A \/ i = n + 1
      /\ \A i \in A : i \in B /\ i # n + 1
  <2>1. \A i \in 1..(n + 1) : i \in 1..n \/ i = n + 1
    BY <1>1
  <2>2. \A i \in 1..n : i # n + 1
    BY <1>1
  <2> QED BY <1>1, <2>1, <2>2
<1>3. CASE n + 1 \in B
  <2>1. B = A \cup {n + 1} /\ n + 1 \notin A
    BY <1>3, <1>5
  <2>2. Cardinality(B) = Cardinality(A) + 1
    BY <1>2, <2>1, FS_AddElement
  <2> QED BY <1>2, <1>3, <2>2 DEF CountIf
<1>4. CASE n + 1 \notin B
  <2>1. B = A
    BY <1>4, <1>5
  <2> QED BY <1>2, <1>4, <2>1 DEF CountIf
<1> QED BY <1>3, <1>4

AgreeOn(f, g, A) == \A i \in A : f[i] = g[i]

LEMMA GapsGrow ==
  \A A, B, n, f, g : Grown(A, B, n) /\ AgreeOn(f, g, A) =>
    {g[i] : i \in B} = {f[i] : i \in A} \cup GapIf(n + 1 \in B, g[n + 1])
<1> SUFFICES ASSUME NEW A, NEW B, NEW n, NEW f, NEW g, Grown(A, B, n), AgreeOn(f, g, A)
             PROVE  {g[i] : i \in B} = {f[i] : i \in A} \cup GapIf(n + 1 \in B, g[n + 1])
  OBVIOUS
<1>1. n \in Nat /\ A \subseteq 1..n /\ B \subseteq 1..(n + 1) /\ \A i \in 1..n : i \in A <=> i \in B
  BY DEF Grown
<1>2. \A i \in B : i \in A \/ i = n + 1
  <2>1. \A i \in 1..(n + 1) : i \in 1..n \/ i = n + 1
    BY <1>1
  <2> QED BY <1>1, <2>1
<1>3. \A i \in A : i \in B /\ f[i] = g[i]
  BY <1>1 DEF AgreeOn
<1> QED BY <1>2, <1>3 DEF GapIf

(* The frames a count is increased for.                                    *)
Steps(v) == DOMAIN v \ {1}
Backs(v) == {i \in Steps(v) : v[i].t - v[i - 1].t < 0}
Fars(v) == {i \in Steps(v) : v[i].t - v[i - 1].t > MaxJump}
Zeros(v) == {i \in DOMAIN v : v[i].t = 0}
Missed(v, i) == IF i \in Steps(v) THEN Max({0, v[i].seq - v[i - 1].seq - 1}) ELSE 0
Skips(v) == {i \in Steps(v) : Missed(v, i) > 0}
AudioIn(v) == {i \in DOMAIN v : IsAudio(v[i])}
ImuIn(v) == {i \in DOMAIN v : IsImu(v[i])}
AudioPauses(v) == Pauses(v, AudioIn(v), AudioGap)
ImuPauses(v) == Pauses(v, ImuIn(v), TelemetryGap)

(* The gap each of them is reported with.                                  *)
SkipGap(v) == [i \in DOMAIN v |-> Gap("seq", v[i].t, v[i].t - v[i - 1].t, SeqSeverity(Missed(v, i)))]
BackGap(v) == [i \in DOMAIN v |-> Gap("timestamp", v[i].t, -(v[i].t - v[i - 1].t), "warning")]
FarGap(v) == [i \in DOMAIN v |-> Gap("timestamp", v[i].t, v[i].t - v[i - 1].t, "warning")]
AudioGapAt(v) == [i \in DOMAIN v |-> Gap("audio", v[i].t, Pause(v, AudioIn(v), i), "warning")]
ImuGapAt(v) == [i \in DOMAIN v |-> Gap("telemetry", v[i].t, Pause(v, ImuIn(v), i), "warning")]

GapsOf(v) ==
  {SkipGap(v)[i] : i \in Skips(v)} \cup {BackGap(v)[i] : i \in Backs(v)}
  \cup {FarGap(v)[i] : i \in Fars(v)} \cup {AudioGapAt(v)[i] : i \in AudioPauses(v)}
  \cup {ImuGapAt(v)[i] : i \in ImuPauses(v)}

TimesIn(v) == {v[i].t : i \in DOMAIN v}
MissedIn(v) == [i \in DOMAIN v |-> Missed(v, i)]

(* What the accumulator remembers after the frames v.                      *)
Remembers(a, v) ==
  /\ a.first <=> v = << >>
  /\ v # << >> => a.seq = v[Len(v)].seq /\ a.t = v[Len(v)].t
  /\ a.audio = LastOf(v, AudioIn(v)) /\ a.imu = LastOf(v, ImuIn(v))

LegacyFrames == {x \in EgoFrames : ~x.contract}
PassedFrames == {x \in LegacyFrames : x.check = "ok"}

(* One more accepted frame.                                                *)
Longer(v, x, w) ==
  /\ v \in Seq(PassedFrames) /\ x \in PassedFrames /\ w = Append(v, x)

LEMMA LongerIs ==
  \A v, x, w : Longer(v, x, w) =>
    /\ Len(v) \in Nat /\ Len(w) = Len(v) + 1 /\ w[Len(v) + 1] = x
    /\ DOMAIN v = 1..Len(v) /\ DOMAIN w = 1..(Len(v) + 1)
    /\ \A i \in 1..Len(v) : w[i] = v[i]
    /\ \A i \in 1..(Len(v) + 1) : w[i].t \in Nat /\ w[i].seq \in Nat
<1> SUFFICES ASSUME NEW v, NEW x, NEW w, Longer(v, x, w)
             PROVE  /\ Len(v) \in Nat /\ Len(w) = Len(v) + 1 /\ w[Len(v) + 1] = x
                    /\ DOMAIN v = 1..Len(v) /\ DOMAIN w = 1..(Len(v) + 1)
                    /\ \A i \in 1..Len(v) : w[i] = v[i]
                    /\ \A i \in 1..(Len(v) + 1) : w[i].t \in Nat /\ w[i].seq \in Nat
  OBVIOUS
<1>1. v \in Seq(PassedFrames) /\ x \in PassedFrames /\ w = Append(v, x)
  BY DEF Longer
<1>2. /\ Len(v) \in Nat /\ Len(w) = Len(v) + 1 /\ w[Len(v) + 1] = x
      /\ DOMAIN v = 1..Len(v) /\ DOMAIN w = 1..(Len(v) + 1)
      /\ \A i \in 1..Len(v) : w[i] = v[i]
      /\ w \in Seq(PassedFrames)
  BY <1>1, AppendProperties, LenProperties
<1>3. \A i \in 1..(Len(v) + 1) : w[i] \in PassedFrames
  BY <1>2, ElementOfSeq
<1>4. \A y \in PassedFrames : y.t \in Nat /\ y.seq \in Nat
  BY DEF PassedFrames, LegacyFrames, EgoFrames
<1> QED BY <1>2, <1>3, <1>4

LEMMA BacksGrow ==
  \A v, x, w : Longer(v, x, w) =>
    /\ Grown(Backs(v), Backs(w), Len(v)) /\ Grown(Fars(v), Fars(w), Len(v))
    /\ Grown(Zeros(v), Zeros(w), Len(v))
    /\ Len(v) + 1 \in Backs(w) <=> v # << >> /\ x.t - v[Len(v)].t < 0
    /\ Len(v) + 1 \in Fars(w) <=> v # << >> /\ x.t - v[Len(v)].t > MaxJump
    /\ Len(v) + 1 \in Zeros(w) <=> x.t = 0
<1> SUFFICES ASSUME NEW v, NEW x, NEW w, Longer(v, x, w)
             PROVE  /\ Grown(Backs(v), Backs(w), Len(v)) /\ Grown(Fars(v), Fars(w), Len(v))
                    /\ Grown(Zeros(v), Zeros(w), Len(v))
                    /\ Len(v) + 1 \in Backs(w) <=> v # << >> /\ x.t - v[Len(v)].t < 0
                    /\ Len(v) + 1 \in Fars(w) <=> v # << >> /\ x.t - v[Len(v)].t > MaxJump
                    /\ Len(v) + 1 \in Zeros(w) <=> x.t = 0
  OBVIOUS
<1> DEFINE n == Len(v)
<1>1. /\ n \in Nat /\ Len(w) = n + 1 /\ w[n + 1] = x
      /\ DOMAIN v = 1..n /\ DOMAIN w = 1..(n + 1)
      /\ \A i \in 1..n : w[i] = v[i]
  BY LongerIs
<1>2. v = << >> <=> n = 0
  <2>1. v \in Seq(PassedFrames)
    BY DEF Longer
  <2> QED BY <2>1, EmptySeq
<1> HIDE DEF n
<1>3. \A i \in 1..n : i \in Steps(v) <=> i \in Steps(w)
  BY <1>1 DEF Steps
<1>4. \A i \in Steps(v) : i \in 1..n /\ i - 1 \in 1..n /\ w[i] = v[i] /\ w[i - 1] = v[i - 1]
  BY <1>1 DEF Steps
<1>5. Steps(w) \subseteq 1..(n + 1)
  BY <1>1 DEF Steps
<1>6. Grown(Backs(v), Backs(w), n) /\ Grown(Fars(v), Fars(w), n)
  BY <1>1, <1>3, <1>4, <1>5 DEF Backs, Fars, Grown
<1>7. Grown(Zeros(v), Zeros(w), n)
  BY <1>1 DEF Zeros, Grown
<1>8. n + 1 \in Steps(w) <=> n # 0
  BY <1>1 DEF Steps
<1>9. n # 0 => w[(n + 1) - 1] = v[n]
  BY <1>1
<1>10. /\ n + 1 \in Backs(w) <=> v # << >> /\ x.t - v[n].t < 0
       /\ n + 1 \in Fars(w) <=> v # << >> /\ x.t - v[n].t > MaxJump
  BY <1>1, <1>2, <1>8, <1>9 DEF Backs, Fars
<1>11. n + 1 \in Zeros(w) <=> x.t = 0
  BY <1>1 DEF Zeros
<1> QED BY <1>6, <1>7, <1>10, <1>11 DEF n

LEMMA SkipsGrow ==
  \A v, x, w : Longer(v, x, w) =>
    /\ Grown(Skips(v), Skips(w), Len(v))
    /\ \A i \in 1..Len(v) : Missed(w, i) = Missed(v, i)
    /\ Missed(w, Len(v) + 1) = IF v # << >> /\ x.seq > v[Len(v)].seq + 1
                               THEN x.seq - v[Len(v)].seq - 1 ELSE 0
    /\ Len(v) + 1 \in Skips(w) <=> v # << >> /\ x.seq > v[Len(v)].seq + 1
    /\ \A i \in 1..(Len(v) + 1) : Missed(w, i) \in Nat
<1> SUFFICES ASSUME NEW v, NEW x, NEW w, Longer(v, x, w)
             PROVE  /\ Grown(Skips(v), Skips(w), Len(v))
                    /\ \A i \in 1..Len(v) : Missed(w, i) = Missed(v, i)
                    /\ Missed(w, Len(v) + 1) = IF v # << >> /\ x.seq > v[Len(v)].seq + 1
                                               THEN x.seq - v[Len(v)].seq - 1 ELSE 0
                    /\ Len(v) + 1 \in Skips(w) <=> v # << >> /\ x.seq > v[Len(v)].seq + 1
                    /\ \A i \in 1..(Len(v) + 1) : Missed(w, i) \in Nat
  OBVIOUS
<1> DEFINE n == Len(v)
<1>1. /\ n \in Nat /\ Len(w) = n + 1 /\ w[n + 1] = x
      /\ DOMAIN v = 1..n /\ DOMAIN w = 1..(n + 1)
      /\ \A i \in 1..n : w[i] = v[i]
      /\ \A i \in 1..(n + 1) : w[i].seq \in Nat
  BY LongerIs
<1>2. v = << >> <=> n = 0
  <2>1. v \in Seq(PassedFrames)
    BY DEF Longer
  <2> QED BY <2>1, EmptySeq
<1> HIDE DEF n
<1>3. \A i \in 1..n : i \in Steps(v) <=> i \in Steps(w)
  BY <1>1 DEF Steps
<1>4. \A i \in Steps(v) : i \in 1..n /\ i - 1 \in 1..n /\ w[i] = v[i] /\ w[i - 1] = v[i - 1]
  BY <1>1 DEF Steps
<1>5. \A i \in 1..n : Missed(w, i) = Missed(v, i)
  <2>1. ASSUME NEW i \in 1..n PROVE Missed(w, i) = Missed(v, i)
    <3>1. CASE i \in Steps(v)
      <4>1. w[i] = v[i] /\ w[i - 1] = v[i - 1] /\ i \in Steps(w)
        BY <1>3, <1>4, <3>1
      <4> QED BY <3>1, <4>1, Zenon DEF Missed
    <3>2. CASE i \notin Steps(v)
      <4>1. i \notin Steps(w)
        BY <1>3, <3>2
      <4> QED BY <3>2, <4>1 DEF Missed
    <3> QED BY <3>1, <3>2
  <2> QED BY <2>1
<1>6. ASSUME NEW a \in Int, NEW b \in Int
      PROVE  Max({0, a - b - 1}) = IF a > b + 1 THEN a - b - 1 ELSE 0
  <2> DEFINE c == a - b - 1
  <2>1. c \in Int /\ (a > b + 1 <=> c > 0)
    OBVIOUS
  <2> HIDE DEF c
  <2>2. Max({0, c}) = IF c >= 0 THEN c ELSE 0
    BY <2>1, MostAndLeast
  <2> QED BY <2>1, <2>2 DEF c
<1>7. ASSUME NEW i \in Steps(w) PROVE i \in 1..(n + 1) /\ i - 1 \in 1..(n + 1)
  BY <1>1 DEF Steps
<1>8. ASSUME NEW i \in 1..(n + 1)
      PROVE  Missed(w, i) = IF i \in Steps(w) /\ w[i].seq > w[i - 1].seq + 1
                            THEN w[i].seq - w[i - 1].seq - 1 ELSE 0
  <2>1. CASE i \in Steps(w)
    <3> DEFINE a == w[i].seq
               b == w[i - 1].seq
    <3>1. a \in Int /\ b \in Int
      BY <1>1, <1>7, <2>1
    <3>2. Missed(w, i) = Max({0, a - b - 1})
      BY <2>1, Zenon DEF Missed
    <3> HIDE DEF a, b
    <3>3. Missed(w, i) = IF a > b + 1 THEN a - b - 1 ELSE 0
      BY <1>6, <3>1, <3>2
    <3> QED BY <2>1, <3>3 DEF a, b
  <2>2. CASE i \notin Steps(w)
    BY <2>2 DEF Missed
  <2> QED BY <2>1, <2>2
<1>9. \A i \in 1..(n + 1) : Missed(w, i) \in Nat
  <2>1. ASSUME NEW i \in 1..(n + 1) PROVE Missed(w, i) \in Nat
    <3>1. CASE i \in Steps(w)
      <4> DEFINE a == w[i].seq
                 b == w[i - 1].seq
      <4>1. a \in Int /\ b \in Int
        BY <1>1, <1>7, <3>1
      <4>2. Missed(w, i) = IF a > b + 1 THEN a - b - 1 ELSE 0
        BY <1>8, <3>1
      <4> HIDE DEF a, b
      <4> QED BY <4>1, <4>2
    <3>2. CASE i \notin Steps(w)
      BY <3>2 DEF Missed
    <3> QED BY <3>1, <3>2
  <2> QED BY <2>1
<1>10. n + 1 \in Steps(w) <=> n # 0
  BY <1>1 DEF Steps
<1>11. n # 0 => w[(n + 1) - 1] = v[n] /\ n \in 1..n /\ v[n].seq \in Nat
  BY <1>1
<1>12. Missed(w, n + 1) = IF v # << >> /\ x.seq > v[n].seq + 1 THEN x.seq - v[n].seq - 1 ELSE 0
  <2>1. n + 1 \in 1..(n + 1)
    BY <1>1
  <2>2. Missed(w, n + 1) = IF n + 1 \in Steps(w) /\ w[n + 1].seq > w[(n + 1) - 1].seq + 1
                           THEN w[n + 1].seq - w[(n + 1) - 1].seq - 1 ELSE 0
    BY <1>8, <2>1
  <2>3. CASE n = 0
    BY <1>2, <1>10, <2>2, <2>3
  <2>4. CASE n # 0
    BY <1>1, <1>2, <1>10, <1>11, <2>2, <2>4
  <2> QED BY <2>3, <2>4
<1>13. Grown(Skips(v), Skips(w), n)
  <2>1. \A i \in 1..n : i \in Skips(v) <=> i \in Skips(w)
    BY <1>3, <1>5 DEF Skips
  <2>2. Skips(v) \subseteq 1..n /\ Skips(w) \subseteq 1..(n + 1)
    BY <1>1 DEF Skips, Steps
  <2> QED BY <1>1, <2>1, <2>2 DEF Grown
<1>14. n + 1 \in Skips(w) <=> v # << >> /\ x.seq > v[n].seq + 1
  <2>1. n + 1 \in Skips(w) <=> n # 0 /\ Missed(w, n + 1) > 0
    BY <1>10 DEF Skips
  <2>2. CASE n = 0
    BY <1>2, <2>1, <2>2
  <2>3. CASE n # 0
    <3>1. x.seq \in Nat /\ v[n].seq \in Nat
      BY <1>1, <1>11, <2>3
    <3> DEFINE a == x.seq
               b == v[n].seq
    <3> HIDE DEF a, b
    <3>2. a \in Nat /\ b \in Nat /\ Missed(w, n + 1) = IF a > b + 1 THEN a - b - 1 ELSE 0
      BY <1>2, <1>12, <2>3, <3>1 DEF a, b
    <3>3. Missed(w, n + 1) > 0 <=> a > b + 1
      BY <3>2
    <3> QED BY <1>2, <2>1, <2>3, <3>3 DEF a, b
  <2> QED BY <2>2, <2>3
<1> QED BY <1>5, <1>9, <1>12, <1>13, <1>14 DEF n

(* A stream of the log: its frames, and the last of them.                  *)
LEMMA StreamGrows ==
  \A v, x, w, P, Q : Longer(v, x, w) /\ Grown(P, Q, Len(v)) =>
    /\ LastOf(w, Q) = IF Len(v) + 1 \in Q THEN x.t ELSE LastOf(v, P)
    /\ LastOf(v, P) \in Nat
    /\ \A i \in 1..Len(v) : Pause(w, Q, i) = Pause(v, P, i)
    /\ Pause(w, Q, Len(v) + 1) = x.t - LastOf(v, P)
    /\ \A limit : /\ Grown(Pauses(v, P, limit), Pauses(w, Q, limit), Len(v))
                  /\ Len(v) + 1 \in Pauses(w, Q, limit)
                       <=> Len(v) + 1 \in Q /\ LastOf(v, P) # 0 /\ x.t - LastOf(v, P) > limit
<1> SUFFICES ASSUME NEW v, NEW x, NEW w, NEW P, NEW Q, Longer(v, x, w), Grown(P, Q, Len(v))
             PROVE  /\ LastOf(w, Q) = IF Len(v) + 1 \in Q THEN x.t ELSE LastOf(v, P)
                    /\ LastOf(v, P) \in Nat
                    /\ \A i \in 1..Len(v) : Pause(w, Q, i) = Pause(v, P, i)
                    /\ Pause(w, Q, Len(v) + 1) = x.t - LastOf(v, P)
                    /\ \A limit :
                         /\ Grown(Pauses(v, P, limit), Pauses(w, Q, limit), Len(v))
                         /\ Len(v) + 1 \in Pauses(w, Q, limit)
                              <=> /\ Len(v) + 1 \in Q /\ LastOf(v, P) # 0
                                  /\ x.t - LastOf(v, P) > limit
  OBVIOUS
<1> DEFINE n == Len(v)
           Old(i) == {j \in P : j < i}
           New(i) == {j \in Q : j < i}
<1>1. /\ n \in Nat /\ w[n + 1] = x /\ (\A i \in 1..n : w[i] = v[i])
      /\ \A i \in 1..(n + 1) : w[i].t \in Nat
  BY LongerIs
<1> HIDE DEF n
<1>2. P \subseteq 1..n /\ Q \subseteq 1..(n + 1) /\ \A i \in 1..n : i \in P <=> i \in Q
  BY DEF Grown, n
<1>3. ASSUME NEW R \in SUBSET (1..n) PROVE LastOf(w, R) = LastOf(v, R) /\ LastOf(v, R) \in Nat
  <2>1. CASE R = {}
    BY <2>1 DEF LastOf
  <2>2. CASE R # {}
    <3>1. IsFiniteSet(R)
      <4>1. IsFiniteSet(1..n)
        BY <1>1, FS_Interval
      <4> QED BY <4>1, FS_Subset
    <3>2. R \subseteq Int
      BY <1>1
    <3>5. Max(R) \in R
      BY <2>2, <3>1, <3>2, MaxAndMin
    <3>6. \A i \in 1..n : i \in 1..(n + 1)
      BY <1>1
    <3>3. Max(R) \in 1..n /\ Max(R) \in 1..(n + 1)
      BY <3>5, <3>6
    <3>4. w[Max(R)] = v[Max(R)] /\ w[Max(R)].t \in Nat
      BY <1>1, <3>3
    <3> QED BY <2>2, <3>4 DEF LastOf
  <2> QED BY <2>1, <2>2
<1>4. ASSUME NEW i \in 1..(n + 1) PROVE New(i) = Old(i) /\ Old(i) \in SUBSET (1..n)
  <2>1. \A j \in 1..(n + 1) : j < i => j \in 1..n
    BY <1>1
  <2>2. \A j : j \in Q /\ j < i <=> j \in P /\ j < i
    BY <1>2, <2>1
  <2> QED BY <1>2, <2>2
<1>5. Old(n + 1) = P
  <2>1. \A j \in 1..n : j < n + 1
    BY <1>1
  <2> QED BY <1>2, <2>1
<1>6. LastOf(v, P) \in Nat
  BY <1>2, <1>3
<1>7. LastOf(w, Q) = IF n + 1 \in Q THEN x.t ELSE LastOf(v, P)
  <2>1. CASE n + 1 \in Q
    <3>1. IsFiniteSet(Q)
      <4>1. IsFiniteSet(1..(n + 1))
        BY <1>1, FS_Interval
      <4> QED BY <1>2, <4>1, FS_Subset
    <3>4. Q \subseteq Int /\ Q # {}
      BY <1>1, <1>2, <2>1
    <3>2. Max(Q) \in Q /\ \A y \in Q : y <= Max(Q)
      BY <3>1, <3>4, MaxAndMin
    <3>3. Max(Q) = n + 1
      <4> DEFINE m == Max(Q)
      <4>1. m \in 1..(n + 1) /\ n + 1 <= m
        BY <1>2, <2>1, <3>2
      <4> HIDE DEF m
      <4>2. m = n + 1
        BY <1>1, <4>1
      <4> QED BY <4>2 DEF m
    <3> QED BY <1>1, <2>1, <3>3 DEF LastOf
  <2>2. CASE n + 1 \notin Q
    <3>1. Q = P
      <4>2. \A j \in 1..(n + 1) : j # n + 1 => j \in 1..n
        BY <1>1
      <4>1. \A j : j \in Q <=> j \in P
        BY <1>2, <2>2, <4>2
      <4> QED BY <4>1
    <3> QED BY <1>2, <1>3, <2>2, <3>1
  <2> QED BY <2>1, <2>2
<1>8. ASSUME NEW i \in 1..(n + 1)
      PROVE  LastOf(w, New(i)) = LastOf(v, Old(i))
  <2> DEFINE R == Old(i)
  <2>1. New(i) = R /\ R \in SUBSET (1..n)
    BY <1>4
  <2> HIDE DEF R
  <2>2. LastOf(w, R) = LastOf(v, R)
    BY <1>3, <2>1
  <2> QED BY <2>1, <2>2 DEF R
<1>9. /\ \A y, R, i : Pause(y, R, i) = y[i].t - LastOf(y, {j \in R : j < i})
      /\ \A y, R, limit : Pauses(y, R, limit) =
           {i \in R : LastOf(y, {j \in R : j < i}) # 0 /\ Pause(y, R, i) > limit}
  BY Zenon DEF Pause, Pauses
<1>10. ASSUME NEW i \in 1..n PROVE Pause(w, Q, i) = Pause(v, P, i)
  <2>1. i \in 1..(n + 1) /\ w[i] = v[i]
    BY <1>1
  <2> QED BY <1>8, <1>9, <2>1
<1>11. /\ LastOf(w, New(n + 1)) = LastOf(v, P)
       /\ Pause(w, Q, n + 1) = x.t - LastOf(v, P)
  <2>1. n + 1 \in 1..(n + 1)
    BY <1>1
  <2>2. LastOf(w, New(n + 1)) = LastOf(v, P)
    BY <1>5, <1>8, <2>1
  <2>3. Pause(w, Q, n + 1) = w[n + 1].t - LastOf(w, New(n + 1))
    BY <1>9
  <2> QED BY <1>1, <2>2, <2>3
<1>12. ASSUME NEW limit
       PROVE  /\ Grown(Pauses(v, P, limit), Pauses(w, Q, limit), n)
              /\ n + 1 \in Pauses(w, Q, limit)
                   <=> n + 1 \in Q /\ LastOf(v, P) # 0 /\ x.t - LastOf(v, P) > limit
  <2>1. \A i \in 1..(n + 1) :
          i \in Pauses(w, Q, limit) <=> i \in Q /\ LastOf(v, Old(i)) # 0 /\ Pause(w, Q, i) > limit
    <3>1. \A i : i \in Pauses(w, Q, limit) <=> i \in Q /\ LastOf(w, New(i)) # 0 /\ Pause(w, Q, i) > limit
      BY <1>9
    <3> QED BY <1>8, <3>1
  <2>2. \A i \in 1..n :
          i \in Pauses(v, P, limit) <=> i \in P /\ LastOf(v, Old(i)) # 0 /\ Pause(v, P, i) > limit
    BY <1>9
  <2>3. Pauses(v, P, limit) \subseteq P /\ Pauses(w, Q, limit) \subseteq Q
    BY <1>9
  <2>4. \A i \in 1..n : i \in 1..(n + 1)
    BY <1>1
  <2> HIDE DEF Old
  <2>5. \A i \in 1..n : i \in Pauses(v, P, limit) <=> i \in Pauses(w, Q, limit)
    BY <1>2, <1>10, <2>1, <2>2, <2>4
  <2>6. n + 1 \in Pauses(w, Q, limit) <=> n + 1 \in Q /\ LastOf(v, P) # 0 /\ x.t - LastOf(v, P) > limit
    <3>1. n + 1 \in 1..(n + 1)
      BY <1>1
    <3> QED BY <1>5, <1>11, <2>1, <3>1
  <2> QED BY <1>1, <1>2, <2>3, <2>5, <2>6 DEF Grown
<1> QED BY <1>6, <1>7, <1>10, <1>11, <1>12 DEF n

LEMMA StreamsGrow ==
  \A v, x, w : Longer(v, x, w) =>
    /\ Grown(AudioIn(v), AudioIn(w), Len(v)) /\ Grown(ImuIn(v), ImuIn(w), Len(v))
    /\ Len(v) + 1 \in AudioIn(w) <=> IsAudio(x)
    /\ Len(v) + 1 \in ImuIn(w) <=> IsImu(x)
<1> SUFFICES ASSUME NEW v, NEW x, NEW w, Longer(v, x, w)
             PROVE  /\ Grown(AudioIn(v), AudioIn(w), Len(v)) /\ Grown(ImuIn(v), ImuIn(w), Len(v))
                    /\ Len(v) + 1 \in AudioIn(w) <=> IsAudio(x)
                    /\ Len(v) + 1 \in ImuIn(w) <=> IsImu(x)
  OBVIOUS
<1> DEFINE n == Len(v)
<1>1. /\ n \in Nat /\ w[n + 1] = x /\ DOMAIN v = 1..n /\ DOMAIN w = 1..(n + 1)
      /\ \A i \in 1..n : w[i] = v[i]
  BY LongerIs
<1> HIDE DEF n
<1>2. n + 1 \in 1..(n + 1) /\ \A i \in 1..n : i \in 1..(n + 1)
  BY <1>1
<1>3. Grown(AudioIn(v), AudioIn(w), n) /\ (n + 1 \in AudioIn(w) <=> IsAudio(x))
  BY <1>1, <1>2 DEF AudioIn, Grown
<1>4. Grown(ImuIn(v), ImuIn(w), n) /\ (n + 1 \in ImuIn(w) <=> IsImu(x))
  BY <1>1, <1>2 DEF ImuIn, Grown
<1> QED BY <1>3, <1>4 DEF n

(* What the accumulator remembers decides what the next frame adds.        *)
Reported(v, x, w, a) ==
  /\ Len(v) + 1 \in Backs(w) <=> ~a.first /\ x.t - a.t < 0
  /\ Len(v) + 1 \in Fars(w) <=> ~a.first /\ x.t - a.t > MaxJump
  /\ Len(v) + 1 \in Skips(w) <=> LostBefore(a, x) > 0
  /\ Missed(w, Len(v) + 1) = LostBefore(a, x)
  /\ Len(v) + 1 \in AudioPauses(w) <=> IsAudio(x) /\ a.audio # 0 /\ x.t - a.audio > AudioGap
  /\ Len(v) + 1 \in ImuPauses(w) <=> IsImu(x) /\ a.imu # 0 /\ x.t - a.imu > TelemetryGap
  /\ Pause(w, AudioIn(w), Len(v) + 1) = x.t - a.audio
  /\ Pause(w, ImuIn(w), Len(v) + 1) = x.t - a.imu
  /\ ~a.first => w[Len(v)].t = a.t

LEMMA RememberedReports ==
  \A v, x, w, a : Longer(v, x, w) /\ Remembers(a, v) => Reported(v, x, w, a)
<1> SUFFICES ASSUME NEW v, NEW x, NEW w, NEW a, Longer(v, x, w), Remembers(a, v)
             PROVE  Reported(v, x, w, a)
  OBVIOUS
<1> DEFINE n == Len(v)
<1>1. /\ a.first <=> v = << >>
      /\ v # << >> => a.seq = v[n].seq /\ a.t = v[n].t
      /\ a.audio = LastOf(v, AudioIn(v)) /\ a.imu = LastOf(v, ImuIn(v))
  BY DEF Remembers
<1>2. /\ n + 1 \in Backs(w) <=> v # << >> /\ x.t - v[n].t < 0
      /\ n + 1 \in Fars(w) <=> v # << >> /\ x.t - v[n].t > MaxJump
  BY BacksGrow
<1>3. /\ Missed(w, n + 1) = IF v # << >> /\ x.seq > v[n].seq + 1 THEN x.seq - v[n].seq - 1 ELSE 0
      /\ n + 1 \in Skips(w) <=> v # << >> /\ x.seq > v[n].seq + 1
  BY SkipsGrow
<1>4. /\ Grown(AudioIn(v), AudioIn(w), n) /\ Grown(ImuIn(v), ImuIn(w), n)
      /\ n + 1 \in AudioIn(w) <=> IsAudio(x)
      /\ n + 1 \in ImuIn(w) <=> IsImu(x)
  BY StreamsGrow
<1>5. /\ Pause(w, AudioIn(w), n + 1) = x.t - LastOf(v, AudioIn(v))
      /\ n + 1 \in AudioPauses(w)
           <=> n + 1 \in AudioIn(w) /\ LastOf(v, AudioIn(v)) # 0
               /\ x.t - LastOf(v, AudioIn(v)) > AudioGap
  BY <1>4, StreamGrows DEF AudioPauses
<1>6. /\ Pause(w, ImuIn(w), n + 1) = x.t - LastOf(v, ImuIn(v))
      /\ n + 1 \in ImuPauses(w)
           <=> n + 1 \in ImuIn(w) /\ LastOf(v, ImuIn(v)) # 0
               /\ x.t - LastOf(v, ImuIn(v)) > TelemetryGap
  BY <1>4, StreamGrows DEF ImuPauses
<1>7. v # << >> => w[n] = v[n]
  <2>1. v \in Seq(PassedFrames)
    BY DEF Longer
  <2>2. n \in Nat /\ (\A i \in 1..n : w[i] = v[i]) /\ (v # << >> => n # 0)
    BY <2>1, LongerIs, EmptySeq
  <2> HIDE DEF n
  <2> QED BY <2>2
<1>8. x.seq \in Nat /\ (v # << >> => v[n].seq \in Nat)
  <2>1. v \in Seq(PassedFrames)
    BY DEF Longer
  <2>2. n \in Nat /\ w[n + 1] = x /\ (\A i \in 1..n : w[i] = v[i])
        /\ (v # << >> => n # 0)
    BY <2>1, LongerIs, EmptySeq
  <2>3. \A i \in 1..(n + 1) : w[i].t \in Nat /\ w[i].seq \in Nat
    BY LongerIs
  <2> HIDE DEF n
  <2> QED BY <2>2, <2>3
<1> HIDE DEF n
<1>9. /\ Missed(w, n + 1) = LostBefore(a, x)
      /\ n + 1 \in Skips(w) <=> LostBefore(a, x) > 0
  <2>1. CASE a.first
    BY <1>1, <1>3, <2>1 DEF LostBefore
  <2>2. CASE ~a.first
    <3>1. v # << >> /\ a.seq = v[n].seq
      BY <1>1, <2>2
    <3> DEFINE c == a.seq
               d == x.seq
    <3>2. /\ Missed(w, n + 1) = IF d > c + 1 THEN d - c - 1 ELSE 0
          /\ n + 1 \in Skips(w) <=> d > c + 1
          /\ LostBefore(a, x) = IF d > c + 1 THEN d - c - 1 ELSE 0
      BY <1>3, <2>2, <3>1 DEF LostBefore
    <3>3. c \in Nat /\ d \in Nat
      BY <1>8, <3>1
    <3> HIDE DEF c, d
    <3> QED BY <3>2, <3>3
  <2> QED BY <2>1, <2>2
<1> QED BY <1>1, <1>2, <1>4, <1>5, <1>6, <1>7, <1>9 DEF Reported, n

(* The gaps reported for the earlier frames stay as they were.             *)
LEMMA GapsStay ==
  \A v, x, w : Longer(v, x, w) =>
    /\ AgreeOn(SkipGap(v), SkipGap(w), Skips(v))
    /\ AgreeOn(BackGap(v), BackGap(w), Backs(v)) /\ AgreeOn(FarGap(v), FarGap(w), Fars(v))
    /\ AgreeOn(AudioGapAt(v), AudioGapAt(w), AudioPauses(v))
    /\ AgreeOn(ImuGapAt(v), ImuGapAt(w), ImuPauses(v))
    /\ Grown(AudioPauses(v), AudioPauses(w), Len(v)) /\ Grown(ImuPauses(v), ImuPauses(w), Len(v))
<1> SUFFICES ASSUME NEW v, NEW x, NEW w, Longer(v, x, w)
             PROVE  /\ AgreeOn(SkipGap(v), SkipGap(w), Skips(v))
                    /\ AgreeOn(BackGap(v), BackGap(w), Backs(v))
                    /\ AgreeOn(FarGap(v), FarGap(w), Fars(v))
                    /\ AgreeOn(AudioGapAt(v), AudioGapAt(w), AudioPauses(v))
                    /\ AgreeOn(ImuGapAt(v), ImuGapAt(w), ImuPauses(v))
                    /\ Grown(AudioPauses(v), AudioPauses(w), Len(v))
                    /\ Grown(ImuPauses(v), ImuPauses(w), Len(v))
  OBVIOUS
<1> DEFINE n == Len(v)
<1>1. /\ n \in Nat /\ DOMAIN v = 1..n /\ DOMAIN w = 1..(n + 1)
      /\ \A i \in 1..n : w[i] = v[i]
  BY LongerIs
<1>2. \A i \in 1..n : Missed(w, i) = Missed(v, i)
  BY SkipsGrow
<1>3. Grown(AudioIn(v), AudioIn(w), n) /\ Grown(ImuIn(v), ImuIn(w), n)
  BY StreamsGrow
<1>4. /\ \A i \in 1..n : Pause(w, AudioIn(w), i) = Pause(v, AudioIn(v), i)
      /\ \A i \in 1..n : Pause(w, ImuIn(w), i) = Pause(v, ImuIn(v), i)
      /\ Grown(AudioPauses(v), AudioPauses(w), n) /\ Grown(ImuPauses(v), ImuPauses(w), n)
  BY <1>3, StreamGrows DEF AudioPauses, ImuPauses
<1> HIDE DEF n
<1>5. \A i \in Steps(v) : i \in DOMAIN v /\ i \in DOMAIN w /\ w[i] = v[i] /\ w[i - 1] = v[i - 1]
                          /\ Missed(w, i) = Missed(v, i)
  BY <1>1, <1>2 DEF Steps
<1>6. Skips(v) \subseteq Steps(v) /\ Backs(v) \subseteq Steps(v) /\ Fars(v) \subseteq Steps(v)
  BY DEF Skips, Backs, Fars
<1>7. AgreeOn(SkipGap(v), SkipGap(w), Skips(v))
  BY <1>5, <1>6 DEF AgreeOn, SkipGap
<1>8. AgreeOn(BackGap(v), BackGap(w), Backs(v))
  BY <1>5, <1>6 DEF AgreeOn, BackGap
<1>9. AgreeOn(FarGap(v), FarGap(w), Fars(v))
  BY <1>5, <1>6 DEF AgreeOn, FarGap
<1>10. AudioPauses(v) \subseteq 1..n /\ ImuPauses(v) \subseteq 1..n
  BY <1>4 DEF Grown
<1>11. \A i \in 1..n : i \in 1..(n + 1)
  BY <1>1
<1>12. AgreeOn(AudioGapAt(v), AudioGapAt(w), AudioPauses(v))
  BY <1>1, <1>4, <1>10, <1>11 DEF AgreeOn, AudioGapAt
<1>13. AgreeOn(ImuGapAt(v), ImuGapAt(w), ImuPauses(v))
  BY <1>1, <1>4, <1>10, <1>11 DEF AgreeOn, ImuGapAt
<1> QED BY <1>4, <1>7, <1>8, <1>9, <1>12, <1>13 DEF n

LEMMA LastGaps ==
  \A v, x, w, a : Longer(v, x, w) /\ Remembers(a, v) =>
    GapIf(Len(v) + 1 \in Skips(w), SkipGap(w)[Len(v) + 1])
      \cup GapIf(Len(v) + 1 \in Backs(w), BackGap(w)[Len(v) + 1])
      \cup GapIf(Len(v) + 1 \in Fars(w), FarGap(w)[Len(v) + 1])
      \cup GapIf(Len(v) + 1 \in AudioPauses(w), AudioGapAt(w)[Len(v) + 1])
      \cup GapIf(Len(v) + 1 \in ImuPauses(w), ImuGapAt(w)[Len(v) + 1]) = NewGaps(a, x)
<1> SUFFICES ASSUME NEW v, NEW x, NEW w, NEW a, Longer(v, x, w), Remembers(a, v)
             PROVE  GapIf(Len(v) + 1 \in Skips(w), SkipGap(w)[Len(v) + 1])
                      \cup GapIf(Len(v) + 1 \in Backs(w), BackGap(w)[Len(v) + 1])
                      \cup GapIf(Len(v) + 1 \in Fars(w), FarGap(w)[Len(v) + 1])
                      \cup GapIf(Len(v) + 1 \in AudioPauses(w), AudioGapAt(w)[Len(v) + 1])
                      \cup GapIf(Len(v) + 1 \in ImuPauses(w), ImuGapAt(w)[Len(v) + 1])
                      = NewGaps(a, x)
  OBVIOUS
<1> DEFINE n == Len(v)
           l == n + 1
<1>1. /\ n \in Nat /\ DOMAIN w = 1..(n + 1) /\ w[n + 1] = x
  BY LongerIs
<1>2. Reported(v, x, w, a)
  BY RememberedReports
<1>3. /\ l \in DOMAIN w /\ w[l] = x /\ l - 1 = n
  BY <1>1
<1>4. /\ l \in Backs(w) <=> ~a.first /\ x.t - a.t < 0
      /\ l \in Fars(w) <=> ~a.first /\ x.t - a.t > MaxJump
      /\ l \in Skips(w) <=> LostBefore(a, x) > 0
      /\ Missed(w, l) = LostBefore(a, x)
      /\ l \in AudioPauses(w) <=> IsAudio(x) /\ a.audio # 0 /\ x.t - a.audio > AudioGap
      /\ l \in ImuPauses(w) <=> IsImu(x) /\ a.imu # 0 /\ x.t - a.imu > TelemetryGap
      /\ Pause(w, AudioIn(w), l) = x.t - a.audio
      /\ Pause(w, ImuIn(w), l) = x.t - a.imu
      /\ ~a.first => w[n].t = a.t
  BY <1>2 DEF Reported
<1> HIDE DEF n, l
<1>5. l \in Skips(w) => ~a.first
  BY <1>4 DEF LostBefore
<1>6. GapIf(l \in Skips(w), SkipGap(w)[l])
        = GapIf(LostBefore(a, x) > 0, Gap("seq", x.t, x.t - a.t, SeqSeverity(LostBefore(a, x))))
  BY <1>3, <1>4, <1>5 DEF GapIf, SkipGap
<1>7. GapIf(l \in Backs(w), BackGap(w)[l])
        = GapIf(~a.first /\ x.t - a.t < 0, Gap("timestamp", x.t, -(x.t - a.t), "warning"))
  BY <1>3, <1>4 DEF GapIf, BackGap
<1>8. GapIf(l \in Fars(w), FarGap(w)[l])
        = GapIf(~a.first /\ x.t - a.t > MaxJump, Gap("timestamp", x.t, x.t - a.t, "warning"))
  BY <1>3, <1>4 DEF GapIf, FarGap
<1>9. GapIf(l \in AudioPauses(w), AudioGapAt(w)[l])
        = GapIf(IsAudio(x) /\ a.audio # 0 /\ x.t - a.audio > AudioGap,
                Gap("audio", x.t, x.t - a.audio, "warning"))
  BY <1>3, <1>4 DEF GapIf, AudioGapAt
<1>10. GapIf(l \in ImuPauses(w), ImuGapAt(w)[l])
         = GapIf(IsImu(x) /\ a.imu # 0 /\ x.t - a.imu > TelemetryGap,
                 Gap("telemetry", x.t, x.t - a.imu, "warning"))
  BY <1>3, <1>4 DEF GapIf, ImuGapAt
<1>11. NewGaps(a, x) =
         GapIf(LostBefore(a, x) > 0, Gap("seq", x.t, x.t - a.t, SeqSeverity(LostBefore(a, x))))
         \cup GapIf(~a.first /\ x.t - a.t < 0, Gap("timestamp", x.t, -(x.t - a.t), "warning"))
         \cup GapIf(~a.first /\ x.t - a.t > MaxJump, Gap("timestamp", x.t, x.t - a.t, "warning"))
         \cup GapIf(IsAudio(x) /\ a.audio # 0 /\ x.t - a.audio > AudioGap,
                    Gap("audio", x.t, x.t - a.audio, "warning"))
         \cup GapIf(IsImu(x) /\ a.imu # 0 /\ x.t - a.imu > TelemetryGap,
                    Gap("telemetry", x.t, x.t - a.imu, "warning"))
  BY Zenon DEF NewGaps
<1> QED BY <1>6, <1>7, <1>8, <1>9, <1>10, <1>11, Zenon DEF n, l

LEMMA GapsOfLonger ==
  \A v, x, w, a : Longer(v, x, w) /\ Remembers(a, v) => GapsOf(w) = GapsOf(v) \cup NewGaps(a, x)
<1> SUFFICES ASSUME NEW v, NEW x, NEW w, NEW a, Longer(v, x, w), Remembers(a, v)
             PROVE  GapsOf(w) = GapsOf(v) \cup NewGaps(a, x)
  OBVIOUS
<1> DEFINE n == Len(v)
<1>1. /\ AgreeOn(SkipGap(v), SkipGap(w), Skips(v))
      /\ AgreeOn(BackGap(v), BackGap(w), Backs(v)) /\ AgreeOn(FarGap(v), FarGap(w), Fars(v))
      /\ AgreeOn(AudioGapAt(v), AudioGapAt(w), AudioPauses(v))
      /\ AgreeOn(ImuGapAt(v), ImuGapAt(w), ImuPauses(v))
      /\ Grown(AudioPauses(v), AudioPauses(w), n) /\ Grown(ImuPauses(v), ImuPauses(w), n)
  BY GapsStay
<1>2. Grown(Skips(v), Skips(w), n) /\ Grown(Backs(v), Backs(w), n) /\ Grown(Fars(v), Fars(w), n)
  BY BacksGrow, SkipsGrow
<1>3. {SkipGap(w)[i] : i \in Skips(w)}
        = {SkipGap(v)[i] : i \in Skips(v)} \cup GapIf(n + 1 \in Skips(w), SkipGap(w)[n + 1])
  <2>1. Grown(Skips(v), Skips(w), n)
    BY <1>2
  <2>2. AgreeOn(SkipGap(v), SkipGap(w), Skips(v))
    BY <1>1
  <2> DEFINE A == Skips(v)
             B == Skips(w)
             f == SkipGap(v)
             g == SkipGap(w)
  <2> HIDE DEF n, A, B, f, g
  <2>3. {g[i] : i \in B} = {f[i] : i \in A} \cup GapIf(n + 1 \in B, g[n + 1])
    <3>1. Grown(A, B, n) /\ AgreeOn(f, g, A)
      BY <2>1, <2>2 DEF A, B, f, g
    <3> QED BY <3>1, GapsGrow
  <2> QED BY <2>3 DEF A, B, f, g
<1>4. {BackGap(w)[i] : i \in Backs(w)}
        = {BackGap(v)[i] : i \in Backs(v)} \cup GapIf(n + 1 \in Backs(w), BackGap(w)[n + 1])
  <2>1. Grown(Backs(v), Backs(w), n)
    BY <1>2
  <2>2. AgreeOn(BackGap(v), BackGap(w), Backs(v))
    BY <1>1
  <2> DEFINE A == Backs(v)
             B == Backs(w)
             f == BackGap(v)
             g == BackGap(w)
  <2> HIDE DEF n, A, B, f, g
  <2>3. {g[i] : i \in B} = {f[i] : i \in A} \cup GapIf(n + 1 \in B, g[n + 1])
    <3>1. Grown(A, B, n) /\ AgreeOn(f, g, A)
      BY <2>1, <2>2 DEF A, B, f, g
    <3> QED BY <3>1, GapsGrow
  <2> QED BY <2>3 DEF A, B, f, g
<1>5. {FarGap(w)[i] : i \in Fars(w)}
        = {FarGap(v)[i] : i \in Fars(v)} \cup GapIf(n + 1 \in Fars(w), FarGap(w)[n + 1])
  <2>1. Grown(Fars(v), Fars(w), n)
    BY <1>2
  <2>2. AgreeOn(FarGap(v), FarGap(w), Fars(v))
    BY <1>1
  <2> DEFINE A == Fars(v)
             B == Fars(w)
             f == FarGap(v)
             g == FarGap(w)
  <2> HIDE DEF n, A, B, f, g
  <2>3. {g[i] : i \in B} = {f[i] : i \in A} \cup GapIf(n + 1 \in B, g[n + 1])
    <3>1. Grown(A, B, n) /\ AgreeOn(f, g, A)
      BY <2>1, <2>2 DEF A, B, f, g
    <3> QED BY <3>1, GapsGrow
  <2> QED BY <2>3 DEF A, B, f, g
<1>6. {AudioGapAt(w)[i] : i \in AudioPauses(w)}
        = {AudioGapAt(v)[i] : i \in AudioPauses(v)}
          \cup GapIf(n + 1 \in AudioPauses(w), AudioGapAt(w)[n + 1])
  BY <1>1, GapsGrow
<1>7. {ImuGapAt(w)[i] : i \in ImuPauses(w)}
        = {ImuGapAt(v)[i] : i \in ImuPauses(v)}
          \cup GapIf(n + 1 \in ImuPauses(w), ImuGapAt(w)[n + 1])
  BY <1>1, GapsGrow
<1>8. GapIf(n + 1 \in Skips(w), SkipGap(w)[n + 1])
        \cup GapIf(n + 1 \in Backs(w), BackGap(w)[n + 1])
        \cup GapIf(n + 1 \in Fars(w), FarGap(w)[n + 1])
        \cup GapIf(n + 1 \in AudioPauses(w), AudioGapAt(w)[n + 1])
        \cup GapIf(n + 1 \in ImuPauses(w), ImuGapAt(w)[n + 1]) = NewGaps(a, x)
  BY LastGaps
<1> DEFINE s1 == {SkipGap(v)[i] : i \in Skips(v)}
           s2 == {BackGap(v)[i] : i \in Backs(v)}
           s3 == {FarGap(v)[i] : i \in Fars(v)}
           s4 == {AudioGapAt(v)[i] : i \in AudioPauses(v)}
           s5 == {ImuGapAt(v)[i] : i \in ImuPauses(v)}
           g1 == GapIf(n + 1 \in Skips(w), SkipGap(w)[n + 1])
           g2 == GapIf(n + 1 \in Backs(w), BackGap(w)[n + 1])
           g3 == GapIf(n + 1 \in Fars(w), FarGap(w)[n + 1])
           g4 == GapIf(n + 1 \in AudioPauses(w), AudioGapAt(w)[n + 1])
           g5 == GapIf(n + 1 \in ImuPauses(w), ImuGapAt(w)[n + 1])
<1>9. /\ GapsOf(v) = s1 \cup s2 \cup s3 \cup s4 \cup s5
      /\ GapsOf(w) = (s1 \cup g1) \cup (s2 \cup g2) \cup (s3 \cup g3) \cup (s4 \cup g4) \cup (s5 \cup g5)
      /\ g1 \cup g2 \cup g3 \cup g4 \cup g5 = NewGaps(a, x)
  <2>1. GapsOf(v) = s1 \cup s2 \cup s3 \cup s4 \cup s5
    BY Zenon DEF GapsOf
  <2>2. GapsOf(w) = {SkipGap(w)[i] : i \in Skips(w)} \cup {BackGap(w)[i] : i \in Backs(w)}
                    \cup {FarGap(w)[i] : i \in Fars(w)}
                    \cup {AudioGapAt(w)[i] : i \in AudioPauses(w)}
                    \cup {ImuGapAt(w)[i] : i \in ImuPauses(w)}
    BY Zenon DEF GapsOf
  <2> QED BY <1>3, <1>4, <1>5, <1>6, <1>7, <1>8, <2>1, <2>2, Zenon
<1> HIDE DEF s1, s2, s3, s4, s5, g1, g2, g3, g4, g5
<1> QED BY <1>9

LEMMA MostOfOneMore ==
  \A S, x : IsFiniteSet(S) /\ S \subseteq Int /\ S # {} /\ x \in Int =>
    /\ Max(S \cup {x}) = IF x > Max(S) THEN x ELSE Max(S)
    /\ Min(S \cup {x}) = IF x < Min(S) THEN x ELSE Min(S)
<1> SUFFICES ASSUME NEW S, NEW x, IsFiniteSet(S), S \subseteq Int, S # {}, x \in Int
             PROVE  /\ Max(S \cup {x}) = IF x > Max(S) THEN x ELSE Max(S)
                    /\ Min(S \cup {x}) = IF x < Min(S) THEN x ELSE Min(S)
  OBVIOUS
<1> DEFINE T == S \cup {x}
<1>1. IsFiniteSet(T)
  BY FS_AddElement
<1>2. T \subseteq Int /\ T # {}
  OBVIOUS
<1> HIDE DEF T
<1>3. /\ Max(S) \in S /\ Max(S) \in Int /\ \A y \in S : y <= Max(S)
      /\ Min(S) \in S /\ Min(S) \in Int /\ \A y \in S : Min(S) <= y
  BY MaxAndMin
<1>4. /\ Max(T) \in T /\ Max(T) \in Int /\ \A y \in T : y <= Max(T)
      /\ Min(T) \in T /\ Min(T) \in Int /\ \A y \in T : Min(T) <= y
  BY <1>1, <1>2, MaxAndMin
<1> DEFINE a == Max(S)
           b == Min(S)
           c == Max(T)
           d == Min(T)
<1>5. /\ a \in S /\ a \in Int /\ \A y \in S : y <= a
      /\ b \in S /\ b \in Int /\ \A y \in S : b <= y
      /\ c \in T /\ c \in Int /\ \A y \in T : y <= c
      /\ d \in T /\ d \in Int /\ \A y \in T : d <= y
  BY <1>3, <1>4
<1>6. \A y : y \in T <=> y \in S \/ y = x
  BY DEF T
<1> HIDE DEF a, b, c, d
<1>7. c = IF x > a THEN x ELSE a
  <2>1. (c \in S \/ c = x) /\ a <= c /\ x <= c
    BY <1>5, <1>6
  <2> QED BY <1>5, <2>1
<1>8. d = IF x < b THEN x ELSE b
  <2>1. (d \in S \/ d = x) /\ d <= b /\ d <= x
    BY <1>5, <1>6
  <2> QED BY <1>5, <2>1
<1> QED BY <1>7, <1>8 DEF a, b, c, d, T

Earliest(v) == IF v = << >> THEN 0 ELSE Min(TimesIn(v))
Latest(v) == Max(TimesIn(v) \cup {0})

LEMMA TimesGrow ==
  \A v, x, w : Longer(v, x, w) =>
    /\ Earliest(w) = IF v = << >> \/ x.t < Earliest(v) THEN x.t ELSE Earliest(v)
    /\ Latest(w) = IF x.t > Latest(v) THEN x.t ELSE Latest(v)
<1> SUFFICES ASSUME NEW v, NEW x, NEW w, Longer(v, x, w)
             PROVE  /\ Earliest(w) = IF v = << >> \/ x.t < Earliest(v) THEN x.t ELSE Earliest(v)
                    /\ Latest(w) = IF x.t > Latest(v) THEN x.t ELSE Latest(v)
  OBVIOUS
<1> DEFINE n == Len(v)
           S == TimesIn(v)
<1>1. /\ n \in Nat /\ Len(w) = n + 1 /\ w[n + 1] = x
      /\ DOMAIN v = 1..n /\ DOMAIN w = 1..(n + 1)
      /\ \A i \in 1..n : w[i] = v[i]
      /\ \A i \in 1..(n + 1) : w[i].t \in Nat
  BY LongerIs
<1>2. v = << >> <=> n = 0
  <2>1. v \in Seq(PassedFrames)
    BY DEF Longer
  <2> QED BY <2>1, EmptySeq
<1>3. w # << >>
  <2>1. v \in Seq(PassedFrames) /\ x \in PassedFrames /\ w = Append(v, x)
    BY DEF Longer
  <2> QED BY <2>1, AppendProperties
<1> HIDE DEF n
<1>4. n + 1 \in 1..(n + 1) /\ \A i \in 1..(n + 1) : i \in 1..n \/ i = n + 1
  BY <1>1
<1>5. \A i \in 1..n : i \in 1..(n + 1)
  BY <1>1
<1>6. x.t \in Nat /\ S \subseteq Nat
  BY <1>1, <1>4, <1>5 DEF TimesIn
<1>7. TimesIn(w) = S \cup {x.t}
  BY <1>1, <1>4, <1>5 DEF TimesIn
<1>8. IsFiniteSet(S)
  <2> DEFINE f == [i \in 1..n |-> v[i].t]
  <2>1. IsFiniteSet(1..n)
    BY <1>1, FS_Interval
  <2>2. f = [i \in 1..n |-> f[i]]
    OBVIOUS
  <2> HIDE DEF f
  <2>3. IsFiniteSet({f[i] : i \in 1..n})
    BY <2>1, <2>2, ImageFinite
  <2>4. S = {f[i] : i \in 1..n}
    BY <1>1 DEF TimesIn, f
  <2> QED BY <2>3, <2>4
<1>9. n = 0 <=> S = {}
  <2>1. CASE n = 0
    BY <1>1, <2>1 DEF TimesIn
  <2>2. CASE n # 0
    <3>1. 1 \in 1..n
      BY <1>1, <2>2
    <3> QED BY <1>1, <2>2, <3>1 DEF TimesIn
  <2> QED BY <2>1, <2>2
<1> HIDE DEF S
<1> DEFINE t == x.t
<1>10. t \in Nat
  BY <1>6
<1> HIDE DEF t
<1>11. Earliest(w) = Min(S \cup {t})
  BY <1>3, <1>7 DEF Earliest, t
<1>12. CASE n = 0
  <2>1. S = {} /\ v = << >>
    BY <1>2, <1>9, <1>12
  <2>2. S \cup {t} = {t} /\ S \cup {0} = {0}
    BY <2>1
  <2>3. /\ IsFiniteSet({t}) /\ {t} \subseteq Int /\ {t} # {}
        /\ IsFiniteSet({0}) /\ {0} \subseteq Int /\ {0} # {}
    <3>1. IsFiniteSet({t}) /\ IsFiniteSet({0})
      BY FS_Singleton
    <3>2. {t} \subseteq Int /\ {t} # {} /\ {0} \subseteq Int /\ {0} # {}
      BY <1>10
    <3> QED BY <3>1, <3>2
  <2>4. Min({t}) = t /\ Max({0}) = 0
    <3>1. Min({t}) \in {t} /\ Max({0}) \in {0}
      BY <2>3, MaxAndMin
    <3> QED BY <3>1
  <2>5. Latest(v) = 0
    BY <2>2, <2>4 DEF Latest, S
  <2>6. Latest(w) = Max({0} \cup {t})
    <3>1. (S \cup {x.t}) \cup {0} = {0} \cup {t}
      BY <2>1 DEF t
    <3> QED BY <1>7, <3>1 DEF Latest
  <2>7. Max({0} \cup {t}) = IF t > Max({0}) THEN t ELSE Max({0})
    BY <1>10, <2>3, MostOfOneMore
  <2> QED BY <1>11, <2>1, <2>2, <2>4, <2>5, <2>6, <2>7 DEF t
<1>13. CASE n # 0
  <2>1. S # {} /\ v # << >>
    BY <1>2, <1>9, <1>13
  <2>2. Earliest(v) = Min(S)
    BY <2>1 DEF Earliest, S
  <2>3. Min(S \cup {t}) = IF t < Min(S) THEN t ELSE Min(S)
    <3>1. S \subseteq Int /\ t \in Int
      BY <1>6, <1>10
    <3> QED BY <1>8, <2>1, <3>1, MostOfOneMore
  <2> DEFINE R == S \cup {0}
  <2>4. IsFiniteSet(R)
    BY <1>8, FS_AddElement
  <2>5. R \subseteq Int /\ R # {}
    BY <1>6
  <2>6. Latest(v) = Max(R)
    BY DEF Latest, S
  <2>7. Latest(w) = Max(R \cup {t})
    <3>1. (S \cup {x.t}) \cup {0} = R \cup {t}
      BY DEF t
    <3> QED BY <1>7, <3>1 DEF Latest
  <2> HIDE DEF R
  <2>8. Max(R \cup {t}) = IF t > Max(R) THEN t ELSE Max(R)
    <3>1. t \in Int
      BY <1>10
    <3> QED BY <2>4, <2>5, <3>1, MostOfOneMore
  <2>9. Earliest(w) = IF t < Earliest(v) THEN t ELSE Earliest(v)
    BY <1>11, <2>2, <2>3, Zenon
  <2>10. Latest(w) = IF t > Latest(v) THEN t ELSE Latest(v)
    BY <2>6, <2>7, <2>8, Zenon
  <2> QED BY <2>1, <2>9, <2>10 DEF t
<1> QED BY <1>12, <1>13

LEMMA MissedGrow ==
  \A v, x, w, a : Longer(v, x, w) /\ Remembers(a, v) =>
    /\ SumSeq(MissedIn(v)) \in Nat
    /\ SumSeq(MissedIn(w)) = SumSeq(MissedIn(v)) + LostBefore(a, x)
<1> SUFFICES ASSUME NEW v, NEW x, NEW w, NEW a, Longer(v, x, w), Remembers(a, v)
             PROVE  /\ SumSeq(MissedIn(v)) \in Nat
                    /\ SumSeq(MissedIn(w)) = SumSeq(MissedIn(v)) + LostBefore(a, x)
  OBVIOUS
<1> DEFINE n == Len(v)
           f == MissedIn(v)
           g == MissedIn(w)
           d == Missed(w, n + 1)
<1>1. n \in Nat /\ DOMAIN v = 1..n /\ DOMAIN w = 1..(n + 1)
  BY LongerIs
<1>2. /\ \A i \in 1..n : Missed(w, i) = Missed(v, i)
      /\ \A i \in 1..(n + 1) : Missed(w, i) \in Nat
  BY SkipsGrow
<1>3. d = LostBefore(a, x)
  BY RememberedReports DEF Reported
<1> HIDE DEF n
<1>4. \A i \in 1..n : i \in 1..(n + 1) /\ n + 1 \in 1..(n + 1)
  BY <1>1
<1>5. f = [i \in 1..n |-> Missed(v, i)] /\ g = [i \in 1..(n + 1) |-> Missed(w, i)]
  BY <1>1 DEF MissedIn
<1>6. d \in Nat
  BY <1>1, <1>2
<1>7. \A i \in 1..n : Missed(v, i) \in Nat
  BY <1>2, <1>4
<1> HIDE DEF f, g
<1>8. f \in Seq(Nat) /\ Len(f) = n
  BY <1>1, <1>5, <1>7
<1>9. g = Append(f, d)
  <2>1. g \in Seq(Nat) /\ Len(g) = n + 1
    BY <1>1, <1>2, <1>5
  <2>2. \A i \in 1..n : g[i] = f[i]
    BY <1>2, <1>4, <1>5
  <2>3. g[n + 1] = d
    BY <1>1, <1>5
  <2> HIDE DEF d
  <2> QED BY <1>1, <1>6, <1>8, <2>1, <2>2, <2>3
<1> HIDE DEF d
<1>10. f \in Seq(Int) /\ d \in Int
  BY <1>6, <1>8, NatSeqIsIntSeq
<1>11. SumSeq(Append(f, d)) = SumSeq(f) + d /\ SumSeq(f) \in Nat
  BY <1>8, <1>10, SumAppend, SumNat
<1> QED BY <1>3, <1>9, <1>11 DEF f, g

LEMMA RemembersMore ==
  \A v, x, w, a : Longer(v, x, w) /\ Remembers(a, v) /\ a \in Accs => Remembers(Feed(a, x), w)
<1> SUFFICES ASSUME NEW v, NEW x, NEW w, NEW a, Longer(v, x, w), Remembers(a, v), a \in Accs
             PROVE  Remembers(Feed(a, x), w)
  OBVIOUS
<1> DEFINE b == Feed(a, x)
<1>1. x \in PassedFrames /\ v \in Seq(PassedFrames) /\ w = Append(v, x)
  BY DEF Longer
<1>2. Accepted(x)
  BY <1>1 DEF PassedFrames, Accepted
<1>3. /\ ~b.first /\ b.seq = x.seq /\ b.t = x.t
      /\ b.audio = (IF IsAudio(x) THEN x.t ELSE a.audio)
      /\ b.imu = (IF IsImu(x) THEN x.t ELSE a.imu)
  BY <1>2, FeedAccepted
<1> HIDE DEF b
<1>4. w # << >> /\ w[Len(w)] = x
  <2>1. Len(v) \in Nat /\ Len(w) = Len(v) + 1 /\ w[Len(v) + 1] = x
    BY LongerIs
  <2>2. w # << >>
    BY <1>1, AppendProperties
  <2> QED BY <2>1, <2>2
<1>5. /\ Grown(AudioIn(v), AudioIn(w), Len(v)) /\ Grown(ImuIn(v), ImuIn(w), Len(v))
      /\ Len(v) + 1 \in AudioIn(w) <=> IsAudio(x)
      /\ Len(v) + 1 \in ImuIn(w) <=> IsImu(x)
  BY StreamsGrow
<1>6. /\ LastOf(w, AudioIn(w)) = (IF Len(v) + 1 \in AudioIn(w) THEN x.t ELSE LastOf(v, AudioIn(v)))
      /\ LastOf(w, ImuIn(w)) = (IF Len(v) + 1 \in ImuIn(w) THEN x.t ELSE LastOf(v, ImuIn(v)))
  BY <1>5, StreamGrows
<1>7. a.audio = LastOf(v, AudioIn(v)) /\ a.imu = LastOf(v, ImuIn(v))
  BY DEF Remembers
<1>8. b.audio = LastOf(w, AudioIn(w)) /\ b.imu = LastOf(w, ImuIn(w))
  BY <1>3, <1>5, <1>6, <1>7
<1> QED BY <1>3, <1>4, <1>8 DEF Remembers, b

(* The counts of the accumulator are those of the second pass.             *)
Counted(st, v) ==
  /\ st.valid = Len(v)
  /\ st.backward = Cardinality(Backs(v))
  /\ st.stamps = Cardinality(Zeros(v)) + Cardinality(Fars(v))
  /\ st.audio = Cardinality(AudioPauses(v))
  /\ st.telemetry = Cardinality(ImuPauses(v))
  /\ st.gaps = GapsOf(v)
  /\ st.t_first = Earliest(v) /\ st.t_last = Latest(v)

LEMMA CountedMore ==
  \A v, x, w, a : Longer(v, x, w) /\ Remembers(a, v) /\ a \in Accs /\ Counted(a.stats, v) =>
    Counted(Feed(a, x).stats, w)
<1> SUFFICES ASSUME NEW v, NEW x, NEW w, NEW a, Longer(v, x, w), Remembers(a, v), a \in Accs,
                    Counted(a.stats, v)
             PROVE  Counted(Feed(a, x).stats, w)
  OBVIOUS
<1> DEFINE n == Len(v)
           old == a.stats
           new == Feed(a, x).stats
<1>1. Accepted(x)
  BY DEF Longer, PassedFrames, Accepted
<1>2. /\ new.valid = old.valid + 1
      /\ new.backward = old.backward + CountIf(~a.first /\ x.t - a.t < 0)
      /\ new.stamps = old.stamps + CountIf(x.t = 0) + CountIf(~a.first /\ x.t - a.t > MaxJump)
      /\ new.audio = old.audio + CountIf(IsAudio(x) /\ a.audio # 0 /\ x.t - a.audio > AudioGap)
      /\ new.telemetry = old.telemetry
                         + CountIf(IsImu(x) /\ a.imu # 0 /\ x.t - a.imu > TelemetryGap)
      /\ new.gaps = old.gaps \cup NewGaps(a, x)
      /\ new.t_first = (IF a.first \/ x.t < old.t_first THEN x.t ELSE old.t_first)
      /\ new.t_last = (IF x.t > old.t_last THEN x.t ELSE old.t_last)
  BY <1>1, FeedAccepted
<1>3. /\ old.valid = n
      /\ old.backward = Cardinality(Backs(v))
      /\ old.stamps = Cardinality(Zeros(v)) + Cardinality(Fars(v))
      /\ old.audio = Cardinality(AudioPauses(v))
      /\ old.telemetry = Cardinality(ImuPauses(v))
      /\ old.gaps = GapsOf(v)
      /\ old.t_first = Earliest(v) /\ old.t_last = Latest(v)
  BY DEF Counted
<1> HIDE DEF old, new
<1>4. Reported(v, x, w, a)
  BY RememberedReports
<1>5. Grown(Backs(v), Backs(w), n) /\ Grown(Fars(v), Fars(w), n) /\ Grown(Zeros(v), Zeros(w), n)
  BY BacksGrow
<1>6. n + 1 \in Zeros(w) <=> x.t = 0
  BY BacksGrow
<1>7. Grown(AudioPauses(v), AudioPauses(w), n) /\ Grown(ImuPauses(v), ImuPauses(w), n)
  BY GapsStay
<1>8. new.valid = Len(w)
  <2>1. Len(w) = n + 1
    BY LongerIs
  <2> QED BY <1>2, <1>3, <2>1
<1>9. new.backward = Cardinality(Backs(w))
  <2>1. Cardinality(Backs(w)) = Cardinality(Backs(v)) + CountIf(n + 1 \in Backs(w))
    BY <1>5, CountGrows
  <2>2. n + 1 \in Backs(w) <=> ~a.first /\ x.t - a.t < 0
    BY <1>4 DEF Reported
  <2> QED BY <1>2, <1>3, <2>1, <2>2 DEF CountIf
<1>10. new.stamps = Cardinality(Zeros(w)) + Cardinality(Fars(w))
  <2>1. /\ Cardinality(Fars(v)) \in Nat
        /\ Cardinality(Fars(w)) = Cardinality(Fars(v)) + CountIf(n + 1 \in Fars(w))
    BY <1>5, CountGrows
  <2>2. /\ Cardinality(Zeros(v)) \in Nat
        /\ Cardinality(Zeros(w)) = Cardinality(Zeros(v)) + CountIf(n + 1 \in Zeros(w))
    BY <1>5, CountGrows
  <2>3. n + 1 \in Fars(w) <=> ~a.first /\ x.t - a.t > MaxJump
    BY <1>4 DEF Reported
  <2>4. /\ CountIf(n + 1 \in Fars(w)) = CountIf(~a.first /\ x.t - a.t > MaxJump)
        /\ CountIf(n + 1 \in Zeros(w)) = CountIf(x.t = 0)
    BY <1>6, <2>3 DEF CountIf
  <2>5. CountIf(~a.first /\ x.t - a.t > MaxJump) \in {0, 1} /\ CountIf(x.t = 0) \in {0, 1}
    BY DEF CountIf
  <2> DEFINE f == Cardinality(Fars(v))
             z == Cardinality(Zeros(v))
             cf == CountIf(~a.first /\ x.t - a.t > MaxJump)
             cz == CountIf(x.t = 0)
  <2>6. /\ f \in Nat /\ z \in Nat /\ cf \in {0, 1} /\ cz \in {0, 1}
        /\ Cardinality(Fars(w)) = f + cf /\ Cardinality(Zeros(w)) = z + cz
        /\ new.stamps = z + f + cz + cf
    BY <1>2, <1>3, <2>1, <2>2, <2>4, <2>5, Zenon
  <2> HIDE DEF f, z, cf, cz
  <2> QED BY <2>6
<1>11. new.audio = Cardinality(AudioPauses(w))
  <2>1. Cardinality(AudioPauses(w)) = Cardinality(AudioPauses(v)) + CountIf(n + 1 \in AudioPauses(w))
    BY <1>7, CountGrows
  <2>2. n + 1 \in AudioPauses(w) <=> IsAudio(x) /\ a.audio # 0 /\ x.t - a.audio > AudioGap
    BY <1>4 DEF Reported
  <2> QED BY <1>2, <1>3, <2>1, <2>2 DEF CountIf
<1>12. new.telemetry = Cardinality(ImuPauses(w))
  <2>1. Cardinality(ImuPauses(w)) = Cardinality(ImuPauses(v)) + CountIf(n + 1 \in ImuPauses(w))
    BY <1>7, CountGrows
  <2>2. n + 1 \in ImuPauses(w) <=> IsImu(x) /\ a.imu # 0 /\ x.t - a.imu > TelemetryGap
    BY <1>4 DEF Reported
  <2> QED BY <1>2, <1>3, <2>1, <2>2 DEF CountIf
<1>13. new.gaps = GapsOf(w)
  <2>1. GapsOf(w) = GapsOf(v) \cup NewGaps(a, x)
    BY GapsOfLonger
  <2> QED BY <1>2, <1>3, <2>1, Zenon
<1>14. new.t_first = Earliest(w) /\ new.t_last = Latest(w)
  <2>1. /\ Earliest(w) = IF v = << >> \/ x.t < Earliest(v) THEN x.t ELSE Earliest(v)
        /\ Latest(w) = IF x.t > Latest(v) THEN x.t ELSE Latest(v)
    BY TimesGrow
  <2>2. a.first <=> v = << >>
    BY DEF Remembers
  <2> QED BY <1>2, <1>3, <2>1, <2>2
<1> QED BY <1>8, <1>9, <1>10, <1>11, <1>12, <1>13, <1>14 DEF Counted, new

(* The damaged frames of a log, and all frames of it.                      *)
DamagedIn(s) == {i \in DOMAIN s : s[i].check # "ok"}

TwoPasses(s) ==
  LET a == Acc(s)
      v == Kept(s, PassedFrames)
  IN  /\ a \in Accs /\ Remembers(a, v) /\ Counted(a.stats, v)
      /\ a.stats.total = Len(s) /\ a.stats.damaged = Cardinality(DamagedIn(s))
      /\ a.stats.lost = Cardinality(DamagedIn(s)) + SumSeq(MissedIn(v))

LEMMA DamageGrows ==
  \A s \in Seq(LegacyFrames), x \in LegacyFrames :
    /\ Cardinality(DamagedIn(s)) \in Nat
    /\ Cardinality(DamagedIn(Append(s, x))) = Cardinality(DamagedIn(s)) + CountIf(x.check # "ok")
<1> SUFFICES ASSUME NEW s \in Seq(LegacyFrames), NEW x \in LegacyFrames
             PROVE  /\ Cardinality(DamagedIn(s)) \in Nat
                    /\ Cardinality(DamagedIn(Append(s, x)))
                         = Cardinality(DamagedIn(s)) + CountIf(x.check # "ok")
  OBVIOUS
<1> DEFINE n == Len(s)
           r == Append(s, x)
           A == DamagedIn(s)
           B == DamagedIn(r)
<1>1. /\ n \in Nat /\ DOMAIN s = 1..n /\ DOMAIN r = 1..(n + 1) /\ r[n + 1] = x
      /\ \A i \in 1..n : r[i] = s[i]
  BY AppendProperties, LenProperties
<1> HIDE DEF n, r
<1>2. \A i \in 1..n : i \in 1..(n + 1) /\ n + 1 \in 1..(n + 1)
  BY <1>1
<1>3. n + 1 \in B <=> x.check # "ok"
  BY <1>1 DEF DamagedIn
<1>4. Grown(A, B, n)
  BY <1>1, <1>2 DEF DamagedIn, Grown
<1> HIDE DEF A, B
<1>5. Cardinality(A) \in Nat /\ Cardinality(B) = Cardinality(A) + CountIf(n + 1 \in B)
  BY <1>4, CountGrows
<1>6. CountIf(n + 1 \in B) = CountIf(x.check # "ok")
  BY <1>3 DEF CountIf
<1> QED BY <1>5, <1>6 DEF A, B, r

LEMMA TwoPassesStart == TwoPasses(<< >>)
<1> DEFINE v == << >>
<1>1. DOMAIN v = {} /\ Len(v) = 0
  BY EmptySeq
<1> HIDE DEF v
<1>2. Steps(v) = {}
  BY <1>1 DEF Steps
<1>3. Backs(v) = {} /\ Fars(v) = {} /\ Skips(v) = {} /\ Zeros(v) = {}
  BY <1>1, <1>2 DEF Backs, Fars, Skips, Zeros
<1>4. AudioIn(v) = {} /\ ImuIn(v) = {}
  BY <1>1 DEF AudioIn, ImuIn
<1>5. AudioPauses(v) = {} /\ ImuPauses(v) = {}
  <2>1. \A limit : Pauses(v, {}, limit) = {}
    BY DEF Pauses
  <2> QED BY <1>4, <2>1 DEF AudioPauses, ImuPauses
<1>6. GapsOf(v) = {}
  BY <1>3, <1>5 DEF GapsOf
<1>7. Latest(v) = 0
  <2>1. TimesIn(v) = {}
    BY <1>1 DEF TimesIn
  <2>2. Max({0, 0}) = 0
    BY MostAndLeast
  <2>3. TimesIn(v) \cup {0} = {0, 0}
    BY <2>1
  <2> QED BY <2>2, <2>3 DEF Latest
<1>8. Earliest(v) = 0
  BY DEF Earliest, v
<1>9. Cardinality({}) = 0
  BY FS_EmptySet
<1>10. LastOf(v, {}) = 0
  BY DEF LastOf
<1>11. Remembers(NoFrames, v)
  BY <1>4, <1>10 DEF Remembers, NoFrames, v
<1>12. Counted(NoFrames.stats, v)
  BY <1>1, <1>3, <1>5, <1>6, <1>7, <1>8, <1>9 DEF Counted, NoFrames, NoStats
<1>13. MissedIn(v) = << >>
  BY <1>1 DEF MissedIn
<1>14. DamagedIn(v) = {}
  BY <1>1 DEF DamagedIn
<1>15. /\ NoFrames.stats.total = Len(v) /\ NoFrames.stats.damaged = Cardinality(DamagedIn(v))
       /\ NoFrames.stats.lost = Cardinality(DamagedIn(v)) + SumSeq(MissedIn(v))
  BY <1>1, <1>9, <1>13, <1>14, SumEmpty DEF NoFrames, NoStats
<1>16. Acc(v) = NoFrames /\ Kept(v, PassedFrames) = v
  BY AccEmpty, KeptEmpty DEF v
<1>17. TwoPasses(v)
  BY <1>11, <1>12, <1>15, <1>16, NoFramesTyped DEF TwoPasses
<1> QED BY <1>17 DEF v

LEMMA MissedTyped == \A v \in Seq(PassedFrames) : SumSeq(MissedIn(v)) \in Nat
<1> SUFFICES ASSUME NEW v \in Seq(PassedFrames) PROVE SumSeq(MissedIn(v)) \in Nat
  OBVIOUS
<1> DEFINE n == Len(v)
           f == MissedIn(v)
<1>1. n \in Nat /\ DOMAIN v = 1..n
  BY LenProperties
<1>2. \A i \in 1..n : v[i].seq \in Int
  <2>1. \A i \in 1..n : v[i] \in PassedFrames
    BY ElementOfSeq
  <2>2. \A y \in PassedFrames : y.seq \in Int
    BY DEF PassedFrames, LegacyFrames, EgoFrames
  <2> QED BY <2>1, <2>2
<1> HIDE DEF n
<1>3. ASSUME NEW i \in 1..n PROVE Missed(v, i) \in Nat
  <2>1. CASE i \in Steps(v)
    <3>1. i - 1 \in 1..n
      BY <1>1, <2>1 DEF Steps
    <3> DEFINE d == v[i].seq - v[i - 1].seq - 1
    <3>2. d \in Int /\ Missed(v, i) = Max({0, d})
      BY <1>2, <2>1, <3>1 DEF Missed
    <3> HIDE DEF d
    <3>3. Max({0, d}) = IF 0 >= d THEN 0 ELSE d
      BY <3>2, MostAndLeast
    <3> QED BY <3>2, <3>3
  <2>2. CASE i \notin Steps(v)
    BY <2>2 DEF Missed
  <2> QED BY <2>1, <2>2
<1>4. f = [i \in 1..n |-> Missed(v, i)]
  BY <1>1 DEF MissedIn
<1> HIDE DEF f
<1>5. f \in Seq(Nat)
  BY <1>1, <1>3, <1>4
<1>6. SumSeq(f) \in Nat
  BY <1>5, SumNat
<1> QED BY <1>6 DEF f

LEMMA TwoPassesStep ==
  \A s \in Seq(LegacyFrames), x \in LegacyFrames : TwoPasses(s) => TwoPasses(Append(s, x))
<1> SUFFICES ASSUME NEW s \in Seq(LegacyFrames), NEW x \in LegacyFrames, TwoPasses(s)
             PROVE  TwoPasses(Append(s, x))
  OBVIOUS
<1> DEFINE r == Append(s, x)
           a == Acc(s)
           b == Acc(r)
           v == Kept(s, PassedFrames)
           w == Kept(r, PassedFrames)
           bad == Cardinality(DamagedIn(s))
<1>1. /\ a \in Accs /\ Remembers(a, v) /\ Counted(a.stats, v)
      /\ a.stats.total = Len(s) /\ a.stats.damaged = bad
      /\ a.stats.lost = bad + SumSeq(MissedIn(v))
  BY DEF TwoPasses
<1>2. b = Feed(a, x)
  BY AccAppend
<1>3. Len(s) \in Nat /\ Len(r) = Len(s) + 1 /\ r \in Seq(LegacyFrames)
  BY AppendProperties, LenProperties
<1>4. w = IF x \in PassedFrames THEN Append(v, x) ELSE v
  BY KeptAppend
<1>5. v \in Seq(PassedFrames)
  <2>1. Kept(s, PassedFrames) \in Seq(LegacyFrames \cap PassedFrames)
    BY KeptType
  <2>2. LegacyFrames \cap PassedFrames = PassedFrames
    BY DEF PassedFrames
  <2> QED BY <2>1, <2>2
<1>6. bad \in Nat /\ Cardinality(DamagedIn(r)) = bad + CountIf(x.check # "ok")
  BY DamageGrows
<1>7. b \in Accs
  <2>1. Scanned(LegacyFrames)
    BY DEF Scanned, LegacyFrames, EgoFrames
  <2> QED BY <1>3, <2>1, AccTyped
<1>8. x \in PassedFrames <=> Accepted(x)
  BY DEF PassedFrames, Accepted
<1> HIDE DEF r, a, b, v, w, bad
<1>9. CASE x \in PassedFrames
  <2>1. w = Append(v, x)
    BY <1>4, <1>9
  <2>2. Longer(v, x, w)
    BY <1>5, <1>9, <2>1 DEF Longer
  <2>3. Remembers(b, w)
    BY <1>1, <1>2, <2>2, RemembersMore
  <2>4. Counted(b.stats, w)
    BY <1>1, <1>2, <2>2, CountedMore
  <2>5. /\ b.stats.total = a.stats.total + 1 /\ b.stats.damaged = a.stats.damaged
        /\ b.stats.lost = a.stats.lost + LostBefore(a, x)
    BY <1>1, <1>2, <1>8, <1>9, FeedAccepted
  <2>6. CountIf(x.check # "ok") = 0
    BY <1>8, <1>9 DEF CountIf, Accepted
  <2>7. /\ SumSeq(MissedIn(v)) \in Nat
        /\ SumSeq(MissedIn(w)) = SumSeq(MissedIn(v)) + LostBefore(a, x)
    BY <1>1, <2>2, MissedGrow
  <2>8. LostBefore(a, x) \in Nat
    <3>1. x.seq \in Nat
      BY DEF LegacyFrames, EgoFrames
    <3> QED BY <1>1, <3>1, LostBeforeTyped
  <2> DEFINE m == SumSeq(MissedIn(v))
             l == LostBefore(a, x)
             p == SumSeq(MissedIn(w))
             c == Cardinality(DamagedIn(r))
  <2>9. m \in Nat /\ l \in Nat /\ p = m + l /\ c = bad + 0 /\ b.stats.lost = bad + m + l
    BY <1>1, <1>6, <2>5, <2>6, <2>7, <2>8
  <2> HIDE DEF m, l, p, c
  <2>10. c = bad /\ b.stats.lost = c + p
    BY <1>6, <2>9
  <2>11. b.stats.total = Len(r) /\ b.stats.damaged = c
    BY <1>1, <1>3, <2>5, <2>10
  <2>12. TwoPasses(r)
    BY <1>7, <2>3, <2>4, <2>10, <2>11 DEF TwoPasses, b, w, c, p
  <2> QED BY <2>12 DEF r
<1>10. CASE x \notin PassedFrames
  <2>1. w = v
    BY <1>4, <1>10
  <2>2. /\ b.first = a.first /\ b.seq = a.seq /\ b.t = a.t /\ b.audio = a.audio /\ b.imu = a.imu
        /\ b.stats.total = a.stats.total + 1 /\ b.stats.damaged = a.stats.damaged + 1
        /\ b.stats.lost = a.stats.lost + 1
        /\ b.stats.valid = a.stats.valid /\ b.stats.backward = a.stats.backward
        /\ b.stats.stamps = a.stats.stamps /\ b.stats.audio = a.stats.audio
        /\ b.stats.telemetry = a.stats.telemetry /\ b.stats.gaps = a.stats.gaps
        /\ b.stats.t_first = a.stats.t_first /\ b.stats.t_last = a.stats.t_last
    BY <1>1, <1>2, <1>8, <1>10, FeedDamaged
  <2>3. Remembers(b, w)
    BY <1>1, <2>1, <2>2 DEF Remembers
  <2>4. Counted(b.stats, w)
    BY <1>1, <2>1, <2>2 DEF Counted
  <2>5. CountIf(x.check # "ok") = 1
    BY <1>8, <1>10 DEF CountIf, Accepted
  <2>6. SumSeq(MissedIn(v)) \in Int
    BY <1>5, MissedTyped
  <2> DEFINE m == SumSeq(MissedIn(v))
             p == SumSeq(MissedIn(w))
             c == Cardinality(DamagedIn(r))
  <2>7. m \in Int /\ p = m /\ c = bad + 1 /\ b.stats.lost = (bad + m) + 1
    BY <1>1, <1>6, <2>1, <2>2, <2>5, <2>6
  <2> HIDE DEF m, p, c
  <2>8. b.stats.lost = c + p
    BY <1>6, <2>7
  <2>9. b.stats.total = Len(r) /\ b.stats.damaged = c
    BY <1>1, <1>3, <2>2, <2>7
  <2>10. TwoPasses(r)
    BY <1>7, <2>3, <2>4, <2>8, <2>9 DEF TwoPasses, b, w, c, p
  <2> QED BY <2>10 DEF r
<1> QED BY <1>9, <1>10

LEMMA TwoPassesAgree == \A s \in Seq(LegacyFrames) : TwoPasses(s)
<1> DEFINE T == {s \in Seq(LegacyFrames) : TwoPasses(s)}
<1>1. << >> \in T
  BY TwoPassesStart, EmptySeq
<1>2. ASSUME NEW s \in Seq(LegacyFrames), NEW x \in LegacyFrames, s \in T PROVE Append(s, x) \in T
  <2>1. TwoPasses(Append(s, x))
    BY <1>2, TwoPassesStep
  <2>2. Append(s, x) \in Seq(LegacyFrames)
    BY AppendProperties
  <2> QED BY <2>1, <2>2
<1> HIDE DEF T
<1>3. Seq(LegacyFrames) \subseteq T
  BY <1>1, <1>2, Fed!SeqInduction
<1> QED BY <1>3 DEF T

(* The second validator, in these terms.                                   *)
Unread(s) == {i \in DOMAIN s : ParseStatus(s[i]) # "ok"}
ValidOf(s) == Selected(s, {i \in DOMAIN s : ParseStatus(s[i]) = "ok"})

SecondPass(s, v, count) ==
  [file_ok |-> TRUE, total |-> Len(s), valid |-> Len(v),
   damaged |-> Cardinality({i \in Unread(s) : ParseStatus(s[i]) = "crc"}),
   lost |-> Cardinality(Unread(s)) + SumSeq(MissedIn(v)) + Max({0, count - Len(v)}),
   backward |-> Cardinality(Backs(v)), stamps |-> Cardinality(Zeros(v)) + Cardinality(Fars(v)),
   audio |-> Cardinality(AudioPauses(v)), telemetry |-> Cardinality(ImuPauses(v)),
   gaps |-> {Gap("damage", s[i].t, 0, "error") : i \in Unread(s)}
            \cup {Gap("timestamp", 0, 0, "error") : i \in Zeros(v)}
            \cup {Gap("timestamp", v[i].t, -(v[i].t - v[i - 1].t), "warning") : i \in Backs(v)}
            \cup {Gap("timestamp", v[i].t, v[i].t - v[i - 1].t, "warning") : i \in Fars(v)}
            \cup {Gap("seq", v[i].t, v[i].t - v[i - 1].t, SeqSeverity(Missed(v, i)))
                    : i \in Skips(v)}
            \cup {Gap("audio", v[i].t, Pause(v, AudioIn(v), i), "warning") : i \in AudioPauses(v)}
            \cup {Gap("telemetry", v[i].t, Pause(v, ImuIn(v), i), "warning") : i \in ImuPauses(v)},
   t_first |-> Earliest(v), t_last |-> Latest(v)]

Readable(c) == ~\E i \in DOMAIN c : ~c[i].present

LEMMA ValidateIs ==
  \A c, k : /\ Readable(c) => ValidateEgo(c, k) = SecondPass(Scan(c), ValidOf(Scan(c)), k)
            /\ ~Readable(c) => ~ValidateEgo(c, k).file_ok
<1> TAKE c, k
<1>1. ASSUME ~Readable(c) PROVE ~ValidateEgo(c, k).file_ok
  <2>1. ValidateEgo(c, k) = [NoStats EXCEPT !.file_ok = FALSE]
    BY <1>1, Zenon DEF ValidateEgo, Readable
  <2> QED BY <2>1 DEF NoStats
<1>2. ASSUME Readable(c) PROVE ValidateEgo(c, k) = SecondPass(Scan(c), ValidOf(Scan(c)), k)
  BY <1>2, Zenon DEF ValidateEgo, SecondPass, Readable, Unread, ValidOf, Keep, Steps, Missed,
       MissedIn, Skips, Backs, Fars, Zeros, AudioIn, ImuIn, AudioPauses, ImuPauses, Earliest,
       Latest, TimesIn
<1> QED BY <1>1, <1>2, Zenon

(* The gaps only the second pass reports.                                  *)
Marked(g) == g.type = "damage" \/ (g.type = "timestamp" /\ g.severity = "error")

LEMMA UnmarkedAre ==
  \A s, v, k : {g \in SecondPass(s, v, k).gaps : ~Marked(g)} = GapsOf(v)
<1> TAKE s, v, k
<1> DEFINE damage == {Gap("damage", s[i].t, 0, "error") : i \in Unread(s)}
           zero == {Gap("timestamp", 0, 0, "error") : i \in Zeros(v)}
           back == {Gap("timestamp", v[i].t, -(v[i].t - v[i - 1].t), "warning") : i \in Backs(v)}
           far == {Gap("timestamp", v[i].t, v[i].t - v[i - 1].t, "warning") : i \in Fars(v)}
           skip == {Gap("seq", v[i].t, v[i].t - v[i - 1].t, SeqSeverity(Missed(v, i)))
                      : i \in Skips(v)}
           audio == {Gap("audio", v[i].t, Pause(v, AudioIn(v), i), "warning")
                       : i \in AudioPauses(v)}
           imu == {Gap("telemetry", v[i].t, Pause(v, ImuIn(v), i), "warning") : i \in ImuPauses(v)}
<1>1. SecondPass(s, v, k).gaps
        = damage \cup zero \cup back \cup far \cup skip \cup audio \cup imu
  BY DEF SecondPass
<1>2. \A t, l, c : /\ Marked(Gap("damage", t, l, c)) /\ Marked(Gap("timestamp", t, l, "error"))
                   /\ ~Marked(Gap("timestamp", t, l, "warning")) /\ ~Marked(Gap("seq", t, l, c))
                   /\ ~Marked(Gap("audio", t, l, c)) /\ ~Marked(Gap("telemetry", t, l, c))
  BY DEF Marked, Gap
<1>3. /\ \A g \in damage : Marked(g)
      /\ \A g \in zero : Marked(g)
      /\ \A g \in back : ~Marked(g)
      /\ \A g \in far : ~Marked(g)
      /\ \A g \in skip : ~Marked(g)
      /\ \A g \in audio : ~Marked(g)
      /\ \A g \in imu : ~Marked(g)
  BY <1>2
<1>4. /\ back = {BackGap(v)[i] : i \in Backs(v)} /\ far = {FarGap(v)[i] : i \in Fars(v)}
      /\ skip = {SkipGap(v)[i] : i \in Skips(v)}
  <2>1. Backs(v) \subseteq DOMAIN v /\ Fars(v) \subseteq DOMAIN v /\ Skips(v) \subseteq DOMAIN v
    BY DEF Backs, Fars, Skips, Steps
  <2>2. back = {BackGap(v)[i] : i \in Backs(v)}
    BY <2>1 DEF BackGap
  <2>3. far = {FarGap(v)[i] : i \in Fars(v)}
    BY <2>1 DEF FarGap
  <2>4. skip = {SkipGap(v)[i] : i \in Skips(v)}
    BY <2>1 DEF SkipGap
  <2> QED BY <2>2, <2>3, <2>4
<1>5. /\ audio = {AudioGapAt(v)[i] : i \in AudioPauses(v)}
      /\ imu = {ImuGapAt(v)[i] : i \in ImuPauses(v)}
  <2>1. AudioPauses(v) \subseteq DOMAIN v /\ ImuPauses(v) \subseteq DOMAIN v
    BY DEF AudioPauses, ImuPauses, Pauses, AudioIn, ImuIn
  <2>2. audio = {AudioGapAt(v)[i] : i \in AudioPauses(v)}
    BY <2>1 DEF AudioGapAt
  <2>3. imu = {ImuGapAt(v)[i] : i \in ImuPauses(v)}
    BY <2>1 DEF ImuGapAt
  <2> QED BY <2>2, <2>3
<1>6. GapsOf(v) = skip \cup back \cup far \cup audio \cup imu
  BY <1>4, <1>5, Zenon DEF GapsOf
<1> HIDE DEF damage, zero, back, far, skip, audio, imu
<1> QED BY <1>1, <1>3, <1>6

(* In a log of the older format the two validators pass the same frames.   *)
LEMMA LegacyPasses ==
  \A s : s \in Seq(EgoFrames) /\ (\A i \in DOMAIN s : ~s[i].contract) =>
    /\ s \in Seq(LegacyFrames) /\ ValidOf(s) = Kept(s, PassedFrames) /\ Unread(s) = DamagedIn(s)
    /\ Cardinality(DamagedIn(s))
         = Cardinality({i \in Unread(s) : ParseStatus(s[i]) = "crc"})
           + Cardinality({i \in DOMAIN s : s[i].check = "bad"})
    /\ Cardinality({i \in Unread(s) : ParseStatus(s[i]) = "crc"}) \in Nat
    /\ Cardinality({i \in DOMAIN s : s[i].check = "bad"}) \in Nat
<1> SUFFICES ASSUME NEW s \in Seq(EgoFrames), \A i \in DOMAIN s : ~s[i].contract
             PROVE  /\ s \in Seq(LegacyFrames)
                    /\ ValidOf(s) = Kept(s, PassedFrames) /\ Unread(s) = DamagedIn(s)
                    /\ Cardinality(DamagedIn(s))
                         = Cardinality({i \in Unread(s) : ParseStatus(s[i]) = "crc"})
                           + Cardinality({i \in DOMAIN s : s[i].check = "bad"})
                    /\ Cardinality({i \in Unread(s) : ParseStatus(s[i]) = "crc"}) \in Nat
                    /\ Cardinality({i \in DOMAIN s : s[i].check = "bad"}) \in Nat
  OBVIOUS
<1> DEFINE n == Len(s)
           crc == {i \in Unread(s) : ParseStatus(s[i]) = "crc"}
           bad == {i \in DOMAIN s : s[i].check = "bad"}
<1>1. n \in Nat /\ DOMAIN s = 1..n /\ \A i \in 1..n : s[i] \in EgoFrames
  BY LenProperties, ElementOfSeq
<1>2. \A i \in 1..n : s[i] \in LegacyFrames
  BY <1>1 DEF LegacyFrames
<1>3. s \in Seq(LegacyFrames)
  <2>1. s = [i \in DOMAIN s |-> s[i]]
    BY <1>1
  <2> QED BY <1>2, <2>1, SeqOver DEF LongAs
<1>4. \A i \in 1..n : /\ ParseStatus(s[i]) = s[i].check
                      /\ s[i] \in PassedFrames <=> s[i].check = "ok"
                      /\ s[i].check \in {"ok", "crc", "bad"}
  BY <1>1, <1>2 DEF ParseStatus, PassedFrames, LegacyFrames, EgoFrames
<1> HIDE DEF n
<1>5. {i \in DOMAIN s : ParseStatus(s[i]) = "ok"} = {i \in DOMAIN s : s[i] \in PassedFrames}
  BY <1>1, <1>4
<1>6. ValidOf(s) = Kept(s, PassedFrames)
  BY <1>5, Zenon DEF ValidOf, Kept
<1>7. Unread(s) = DamagedIn(s)
  BY <1>1, <1>4 DEF Unread, DamagedIn
<1>8. DamagedIn(s) = crc \cup bad /\ crc \cap bad = {}
  <2>1. \A i \in 1..n : /\ i \in DamagedIn(s) <=> s[i].check # "ok"
                        /\ i \in crc <=> s[i].check = "crc"
                        /\ i \in bad <=> s[i].check = "bad"
    BY <1>1, <1>4 DEF Unread, DamagedIn
  <2>2. DamagedIn(s) \subseteq 1..n /\ crc \subseteq 1..n /\ bad \subseteq 1..n
    BY <1>1 DEF Unread, DamagedIn
  <2> HIDE DEF crc, bad
  <2> QED BY <1>4, <2>1, <2>2
<1>9. IsFiniteSet(crc) /\ IsFiniteSet(bad)
  <2>1. crc \subseteq 1..n /\ bad \subseteq 1..n
    BY <1>1 DEF Unread
  <2>2. IsFiniteSet(1..n)
    BY <1>1, FS_Interval
  <2> HIDE DEF crc, bad
  <2>3. IsFiniteSet(crc)
    BY <2>1, <2>2, FS_Subset
  <2>4. IsFiniteSet(bad)
    BY <2>1, <2>2, FS_Subset
  <2> QED BY <2>3, <2>4
<1> HIDE DEF crc, bad
<1>10. /\ Cardinality(crc) \in Nat /\ Cardinality(bad) \in Nat
       /\ Cardinality(crc \cup bad) = Cardinality(crc) + Cardinality(bad)
  <2>1. Cardinality(crc) \in Nat /\ Cardinality(bad) \in Nat
    BY <1>9, FS_CardinalityType
  <2>2. Cardinality(crc \cup bad)
          = Cardinality(crc) + Cardinality(bad) - Cardinality(crc \cap bad)
    BY <1>9, FS_Union
  <2>3. Cardinality(crc \cap bad) = 0
    BY <1>8, FS_EmptySet
  <2> QED BY <2>1, <2>2, <2>3
<1> QED BY <1>3, <1>6, <1>7, <1>8, <1>10 DEF crc, bad

(* What the accumulator finds while the log is scanned is what the         *)
(* validator it replaced finds in two passes, but for what is named        *)
(* (pipeline.cpp:37, log_validator.cpp:66).                                *)
THEOREM SinglePassHolds == PipelineSpec => []SinglePassAgrees
<1> DEFINE two == ValidateEgo(Chunks, session.count)
           one == validation.ego
           f == Frames
           v == ValidOf(f)
           a == Acc(f)
           bad == {i \in DOMAIN f : f[i].check = "bad"}
           crc == {i \in Unread(f) : ParseStatus(f[i]) = "crc"}
<1>1. ASSUME DataInv, Validated, \A i \in DOMAIN Frames : ~Frames[i].contract,
             two.file_ok, one.file_ok
      PROVE  /\ \A c \in Counters : one[c] = two[c]
             /\ one.damaged = two.damaged + Cardinality(bad)
             /\ two.lost = one.lost + Max({0, session.count - two.valid})
             /\ one.gaps = {g \in two.gaps : ~Marked(g)}
  <2>1. one = EgoStats
    BY <1>1, ReportIs DEF DataInv, Validated
  <2>2. f \in Seq(EgoFrames)
    BY <1>1, FramesTyped, SessionsAssumption DEF DataInv
  <2>3. EgoStats = [a.stats EXCEPT !.file_ok = (Chunks # << >>)]
    BY <2>2, StatsOf, FramesScanned DEF EgoStats
  <2>4. /\ f \in Seq(LegacyFrames) /\ v = Kept(f, PassedFrames) /\ Unread(f) = DamagedIn(f)
        /\ Cardinality(DamagedIn(f)) = Cardinality(crc) + Cardinality(bad)
        /\ Cardinality(crc) \in Nat /\ Cardinality(bad) \in Nat
    BY <1>1, <2>2, LegacyPasses
  <2>5. two = SecondPass(f, v, session.count)
    <3>1. Readable(Chunks)
      BY <1>1, ValidateIs
    <3> QED BY <3>1, ValidateIs, Zenon DEF Frames
  <2>6. TwoPasses(f)
    BY <2>4, TwoPassesAgree
  <2> HIDE DEF two, f, v, a, bad, crc
  <2>7. /\ a \in Accs /\ Counted(a.stats, v)
        /\ a.stats.total = Len(f) /\ a.stats.damaged = Cardinality(Unread(f))
        /\ a.stats.lost = Cardinality(Unread(f)) + SumSeq(MissedIn(v))
    BY <2>4, <2>6 DEF TwoPasses, a
  <2>8. /\ one.total = a.stats.total /\ one.valid = a.stats.valid
        /\ one.damaged = a.stats.damaged /\ one.lost = a.stats.lost
        /\ one.backward = a.stats.backward /\ one.stamps = a.stats.stamps
        /\ one.audio = a.stats.audio /\ one.telemetry = a.stats.telemetry
        /\ one.gaps = a.stats.gaps
        /\ one.t_first = a.stats.t_first /\ one.t_last = a.stats.t_last
    <3>1. a.stats \in Stats
      BY <2>7 DEF Accs
    <3> QED BY <2>1, <2>3, <3>1 DEF Stats
  <2>9. /\ two.total = Len(f) /\ two.valid = Len(v)
        /\ two.damaged = Cardinality(crc)
        /\ two.lost = Cardinality(Unread(f)) + SumSeq(MissedIn(v))
                      + Max({0, session.count - Len(v)})
        /\ two.backward = Cardinality(Backs(v))
        /\ two.stamps = Cardinality(Zeros(v)) + Cardinality(Fars(v))
        /\ two.audio = Cardinality(AudioPauses(v)) /\ two.telemetry = Cardinality(ImuPauses(v))
        /\ two.t_first = Earliest(v) /\ two.t_last = Latest(v)
    BY <2>5 DEF SecondPass, crc
  <2>10. {g \in two.gaps : ~Marked(g)} = GapsOf(v)
    BY <2>5, UnmarkedAre, Zenon
  <2>11. \A c \in Counters : one[c] = two[c]
    BY <2>7, <2>8, <2>9 DEF Counters, Counted
  <2>12. one.damaged = two.damaged + Cardinality(bad)
    BY <2>4, <2>7, <2>8, <2>9
  <2>13. two.lost = one.lost + Max({0, session.count - two.valid})
    BY <2>7, <2>8, <2>9
  <2>14. one.gaps = {g \in two.gaps : ~Marked(g)}
    BY <2>7, <2>8, <2>10 DEF Counted
  <2> QED BY <2>11, <2>12, <2>13, <2>14 DEF f
<1>2. DataInv => SinglePassAgrees
  BY <1>1, Zenon DEF SinglePassAgrees, Marked
<1> QED BY <1>2, ResultsAreOfTheLogs, PTL
=============================================================================
