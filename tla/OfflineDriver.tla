--------------------------- MODULE OfflineDriver ----------------------------
(***************************************************************************)
(* Runs of ego-offline over one session and one output directory           *)
(* (offline/src/main.cpp, pipeline/pipeline.cpp, upload): the stages of a  *)
(* run in their order, where it may leave early, the files it leaves, and  *)
(* the upload of what is in the directory.                                 *)
(*                                                                         *)
(* What the stages find in the logs is a parameter of their actions: any   *)
(* verdict here, the verdict of the data in OfflinePipeline.               *)
(***************************************************************************)
EXTENDS Naturals, Sequences

CONSTANTS
  Commands,     (* the command lines, with the configuration each reads    *)
  MaxRuns,      (* bound: runs of the program                              *)
  MaxFaults,    (* bound: failed writes, failed uploads, kills             *)
  MaxRetries    (* s3.max_retries                                          *)

(* A command line: "process", "validate", "export" or "upload", with the   *)
(* value of --only, and the settings that steer the run.                   *)
Command ==
  [command : {"process", "validate", "export", "upload"},
   only : {"none", "validate", "sync", "mdf4", "scenes"},
   skip_s3 : BOOLEAN, dry_run : BOOLEAN, enabled : BOOLEAN, configured : BOOLEAN,
   fail_valid : BOOLEAN, fail_sync : BOOLEAN,
   require_mdf4 : BOOLEAN, require_success : BOOLEAN]

ASSUME DriverAssumption ==
  /\ Commands \subseteq Command
  /\ MaxRuns \in Nat /\ MaxFaults \in Nat /\ MaxRetries \in Nat

(* s3.include_files, in its order, without the manifest, which is skipped. *)
Include ==
  <<"mdf4", "sidecar", "session_report", "validation_report", "sync_report",
    "scene_events", "scene_segments", "data_quality_report", "events_report">>

Outputs == {Include[i] : i \in 1..9}
Files == Outputs \cup {"upload_manifest", "upload_report"}

VARIABLES
  run,        (* which run is the latest; 0 before the first               *)
  cmd,        (* its command line                                          *)
  stage,      (* where it is; "exited" when it is over                     *)
  errors,     (* whether the list of errors is not empty                   *)
  integrity,  (* verdict of the validation                                 *)
  sync,       (* status of the synchronisation                             *)
  out,        (* the output directory: the run that wrote each file, and   *)
              (* whether it was written to its end                         *)
  report,     (* content of session_report.json                            *)
  bucket,     (* the run whose version of each file is in the bucket       *)
  upload,     (* the upload under way: next file, attempts, all well       *)
  exit,       (* exit code of the last run                                 *)
  faults

run_vars  == <<run, cmd>>
file_vars == <<out, report>>
vars == <<run, cmd, stage, errors, integrity, sync, out, report, bucket, upload, exit, faults>>

NoFile == [run |-> 0, whole |-> FALSE]
NoUpload == [next |-> 1, attempt |-> 0, all_ok |-> TRUE]

(* The budget of faults may be spent in part, or wholly, from the start.   *)
Init ==
  /\ run = 0 /\ cmd \in Commands /\ stage = "exited" /\ exit = "none" /\ errors = FALSE
  /\ integrity = "none" /\ sync = "none"
  /\ out = [f \in Files |-> NoFile] /\ report = [status |-> "unknown", mdf4 |-> FALSE]
  /\ bucket = [f \in Outputs |-> 0] /\ upload = NoUpload
  /\ faults \in 0..MaxFaults

-----------------------------------------------------------------------------
Exists(f) == out[f].run > 0

OnlyValidate == cmd.command = "validate" \/ cmd.only = "validate"

(* export-mdf4 sets only_mdf4, which has no effect but on the upload.      *)
WithMdf4 == cmd.only # "scenes"
WantsUpload == cmd.command = "process" /\ cmd.only = "none" /\ ~cmd.skip_s3 /\ cmd.enabled

Exit(code) == stage' = "exited" /\ exit' = code
Goto(next) == stage' = next /\ UNCHANGED exit

Fault == faults < MaxFaults /\ faults' = faults + 1

(* A file is written by an ofstream: a failure to open throws, which ends  *)
(* the program here, a short write is not noticed, and a program killed in *)
(* between leaves a torn file.                                             *)
Whole(f)  == out' = [out EXCEPT ![f] = [run |-> run, whole |-> TRUE]] /\ UNCHANGED faults
Short(f)  == out' = [out EXCEPT ![f] = [run |-> run, whole |-> FALSE]] /\ Fault
Written(f) == Whole(f) \/ Short(f)
NotOpened == Exit("abort") /\ Fault /\ UNCHANGED out
Torn(f)   == Short(f) /\ Exit("abort")

-----------------------------------------------------------------------------
(* The user starts a run.                                                  *)
Begin(c) ==
  /\ stage = "exited" /\ run < MaxRuns
  /\ run' = run + 1 /\ cmd' = c
  /\ stage' = IF c.command = "upload" THEN "gate" ELSE "metadata"
  /\ errors' = FALSE /\ integrity' = "none" /\ sync' = "none" /\ upload' = NoUpload
  /\ exit' = "none"
  /\ UNCHANGED <<file_vars, bucket, faults>>

(* Stage 1: bad metadata is an error of the run, and no reason to stop.    *)
LoadMetadata(ok) ==
  /\ stage = "metadata"
  /\ errors' = (~ok /\ ~OnlyValidate)
  /\ Goto("manifest")
  /\ UNCHANGED <<run_vars, integrity, sync, file_vars, bucket, upload, faults>>

(* Stage 2: a bad manifest is.                                             *)
LoadManifest(ok) ==
  /\ stage = "manifest"
  /\ IF ok THEN Goto("validation")
           ELSE Exit(IF OnlyValidate THEN "validation_error" ELSE "internal_error")
  /\ UNCHANGED <<run_vars, errors, integrity, sync, file_vars, bucket, upload, faults>>

(* Stages 2 to 4: both logs are scanned and the validation report written. *)
WriteValidation(verdict) ==
  LET f == "validation_report"
      After == IF verdict = "failed" /\ cmd.fail_valid THEN Exit("validation_error")
               ELSE IF OnlyValidate THEN Exit("success") ELSE Goto("sync")
  IN  /\ stage = "validation" /\ integrity' = verdict
      /\ \/ Written(f) /\ After
         \/ NotOpened
         \/ Torn(f)
      /\ UNCHANGED <<run_vars, errors, sync, report, bucket, upload>>

(* Stage 5.  The offset is applied and, unless --only sync ends the run,   *)
(* the samples aligned and the geometry computed.                          *)
WriteSync(status) ==
  LET f == "sync_report"
      After == IF status = "failed" /\ cmd.fail_sync THEN Exit("sync_error")
               ELSE IF cmd.only = "sync" THEN Exit("success")
               ELSE Goto(IF WithMdf4 THEN "mdf4" ELSE "scene_events")
  IN  /\ stage = "sync" /\ sync' = status
      /\ \/ Written(f) /\ After
         \/ NotOpened
         \/ Torn(f)
      /\ UNCHANGED <<run_vars, errors, integrity, report, bucket, upload>>

(* Deviation: the failure is not put in the list of errors.                *)
WriteMdf4Silently ==
  /\ stage = "mdf4"
  /\ \/ Written("mdf4") /\ Goto("sidecar") /\ UNCHANGED errors
     \/ Fault /\ UNCHANGED errors /\ Goto("scene_events") /\ UNCHANGED out
  /\ UNCHANGED <<run_vars, integrity, sync, report, bucket, upload>>

(* Deviation: a failed attempt removes the file that is there.             *)
WriteMdf4InPlace ==
  /\ stage = "mdf4"
  /\ \/ Written("mdf4") /\ Goto("sidecar") /\ UNCHANGED errors
     \/ Fault /\ errors' = TRUE /\ Goto("scene_events") /\ out' = [out EXCEPT !["mdf4"] = NoFile]
  /\ UNCHANGED <<run_vars, integrity, sync, report, bucket, upload>>

(* Stage 8: the file is written under another name and renamed, so that a  *)
(* failure the stream reports leaves the file of an earlier run.           *)
WriteMdf4 ==
  /\ stage = "mdf4"
  /\ \/ Written("mdf4") /\ Goto("sidecar") /\ UNCHANGED errors
     \/ Fault /\ errors' = TRUE /\ Goto("scene_events") /\ UNCHANGED out
  /\ UNCHANGED <<run_vars, integrity, sync, report, bucket, upload>>

(* The checksum follows a file that is valid; whether either succeeds is   *)
(* not looked at.                                                          *)
WriteSidecar ==
  /\ stage = "sidecar"
  /\ \/ Written("sidecar")
     \/ Fault /\ UNCHANGED out
     \/ UNCHANGED <<out, faults>> /\ ~out["mdf4"].whole
  /\ Goto("scene_events")
  /\ UNCHANGED <<run_vars, errors, integrity, sync, report, bucket, upload>>

(* Stages 9 and 10: the files of the scenes, then the reports.             *)
NextReport ==
  [scene_events |-> "scene_segments", scene_segments |-> "session_report",
   session_report |-> "data_quality_report", data_quality_report |-> "events_report",
   events_report |-> "finish"]

(* ReportBuilder::build_session_report                                     *)
SessionStatus ==
  IF ~errors /\ integrity # "failed" /\ sync # "failed" THEN "success"
  ELSE IF errors \/ integrity = "warning" \/ sync = "degraded" THEN "partial" ELSE "failed"

(* report names the measurement file if this run wrote one.                *)
NewReport ==
  IF stage = "session_report"
  THEN [status |-> SessionStatus, mdf4 |-> WithMdf4 /\ out["mdf4"].run = run]
  ELSE report

WriteReport ==
  /\ stage \in DOMAIN NextReport
  /\ \/ Written(stage) /\ Goto(NextReport[stage]) /\ report' = NewReport
     \/ NotOpened /\ UNCHANGED report
     \/ Torn(stage) /\ report' = NewReport
  /\ UNCHANGED <<run_vars, errors, integrity, sync, bucket, upload>>

(* The end of run_full: the upload, if it is wanted, and the exit code.    *)
FinalCode == IF errors THEN "internal_error" ELSE "success"

Finish ==
  /\ stage = "finish"
  /\ IF WantsUpload THEN Goto("gate") ELSE Exit(FinalCode)
  /\ UNCHANGED <<run_vars, errors, integrity, sync, file_vars, bucket, upload, faults>>

-----------------------------------------------------------------------------
(* upload_session.  Its answer is the exit code of the command "upload";   *)
(* after a run of the pipeline success, and a block in a dry run, leave    *)
(* the code of the pipeline.                                               *)
UploadCode(code) ==
  IF cmd.command = "upload" THEN code
  ELSE IF code = "success" \/ (code = "upload_blocked" /\ cmd.dry_run) THEN FinalCode ELSE code

(* The report of the upload is written without any check.                  *)
WriteUploadReport == Written("upload_report") \/ (Fault /\ UNCHANGED out)

(* A report that is cut may hold the status or not.                        *)
StatusRead == IF out["session_report"].whole \/ ~Exists("session_report")
              THEN {report.status} ELSE {report.status, ""}

GateAllowed(status) ==
  /\ cmd.require_mdf4 => Exists("mdf4")
  /\ cmd.require_success => status = "success"
  /\ cmd.configured

(* Of a measurement file that is cut nothing may be left: an empty file    *)
(* counts as missing.                                                      *)
MayBeEmpty(f) == Exists(f) /\ ~out[f].whole

Gate ==
  /\ stage = "gate"
  /\ \E status \in StatusRead :
       \/ /\ ~GateAllowed(status) \/ (cmd.require_mdf4 /\ MayBeEmpty("mdf4"))
          /\ WriteUploadReport /\ Exit(UploadCode("upload_blocked"))
       \/ /\ GateAllowed(status) /\ \A f \in Outputs : ~Exists(f)
          /\ WriteUploadReport /\ Exit(UploadCode("upload_failed"))
       \/ /\ GateAllowed(status) /\ (\E f \in Outputs : Exists(f)) /\ cmd.dry_run
          /\ WriteUploadReport /\ Exit(UploadCode("success"))
       \/ /\ GateAllowed(status) /\ (\E f \in Outputs : Exists(f)) /\ ~cmd.dry_run
          /\ Goto("put") /\ UNCHANGED <<out, faults>>
  /\ UNCHANGED <<run_vars, errors, integrity, sync, report, bucket, upload>>

NextFile == [upload EXCEPT !.next = @ + 1, !.attempt = 0]

(* Deviation: only the last file decides.                                  *)
GiveUpForgotten == [upload EXCEPT !.next = @ + 1, !.attempt = 0, !.all_ok = (@ /\ upload.next < 9)]

GiveUp   == [upload EXCEPT !.next = @ + 1, !.attempt = 0, !.all_ok = FALSE]

(* Deviation: one attempt more than the retries.                           *)
MayRetryOnce == upload.attempt <= MaxRetries

MayRetry == upload.attempt < MaxRetries

(* upload_file_batch: one attempt to put one file.  The answer 403 or 404  *)
(* is final, any other failure is tried again.                             *)
PutFile ==
  LET f == Include[upload.next]
  IN  /\ stage = "put" /\ upload.next <= Len(Include)
      /\ \/ /\ ~Exists(f)
            /\ upload' = NextFile /\ UNCHANGED <<bucket, faults>>
         \/ /\ Exists(f)
            /\ upload' = NextFile /\ bucket' = [bucket EXCEPT ![f] = out[f].run]
            /\ UNCHANGED faults
         \/ /\ Exists(f) /\ Fault
            /\ \/ upload' = GiveUp
               \/ /\ MayRetry
                  /\ upload' = [upload EXCEPT !.attempt = @ + 1]
            /\ UNCHANGED bucket
      /\ UNCHANGED <<run_vars, stage, errors, integrity, sync, file_vars, exit>>

(* The manifest and the report of the upload.                              *)
FinishUpload ==
  /\ stage = "put" /\ upload.next > Len(Include)
  /\ Written("upload_manifest") \/ (Fault /\ UNCHANGED out)
  /\ Goto("upload_report")
  /\ UNCHANGED <<run_vars, errors, integrity, sync, report, bucket, upload>>

ReportUpload ==
  /\ stage = "upload_report"
  /\ WriteUploadReport
  /\ Exit(UploadCode(IF upload.all_ok THEN "success" ELSE "upload_failed"))
  /\ UNCHANGED <<run_vars, errors, integrity, sync, report, bucket, upload>>

(* The program is killed.                                                  *)
Kill ==
  /\ stage # "exited"
  /\ Exit("abort") /\ Fault
  /\ UNCHANGED <<run_vars, errors, integrity, sync, file_vars, bucket, upload>>

Ended == stage = "exited" /\ run = MaxRuns /\ UNCHANGED vars

Verdicts == {"ok", "warning", "failed"}
Statuses == {"ok", "degraded", "failed"}

Next ==
  \/ \E c \in Commands : Begin(c)
  \/ \E ok \in BOOLEAN : LoadMetadata(ok) \/ LoadManifest(ok)
  \/ \E verdict \in Verdicts : WriteValidation(verdict)
  \/ \E status \in Statuses : WriteSync(status)
  \/ WriteMdf4 \/ WriteSidecar \/ WriteReport \/ Finish
  \/ Gate \/ PutFile \/ FinishUpload \/ ReportUpload
  \/ Kill \/ Ended

Spec == Init /\ [][Next]_vars
-----------------------------------------------------------------------------
Stages ==
  {"metadata", "manifest", "validation", "sync", "mdf4", "sidecar", "finish", "gate", "put",
   "upload_report", "exited"} \cup DOMAIN NextReport

Codes ==
  {"none", "success", "validation_error", "sync_error", "internal_error", "upload_failed",
   "upload_blocked", "abort"}

(* The variables keep their types, and no file claims a run that has not   *)
(* begun (pipeline.cpp:269-550).                                           *)
DriverTypeOK ==
  /\ run \in 0..MaxRuns /\ cmd \in Commands /\ stage \in Stages /\ exit \in Codes
  /\ errors \in BOOLEAN /\ faults \in 0..MaxFaults
  /\ integrity \in Verdicts \cup {"none"} /\ sync \in Statuses \cup {"none"}
  /\ out \in [Files -> [run : 0..run, whole : BOOLEAN]]
  /\ report \in [status : {"success", "partial", "failed", "unknown"}, mdf4 : BOOLEAN]
  /\ bucket \in [Outputs -> 0..run]
  /\ upload \in [next : 1..10, attempt : 0..MaxRetries, all_ok : BOOLEAN]

(* A run that goes to its end and exits with success has written every     *)
(* file it is to write, so that no file of an earlier run is left among    *)
(* the results; only the checksum, whose failure is ignored, may be older  *)
(* (pipeline.cpp:378-550; early returns leave older files).                *)
ToTheEnd == cmd.command \in {"process", "export"} /\ cmd.only \notin {"validate", "sync"}

SuccessIsFresh ==
  stage = "exited" /\ exit = "success" /\ ToTheEnd =>
    /\ \A f \in Outputs \ {"mdf4", "sidecar"} : out[f].run = run
    /\ WithMdf4 => out["mdf4"].run = run
    /\ report.mdf4 = WithMdf4

(* A run that was to upload and exits with success has put every file that *)
(* is in the output directory into the bucket, in the version that is in   *)
(* the directory, however often single files failed and were tried again   *)
(* (s3_uploader.cpp:213-330).                                              *)
UploadComplete ==
  stage = "exited" /\ exit = "success" /\ (cmd.command = "upload" \/ WantsUpload) /\ ~cmd.dry_run =>
    \A f \in Outputs : Exists(f) => bucket[f] = out[f].run

(* A session report that names a measurement file is never left without    *)
(* it: the file there is of the run that wrote the report or of a later    *)
(* one, whatever fails in between (mdf4_lib_adapter.cpp:426-454, "Writes   *)
(* to a temp file first, then renames").                                   *)
NamedFileStays ==
  report.mdf4 => out["mdf4"].run >= out["session_report"].run
=============================================================================
