--------------------------- MODULE RuntimeService ---------------------------
(***************************************************************************)
(* The recorder daemon (runtimepc/src/runtime_service.cpp with the session *)
(* manager, the packet buffer and the run loop of main.cpp), in daemon     *)
(* mode: frames come from the contract TCP client, not from an input file. *)
(*                                                                         *)
(* Four threads call into RuntimeService and have a program counter each:  *)
(*   main     RunDaemon: start, wait for a signal, stop, join              *)
(*   client   the receive thread of ContractTcpClient: OnContractFrame     *)
(*   control  the ControlServer thread: START and STOP commands            *)
(*   storage  the StorageMonitor thread: EmergencyStop                     *)
(* and two are owned by it: the writer thread (WriterLoop) and the report  *)
(* thread (ReportLoop), started, joined and started again by whichever of  *)
(* the four finalises a session.                                           *)
(*                                                                         *)
(* service_mu_ is held for the whole of StartRecording and StopRecording   *)
(* and by nothing else; each of the other objects locks itself, so a call  *)
(* on one of them is one step.  A frame is a number, its place in the      *)
(* order of arrival.                                                       *)
(***************************************************************************)
EXTENDS Naturals, Sequences, FiniteSets

CONSTANTS
  MaxFrames,    (* bound: frames received in one behaviour                 *)
  Capacity,     (* packet_buffer_capacity                                  *)
  Kinds,        (* kinds of frame the peer sends                           *)
  AutoStart,    (* auto_start_on_session_started                           *)
  Commands,     (* control commands the operator sends                     *)
  MaxCommands,  (* bound: control commands in one behaviour                *)
  MaxAlerts,    (* bound: critical storage alerts in one behaviour         *)
  MaxFaults     (* bound: failures of the file system in one behaviour     *)

ASSUME ServiceAssumption ==
  /\ MaxFrames \in Nat /\ Capacity \in Nat
  /\ Kinds \subseteq {"data", "started", "ended"}
  /\ AutoStart \in BOOLEAN
  /\ Commands \subseteq {"START", "STOP"}
  /\ MaxCommands \in Nat /\ MaxAlerts \in Nat /\ MaxFaults \in Nat

Frames   == 1..MaxFrames
Threads  == {"main", "client", "control", "storage"}
Free     == "free"

(* A session starts on the main thread, on a SESSION_STARTED frame (from   *)
(* Idle only, so at most once) or on a START command.                      *)
Sessions == 1..(MaxCommands + 2)

(* The buffer of a session, with packets of one byte: the byte limit is    *)
(* the subject of PacketBufferSpec.                                        *)
PB == INSTANCE PacketBuffer
        WITH Packet <- Frames, SizeOf <- [f \in Frames |-> 1], MaxBytes <- MaxFrames
NoBuffer == [queue |-> << >>]

VARIABLES
  pc,             (* what each of the four threads does next               *)
  mu,             (* service_mu_: the thread that holds it, or Free        *)
  state,          (* SessionManager::State()                               *)
  sid,            (* the active session, by number; 0 before the first     *)
  finalizing,     (* finalize_in_progress_                                 *)
  buffer,         (* buffer_: a packet buffer, or NoBuffer                 *)
  writer,         (* writer_: the session it writes to; 0 when null        *)
  chunk,          (* chunk_stream_ of each session's ChunkWriter           *)
  disk,           (* frames in each session's chunk files                  *)
  stop_threads,   (* stop_threads_                                         *)
  daemon_running, (* daemon_running_                                       *)
  wthread,        (* writer_thread_: "none" when not joinable, "done" when *)
                  (* it returned and waits to be joined, else its place    *)
  seen,           (* the session state WriterLoop read last                *)
  held,           (* the packet WriterLoop popped, and the writer it binds *)
  rthread,        (* report_thread_; "tmp" while its .tmp file exists      *)
  frame,          (* the frame OnContractFrame works on                    *)
  received,       (* frames received so far                                *)
  saved,          (* sessions whose session_metadata.json is written       *)
  summary,        (* sessions with a final_runtime_summary.json            *)
  triggered,      (* runs of the offline pipeline started per session      *)
  pushed,         (* history: the session recording when a frame was       *)
                  (* pushed, 0 when none was or it was not pushed          *)
  evicted,        (* history: frames the buffer dropped                    *)
  failed,         (* history: frames whose write failed, with the session  *)
  commands, alerts, faults   (* how much of each bound is used             *)

sessionVars == <<state, sid, finalizing, saved, summary, triggered>>
bufferVars  == <<buffer, writer, evicted>>
fileVars    == <<chunk, disk, failed, faults>>
flagVars    == <<stop_threads, daemon_running>>
workerVars  == <<wthread, seen, held, rthread>>
clientVars  == <<frame, received, pushed>>
envVars     == <<commands, alerts>>
vars == <<pc, mu, sessionVars, bufferVars, fileVars, flagVars, workerVars,
          clientVars, envVars>>

(* The places of StartRecording and of StopRecording with service_mu_ held.*)
Starting  == {"start_buffer", "start_writer", "start_open"}
Finishing == {"stop_wait", "join_writer", "join_report", "drain", "close", "mark",
              "summary", "reset", "trigger", "restart"}
Calling   == {"start", "stop"} \cup Starting \cup Finishing

(* The places of each thread outside these two functions.                  *)
Places ==
  [main    |-> {"m_client", "m_storage", "m_threads", "m_control", "wait", "d_flag",
                "d_control", "d_client", "d_storage", "d_writer", "d_report", "exited"},
   client  |-> {"none", "recv", "accept", "check", "push", "gone"},
   control |-> {"none", "serve", "gone"},
   storage |-> {"none", "watch", "gone"}]

Goto(t, label) == pc' = [pc EXCEPT ![t] = label]
Move(t, from, to) == pc[t] = from /\ Goto(t, to)

(* The C++ runtime terminates the process and every thread in it.          *)
Crash ==
  /\ pc' = [t \in Threads |-> "crashed"]
  /\ wthread' = "none" /\ rthread' = "none"

-----------------------------------------------------------------------------
(* The receive loop reads the next frame unless Stop() has asked it to end.*)
NextFrame == IF pc["main"] = "d_client" THEN "gone" ELSE "recv"

(* ServeLoop takes the next command unless Stop() has asked it to end.     *)
NextCommand == IF pc["main"] = "d_control" THEN "gone" ELSE "serve"

(* Where a thread continues when StartRecording and StopRecording return.  *)
AfterStart(t, ok) ==
  [main    |-> IF ok THEN "wait" ELSE "d_flag",
   client  |-> "accept", control |-> NextCommand, storage |-> "watch"][t]

AfterStop(t) ==
  [main    |-> "d_flag",
   client  |-> NextFrame, control |-> NextCommand, storage |-> "watch"][t]

(* Writing frame f through the ChunkWriter of session s.  A writer whose   *)
(* file is not open opens it, truncating what it finds (RotateIfNeeded,    *)
(* OpenChunk); a stream that failed keeps failing until a rotation opens   *)
(* the next file.                                                          *)
WriteSucceeds(s, f) ==
  /\ chunk' = [chunk EXCEPT ![s] = "open"]
  /\ disk' = [disk EXCEPT ![s] = IF chunk[s] = "closed" THEN <<f>> ELSE Append(@, f)]
  /\ UNCHANGED <<failed, faults>>

WriteFails(s, f) ==
  /\ \/ chunk[s] = "bad" /\ UNCHANGED faults
     \/ chunk[s] # "bad" /\ faults < MaxFaults /\ faults' = faults + 1
  /\ chunk' = [chunk EXCEPT ![s] = IF @ = "open" THEN "bad" ELSE @]
  /\ failed' = failed \cup {<<f, s>>}
  /\ UNCHANGED disk

-----------------------------------------------------------------------------
(* StartRecording                                                          *)

StartBusy(t) ==
  /\ Move(t, "start", AfterStart(t, FALSE))
  /\ mu = Free
  /\ state = "Recording"
  /\ UNCHANGED <<mu, sessionVars, bufferVars, fileVars, flagVars, workerVars,
                 clientVars, envVars>>

(* SessionManager::Start accepts any state but Recording.                  *)
StartSession(t) ==
  /\ Move(t, "start", "start_buffer")
  /\ mu = Free
  /\ state # "Recording"
  /\ mu' = t
  /\ state' = "Recording"
  /\ sid' = sid + 1
  /\ UNCHANGED <<finalizing, saved, summary, triggered, bufferVars, fileVars,
                 flagVars, workerVars, clientVars, envVars>>

StartBuffer(t) ==
  /\ Move(t, "start_buffer", "start_writer")
  /\ buffer' = PB!EmptyBuffer
  /\ UNCHANGED <<mu, sessionVars, writer, evicted, fileVars, flagVars,
                 workerVars, clientVars, envVars>>

StartWriter(t) ==
  /\ Move(t, "start_writer", "start_open")
  /\ writer' = sid
  /\ UNCHANGED <<mu, sessionVars, buffer, evicted, fileVars, flagVars,
                 workerVars, clientVars, envVars>>

(* ChunkWriter::Open creates the first chunk file.                         *)
StartOpened(t) ==
  /\ Move(t, "start_open", AfterStart(t, TRUE))
  /\ chunk[sid] = "none"
  /\ chunk' = [chunk EXCEPT ![sid] = "open"]
  /\ mu' = Free
  /\ UNCHANGED <<sessionVars, bufferVars, disk, failed, faults, flagVars,
                 workerVars, clientVars, envVars>>

(* Open fails on a file system error, and on a stream that the writer      *)
(* thread has opened before it: the second open marks the stream bad.      *)
StartNotOpened(t) ==
  /\ Move(t, "start_open", AfterStart(t, FALSE))
  /\ \/ chunk[sid] = "none" /\ faults < MaxFaults /\ faults' = faults + 1
     \/ chunk[sid] # "none" /\ UNCHANGED faults
  /\ chunk' = [chunk EXCEPT ![sid] = IF @ = "none" THEN @ ELSE "bad"]
  /\ state' = "Error"
  /\ mu' = Free
  /\ UNCHANGED <<sid, finalizing, saved, summary, triggered, bufferVars, disk,
                 failed, flagVars, workerVars, clientVars, envVars>>

-----------------------------------------------------------------------------
(* StopRecording and FinalizeActiveSession                                 *)

StopRefused(t) ==
  /\ Move(t, "stop", AfterStop(t))
  /\ mu = Free
  /\ finalizing \/ state \notin {"Recording", "Stopping"}
  /\ UNCHANGED <<mu, sessionVars, bufferVars, fileVars, flagVars, workerVars,
                 clientVars, envVars>>

(* Deviation: the state is not checked. *)
StopAcceptedAgain(t) ==
  /\ Move(t, "stop", "stop_wait")
  /\ mu = Free
  /\ ~finalizing
  /\ mu' = t
  /\ finalizing' = TRUE
  /\ state' = "Stopping"
  /\ UNCHANGED <<sid, saved, summary, triggered, bufferVars, fileVars, flagVars,
                 workerVars, clientVars, envVars>>


StopAccepted(t) ==
  /\ Move(t, "stop", "stop_wait")
  /\ mu = Free
  /\ ~finalizing
  /\ state \in {"Recording", "Stopping"}
  /\ mu' = t
  /\ finalizing' = TRUE
  /\ state' = "Stopping"
  /\ UNCHANGED <<sid, saved, summary, triggered, bufferVars, fileVars, flagVars,
                 workerVars, clientVars, envVars>>

(* Deviation: the threads are not told to stop. *)
StopWaitNoFlag(t) ==
  /\ Move(t, "stop_wait", "join_writer")
  /\ stop_threads' = stop_threads
  /\ UNCHANGED <<mu, sessionVars, bufferVars, fileVars, daemon_running,
                 workerVars, clientVars, envVars>>


(* The wait for an empty buffer gives up after five seconds, so it ends    *)
(* whatever the buffer holds.                                              *)
StopWaitOver(t) ==
  /\ Move(t, "stop_wait", "join_writer")
  /\ stop_threads' = TRUE
  /\ UNCHANGED <<mu, sessionVars, bufferVars, fileVars, daemon_running,
                 workerVars, clientVars, envVars>>

(* Deviation: the writer thread is not waited for. *)
DetachWriter(t) ==
  /\ Move(t, "join_writer", "join_report")
  /\ wthread' = wthread
  /\ UNCHANGED <<mu, sessionVars, bufferVars, fileVars, flagVars, seen, held,
                 rthread, clientVars, envVars>>


JoinWriter(t) ==
  /\ Move(t, "join_writer", "join_report")
  /\ wthread \in {"none", "done"}
  /\ wthread' = "none"
  /\ UNCHANGED <<mu, sessionVars, bufferVars, fileVars, flagVars, seen, held,
                 rthread, clientVars, envVars>>

(* Deviation: the report thread is not waited for. *)
DetachReport(t) ==
  /\ Move(t, "join_report", "drain")
  /\ rthread' = rthread
  /\ UNCHANGED <<mu, sessionVars, bufferVars, fileVars, flagVars, wthread, seen,
                 held, clientVars, envVars>>


JoinReport(t) ==
  /\ Move(t, "join_report", "drain")
  /\ rthread \in {"none", "done"}
  /\ rthread' = "none"
  /\ UNCHANGED <<mu, sessionVars, bufferVars, fileVars, flagVars, wthread, seen,
                 held, clientVars, envVars>>

CanDrain == buffer # NoBuffer /\ writer # 0 /\ buffer.queue # << >>

DrainWrite(t) ==
  /\ pc[t] = "drain" /\ CanDrain
  /\ buffer' = PB!Pop(buffer)
  /\ \/ WriteSucceeds(writer, Head(buffer.queue)) /\ UNCHANGED <<pc, state>>
     \/ WriteFails(writer, Head(buffer.queue)) /\ Goto(t, "close") /\ state' = "Error"
  /\ UNCHANGED <<mu, sid, finalizing, saved, summary, triggered, writer, evicted,
                 flagVars, workerVars, clientVars, envVars>>

(* Deviation: the buffer is not drained. *)
DrainSkipped(t) ==
  /\ Move(t, "drain", "close")
  /\ UNCHANGED <<mu, sessionVars, bufferVars, fileVars, flagVars, workerVars,
                 clientVars, envVars>>


DrainOver(t) ==
  /\ Move(t, "drain", "close")
  /\ ~CanDrain
  /\ UNCHANGED <<mu, sessionVars, bufferVars, fileVars, flagVars, workerVars,
                 clientVars, envVars>>

(* Deviation: the chunk file stays open. *)
CloseForgotten(t) ==
  /\ Move(t, "close", "mark")
  /\ UNCHANGED chunk
  /\ UNCHANGED <<mu, sessionVars, bufferVars, disk, failed, faults, flagVars,
                 workerVars, clientVars, envVars>>


CloseWriter(t) ==
  /\ Move(t, "close", "mark")
  /\ chunk' = IF writer = 0 THEN chunk ELSE [chunk EXCEPT ![writer] = "closed"]
  /\ UNCHANGED <<mu, sessionVars, bufferVars, disk, failed, faults, flagVars,
                 workerVars, clientVars, envVars>>

MarkStopped(t) ==
  /\ Move(t, "mark", "summary")
  /\ state' = "Closed"
  /\ saved' = saved \cup {sid}
  /\ UNCHANGED <<mu, sid, finalizing, summary, triggered, bufferVars, fileVars,
                 flagVars, workerVars, clientVars, envVars>>

(* CheckSessionIntegrity, WriteFinalSummary, WriteRuntimeReport.           *)
WriteSummary(t) ==
  /\ Move(t, "summary", "reset")
  /\ summary' = summary \cup {sid}
  /\ UNCHANGED <<mu, state, sid, finalizing, saved, triggered, bufferVars,
                 fileVars, flagVars, workerVars, clientVars, envVars>>

(* Deviation: the next threads find the stop flag set. *)
ResetKeepsFlag(t) ==
  /\ Move(t, "reset", "trigger")
  /\ writer' = 0
  /\ buffer' = NoBuffer
  /\ stop_threads' = stop_threads
  /\ UNCHANGED <<mu, sessionVars, evicted, fileVars, daemon_running, workerVars,
                 clientVars, envVars>>


ResetSession(t) ==
  /\ Move(t, "reset", "trigger")
  /\ writer' = 0
  /\ buffer' = NoBuffer
  /\ stop_threads' = FALSE
  /\ UNCHANGED <<mu, sessionVars, evicted, fileVars, daemon_running, workerVars,
                 clientVars, envVars>>

TriggerOffline(t) ==
  /\ Move(t, "trigger", "restart")
  /\ triggered' = [triggered EXCEPT ![sid] = @ + 1]
  /\ UNCHANGED <<mu, state, sid, finalizing, saved, summary, bufferVars, fileVars,
                 flagVars, workerVars, clientVars, envVars>>

LaunchThreads ==
  /\ wthread = "none" /\ rthread = "none"
  /\ wthread' = "top" /\ rthread' = "top"

RestartThreads(t) ==
  /\ Move(t, "restart", AfterStop(t))
  /\ IF daemon_running THEN LaunchThreads ELSE UNCHANGED <<wthread, rthread>>
  /\ finalizing' = FALSE
  /\ mu' = Free
  /\ UNCHANGED <<state, sid, saved, summary, triggered, bufferVars, fileVars,
                 flagVars, seen, held, clientVars, envVars>>

(* Assigning a new thread to a joinable std::thread terminates the process.*)
RestartOverThreads(t) ==
  /\ pc[t] = "restart"
  /\ daemon_running /\ (wthread # "none" \/ rthread # "none")
  /\ Crash
  /\ UNCHANGED <<mu, sessionVars, bufferVars, fileVars, flagVars, seen, held,
                 clientVars, envVars>>

Service(t) ==
  \/ StartBusy(t) \/ StartSession(t) \/ StartBuffer(t) \/ StartWriter(t)
  \/ StartOpened(t) \/ StartNotOpened(t)
  \/ StopRefused(t) \/ StopAccepted(t) \/ StopWaitOver(t)
  \/ JoinWriter(t) \/ JoinReport(t) \/ DrainWrite(t) \/ DrainOver(t)
  \/ CloseWriter(t) \/ MarkStopped(t) \/ WriteSummary(t) \/ ResetSession(t)
  \/ TriggerOffline(t) \/ RestartThreads(t) \/ RestartOverThreads(t)

-----------------------------------------------------------------------------
(* WriterLoop                                                              *)

WriterUnchanged == UNCHANGED <<mu, sid, finalizing, saved, summary, triggered,
  writer, evicted, flagVars, clientVars, envVars>>
OnlyWriterMoves == UNCHANGED <<pc, rthread>>

WriterTop ==
  /\ wthread = "top"
  /\ \/ stop_threads /\ wthread' = "done" /\ UNCHANGED seen
     \/ /\ ~stop_threads /\ state \in {"Recording", "Stopping"}
        /\ wthread' = "pop" /\ seen' = state
  /\ WriterUnchanged /\ OnlyWriterMoves
  /\ UNCHANGED <<state, buffer, fileVars, held>>

(* Deviation: an empty buffer ends the thread in any state. *)
WriterIdleLeaves ==
  /\ wthread = "pop" /\ ~CanDrain
  /\ wthread' = "done"
  /\ WriterUnchanged /\ OnlyWriterMoves
  /\ UNCHANGED <<state, buffer, fileVars, seen, held>>


(* Nothing to write: leave if the state read was Stopping, else look again.*)
WriterIdle ==
  /\ wthread = "pop" /\ ~CanDrain
  /\ wthread' = IF seen = "Stopping" THEN "done" ELSE "top"
  /\ WriterUnchanged /\ OnlyWriterMoves
  /\ UNCHANGED <<state, buffer, fileVars, seen, held>>

(* Deviation: the packet stays in the buffer. *)
WriterPeeks ==
  /\ wthread = "pop" /\ CanDrain
  /\ wthread' = "write"
  /\ held' = [frame |-> Head(buffer.queue), writer |-> writer]
  /\ buffer' = buffer
  /\ WriterUnchanged /\ OnlyWriterMoves
  /\ UNCHANGED <<state, fileVars, seen>>


WriterPop ==
  /\ wthread = "pop" /\ CanDrain
  /\ wthread' = "write"
  /\ held' = [frame |-> Head(buffer.queue), writer |-> writer]
  /\ buffer' = PB!Pop(buffer)
  /\ WriterUnchanged /\ OnlyWriterMoves
  /\ UNCHANGED <<state, fileVars, seen>>

WriterWrite ==
  /\ wthread = "write" /\ held.writer = writer
  /\ \/ WriteSucceeds(writer, held.frame) /\ UNCHANGED state
     \/ WriteFails(writer, held.frame) /\ state' = "Error"
  /\ wthread' = "top"
  /\ WriterUnchanged /\ OnlyWriterMoves
  /\ UNCHANGED <<buffer, seen, held>>

(* A START after a disk error has replaced the writer the loop refers to:  *)
(* the write uses a destroyed object, which terminates the process or      *)
(* leaves no trace of the packet.                                          *)
WriterStale ==
  /\ wthread = "write" /\ held.writer # writer
  /\ \/ wthread' = "top" /\ OnlyWriterMoves
     \/ Crash
  /\ WriterUnchanged
  /\ UNCHANGED <<state, buffer, fileVars, seen, held>>

Writer == WriterTop \/ WriterIdle \/ WriterPop \/ WriterWrite \/ WriterStale

(* ReportLoop: WriteRuntimeReport goes through a .tmp file in the session  *)
(* directory, unless there has been no session yet.                        *)
Report ==
  /\ \/ rthread = "top" /\ stop_threads /\ rthread' = "done"
     \/ rthread = "top" /\ ~stop_threads /\ sid # 0 /\ rthread' = "tmp"
     \/ rthread = "tmp" /\ rthread' = "top"
  /\ UNCHANGED <<pc, mu, sessionVars, bufferVars, fileVars, flagVars, wthread,
                 seen, held, clientVars, envVars>>

-----------------------------------------------------------------------------
(* The client thread: OnContractFrame on a valid frame                     *)

ClientUnchanged == UNCHANGED <<mu, sessionVars, writer, fileVars, flagVars,
  seen, held, envVars>>
OnlyClientMoves == UNCHANGED <<wthread, rthread>>

(* Deviation: any finished session starts the next. *)
ClientStartsAgain(kind) ==
  /\ pc["client"] = "recv"
  /\ received < MaxFrames
  /\ received' = received + 1
  /\ frame' = received + 1
  /\ Goto("client",
          IF kind = "started" /\ AutoStart /\ state # "Recording" THEN "start"
          ELSE IF kind = "ended" /\ state = "Recording" THEN "stop"
          ELSE "accept")
  /\ ClientUnchanged /\ OnlyClientMoves
  /\ UNCHANGED <<buffer, evicted, pushed>>


(* A SESSION_STARTED frame may start a session and is then recorded in it; *)
(* a SESSION_ENDED frame stops the session and is not recorded.            *)
ClientReceive(kind) ==
  /\ pc["client"] = "recv"
  /\ received < MaxFrames
  /\ received' = received + 1
  /\ frame' = received + 1
  /\ Goto("client",
          IF kind = "started" /\ AutoStart /\ state = "Idle" THEN "start"
          ELSE IF kind = "ended" /\ state = "Recording" THEN "stop"
          ELSE "accept")
  /\ ClientUnchanged /\ OnlyClientMoves
  /\ UNCHANGED <<buffer, evicted, pushed>>

ClientAccept ==
  /\ Move("client", "accept", IF state = "Recording" THEN "check" ELSE NextFrame)
  /\ ClientUnchanged /\ OnlyClientMoves
  /\ UNCHANGED <<buffer, evicted, clientVars>>

ClientCheck ==
  /\ Move("client", "check", IF buffer = NoBuffer THEN NextFrame ELSE "push")
  /\ ClientUnchanged /\ OnlyClientMoves
  /\ UNCHANGED <<buffer, evicted, clientVars>>

ClientPush ==
  /\ Move("client", "push", NextFrame)
  /\ buffer # NoBuffer
  /\ \E k \in 0..Len(buffer.queue) :
       /\ PB!Evicts(buffer, frame, k)
       /\ buffer' = PB!Push(buffer, frame, k)
       /\ evicted' = evicted \cup {buffer.queue[i] : i \in 1..k}
  /\ pushed' = [pushed EXCEPT ![frame] = IF state = "Recording" THEN sid ELSE 0]
  /\ ClientUnchanged /\ OnlyClientMoves
  /\ UNCHANGED <<frame, received>>

(* The buffer was reset after the null check: the call on a null pointer   *)
(* terminates the process or, if it was already made, is lost.             *)
ClientPushStale ==
  /\ pc["client"] = "push"
  /\ buffer = NoBuffer
  /\ \/ Goto("client", NextFrame) /\ UNCHANGED <<wthread, rthread>>
     \/ Crash
  /\ ClientUnchanged
  /\ UNCHANGED <<buffer, evicted, clientVars>>

(* The connection ended or a frame was malformed: ReceiveLoop returns, and *)
(* nothing connects again.  A read is not interrupted by Stop(), so a loop *)
(* waiting for a silent peer leaves only by this step.                     *)
ClientDisconnect ==
  /\ Move("client", "recv", "gone")
  /\ ClientUnchanged /\ OnlyClientMoves
  /\ UNCHANGED <<buffer, evicted, clientVars>>

Client == ClientAccept \/ ClientCheck \/ ClientPush \/ ClientPushStale

-----------------------------------------------------------------------------
(* The environment: control commands, storage alerts                       *)

ControlCommand(cmd) ==
  /\ Move("control", "serve", IF cmd = "START" THEN "start" ELSE "stop")
  /\ commands < MaxCommands
  /\ commands' = commands + 1
  /\ UNCHANGED <<mu, sessionVars, bufferVars, fileVars, flagVars, workerVars,
                 clientVars, alerts>>

StorageCritical ==
  /\ Move("storage", "watch", "stop")
  /\ alerts < MaxAlerts
  /\ alerts' = alerts + 1
  /\ UNCHANGED <<mu, sessionVars, bufferVars, fileVars, flagVars, workerVars,
                 clientVars, commands>>

-----------------------------------------------------------------------------
(* The main thread: RunDaemon, StartDaemon, StopDaemon                     *)

MainUnchanged == UNCHANGED <<mu, sessionVars, bufferVars, fileVars, seen, held,
  clientVars, envVars>>

StartClient ==
  /\ pc["main"] = "m_client"
  /\ \/ /\ pc' = [pc EXCEPT !["main"] = "m_storage", !["client"] = "recv"]
        /\ daemon_running' = TRUE
     \/ Goto("main", "exited") /\ daemon_running' = FALSE
  /\ stop_threads' = FALSE
  /\ MainUnchanged /\ UNCHANGED <<wthread, rthread>>

StartStorage ==
  /\ pc["main"] = "m_storage"
  /\ pc' = [pc EXCEPT !["main"] = "m_threads", !["storage"] = "watch"]
  /\ MainUnchanged /\ UNCHANGED <<flagVars, wthread, rthread>>

(* A session that the client thread started and stopped meanwhile has left *)
(* both threads running; assigning over them terminates the process.       *)
StartThreads ==
  /\ \/ Move("main", "m_threads", "m_control") /\ LaunchThreads
     \/ pc["main"] = "m_threads" /\ (wthread # "none" \/ rthread # "none") /\ Crash
  /\ MainUnchanged /\ UNCHANGED flagVars

StartControl ==
  /\ pc["main"] = "m_control"
  /\ \/ pc' = [pc EXCEPT !["main"] = "start", !["control"] = "serve"]
     \/ Goto("main", "d_flag")
  /\ MainUnchanged /\ UNCHANGED <<flagVars, wthread, rthread>>

(* SIGTERM or SIGINT ends WaitForShutdown.                                 *)
Signal ==
  /\ Move("main", "wait", "stop")
  /\ MainUnchanged /\ UNCHANGED <<flagVars, wthread, rthread>>

(* Deviation: StopDaemon does not set the flag. *)
RaiseNoFlag ==
  /\ Move("main", "d_flag", "d_control")
  /\ stop_threads' = stop_threads
  /\ MainUnchanged /\ UNCHANGED <<daemon_running, wthread, rthread>>


RaiseStopFlag ==
  /\ Move("main", "d_flag", "d_control")
  /\ stop_threads' = TRUE
  /\ MainUnchanged /\ UNCHANGED <<daemon_running, wthread, rthread>>

(* ServeLoop sees stop_ before the PING of Stop() arrives.                 *)
ControlLeaves ==
  /\ pc["main"] = "d_control"
  /\ Move("control", "serve", "gone")
  /\ MainUnchanged /\ UNCHANGED <<flagVars, wthread, rthread>>

(* Stop() of the control server, the client and the storage monitor: each  *)
(* waits for its thread to finish the call it is in, and the client's also *)
(* for the read it is in.  The control server is woken by a PING whose     *)
(* answer Stop() waits for: nobody gives it once ServeLoop has left.       *)
JoinCaller(from, t, idle, to) ==
  /\ pc["main"] = from
  /\ pc[t] \in {idle, "none"}
  /\ pc' = [pc EXCEPT !["main"] = to, ![t] = "gone"]
  /\ MainUnchanged /\ UNCHANGED <<flagVars, wthread, rthread>>

JoinCallers ==
  \/ JoinCaller("d_control", "control", "serve", "d_client")
  \/ JoinCaller("d_client", "client", "gone", "d_storage")
  \/ JoinCaller("d_storage", "storage", "watch", "d_writer")

ExitJoinWriter ==
  /\ Move("main", "d_writer", "d_report")
  /\ wthread \in {"none", "done"}
  /\ wthread' = "none"
  /\ MainUnchanged /\ UNCHANGED <<flagVars, rthread>>

ExitJoinReport ==
  /\ Move("main", "d_report", "exited")
  /\ rthread \in {"none", "done"}
  /\ rthread' = "none"
  /\ daemon_running' = FALSE
  /\ MainUnchanged /\ UNCHANGED <<stop_threads, wthread>>

Main ==
  \/ StartClient \/ StartStorage \/ StartThreads \/ StartControl
  \/ RaiseStopFlag \/ JoinCallers \/ ExitJoinWriter \/ ExitJoinReport

-----------------------------------------------------------------------------
Init ==
  /\ pc = [t \in Threads |-> IF t = "main" THEN "m_client" ELSE "none"]
  /\ mu = Free
  /\ state = "Idle" /\ sid = 0 /\ finalizing = FALSE
  /\ buffer = NoBuffer /\ writer = 0
  /\ chunk = [s \in Sessions |-> "none"]
  /\ disk = [s \in Sessions |-> << >>]
  /\ stop_threads = FALSE /\ daemon_running = FALSE
  /\ wthread = "none" /\ seen = "Idle" /\ held = [frame |-> 0, writer |-> 0]
  /\ rthread = "none"
  /\ frame = 0 /\ received = 0
  /\ saved = {} /\ summary = {} /\ triggered = [s \in Sessions |-> 0]
  /\ pushed = [f \in Frames |-> 0] /\ evicted = {} /\ failed = {}
  /\ commands = 0 /\ alerts = 0 /\ faults = 0

(* Stop() of the control server waits for an answer that nobody will give. *)
Stranded == pc["main"] = "d_control" /\ pc["control"] = "gone"

(* The process ended: main returned or the runtime terminated it.          *)
Ended == pc["main"] \in {"exited", "crashed"}

Terminated == (Ended \/ Stranded) /\ UNCHANGED vars

Next ==
  \/ \E t \in Threads : Service(t)
  \/ Writer \/ Report
  \/ Client \/ ClientDisconnect \/ \E kind \in Kinds : ClientReceive(kind)
  \/ \E cmd \in Commands : ControlCommand(cmd)
  \/ StorageCritical
  \/ Signal \/ Main \/ ControlLeaves
  \/ Terminated

Spec == Init /\ [][Next]_vars

(* Every thread runs: a thread that can take a step of its own takes it    *)
(* eventually.  The peer, the operator, the disk and the sender of signals *)
(* promise nothing.                                                        *)
Fairness ==
  /\ \A t \in Threads : WF_vars(Service(t))
  /\ WF_vars(Writer)
  /\ WF_vars(Report)
  /\ WF_vars(Client)
  /\ WF_vars(Main)

FairSpec == Spec /\ Fairness

(* Stop() of the TCP client waits for a read that only the peer can end.   *)
PeerEndsRead == WF_vars(pc["main"] = "d_client" /\ ClientDisconnect)
=============================================================================
