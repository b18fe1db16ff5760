---------------------- MODULE RuntimeServiceProperties ----------------------
(* What the recorder daemon promises, as formulas over the variables of    *)
(* RuntimeService.                                                         *)
EXTENDS RuntimeService

(* Type invariant; it says nothing of the buffer's counters, which are the *)
(* subject of PacketBufferSpec.  That sid stays among the sessions is the  *)
(* part with content: a START accepted twice would leave them              *)
(* (session_manager.cpp:55-72).                                            *)
TypeOK ==
  /\ pc = [t \in Threads |-> pc[t]]
  /\ \A t \in Threads : pc[t] \in Places[t] \cup Calling \cup {"crashed"}
  /\ mu \in Threads \cup {Free}
  /\ state \in {"Idle", "Recording", "Stopping", "Closed", "Error"}
  /\ sid \in Sessions \cup {0} /\ finalizing \in BOOLEAN
  /\ buffer.queue \in Seq(Frames)
  /\ writer \in Sessions \cup {0}
  /\ chunk \in [Sessions -> {"none", "open", "bad", "closed"}]
  /\ disk \in [Sessions -> Seq(Frames)]
  /\ stop_threads \in BOOLEAN /\ daemon_running \in BOOLEAN
  /\ wthread \in {"none", "top", "pop", "write", "done"}
  /\ seen \in {"Idle", "Recording", "Stopping"}
  /\ held \in [frame: Frames \cup {0}, writer: Sessions \cup {0}]
  /\ rthread \in {"none", "top", "tmp", "done"}
  /\ frame \in Frames \cup {0} /\ received \in 0..MaxFrames
  /\ saved \subseteq Sessions /\ summary \subseteq Sessions
  /\ triggered \in [Sessions -> Nat]
  /\ pushed \in [Frames -> Sessions \cup {0}]
  /\ evicted \subseteq Frames /\ failed \subseteq Frames \X Sessions
  /\ commands \in 0..MaxCommands /\ alerts \in 0..MaxAlerts /\ faults \in 0..MaxFaults

-----------------------------------------------------------------------------
(* The thread that finalises a session has the session to itself: from the *)
(* drain until the objects are reset, the writer thread holds no packet    *)
(* and is not about to take one, and the report thread is not halfway      *)
(* through a file (FinalizeActiveSession, runtime_service.cpp:365-386).    *)
FinalizeAlone ==
  \A t \in Threads :
    pc[t] \in {"drain", "close", "mark", "summary", "reset"} =>
      /\ wthread \notin {"pop", "write"}
      /\ rthread # "tmp"

(* A closed chunk file never changes again.  Writing through a closed      *)
(* ChunkWriter would open its last file anew and truncate it               *)
(* (chunk_writer.cpp:46-51, 69-73, 187-196).                               *)
ClosedStaysClosed ==
  [][\A s \in Sessions : chunk[s] = "closed" =>
       chunk'[s] = "closed" /\ disk'[s] = disk[s]]_vars

(* What the offline pipeline is started on is complete: the chunks are     *)
(* closed, metadata and summary are written, and it is started at most     *)
(* once for a session (runtime_service.cpp:375-390).                       *)
PublishedComplete ==
  \A s \in Sessions : triggered[s] > 0 =>
    /\ triggered[s] = 1
    /\ chunk[s] = "closed"
    /\ s \in saved /\ s \in summary

(* No silent loss: a frame pushed into the buffer while its session was    *)
(* recording is, when the session is published, on disk or among the       *)
(* counted drops.  Excepted are sessions with a failed write, which is     *)
(* reported, and sessions started over one that was never finished.        *)
NoSilentLoss ==
  \A s \in Sessions :
    /\ triggered[s] > 0
    /\ s = 1 \/ s - 1 \in saved
    /\ \A f \in Frames : <<f, s>> \notin failed
    => \A f \in Frames : pushed[f] = s =>
         f \in evicted \/ \E i \in 1..Len(disk[s]) : disk[s][i] = f

(* Whenever the daemon records and nobody is starting or stopping, its     *)
(* writer thread runs and has not been told to stop: finalising the last   *)
(* session started it again and took back the flag                         *)
(* (runtime_service.cpp:386, 392-395).                                     *)
WriterAlive ==
  pc["main"] = "wait" /\ mu = Free /\ state = "Recording" =>
    wthread \in {"top", "pop", "write"} /\ ~stop_threads

-----------------------------------------------------------------------------
(* The detailed service implements the promise of RecordingSession: log is *)
(* what the chunk files hold, sealed is a closed ChunkWriter, published is *)
(* a started offline pipeline.                                             *)
phaseOf ==
  [s \in Sessions |->
     IF triggered[s] > 0 THEN "published"
     ELSE IF chunk[s] = "closed" THEN "sealed"
     ELSE IF s <= sid THEN "recording" ELSE "unused"]

Promise == INSTANCE RecordingSession WITH phase <- phaseOf, log <- disk

KeepsPromise == Promise!Spec

-----------------------------------------------------------------------------
ShuttingDown == pc["main"] \in {"d_flag", "d_control", "d_client", "d_storage",
                                "d_writer", "d_report", "exited"}

(* A call of StopRecording returns: neither the wait for the buffer nor    *)
(* the joins wait for ever, whatever the caller (runtime_service.cpp:68).  *)
StopReturns ==
  \A t \in Threads : pc[t] = "stop" ~> Ended \/ pc[t] \in Places[t]

(* Frames in the buffer are taken out of it, unless a disk error, a crash  *)
(* or the end of the daemon intervenes.                                    *)
BufferDrains ==
  buffer.queue # << >> ~>
    buffer.queue = << >> \/ state = "Error" \/ Ended \/ ShuttingDown

(* A session that was started or still recorded during the shutdown is     *)
(* finalised: its finaliser is about to take back the stop flag that       *)
(* StopDaemon raised (runtime_service.cpp:151, 386, see ShutdownEnds).     *)
TakesFlagBack ==
  /\ pc["main"] \in {"d_control", "d_client", "d_storage"}
  /\ \E t \in Threads : pc[t] = "reset"

(* A termination signal ends the process, once the peer lets the client's  *)
(* last read return (main.cpp:82-86, runtime_service.cpp:150-172).  There  *)
(* are two ways only to miss that, whatever starts, stops and fails on the *)
(* other threads meanwhile: the control server's own PING is left without  *)
(* an answer (control_ipc.cpp:137-147), or the stop flag is taken back.    *)
GracefulExit == PeerEndsRead => (pc["main"] = "stop" ~> Ended \/ Stranded \/ TakesFlagBack)

-----------------------------------------------------------------------------
(* Statements of the documentation that the code does not keep; each is    *)
(* the property of a run that shows how.                                   *)

(* Nothing is lost from the buffer at stop: when the buffer is destroyed,  *)
(* without a failed write, it is empty (arch.md:353, closed remark P0-3).  *)
NothingLeftAtReset ==
  \A t \in Threads : pc[t] = "reset" /\ failed = {} => buffer.queue = << >>

(* After a stop the session has its full set of files                      *)
(* (TZ_ego_runtime_rpi5.md:333, IT-04; RUNTIMEPC_GUIDE.md:123): when the   *)
(* daemon's own StopRecording returns, the metadata is written.            *)
StopFinalises ==
  [][pc["main"] = "stop" /\ pc'["main"] = "d_flag" => sid \in saved]_vars

(* Shutdown is graceful: once the daemon is stopping its threads, the      *)
(* process ends (RUNTIMEPC_GUIDE.md:248), if the peer lets it and the      *)
(* control server was not left waiting for its own PING.                   *)
ShutdownEnds == PeerEndsRead => (ShuttingDown ~> Ended \/ Stranded)

(* The same of a termination signal, whatever the peer does                *)
(* (RUNTIMEPC_GUIDE.md:101, 248).                                          *)
SignalEndsProcess == pc["main"] = "stop" ~> Ended \/ Stranded
=============================================================================
