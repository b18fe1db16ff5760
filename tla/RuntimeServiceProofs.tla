------------------------ MODULE RuntimeServiceProofs ------------------------
(***************************************************************************)
(* Theorems about the recorder daemon for any number of frames, sessions,  *)
(* commands, alerts and failures, in four parts.                           *)
(*                                                                         *)
(* Finalising.  Between the joins and the reset a finaliser holds          *)
(* service_mu_ and has the stop flag up, so no thread that touches the     *)
(* session runs, and a thread that StartDaemon creates meanwhile leaves at *)
(* once.                                                                   *)
(*                                                                         *)
(* Sessions.  A closed chunk file never changes, and the offline pipeline  *)
(* is started on complete sessions only.  Both rest on Exclusive and on    *)
(* what the holder of service_mu_ knows of the active session.             *)
(*                                                                         *)
(* Types.  The argument is in Seats: each session is started by somebody   *)
(* who had a start left, the main thread and the client thread one each    *)
(* and the operator one per command, so the number of sessions is bounded. *)
(*                                                                         *)
(* Frames.  Nothing is lost silently: until it is settled, a frame that    *)
(* was pushed while its session was recording is in the buffer or in the   *)
(* writer thread's hands (InFlight), and the buffer and the writer in      *)
(* place are those of the session, because a session that was finished     *)
(* left nothing in place (Clear, WriterInPlace); after the drain there is  *)
(* nowhere left for it to be but on disk (Tidy). The writer thread is      *)
(* there (WriterAlive): the stop flag is up, and the thread gone, only     *)
(* while somebody is finishing a session (Manned). The service implements  *)
(* RecordingSession (KeepsPromise): on its way through the buffer and the  *)
(* writer's hands onto the disk no frame overtakes another (Ordered), and  *)
(* a session is sealed, then published, once.                              *)
(***************************************************************************)
EXTENDS RuntimeServiceProperties, Integers, TLAPS

-----------------------------------------------------------------------------
(* Finalising.                                                             *)
(* From the first join on a finaliser has the stop flag up, and from the   *)
(* drain on it has the session to itself.                                  *)
Alone == {"drain", "close", "mark", "summary", "reset"}
Told  == {"join_writer", "join_report"} \cup Alone

LockOrder ==
  /\ pc = [t \in Threads |-> pc[t]]
  /\ \A t \in Threads : pc[t] \in Starting \cup Finishing => mu = t

(* The process begins with one thread, which creates the client thread,    *)
(* the storage thread and the control thread in turn; it ends with all.    *)
BeforeStorage == {"m_client", "m_storage"}
BeforeControl == BeforeStorage \cup {"m_threads", "m_control"}
OnceOnly      == {"crashed"} \cup BeforeControl

LifeCycle ==
  /\ pc["main"] = "m_client" => pc["client"] = "none"
  /\ pc["main"] \in BeforeStorage => pc["storage"] = "none"
  /\ pc["main"] \in BeforeControl => pc["control"] = "none"
  /\ \A t \in Threads : pc[t] = "crashed" =>
       wthread = "none" /\ \A r \in Threads : pc[r] = "crashed"

WorkersOut ==
  \A t \in Threads :
    /\ pc[t] \in Told => stop_threads = TRUE
    /\ pc[t] \in Alone \cup {"join_report"} => wthread \notin {"pop", "write"}
    /\ pc[t] \in Alone => rthread # "tmp"

Exclusive == LockOrder /\ LifeCycle /\ WorkersOut

-----------------------------------------------------------------------------
(* Where the functions return to is outside of them.                       *)
LEMMA Returns ==
  ASSUME NEW t \in Threads, NEW ok \in BOOLEAN
  PROVE  /\ AfterStart(t, ok) \in {"wait", "d_flag", "accept", "serve", "watch", "gone"}
         /\ AfterStop(t) \in {"d_flag", "recv", "gone", "serve", "watch"}
<1>1. CASE t = "main" BY <1>1 DEF AfterStart, AfterStop, NextFrame, NextCommand
<1>2. CASE t = "client" BY <1>2 DEF AfterStart, AfterStop, NextFrame, NextCommand
<1>3. CASE t = "control" BY <1>3 DEF AfterStart, AfterStop, NextFrame, NextCommand
<1>4. CASE t = "storage" BY <1>4 DEF AfterStart, AfterStop, NextFrame, NextCommand
<1>5. t = "main" \/ t = "client" \/ t = "control" \/ t = "storage" BY DEF Threads
<1> QED BY <1>1, <1>2, <1>3, <1>4, <1>5

LEMMA InitExclusive == Init => Exclusive
<1>1. SUFFICES ASSUME Init PROVE Exclusive OBVIOUS
<1>2. pc = [t \in Threads |-> IF t = "main" THEN "m_client" ELSE "none"] /\ wthread = "none" BY <1>1 DEF Init
<1> QED BY <1>2 DEF Exclusive, LockOrder, LifeCycle, WorkersOut, Threads, Starting, Finishing, Told, Alone


LEMMA CallerNames == {"main", "client", "control", "storage"} = Threads /\ Free \notin Threads
BY DEF Threads, Free

(* The order of the lock and the life cycle survive every move of a thread *)
(* that takes the mutex when it is free, and keeps or releases its own.    *)
LEMMA MoveKeepsOrder ==
  ASSUME Exclusive, NEW t \in Threads, NEW b,
         pc' = [pc EXCEPT ![t] = b],
         pc[t] \notin {"none", "crashed"}, b \notin OnceOnly,
         mu' = mu \/ mu = Free \/ mu = t,
         b \in Starting \cup Finishing => mu' = t
  PROVE  LockOrder' /\ LifeCycle'
<1>1. pc' = [r \in Threads |-> IF r = t THEN b ELSE pc[r]] BY DEF Exclusive, LockOrder
<1>2. ASSUME NEW r \in Threads, pc'[r] \in Starting \cup Finishing PROVE mu' = r
  <2>1. CASE r = t BY <2>1, <1>1, <1>2
  <2>2. CASE r # t
    <3>1. mu = r BY <2>2, <1>1, <1>2 DEF Exclusive, LockOrder
    <3> QED BY <3>1, <2>2, CallerNames
  <2> QED BY <2>1, <2>2
<1>3. LockOrder' BY <1>1, <1>2 DEF LockOrder
<1>4. "main" \in Threads BY CallerNames
<1>5. \A r \in Threads : pc'[r] # "crashed" BY <1>1 DEF Exclusive, LifeCycle, OnceOnly
<1>6. pc'["main"] \in BeforeControl => t # "main" /\ pc'["main"] = pc["main"]
  BY <1>1, <1>4 DEF OnceOnly
<1>7. LifeCycle' BY <1>1, <1>5, <1>6, CallerNames DEF Exclusive, LifeCycle, BeforeStorage, BeforeControl, OnceOnly
<1> QED BY <1>3, <1>7

(* The exclusion of the workers survives every move that does not enter    *)
(* the finaliser's own part and leaves flag and workers alone.             *)
LEMMA MoveKeepsWorkers ==
  ASSUME Exclusive, NEW t \in Threads, NEW b,
         pc' = [pc EXCEPT ![t] = b], b \notin Told,
         stop_threads' = stop_threads \/ stop_threads' = TRUE,
         wthread' = wthread, rthread' = rthread
  PROVE  WorkersOut'
<1>1. pc' = [r \in Threads |-> IF r = t THEN b ELSE pc[r]] BY DEF Exclusive, LockOrder
<1> QED BY <1>1 DEF Exclusive, WorkersOut, Told, Alone

LEMMA CrashKeeps ==
  ASSUME Crash PROVE Exclusive'
<1>1. pc' = [t \in Threads |-> "crashed"] /\ wthread' = "none" BY DEF Crash
<1>2. "main" \in Threads BY CallerNames
<1> QED BY <1>1, <1>2 DEF Exclusive, LockOrder, LifeCycle, WorkersOut, Starting, Finishing, Told, Alone,
      BeforeControl, BeforeStorage

-----------------------------------------------------------------------------
LEMMA StartExclusive ==
  ASSUME Exclusive, NEW t \in Threads,
         \/ StartBusy(t) \/ StartSession(t) \/ StartBuffer(t) \/ StartWriter(t)
         \/ StartOpened(t) \/ StartNotOpened(t)
  PROVE  Exclusive'
<1>1. UNCHANGED <<stop_threads, wthread, rthread>>
  BY DEF StartBusy, StartSession, StartBuffer, StartWriter, StartOpened, StartNotOpened, flagVars, workerVars
<1>2. PICK b : /\ pc' = [pc EXCEPT ![t] = b] /\ pc[t] \in {"start"} \cup Starting
               /\ \/ b \in Starting /\ mu' = t
                  \/ b \in {"wait", "d_flag", "accept", "serve", "watch", "gone"}
               /\ mu' = mu \/ mu = Free \/ pc[t] \in Starting
  <2>1. CASE StartBusy(t) BY <2>1, Returns DEF StartBusy, Move, Goto
  <2>2. CASE StartSession(t) BY <2>2 DEF StartSession, Move, Goto, Starting
  <2>3. CASE StartBuffer(t) BY <2>3 DEF StartBuffer, Move, Goto, Starting, Exclusive, LockOrder
  <2>4. CASE StartWriter(t) BY <2>4 DEF StartWriter, Move, Goto, Starting, Exclusive, LockOrder
  <2>5. CASE StartOpened(t) BY <2>5, Returns DEF StartOpened, Move, Goto, Starting
  <2>6. CASE StartNotOpened(t) BY <2>6, Returns DEF StartNotOpened, Move, Goto, Starting
  <2> QED BY <2>1, <2>2, <2>3, <2>4, <2>5, <2>6
<1>3. pc[t] \in Starting => mu = t BY DEF Exclusive, LockOrder
<1>4. /\ pc[t] \notin {"none", "crashed"} /\ b \notin OnceOnly
      /\ b \notin Told /\ (b \in Starting \cup Finishing => mu' = t)
  BY <1>2 DEF Starting, Finishing, Told, Alone, OnceOnly, BeforeControl, BeforeStorage
<1>5. LockOrder' /\ LifeCycle' BY <1>2, <1>3, <1>4, MoveKeepsOrder
<1>6. WorkersOut' BY <1>1, <1>2, <1>4, MoveKeepsWorkers
<1> QED BY <1>5, <1>6 DEF Exclusive

LEMMA StopKeepsOrder ==
  ASSUME Exclusive, NEW t \in Threads,
         \/ StopRefused(t) \/ StopAccepted(t) \/ StopWaitOver(t) \/ JoinWriter(t)
         \/ JoinReport(t) \/ DrainWrite(t) \/ DrainOver(t) \/ CloseWriter(t)
         \/ MarkStopped(t) \/ WriteSummary(t) \/ ResetSession(t) \/ TriggerOffline(t)
         \/ RestartThreads(t)
  PROVE  LockOrder' /\ LifeCycle'
<1>1. pc[t] \in Finishing => mu = t BY DEF Exclusive, LockOrder
<1>2. PICK b : /\ pc' = [pc EXCEPT ![t] = b] /\ pc[t] \in {"stop"} \cup Finishing
               /\ \/ b \in Finishing /\ mu' = t
                  \/ b \in {"d_flag", "recv", "gone", "serve", "watch"}
               /\ mu' = mu \/ mu = Free \/ pc[t] \in Finishing
  <2>1. CASE StopRefused(t) BY <2>1, Returns DEF StopRefused, Move, Goto
  <2>2. CASE StopAccepted(t) BY <2>2 DEF StopAccepted, Move, Goto, Finishing
  <2>3. CASE StopWaitOver(t) BY <1>1, <2>3 DEF StopWaitOver, Move, Goto, Finishing
  <2>4. CASE JoinWriter(t) BY <1>1, <2>4 DEF JoinWriter, Move, Goto, Finishing
  <2>5. CASE JoinReport(t) BY <1>1, <2>5 DEF JoinReport, Move, Goto, Finishing
  <2>6. CASE DrainWrite(t)
    <3>1. pc[t] = "drain" /\ mu' = mu BY <2>6 DEF DrainWrite
    <3>2. pc' = pc \/ pc' = [pc EXCEPT ![t] = "close"] BY <2>6 DEF DrainWrite, Goto
    <3>3. pc' = pc => pc' = [pc EXCEPT ![t] = "drain"] BY <3>1 DEF Exclusive, LockOrder
    <3> QED BY <1>1, <3>1, <3>2, <3>3 DEF Finishing
  <2>7. CASE DrainOver(t) BY <1>1, <2>7 DEF DrainOver, Move, Goto, Finishing
  <2>8. CASE CloseWriter(t) BY <1>1, <2>8 DEF CloseWriter, Move, Goto, Finishing
  <2>9. CASE MarkStopped(t) BY <1>1, <2>9 DEF MarkStopped, Move, Goto, Finishing
  <2>10. CASE WriteSummary(t) BY <1>1, <2>10 DEF WriteSummary, Move, Goto, Finishing
  <2>11. CASE ResetSession(t) BY <1>1, <2>11 DEF ResetSession, Move, Goto, Finishing
  <2>12. CASE TriggerOffline(t) BY <1>1, <2>12 DEF TriggerOffline, Move, Goto, Finishing
  <2>13. CASE RestartThreads(t) BY <2>13, Returns DEF RestartThreads, Move, Goto, Finishing
  <2> QED BY <2>1, <2>2, <2>3, <2>4, <2>5, <2>6, <2>7, <2>8, <2>9, <2>10, <2>11, <2>12, <2>13
<1>3. /\ pc[t] \notin {"none", "crashed"} /\ b \notin OnceOnly
      /\ b \in Starting \cup Finishing => mu' = t
  BY <1>2 DEF Starting, Finishing, OnceOnly, BeforeControl, BeforeStorage
<1> QED BY <1>1, <1>2, <1>3, MoveKeepsOrder

(* A finaliser alone stays alone.                                          *)
LEMMA AloneKeepsWorkers ==
  ASSUME Exclusive, NEW t \in Threads, NEW b,
         pc' = [pc EXCEPT ![t] = b], pc[t] \in Alone,
         UNCHANGED <<stop_threads, wthread, rthread>>
  PROVE  WorkersOut'
<1>1. pc' = [r \in Threads |-> IF r = t THEN b ELSE pc[r]] BY DEF Exclusive, LockOrder
<1>2. pc[t] \in Told BY DEF Told
<1> QED BY <1>1, <1>2 DEF Exclusive, WorkersOut

LEMMA StopKeepsWorkers ==
  ASSUME Exclusive, NEW t \in Threads,
         \/ StopRefused(t) \/ StopAccepted(t) \/ StopWaitOver(t) \/ JoinWriter(t)
         \/ JoinReport(t) \/ DrainWrite(t) \/ DrainOver(t) \/ CloseWriter(t)
         \/ MarkStopped(t) \/ WriteSummary(t) \/ ResetSession(t) \/ TriggerOffline(t)
         \/ RestartThreads(t)
  PROVE  WorkersOut'
<1>0. ASSUME NEW b, pc' = [pc EXCEPT ![t] = b]
      PROVE  pc' = [r \in Threads |-> IF r = t THEN b ELSE pc[r]]
  BY <1>0 DEF Exclusive, LockOrder
<1>1. CASE StopRefused(t)
  <2>1. AfterStop(t) \notin Told BY Returns DEF Told, Alone
  <2> QED BY <1>1, <2>1, MoveKeepsWorkers DEF StopRefused, Move, Goto, flagVars, workerVars
<1>2. CASE StopAccepted(t)
  <2>1. "stop_wait" \notin Told BY DEF Told, Alone
  <2> QED BY <1>2, <2>1, MoveKeepsWorkers DEF StopAccepted, Move, Goto, flagVars, workerVars
<1>3. CASE StopWaitOver(t)
  <2>1. pc' = [pc EXCEPT ![t] = "join_writer"] /\ stop_threads' = TRUE
        /\ UNCHANGED <<wthread, rthread>>
    BY <1>3 DEF StopWaitOver, Move, Goto, workerVars
  <2>2. "join_writer" \notin Alone \cup {"join_report"} BY DEF Alone
  <2> QED BY <1>0, <2>1, <2>2 DEF Exclusive, WorkersOut
<1>4. CASE JoinWriter(t)
  <2>1. pc[t] = "join_writer" /\ pc' = [pc EXCEPT ![t] = "join_report"] /\ wthread' = "none"
        /\ UNCHANGED <<stop_threads, rthread>>
    BY <1>4 DEF JoinWriter, Move, Goto, flagVars
  <2>2. pc[t] \in Told /\ "join_report" \notin Alone BY <2>1 DEF Told, Alone
  <2> QED BY <1>0, <2>1, <2>2 DEF Exclusive, WorkersOut
<1>5. CASE JoinReport(t)
  <2>1. pc[t] = "join_report" /\ pc' = [pc EXCEPT ![t] = "drain"] /\ rthread' = "none"
        /\ UNCHANGED <<stop_threads, wthread>>
    BY <1>5 DEF JoinReport, Move, Goto, flagVars
  <2>2. pc[t] \in Told BY <2>1 DEF Told
  <2> QED BY <1>0, <2>1, <2>2 DEF Exclusive, WorkersOut
<1>6. CASE DrainWrite(t) \/ DrainOver(t) \/ CloseWriter(t) \/ MarkStopped(t) \/ WriteSummary(t)
  <2>1. pc[t] \in Alone /\ UNCHANGED <<stop_threads, wthread, rthread>>
    BY <1>6 DEF DrainWrite, DrainOver, CloseWriter, MarkStopped, WriteSummary, Move, Alone, flagVars, workerVars
  <2>2. pc' = pc \/ \E b : pc' = [pc EXCEPT ![t] = b]
    BY <1>6 DEF DrainWrite, DrainOver, CloseWriter, MarkStopped, WriteSummary, Move, Goto
  <2>3. pc' = pc => WorkersOut' BY <2>1 DEF Exclusive, WorkersOut
  <2> QED BY <2>1, <2>2, <2>3, AloneKeepsWorkers
<1>7. CASE ResetSession(t)
  <2>1. pc[t] = "reset" /\ pc' = [pc EXCEPT ![t] = "trigger"] /\ UNCHANGED <<wthread, rthread>>
    BY <1>7 DEF ResetSession, Move, Goto, workerVars
  <2>2. \A r \in Threads : pc'[r] \notin Told
    BY <1>0, <2>1 DEF Exclusive, LockOrder, Told, Alone, Finishing
  <2> QED BY <2>2 DEF WorkersOut, Told
<1>8. CASE TriggerOffline(t)
  <2>1. "restart" \notin Told BY DEF Told, Alone
  <2> QED BY <1>8, <2>1, MoveKeepsWorkers DEF TriggerOffline, Move, Goto, flagVars, workerVars
<1>9. CASE RestartThreads(t)
  <2>1. pc[t] = "restart" /\ pc' = [pc EXCEPT ![t] = AfterStop(t)] BY <1>9 DEF RestartThreads, Move, Goto
  <2>2. AfterStop(t) \notin Told BY Returns DEF Told, Alone
  <2>3. \A r \in Threads : pc'[r] \notin Told
    BY <1>0, <2>1, <2>2 DEF Exclusive, LockOrder, Told, Alone, Finishing
  <2> QED BY <2>3 DEF WorkersOut, Told
<1> QED BY <1>1, <1>2, <1>3, <1>4, <1>5, <1>6, <1>7, <1>8, <1>9

LEMMA ServiceExclusive ==
  ASSUME Exclusive, NEW t \in Threads, Service(t)
  PROVE  Exclusive'
<1>1. CASE RestartOverThreads(t) BY <1>1, CrashKeeps DEF RestartOverThreads
<1>2. CASE \/ StartBusy(t) \/ StartSession(t) \/ StartBuffer(t) \/ StartWriter(t)
           \/ StartOpened(t) \/ StartNotOpened(t)
  BY <1>2, StartExclusive
<1>3. CASE ~RestartOverThreads(t) /\
           ~(\/ StartBusy(t) \/ StartSession(t) \/ StartBuffer(t) \/ StartWriter(t)
             \/ StartOpened(t) \/ StartNotOpened(t))
  BY <1>3, StopKeepsOrder, StopKeepsWorkers DEF Service, Exclusive
<1> QED BY <1>1, <1>2, <1>3

-----------------------------------------------------------------------------
(* The writer and the report thread: a thread that finds the stop flag up  *)
(* takes no packet and begins no file.                                     *)
LEMMA WriterExclusive ==
  ASSUME Exclusive, Writer
  PROVE  Exclusive'
<1>1. CASE WriterStale /\ Crash BY <1>1, CrashKeeps
<1>2. CASE Writer /\ OnlyWriterMoves
  <2>1. UNCHANGED <<pc, mu, stop_threads, rthread>>
    BY <1>2 DEF Writer, WriterTop, WriterIdle, WriterPop, WriterWrite, WriterStale,
       WriterUnchanged, OnlyWriterMoves, flagVars
  <2>2. \/ wthread \in {"pop", "write"}
        \/ wthread = "top" /\ wthread' = "done"
        \/ wthread = "top" /\ wthread' = "pop" /\ ~stop_threads
    BY <1>2 DEF Writer, WriterTop, WriterIdle, WriterPop, WriterWrite, WriterStale
  <2>3. LockOrder' BY <2>1 DEF Exclusive, LockOrder
  <2>4. LifeCycle' BY <2>1, <2>2 DEF Exclusive, LifeCycle
  <2>5. WorkersOut'
    <3>1. CASE wthread' = "done" BY <2>1, <3>1 DEF Exclusive, WorkersOut
    <3>2. CASE wthread \in {"pop", "write"}
      BY <2>1, <3>2 DEF Exclusive, WorkersOut, Told
    <3>3. CASE ~stop_threads
      <4>1. \A t \in Threads : pc[t] \notin Told BY <3>3 DEF Exclusive, WorkersOut
      <4> QED BY <2>1, <4>1 DEF Exclusive, WorkersOut, Told
    <3> QED BY <2>2, <3>1, <3>2, <3>3
  <2> QED BY <2>3, <2>4, <2>5 DEF Exclusive
<1>3. Writer => (WriterStale /\ Crash) \/ (Writer /\ OnlyWriterMoves)
  BY DEF Writer, WriterTop, WriterIdle, WriterPop, WriterWrite, WriterStale, OnlyWriterMoves
<1> QED BY <1>1, <1>2, <1>3

LEMMA ReportExclusive ==
  ASSUME Exclusive, Report
  PROVE  Exclusive'
<1>1. UNCHANGED <<pc, mu, stop_threads, wthread>> BY DEF Report, flagVars
<1>2. rthread' # "tmp" \/ ~stop_threads BY DEF Report
<1>3. LockOrder' /\ LifeCycle' BY <1>1 DEF Exclusive, LockOrder, LifeCycle
<1>4. WorkersOut'
  <2>1. CASE rthread' # "tmp" BY <1>1, <2>1 DEF Exclusive, WorkersOut
  <2>2. CASE ~stop_threads
    <3>1. \A t \in Threads : pc[t] \notin Told BY <2>2 DEF Exclusive, WorkersOut
    <3> QED BY <1>1, <3>1 DEF Exclusive, WorkersOut, Told
  <2> QED BY <1>2, <2>1, <2>2
<1> QED BY <1>3, <1>4 DEF Exclusive

(* The threads outside the two functions: whatever one of them does, it    *)
(* neither takes the mutex nor enters the finaliser's part.                *)
LEMMA OutsideMove ==
  ASSUME Exclusive, NEW t \in Threads, NEW b,
         pc' = [pc EXCEPT ![t] = b],
         pc[t] \notin {"none", "crashed"}, b \notin Starting \cup Finishing \cup OnceOnly,
         mu' = mu, stop_threads' = stop_threads \/ stop_threads' = TRUE,
         wthread' = wthread, rthread' = rthread
  PROVE  Exclusive'
<1>1. b \notin Told BY DEF Told, Alone, Finishing
<1>2. LockOrder' /\ LifeCycle' BY MoveKeepsOrder
<1>3. WorkersOut' BY <1>1, MoveKeepsWorkers
<1> QED BY <1>2, <1>3 DEF Exclusive

LEMMA ClientExclusive ==
  ASSUME Exclusive, Client \/ ClientDisconnect \/ \E kind \in Kinds : ClientReceive(kind)
  PROVE  Exclusive'
<1>1. CASE Crash BY <1>1, CrashKeeps
<1>2. CASE ~Crash
  <2>1. UNCHANGED <<mu, stop_threads, wthread, rthread>>
    BY <1>2 DEF Client, ClientAccept, ClientCheck, ClientPush, ClientPushStale, ClientDisconnect,
       ClientReceive, ClientUnchanged, OnlyClientMoves, flagVars
  <2>2. NextFrame \in {"gone", "recv"} BY DEF NextFrame
  <2>3. PICK b : /\ pc' = [pc EXCEPT !["client"] = b]
                 /\ b \in {"check", "push", "gone", "recv", "start", "stop", "accept"}
                 /\ pc["client"] \in {"recv", "accept", "check", "push"}
    BY <1>2, <2>2 DEF Client, ClientAccept, ClientCheck, ClientPush, ClientPushStale,
       ClientDisconnect, ClientReceive, Move, Goto
  <2>4. /\ b \notin Starting \cup Finishing \cup OnceOnly
        /\ pc["client"] \notin {"none", "crashed"}
    BY <2>3 DEF Starting, Finishing, OnceOnly, BeforeControl, BeforeStorage
  <2> QED BY <2>1, <2>3, <2>4, OutsideMove, CallerNames
<1> QED BY <1>1, <1>2

LEMMA EnvironmentExclusive ==
  ASSUME Exclusive,
         (\E cmd \in Commands : ControlCommand(cmd)) \/ StorageCritical \/ ControlLeaves \/ Signal
  PROVE  Exclusive'
<1>1. UNCHANGED <<mu, stop_threads, wthread, rthread>>
  BY DEF ControlCommand, StorageCritical, ControlLeaves, Signal, MainUnchanged, flagVars, workerVars
<1>2. PICK t \in Threads, b \in {"start", "stop", "gone"} :
         pc' = [pc EXCEPT ![t] = b] /\ pc[t] \in {"serve", "watch", "wait"}
  BY CallerNames DEF ControlCommand, StorageCritical, ControlLeaves, Signal, Move, Goto
<1>3. /\ b \notin Starting \cup Finishing \cup OnceOnly
      /\ pc[t] \notin {"none", "crashed"}
  BY <1>2 DEF Starting, Finishing, OnceOnly, BeforeControl, BeforeStorage
<1> QED BY <1>1, <1>2, <1>3, OutsideMove

(* The main thread moves, and another thread is created or found finished. *)
LEMMA MainExclusive ==
  ASSUME Exclusive, NEW t \in Threads \ {"main"}, NEW a, NEW b,
         pc' = [pc EXCEPT !["main"] = a, ![t] = b], pc["main"] # "crashed",
         {a, b} \cap (Starting \cup Finishing \cup {"crashed"}) = {},
         a \notin BeforeStorage,
         a \in BeforeControl => pc["main"] \in BeforeControl /\ t # "control",
         UNCHANGED <<mu, stop_threads, wthread, rthread>>
  PROVE  Exclusive'
<1>1. pc' = [r \in Threads |-> IF r = t THEN b ELSE IF r = "main" THEN a ELSE pc[r]]
  BY CallerNames DEF Exclusive, LockOrder
<1>2. LockOrder'
  <2>1. ASSUME NEW r \in Threads, pc'[r] \in Starting \cup Finishing PROVE mu' = r
    BY <1>1, <2>1 DEF Exclusive, LockOrder
  <2> QED BY <1>1, <2>1 DEF LockOrder
<1>3. LifeCycle'
  <2>1. pc'["main"] = a BY <1>1, CallerNames
  <2>2. \A r \in Threads : pc'[r] # "crashed" BY <1>1, CallerNames DEF Exclusive, LifeCycle
  <2>3. a \in BeforeControl => pc'["control"] = "none"
    BY <1>1, CallerNames DEF Exclusive, LifeCycle
  <2> QED BY <2>1, <2>2, <2>3 DEF LifeCycle, BeforeStorage
<1>4. WorkersOut' BY <1>1 DEF Exclusive, WorkersOut, Told, Alone, Finishing
<1> QED BY <1>2, <1>3, <1>4 DEF Exclusive

LEMMA StartupExclusive ==
  ASSUME Exclusive, StartClient \/ StartStorage \/ StartThreads \/ StartControl
  PROVE  Exclusive'
<1>1. CASE StartClient
  <2>1. PICK a \in {"m_storage", "exited"}, b \in {"recv", "none"} :
          pc' = [pc EXCEPT !["main"] = a, !["client"] = b]
    <3>1. pc["client"] = "none" BY <1>1, CallerNames DEF StartClient, Exclusive, LifeCycle
    <3>2. pc' = [pc EXCEPT !["main"] = "m_storage", !["client"] = "recv"]
          \/ pc' = [pc EXCEPT !["main"] = "exited"]
      BY <1>1 DEF StartClient, Goto
    <3>3. CASE pc' = [pc EXCEPT !["main"] = "exited"]
      <4>1. pc' = [pc EXCEPT !["main"] = "exited", !["client"] = "none"]
        BY <3>1, <3>3, CallerNames DEF Exclusive, LockOrder
      <4> QED BY <4>1
    <3> QED BY <3>2, <3>3
  <2>2. pc' = [r \in Threads |-> IF r = "client" THEN b ELSE IF r = "main" THEN a ELSE "none"]
    <3>1. pc["storage"] = "none" /\ pc["control"] = "none"
      BY <1>1 DEF StartClient, Exclusive, LifeCycle, BeforeControl, BeforeStorage
    <3>2. pc' = [r \in Threads |-> IF r = "client" THEN b ELSE IF r = "main" THEN a ELSE pc[r]]
      BY <2>1, CallerNames DEF Exclusive, LockOrder
    <3> QED BY <3>1, <3>2, CallerNames
  <2>3. \A r \in Threads : pc'[r] \notin Starting \cup Finishing
    BY <2>2 DEF Starting, Finishing
  <2>4. LockOrder' BY <2>2, <2>3 DEF LockOrder
  <2>5. LifeCycle'
    <3>1. /\ pc'["main"] = a /\ pc'["storage"] = "none" /\ pc'["control"] = "none"
          /\ \A r \in Threads : pc'[r] # "crashed"
      BY <2>2, CallerNames
    <3> QED BY <3>1 DEF LifeCycle
  <2>6. WorkersOut' BY <2>3 DEF WorkersOut, Told, Alone, Finishing
  <2> QED BY <2>4, <2>5, <2>6 DEF Exclusive
<1>2. CASE StartStorage
  <2>1. /\ pc["main"] = "m_storage"
        /\ pc' = [pc EXCEPT !["main"] = "m_threads", !["storage"] = "watch"]
        /\ UNCHANGED <<mu, stop_threads, wthread, rthread>>
    BY <1>2 DEF StartStorage, MainUnchanged, flagVars
  <2>2. /\ {"m_threads", "watch"} \cap (Starting \cup Finishing \cup {"crashed"}) = {}
        /\ "m_threads" \notin BeforeStorage /\ pc["main"] \in BeforeControl
    BY <2>1 DEF Starting, Finishing, BeforeControl, BeforeStorage
  <2> QED BY <2>1, <2>2, MainExclusive, CallerNames
<1>3. CASE StartThreads
  <2>1. CASE Crash BY <2>1, CrashKeeps
  <2>2. CASE ~Crash
    <3>1. /\ pc["main"] = "m_threads" /\ pc' = [pc EXCEPT !["main"] = "m_control"]
          /\ wthread' = "top" /\ rthread' = "top" /\ UNCHANGED <<mu, stop_threads>>
      BY <1>3, <2>2 DEF StartThreads, Move, Goto, LaunchThreads, MainUnchanged, flagVars
    <3>2. "m_control" \notin Starting \cup Finishing \cup {"crashed"} \cup BeforeStorage
      BY DEF Starting, Finishing, BeforeStorage
    <3>3. pc' = [r \in Threads |-> IF r = "main" THEN "m_control" ELSE pc[r]]
      BY <3>1 DEF Exclusive, LockOrder
    <3>4. LockOrder' BY <3>1, <3>2, <3>3 DEF Exclusive, LockOrder
    <3>5. LifeCycle'
      <4>1. pc'["main"] = "m_control" /\ pc'["control"] = "none"
        BY <3>1, <3>3, CallerNames DEF Exclusive, LifeCycle, BeforeControl
      <4>2. \A r \in Threads : pc'[r] # "crashed"
        BY <3>1, <3>2, <3>3, CallerNames DEF Exclusive, LifeCycle
      <4> QED BY <3>2, <4>1, <4>2 DEF LifeCycle, BeforeStorage
    <3>6. WorkersOut' BY <3>1, <3>2, <3>3 DEF Exclusive, WorkersOut, Told, Alone, Finishing
    <3> QED BY <3>4, <3>5, <3>6 DEF Exclusive
  <2> QED BY <2>1, <2>2
<1>4. CASE StartControl
  <2>1. UNCHANGED <<mu, stop_threads, wthread, rthread>> /\ pc["main"] = "m_control"
    BY <1>4 DEF StartControl, MainUnchanged, flagVars
  <2>2. {"start", "serve", "d_flag"} \cap (Starting \cup Finishing \cup OnceOnly) = {}
    BY DEF Starting, Finishing, OnceOnly, BeforeControl, BeforeStorage
  <2>3. CASE pc' = [pc EXCEPT !["main"] = "start", !["control"] = "serve"]
    BY <2>1, <2>2, <2>3, MainExclusive, CallerNames DEF OnceOnly, BeforeControl
  <2>4. CASE pc' = [pc EXCEPT !["main"] = "d_flag"]
    BY <2>1, <2>2, <2>4, OutsideMove, CallerNames
  <2> QED BY <1>4, <2>3, <2>4 DEF StartControl, Goto
<1> QED BY <1>1, <1>2, <1>3, <1>4

LEMMA ShutdownExclusive ==
  ASSUME Exclusive, RaiseStopFlag \/ JoinCallers \/ ExitJoinWriter \/ ExitJoinReport
  PROVE  Exclusive'
<1>0. {"d_control", "d_client", "d_storage", "d_writer", "d_report", "exited", "gone"}
        \cap (Starting \cup Finishing \cup OnceOnly) = {}
  BY DEF Starting, Finishing, OnceOnly, BeforeControl, BeforeStorage
<1>1. CASE RaiseStopFlag
  <2>1. /\ pc["main"] = "d_flag" /\ pc' = [pc EXCEPT !["main"] = "d_control"] /\ mu' = mu
        /\ stop_threads' = TRUE /\ wthread' = wthread /\ rthread' = rthread
    BY <1>1 DEF RaiseStopFlag, Move, Goto, MainUnchanged
  <2> QED BY <1>0, <2>1, OutsideMove, CallerNames
<1>2. CASE JoinCallers
  <2>1. PICK t \in Threads \ {"main"}, a \in {"d_client", "d_storage", "d_writer"} :
          pc["main"] # "crashed" /\ pc' = [pc EXCEPT !["main"] = a, ![t] = "gone"]
    BY <1>2, CallerNames DEF JoinCallers, JoinCaller
  <2>2. UNCHANGED <<mu, stop_threads, wthread, rthread>>
    BY <1>2 DEF JoinCallers, JoinCaller, MainUnchanged, flagVars
  <2> QED BY <1>0, <2>1, <2>2, MainExclusive DEF OnceOnly, BeforeControl
<1>3. CASE ExitJoinWriter \/ ExitJoinReport
  <2>1. PICK a \in {"d_report", "exited"} :
          pc' = [pc EXCEPT !["main"] = a] /\ pc["main"] \in {"d_writer", "d_report"}
    BY <1>3 DEF ExitJoinWriter, ExitJoinReport, Move, Goto
  <2>2. /\ UNCHANGED <<mu, stop_threads>>
        /\ wthread' = wthread \/ wthread' = "none"
        /\ rthread' = rthread \/ rthread' = "none"
    BY <1>3 DEF ExitJoinWriter, ExitJoinReport, MainUnchanged, flagVars
  <2>3. LockOrder' /\ LifeCycle' BY <1>0, <2>1, <2>2, MoveKeepsOrder, CallerNames
  <2>4. pc' = [r \in Threads |-> IF r = "main" THEN a ELSE pc[r]]
    BY <2>1 DEF Exclusive, LockOrder
  <2>5. WorkersOut' BY <1>0, <2>2, <2>4 DEF Exclusive, WorkersOut, Told, Alone, Finishing
  <2> QED BY <2>3, <2>5 DEF Exclusive
<1> QED BY <1>1, <1>2, <1>3

-----------------------------------------------------------------------------
LEMMA NextExclusive == Exclusive /\ [Next]_vars => Exclusive'
<1> SUFFICES ASSUME Exclusive, [Next]_vars PROVE Exclusive' OBVIOUS
<1>1. CASE \E t \in Threads : Service(t) BY <1>1, ServiceExclusive
<1>2. CASE Writer BY <1>2, WriterExclusive
<1>3. CASE Report BY <1>3, ReportExclusive
<1>4. CASE Client \/ ClientDisconnect \/ \E kind \in Kinds : ClientReceive(kind)
  BY <1>4, ClientExclusive
<1>5. CASE (\E cmd \in Commands : ControlCommand(cmd)) \/ StorageCritical \/ ControlLeaves \/ Signal
  BY <1>5, EnvironmentExclusive
<1>6. CASE Main BY <1>6, StartupExclusive, ShutdownExclusive DEF Main
<1>7. CASE UNCHANGED vars
  BY <1>7 DEF vars, flagVars, workerVars, Exclusive, LockOrder, LifeCycle, WorkersOut
<1> QED BY <1>1, <1>2, <1>3, <1>4, <1>5, <1>6, <1>7 DEF Next, Terminated

LEMMA AlwaysExclusive == Spec => []Exclusive
BY InitExclusive, NextExclusive, PTL DEF Spec

(* The thread that finalises a session has the session to itself, in every *)
(* behaviour of the daemon: the joins of FinalizeActiveSession are enough, *)
(* although StartDaemon may create both threads while it runs              *)
(* (runtime_service.cpp:365-386).                                          *)
THEOREM FinaliserIsAlone == Spec => []FinalizeAlone
<1>1. Exclusive => FinalizeAlone BY DEF Exclusive, WorkersOut, FinalizeAlone, Alone
<1> QED BY <1>1, AlwaysExclusive, PTL

-----------------------------------------------------------------------------
(* Sessions.                                                               *)
Active  == {"Recording", "Stopping"}
Sealing == {"mark", "summary", "reset"}
Within  == Starting \cup Finishing \cup {"crashed"}

Shapes ==
  /\ sid \in Nat /\ writer \in Nat /\ writer <= sid
  /\ chunk \in [Sessions -> {"none", "open", "bad", "closed"}]
  /\ disk = [s \in Sessions |-> disk[s]]
  /\ triggered \in [Sessions -> Nat]

(* Nothing has happened yet to the files of sessions to come.              *)
Past ==
  \A s \in Sessions : chunk[s] = "closed" \/ triggered[s] > 0 => s <= sid

(* The writer in place is open to writing, but for a finaliser about to    *)
(* reset it; a crash may catch it there.                                   *)
WriterOpen ==
  writer \in Sessions /\ chunk[writer] = "closed" =>
    \E t \in Threads : pc[t] \in Sealing \cup {"crashed"}

(* What the thread that holds the mutex knows at a place.                  *)
Knows(place) ==
  /\ place \in Starting /\ sid \in Sessions => chunk[sid] # "closed"
  /\ place \in {"start_open"} \cup (Finishing \ {"trigger", "restart"}) => writer = sid
  /\ place \in Starting \cup (Finishing \ {"restart"}) /\ sid \in Sessions => triggered[sid] = 0
  /\ place \in Sealing \cup {"trigger"} /\ sid \in Sessions => chunk[sid] = "closed"
  /\ place \in {"summary", "reset", "trigger"} => sid \in saved
  /\ place \in {"reset", "trigger"} => sid \in summary
  /\ place \in {"summary", "reset", "trigger", "restart"} => state \notin Active

HolderKnows == \A t \in Threads : Knows(pc[t])

(* What it leaves for the next.                                            *)
AtRest ==
  mu = Free /\ state \in Active =>
    writer = sid /\ (sid \in Sessions => triggered[sid] = 0)

Orderly == Shapes /\ Past /\ WriterOpen /\ HolderKnows /\ AtRest /\ PublishedComplete

(* A step keeps what is sealed.                                            *)
SealedStays ==
  \A s \in Sessions : chunk[s] = "closed" =>
    chunk'[s] = "closed" /\ disk'[s] = disk[s]

files == <<sid, writer, chunk, disk, triggered, saved, summary>>

-----------------------------------------------------------------------------
LEMMA InitOrderly == Init => Orderly
<1>1. SUFFICES ASSUME Init PROVE Orderly OBVIOUS
<1>2. /\ sid = 0 /\ writer = 0 /\ state = "Idle"
      /\ chunk = [s \in Sessions |-> "none"] /\ disk = [s \in Sessions |-> << >>]
      /\ triggered = [s \in Sessions |-> 0]
      /\ pc = [t \in Threads |-> IF t = "main" THEN "m_client" ELSE "none"]
  BY <1>1 DEF Init
<1>3. Shapes /\ Past BY <1>2 DEF Shapes, Past, Sessions
<1>4. WriterOpen /\ AtRest BY <1>2 DEF WriterOpen, AtRest, Active
<1>5. HolderKnows BY <1>2 DEF HolderKnows, Knows, Starting, Finishing, Sealing
<1>6. PublishedComplete BY <1>2 DEF PublishedComplete
<1> QED BY <1>3, <1>4, <1>5, <1>6 DEF Orderly

LEMMA OutsideKnows ==
  ASSUME NEW place, place \notin Starting \cup Finishing
  PROVE  Knows(place) /\ Knows(place)'
BY DEF Knows, Starting, Finishing, Sealing

(* A step that leaves the files of the sessions alone and moves threads    *)
(* outside the two functions only, or ends them.                           *)
LEMMA QuietStep ==
  ASSUME Orderly,
         \A t \in Threads :
           \/ pc'[t] \in {pc[t], "crashed"}
           \/ pc[t] \notin Within /\ pc'[t] \notin Starting \cup Finishing,
         UNCHANGED files, mu' = mu, state' = state \/ state' \notin Active
  PROVE  Orderly' /\ SealedStays
<1>1. UNCHANGED <<sid, writer, chunk, disk, triggered, saved, summary>> BY DEF files
<1>2. Shapes' /\ Past' /\ PublishedComplete'
  BY <1>1 DEF Orderly, Shapes, Past, PublishedComplete
<1>3. WriterOpen'
  <2>1. Sealing \cup {"crashed"} \subseteq Within BY DEF Sealing, Within, Finishing
  <2> QED BY <1>1, <2>1 DEF Orderly, WriterOpen
<1>4. AtRest' BY <1>1 DEF Orderly, AtRest
<1>5. HolderKnows'
  <2>1. ASSUME NEW t \in Threads PROVE Knows(pc[t])'
    <3>1. CASE pc'[t] = pc[t]
      <4>1. Knows(pc[t]) BY DEF Orderly, HolderKnows
      <4> QED BY <1>1, <3>1, <4>1 DEF Knows
    <3>2. CASE pc'[t] \notin Starting \cup Finishing BY <3>2 DEF Knows, Starting, Finishing, Sealing
    <3> QED BY <3>1, <3>2 DEF Starting, Finishing
  <2> QED BY <2>1 DEF HolderKnows
<1>6. SealedStays BY <1>1 DEF SealedStays
<1> QED BY <1>2, <1>3, <1>4, <1>5, <1>6 DEF Orderly

(* A step of the thread that holds the mutex, or takes it: no other thread *)
(* is in the two functions.                                                *)
LEMMA HolderStep ==
  ASSUME Exclusive, NEW t \in Threads, NEW b, pc' = [pc EXCEPT ![t] = b],
         mu \in {t, Free}, Knows(b)'
  PROVE  /\ HolderKnows'
         /\ pc'[t] = b
         /\ \A r \in Threads \ {t} : pc'[r] = pc[r] /\ pc[r] \notin Starting \cup Finishing
<1>1. pc' = [r \in Threads |-> IF r = t THEN b ELSE pc[r]] BY DEF Exclusive, LockOrder
<1>2. \A r \in Threads \ {t} : pc'[r] = pc[r] /\ pc[r] \notin Starting \cup Finishing
  BY <1>1, CallerNames DEF Exclusive, LockOrder
<1>3. \A r \in Threads \ {t} : Knows(pc[r])' BY <1>2 DEF Knows, Starting, Finishing, Sealing
<1> QED BY <1>1, <1>2, <1>3 DEF HolderKnows

(* With the shapes, what is past, the writer in place and what is at rest  *)
(* settled, a step that seals nothing open anew publishes nothing new.     *)
LEMMA PublishedStays ==
  ASSUME Orderly, SealedStays, triggered' = triggered,
         saved \subseteq saved', summary \subseteq summary'
  PROVE  PublishedComplete'
BY DEF Orderly, SealedStays, PublishedComplete

-----------------------------------------------------------------------------
(* StartRecording                                                          *)

LEMMA StartSessionOrderly ==
  ASSUME Orderly, Exclusive, NEW t \in Threads, StartSession(t)
  PROVE  Orderly' /\ SealedStays
<1>1. /\ pc[t] = "start" /\ pc' = [pc EXCEPT ![t] = "start_buffer"] /\ mu = Free /\ mu' = t
      /\ sid' = sid + 1
      /\ UNCHANGED <<writer, chunk, disk, triggered, saved, summary>>
  BY DEF StartSession, Move, Goto, bufferVars, fileVars
<1>2. Knows("start_buffer")'
  BY <1>1 DEF Orderly, Shapes, Past, Knows, Starting, Finishing, Sealing, Sessions
<1>3. HolderKnows' /\ \A r \in Threads : r # t => pc'[r] = pc[r]
  BY <1>1, <1>2, HolderStep
<1>4. Shapes' BY <1>1 DEF Orderly, Shapes
<1>5. Past' BY <1>1 DEF Orderly, Past, Shapes, Sessions
<1>6. WriterOpen' BY <1>1, <1>3 DEF Orderly, WriterOpen, Sealing
<1>7. AtRest' BY <1>1, CallerNames DEF AtRest
<1>8. SealedStays BY <1>1 DEF SealedStays
<1>9. PublishedComplete' BY <1>1, <1>8, PublishedStays
<1> QED BY <1>3, <1>4, <1>5, <1>6, <1>7, <1>8, <1>9 DEF Orderly

LEMMA StartBufferOrderly ==
  ASSUME Orderly, Exclusive, NEW t \in Threads, StartBuffer(t) \/ StartWriter(t)
  PROVE  Orderly' /\ SealedStays
<1>1. PICK b \in {"start_writer", "start_open"} :
        /\ pc[t] \in {"start_buffer", "start_writer"} /\ pc' = [pc EXCEPT ![t] = b]
        /\ UNCHANGED <<mu, state, sid, chunk, disk, triggered, saved, summary>>
        /\ b = "start_writer" => writer' = writer
        /\ b = "start_open" => writer' = sid
  BY DEF StartBuffer, StartWriter, Move, Goto, sessionVars, fileVars
<1>2. mu = t /\ Knows(pc[t]) BY <1>1 DEF Exclusive, LockOrder, Orderly, HolderKnows, Starting
<1>3. Knows(b)'
  BY <1>1, <1>2 DEF Knows, Starting, Finishing, Sealing
<1>4. HolderKnows' /\ \A r \in Threads : r # t => pc'[r] = pc[r]
  BY <1>1, <1>2, <1>3, HolderStep
<1>5. Shapes' BY <1>1 DEF Orderly, Shapes
<1>6. Past' BY <1>1 DEF Orderly, Past
<1>7. WriterOpen'
  <2>1. CASE writer' = writer BY <1>1, <1>4, <2>1 DEF Orderly, WriterOpen, Sealing
  <2>2. CASE writer' = sid
    <3>1. sid \in Sessions => chunk[sid] # "closed" BY <1>1, <1>2 DEF Knows, Starting
    <3> QED BY <1>1, <2>2, <3>1 DEF WriterOpen
  <2> QED BY <1>1, <2>1, <2>2
<1>8. AtRest' BY <1>1, <1>2, CallerNames DEF AtRest
<1>9. SealedStays BY <1>1 DEF SealedStays
<1>10. PublishedComplete' BY <1>1, <1>9, PublishedStays
<1> QED BY <1>4, <1>5, <1>6, <1>7, <1>8, <1>9, <1>10 DEF Orderly

LEMMA StartOpenOrderly ==
  ASSUME Orderly, Exclusive, NEW t \in Threads, StartOpened(t) \/ StartNotOpened(t)
  PROVE  Orderly' /\ SealedStays
<1>1. PICK b, c :
        /\ c \in {"none", "open", "bad"}
        /\ pc[t] = "start_open" /\ pc' = [pc EXCEPT ![t] = b]
        /\ b \notin Starting \cup Finishing
        /\ chunk' = [chunk EXCEPT ![sid] = c]
        /\ UNCHANGED <<sid, writer, disk, triggered, saved, summary>>
        /\ state' = state \/ state' \notin Active
  <2>1. AfterStart(t, TRUE) \notin Starting \cup Finishing
        /\ AfterStart(t, FALSE) \notin Starting \cup Finishing
    BY Returns DEF Starting, Finishing
  <2>2. CASE StartOpened(t)
    <3>1. /\ pc[t] = "start_open" /\ pc' = [pc EXCEPT ![t] = AfterStart(t, TRUE)]
          /\ chunk' = [chunk EXCEPT ![sid] = "open"] /\ state' = state
          /\ UNCHANGED <<sid, writer, disk, triggered, saved, summary>>
      BY <2>2 DEF StartOpened, Move, Goto, sessionVars, bufferVars
    <3> QED BY <2>1, <3>1
  <2>3. CASE StartNotOpened(t)
    <3>1. PICK c \in {"none", "bad"} : chunk' = [chunk EXCEPT ![sid] = c]
      <4>1. chunk' = [chunk EXCEPT ![sid] = IF chunk[sid] = "none" THEN "none" ELSE "bad"]
        BY <2>3 DEF StartNotOpened
      <4> QED BY <4>1
    <3>2. /\ pc[t] = "start_open" /\ pc' = [pc EXCEPT ![t] = AfterStart(t, FALSE)]
          /\ state' \notin Active
          /\ UNCHANGED <<sid, writer, disk, triggered, saved, summary>>
      BY <2>3 DEF StartNotOpened, Move, Goto, bufferVars, Active
    <3> QED BY <2>1, <3>1, <3>2
  <2> QED BY <2>2, <2>3
<1>2. mu = t /\ Knows("start_open") BY <1>1 DEF Exclusive, LockOrder, Orderly, HolderKnows, Starting
<1>3. /\ sid \in Sessions => chunk[sid] # "closed" /\ triggered[sid] = 0
      /\ writer = sid
  BY <1>2 DEF Knows, Starting
<1>4. HolderKnows' BY <1>1, <1>2, OutsideKnows, HolderStep
<1>5. Shapes' BY <1>1 DEF Orderly, Shapes
<1>6. \A s \in Sessions : chunk'[s] = "closed" <=> chunk[s] = "closed"
  BY <1>1, <1>3 DEF Orderly, Shapes
<1>7. SealedStays BY <1>1, <1>6 DEF SealedStays
<1>8. Past' BY <1>1, <1>6 DEF Orderly, Past
<1>9. WriterOpen' BY <1>1, <1>3, <1>6 DEF WriterOpen
<1>10. AtRest' BY <1>1, <1>3 DEF AtRest
<1>11. PublishedComplete' BY <1>1, <1>7, PublishedStays
<1> QED BY <1>4, <1>5, <1>7, <1>8, <1>9, <1>10, <1>11 DEF Orderly

-----------------------------------------------------------------------------
(* StopRecording and FinalizeActiveSession                                 *)

LEMMA StopAcceptedOrderly ==
  ASSUME Orderly, Exclusive, NEW t \in Threads, StopAccepted(t)
  PROVE  Orderly' /\ SealedStays
<1>1. /\ pc[t] = "stop" /\ pc' = [pc EXCEPT ![t] = "stop_wait"] /\ mu = Free /\ mu' = t
      /\ state \in Active
      /\ UNCHANGED <<sid, writer, chunk, disk, triggered, saved, summary>>
  BY DEF StopAccepted, Move, Goto, bufferVars, fileVars, Active
<1>2. Knows("stop_wait")'
  BY <1>1 DEF Orderly, AtRest, Knows, Starting, Finishing, Sealing
<1>3. HolderKnows' /\ \A r \in Threads : r # t => pc'[r] = pc[r]
  BY <1>1, <1>2, HolderStep
<1>4. Shapes' /\ Past' BY <1>1 DEF Orderly, Shapes, Past
<1>5. WriterOpen' BY <1>1, <1>3 DEF Orderly, WriterOpen, Sealing
<1>6. AtRest' BY <1>1, CallerNames DEF AtRest
<1>7. SealedStays BY <1>1 DEF SealedStays
<1>8. PublishedComplete' BY <1>1, <1>7, PublishedStays
<1> QED BY <1>3, <1>4, <1>5, <1>6, <1>7, <1>8 DEF Orderly

(* The waits: the finaliser goes on to the next.                           *)
LEMMA WaitsOrderly ==
  ASSUME Orderly, Exclusive, NEW t \in Threads,
         StopWaitOver(t) \/ JoinWriter(t) \/ JoinReport(t) \/ DrainOver(t)
  PROVE  Orderly' /\ SealedStays
<1>1. PICK b \in {"join_writer", "join_report", "drain", "close"} :
        /\ pc[t] \in {"stop_wait", "join_writer", "join_report", "drain"}
        /\ pc' = [pc EXCEPT ![t] = b]
        /\ UNCHANGED <<mu, state, sid, writer, chunk, disk, triggered, saved, summary>>
  BY DEF StopWaitOver, JoinWriter, JoinReport, DrainOver, Move, Goto, sessionVars, bufferVars, fileVars
<1>2. mu = t /\ Knows(pc[t]) BY <1>1 DEF Exclusive, LockOrder, Orderly, HolderKnows, Finishing
<1>3. Knows(b)' BY <1>1, <1>2 DEF Knows, Starting, Finishing, Sealing
<1>4. HolderKnows' /\ \A r \in Threads : r # t => pc'[r] = pc[r]
  BY <1>1, <1>2, <1>3, HolderStep
<1>5. Shapes' /\ Past' BY <1>1 DEF Orderly, Shapes, Past
<1>6. WriterOpen' BY <1>1, <1>4 DEF Orderly, WriterOpen, Sealing
<1>7. AtRest' BY <1>1, <1>2, CallerNames DEF AtRest
<1>8. SealedStays BY <1>1 DEF SealedStays
<1>9. PublishedComplete' BY <1>1, <1>8, PublishedStays
<1> QED BY <1>4, <1>5, <1>6, <1>7, <1>8, <1>9 DEF Orderly

(* Writing a frame to a writer that is open leaves what is sealed alone.   *)
LEMMA WriteKeeps ==
  ASSUME Orderly, NEW f, WriteSucceeds(writer, f) \/ WriteFails(writer, f),
         writer \in Sessions => chunk[writer] # "closed"
  PROVE  /\ SealedStays
         /\ \A s \in Sessions : chunk'[s] = "closed" <=> chunk[s] = "closed"
         /\ chunk' \in [Sessions -> {"none", "open", "bad", "closed"}]
         /\ disk' = [s \in Sessions |-> disk'[s]]
<1>1. PICK c : /\ c \in {"open", "bad"} \/ c = chunk[writer]
               /\ chunk' = [chunk EXCEPT ![writer] = c]
  BY DEF WriteSucceeds, WriteFails
<1>2. PICK d : disk' = [disk EXCEPT ![writer] = d]
  <2>1. CASE WriteSucceeds(writer, f) BY <2>1 DEF WriteSucceeds
  <2>2. CASE WriteFails(writer, f)
    <3>1. disk' = disk BY <2>2 DEF WriteFails
    <3>2. disk' = [disk EXCEPT ![writer] = disk[writer]] BY <3>1 DEF Orderly, Shapes
    <3> QED BY <3>2
  <2> QED BY <2>1, <2>2
<1>3. chunk' = [s \in Sessions |-> IF s = writer THEN c ELSE chunk[s]]
  BY <1>1 DEF Orderly, Shapes
<1>4. disk' = [s \in Sessions |-> IF s = writer THEN d ELSE disk[s]]
  BY <1>2 DEF Orderly, Shapes
<1>5. \A s \in Sessions : chunk'[s] = "closed" <=> chunk[s] = "closed"
  BY <1>1, <1>3
<1>6. chunk' \in [Sessions -> {"none", "open", "bad", "closed"}]
  BY <1>1, <1>3 DEF Orderly, Shapes
<1>7. SealedStays BY <1>3, <1>4, <1>5 DEF SealedStays
<1> QED BY <1>4, <1>5, <1>6, <1>7

LEMMA DrainWriteOrderly ==
  ASSUME Orderly, Exclusive, NEW t \in Threads, DrainWrite(t)
  PROVE  Orderly' /\ SealedStays
<1>1. /\ pc[t] = "drain"
      /\ pc' = pc \/ pc' = [pc EXCEPT ![t] = "close"]
      /\ state' = state \/ state' \notin Active
      /\ UNCHANGED <<mu, sid, writer, triggered, saved, summary>>
  BY DEF DrainWrite, Goto, Active
<1>2. pc' = pc => pc' = [pc EXCEPT ![t] = "drain"]
  BY <1>1 DEF Exclusive, LockOrder
<1>3. PICK b \in {"drain", "close"} : pc' = [pc EXCEPT ![t] = b]
  BY <1>1, <1>2 
<1>4. mu = t /\ Knows("drain") BY <1>1 DEF Exclusive, LockOrder, Orderly, HolderKnows, Finishing
<1>5. writer \in Sessions => chunk[writer] # "closed"
  <2>1. \A r \in Threads : pc[r] \notin Sealing
    BY <1>1, <1>4 DEF Exclusive, LockOrder, Sealing, Finishing
  <2>2. \A r \in Threads : pc[r] # "crashed" BY <1>1 DEF Exclusive, LifeCycle
  <2> QED BY <2>1, <2>2 DEF Orderly, WriterOpen
<1>6. WriteSucceeds(writer, Head(buffer.queue)) \/ WriteFails(writer, Head(buffer.queue))
  BY DEF DrainWrite
<1>7. /\ SealedStays
      /\ \A s \in Sessions : chunk'[s] = "closed" <=> chunk[s] = "closed"
      /\ chunk' \in [Sessions -> {"none", "open", "bad", "closed"}]
      /\ disk' = [s \in Sessions |-> disk'[s]]
  BY <1>5, <1>6, WriteKeeps
<1>8. Knows(b)' BY <1>1, <1>4 DEF Knows, Starting, Finishing, Sealing
<1>9. HolderKnows' BY <1>3, <1>4, <1>8, HolderStep
<1>10. Shapes' BY <1>1, <1>7 DEF Orderly, Shapes
<1>11. Past' BY <1>1, <1>7 DEF Orderly, Past
<1>12. WriterOpen' BY <1>1, <1>5, <1>7 DEF WriterOpen
<1>13. AtRest' BY <1>1, <1>4, CallerNames DEF AtRest
<1>14. PublishedComplete' BY <1>1, <1>7, PublishedStays
<1> QED BY <1>7, <1>9, <1>10, <1>11, <1>12, <1>13, <1>14 DEF Orderly

LEMMA CloseWriterOrderly ==
  ASSUME Orderly, Exclusive, NEW t \in Threads, CloseWriter(t)
  PROVE  Orderly' /\ SealedStays
<1>1. /\ pc[t] = "close" /\ pc' = [pc EXCEPT ![t] = "mark"]
      /\ chunk' = IF writer = 0 THEN chunk ELSE [chunk EXCEPT ![writer] = "closed"]
      /\ UNCHANGED <<mu, state, sid, writer, disk, triggered, saved, summary>>
  BY DEF CloseWriter, Move, Goto, sessionVars, bufferVars
<1>2. mu = t /\ Knows("close") BY <1>1 DEF Exclusive, LockOrder, Orderly, HolderKnows, Finishing
<1>3. writer = sid /\ (sid \in Sessions => triggered[sid] = 0)
  BY <1>2 DEF Knows, Finishing
<1>4. chunk' = [s \in Sessions |-> IF s = sid THEN "closed" ELSE chunk[s]]
  <2>1. chunk = [s \in Sessions |-> chunk[s]] BY DEF Orderly, Shapes
  <2>2. CASE writer = 0
    <3>1. \A s \in Sessions : s # sid BY <1>3, <2>2 DEF Sessions
    <3> QED BY <1>1, <2>1, <2>2, <3>1
  <2>3. CASE writer # 0 BY <1>1, <1>3, <2>1, <2>3
  <2> QED BY <2>2, <2>3
<1>5. Knows("mark")' BY <1>1, <1>3, <1>4 DEF Knows, Starting, Finishing, Sealing
<1>6. HolderKnows' /\ pc'[t] = "mark" BY <1>1, <1>2, <1>5, HolderStep
<1>7. Shapes' BY <1>1, <1>4 DEF Orderly, Shapes
<1>8. Past' BY <1>1, <1>4 DEF Orderly, Past, Shapes, Sessions
<1>9. WriterOpen' BY <1>6 DEF WriterOpen, Sealing
<1>10. AtRest' BY <1>1, <1>2, CallerNames DEF AtRest
<1>11. SealedStays BY <1>1, <1>4 DEF SealedStays
<1>12. PublishedComplete' BY <1>1, <1>11, PublishedStays
<1> QED BY <1>6, <1>7, <1>8, <1>9, <1>10, <1>11, <1>12 DEF Orderly

(* MarkStopped saves the metadata, WriteFinalSummary the summary.          *)
LEMMA MarkOrderly ==
  ASSUME Orderly, Exclusive, NEW t \in Threads, MarkStopped(t) \/ WriteSummary(t)
  PROVE  Orderly' /\ SealedStays
<1>1. PICK b \in {"summary", "reset"} :
        /\ pc[t] \in {"mark", "summary"} /\ pc' = [pc EXCEPT ![t] = b]
        /\ b = "summary" => state' = "Closed" /\ saved' = saved \cup {sid} /\ summary' = summary
        /\ b = "reset" => /\ pc[t] = "summary" /\ state' = state
                          /\ summary' = summary \cup {sid} /\ saved' = saved
        /\ UNCHANGED <<mu, sid, writer, chunk, disk, triggered>>
  <2>1. CASE MarkStopped(t) BY <2>1 DEF MarkStopped, Move, Goto, bufferVars, fileVars
  <2>2. CASE WriteSummary(t) BY <2>2 DEF WriteSummary, Move, Goto, bufferVars, fileVars
  <2> QED BY <2>1, <2>2
<1>2. mu = t /\ Knows(pc[t]) BY <1>1 DEF Exclusive, LockOrder, Orderly, HolderKnows, Finishing
<1>3. Knows(b)' BY <1>1, <1>2 DEF Knows, Starting, Finishing, Sealing, Active
<1>4. HolderKnows' /\ pc'[t] = b BY <1>1, <1>2, <1>3, HolderStep
<1>5. Shapes' /\ Past' BY <1>1 DEF Orderly, Shapes, Past
<1>6. WriterOpen' BY <1>4 DEF WriterOpen, Sealing
<1>7. AtRest' BY <1>1, <1>2, CallerNames DEF AtRest
<1>8. SealedStays BY <1>1 DEF SealedStays
<1>9. PublishedComplete' BY <1>1, <1>8, PublishedStays
<1> QED BY <1>4, <1>5, <1>6, <1>7, <1>8, <1>9 DEF Orderly

LEMMA ResetOrderly ==
  ASSUME Orderly, Exclusive, NEW t \in Threads, ResetSession(t)
  PROVE  Orderly' /\ SealedStays
<1>1. /\ pc[t] = "reset" /\ pc' = [pc EXCEPT ![t] = "trigger"] /\ writer' = 0
      /\ UNCHANGED <<mu, state, sid, chunk, disk, triggered, saved, summary>>
  BY DEF ResetSession, Move, Goto, sessionVars, fileVars
<1>2. mu = t /\ Knows("reset") BY <1>1 DEF Exclusive, LockOrder, Orderly, HolderKnows, Finishing
<1>3. Knows("trigger")' BY <1>1, <1>2 DEF Knows, Starting, Finishing, Sealing
<1>4. HolderKnows' BY <1>1, <1>2, <1>3, HolderStep
<1>5. Shapes' BY <1>1 DEF Orderly, Shapes
<1>6. Past' BY <1>1 DEF Orderly, Past
<1>7. WriterOpen' BY <1>1 DEF WriterOpen, Sessions
<1>8. AtRest' BY <1>1, <1>2, CallerNames DEF AtRest
<1>9. SealedStays BY <1>1 DEF SealedStays
<1>10. PublishedComplete' BY <1>1, <1>9, PublishedStays
<1> QED BY <1>4, <1>5, <1>6, <1>7, <1>8, <1>9, <1>10 DEF Orderly

(* The one step that publishes.                                            *)
LEMMA TriggerOrderly ==
  ASSUME Orderly, Exclusive, NEW t \in Threads, TriggerOffline(t)
  PROVE  Orderly' /\ SealedStays
<1>1. /\ pc[t] = "trigger" /\ pc' = [pc EXCEPT ![t] = "restart"]
      /\ triggered' = [triggered EXCEPT ![sid] = @ + 1]
      /\ UNCHANGED <<mu, state, sid, writer, chunk, disk, saved, summary>>
  BY DEF TriggerOffline, Move, Goto, bufferVars, fileVars
<1>2. mu = t /\ Knows("trigger") BY <1>1 DEF Exclusive, LockOrder, Orderly, HolderKnows, Finishing
<1>3. /\ sid \in Sessions => triggered[sid] = 0 /\ chunk[sid] = "closed"
      /\ sid \in saved /\ sid \in summary /\ state \notin Active
  BY <1>2 DEF Knows, Finishing
<1>4. triggered' = [s \in Sessions |-> IF s = sid THEN 1 ELSE triggered[s]]
  <2>1. triggered' = [s \in Sessions |-> IF s = sid THEN triggered[s] + 1 ELSE triggered[s]]
    BY <1>1 DEF Orderly, Shapes
  <2> QED BY <1>3, <2>1
<1>5. Knows("restart")' BY <1>1, <1>3 DEF Knows, Starting, Finishing, Sealing
<1>6. HolderKnows' /\ \A r \in Threads : r # t => pc'[r] = pc[r]
  BY <1>1, <1>2, <1>5, HolderStep
<1>7. Shapes'
  <2>1. triggered' \in [Sessions -> Nat] BY <1>4 DEF Orderly, Shapes
  <2> QED BY <1>1, <2>1 DEF Orderly, Shapes
<1>8. Past' BY <1>1, <1>4 DEF Orderly, Past, Shapes
<1>9. WriterOpen' BY <1>1, <1>6 DEF Orderly, WriterOpen, Sealing
<1>10. AtRest' BY <1>1, <1>2, CallerNames DEF AtRest
<1>11. SealedStays BY <1>1 DEF SealedStays
<1>12. PublishedComplete'
  BY <1>1, <1>3, <1>4 DEF Orderly, PublishedComplete
<1> QED BY <1>6, <1>7, <1>8, <1>9, <1>10, <1>11, <1>12 DEF Orderly

LEMMA RestartOrderly ==
  ASSUME Orderly, Exclusive, NEW t \in Threads, RestartThreads(t)
  PROVE  Orderly' /\ SealedStays
<1>1. /\ pc[t] = "restart" /\ pc' = [pc EXCEPT ![t] = AfterStop(t)]
      /\ UNCHANGED <<state, sid, writer, chunk, disk, triggered, saved, summary>>
  BY DEF RestartThreads, Move, Goto, bufferVars, fileVars
<1>2. mu = t /\ Knows("restart") BY <1>1 DEF Exclusive, LockOrder, Orderly, HolderKnows, Finishing
<1>3. state \notin Active BY <1>2 DEF Knows
<1>4. PICK b : b = AfterStop(t) OBVIOUS
<1>5. b \notin Starting \cup Finishing BY <1>4, Returns DEF Starting, Finishing
<1>6. HolderKnows' /\ \A r \in Threads : r # t => pc'[r] = pc[r]
  BY <1>1, <1>2, <1>4, <1>5, OutsideKnows, HolderStep
<1>7. Shapes' /\ Past' BY <1>1 DEF Orderly, Shapes, Past
<1>8. WriterOpen' BY <1>1, <1>6 DEF Orderly, WriterOpen, Sealing
<1>9. AtRest' BY <1>1, <1>3 DEF AtRest
<1>10. SealedStays BY <1>1 DEF SealedStays
<1>11. PublishedComplete' BY <1>1, <1>10, PublishedStays
<1> QED BY <1>6, <1>7, <1>8, <1>9, <1>10, <1>11 DEF Orderly

-----------------------------------------------------------------------------
(* The writer thread writes to a closed file never: where the writer in    *)
(* place is closed, the finaliser is alone.                                *)
LEMMA WriterWriteOrderly ==
  ASSUME Orderly, Exclusive, WriterWrite
  PROVE  Orderly' /\ SealedStays
<1>1. /\ wthread = "write"
      /\ WriteSucceeds(writer, held.frame) \/ WriteFails(writer, held.frame)
      /\ state' = state \/ state' \notin Active
      /\ UNCHANGED <<pc, mu, sid, writer, triggered, saved, summary>>
  BY DEF WriterWrite, WriterUnchanged, OnlyWriterMoves, Active
<1>2. writer \in Sessions => chunk[writer] # "closed"
  <2>1. \A t \in Threads : pc[t] \notin Sealing \cup {"crashed"}
    BY <1>1 DEF Exclusive, WorkersOut, LifeCycle, Sealing, Alone
  <2> QED BY <2>1 DEF Orderly, WriterOpen
<1>3. /\ SealedStays
      /\ \A s \in Sessions : chunk'[s] = "closed" <=> chunk[s] = "closed"
      /\ chunk' \in [Sessions -> {"none", "open", "bad", "closed"}]
      /\ disk' = [s \in Sessions |-> disk'[s]]
  BY <1>1, <1>2, WriteKeeps
<1>4. HolderKnows'
  <2>1. ASSUME NEW t \in Threads PROVE Knows(pc[t])'
    <3>1. Knows(pc[t]) BY DEF Orderly, HolderKnows
    <3> QED BY <1>1, <1>3, <3>1 DEF Knows
  <2> QED BY <2>1 DEF HolderKnows
<1>5. Shapes' BY <1>1, <1>3 DEF Orderly, Shapes
<1>6. Past' BY <1>1, <1>3 DEF Orderly, Past
<1>7. WriterOpen' BY <1>1, <1>2, <1>3 DEF WriterOpen
<1>8. AtRest' BY <1>1 DEF Orderly, AtRest
<1>9. PublishedComplete' BY <1>1, <1>3, PublishedStays
<1> QED BY <1>3, <1>4, <1>5, <1>6, <1>7, <1>8, <1>9 DEF Orderly

(* Every other step is quiet.                                              *)
Quiet ==
  \/ \E t \in Threads : StartBusy(t) \/ StopRefused(t) \/ RestartOverThreads(t)
  \/ WriterTop \/ WriterIdle \/ WriterPop \/ WriterStale \/ Report
  \/ Client \/ ClientDisconnect \/ \E kind \in Kinds : ClientReceive(kind)
  \/ \E cmd \in Commands : ControlCommand(cmd)
  \/ StorageCritical \/ ControlLeaves \/ Signal \/ Main \/ UNCHANGED vars

(* One thread moves outside the two functions.                             *)
LEMMA OneMoves ==
  ASSUME Exclusive, NEW t \in Threads, NEW b, pc' = [pc EXCEPT ![t] = b],
         pc[t] \notin Within, b \notin Starting \cup Finishing
  PROVE  \A r \in Threads :
           \/ pc'[r] \in {pc[r], "crashed"}
           \/ pc[r] \notin Within /\ pc'[r] \notin Starting \cup Finishing
<1>1. pc' = [r \in Threads |-> IF r = t THEN b ELSE pc[r]] BY DEF Exclusive, LockOrder
<1> QED BY <1>1

(* The main thread moves and another that was not in the two functions.    *)
LEMMA MainMoves ==
  ASSUME Exclusive, NEW t \in Threads \ {"main"}, NEW a, NEW b,
         pc' = [pc EXCEPT !["main"] = a, ![t] = b],
         pc["main"] \notin Within, a \notin Starting \cup Finishing,
         pc[t] \notin Starting \cup Finishing, b \notin Starting \cup Finishing
  PROVE  \A r \in Threads :
           \/ pc'[r] \in {pc[r], "crashed"}
           \/ pc[r] \notin Within /\ pc'[r] \notin Starting \cup Finishing
<1>1. pc' = [r \in Threads |-> IF r = t THEN b ELSE IF r = "main" THEN a ELSE pc[r]]
  BY CallerNames DEF Exclusive, LockOrder
<1>2. \A r \in Threads : pc[r] # "crashed" BY CallerNames DEF Exclusive, LifeCycle, Within
<1> QED BY <1>1, <1>2 DEF Within

(* How a thread may move without disturbing what the holder knows.         *)
MovesOutside ==
  \A r \in Threads :
    \/ pc'[r] \in {pc[r], "crashed"}
    \/ pc[r] \notin Within /\ pc'[r] \notin Starting \cup Finishing

LEMMA CrashMoves == Crash => MovesOutside
BY DEF Crash, MovesOutside

LEMMA ServiceMoves ==
  ASSUME Exclusive, NEW t \in Threads, StartBusy(t) \/ StopRefused(t)
  PROVE  MovesOutside
<1>1. PICK b : /\ pc' = [pc EXCEPT ![t] = b] /\ pc[t] \in {"start", "stop"}
               /\ b \in {"wait", "d_flag", "accept", "serve", "watch", "recv", "gone"}
  <2>1. CASE StartBusy(t) BY <2>1, Returns DEF StartBusy, Move, Goto
  <2>2. CASE StopRefused(t) BY <2>2, Returns DEF StopRefused, Move, Goto
  <2> QED BY <2>1, <2>2
<1>2. pc[t] \notin Within /\ b \notin Starting \cup Finishing
  BY <1>1 DEF Within, Starting, Finishing
<1> QED BY <1>1, <1>2, OneMoves DEF MovesOutside

LEMMA ClientMoves ==
  ASSUME Exclusive,
         \/ Client \/ ClientDisconnect \/ \E kind \in Kinds : ClientReceive(kind)
         \/ \E cmd \in Commands : ControlCommand(cmd)
         \/ StorageCritical \/ ControlLeaves \/ Signal
  PROVE  MovesOutside
<1>1. CASE Crash BY <1>1, CrashMoves
<1>2. CASE ~Crash
  <2>1. NextFrame \in {"gone", "recv"} BY DEF NextFrame
  <2>2. PICK t, b :
          /\ t \in Threads
          /\ pc' = [pc EXCEPT ![t] = b]
          /\ b \in {"check", "push", "gone", "recv", "start", "stop", "accept"}
          /\ pc[t] \in {"recv", "accept", "check", "push", "serve", "watch", "wait"}
    <3>1. CASE Client \/ ClientDisconnect \/ \E kind \in Kinds : ClientReceive(kind)
      BY <1>2, <2>1, <3>1, CallerNames DEF Client, ClientAccept, ClientCheck, ClientPush, ClientPushStale,
         ClientDisconnect, ClientReceive, Move, Goto
    <3>2. CASE (\E cmd \in Commands : ControlCommand(cmd)) \/ StorageCritical \/ ControlLeaves \/ Signal
      BY <3>2, CallerNames DEF ControlCommand, StorageCritical, ControlLeaves, Signal, Move, Goto
    <3> QED BY <3>1, <3>2
  <2>3. pc[t] \notin Within /\ b \notin Starting \cup Finishing
    BY <2>2 DEF Within, Starting, Finishing
  <2> QED BY <2>2, <2>3, OneMoves DEF MovesOutside
<1> QED BY <1>1, <1>2

LEMMA MainMovesOutside ==
  ASSUME Exclusive, Main
  PROVE  MovesOutside
<1>1. CASE Crash BY <1>1, CrashMoves
<1>2. CASE ~Crash
  <2>1. ASSUME NEW a, pc' = [pc EXCEPT !["main"] = a],
               a \in {"exited", "m_control", "d_flag", "d_control", "d_report"},
               pc["main"] \in {"m_client", "m_threads", "m_control", "d_flag", "d_writer", "d_report"}
        PROVE  MovesOutside
    <3>1. pc["main"] \notin Within /\ a \notin Starting \cup Finishing
      BY <2>1 DEF Within, Starting, Finishing
    <3> QED BY <2>1, <3>1, OneMoves, CallerNames DEF MovesOutside
  <2>2. ASSUME NEW t \in Threads \ {"main"}, NEW a, NEW b,
               pc' = [pc EXCEPT !["main"] = a, ![t] = b],
               a \in {"m_storage", "m_threads", "start", "d_client", "d_storage", "d_writer"},
               b \in {"recv", "watch", "serve", "gone"},
               pc["main"] \in {"m_client", "m_storage", "m_control", "d_control", "d_client", "d_storage"},
               pc[t] \in {"none", "gone", "serve", "watch"}
        PROVE  MovesOutside
    <3>1. /\ pc["main"] \notin Within /\ a \notin Starting \cup Finishing
          /\ pc[t] \notin Starting \cup Finishing /\ b \notin Starting \cup Finishing
      BY <2>2 DEF Within, Starting, Finishing
    <3> QED BY <2>2, <3>1, MainMoves DEF MovesOutside
  <2>3. CASE StartClient
    <3>1. pc["client"] = "none" BY <2>3 DEF StartClient, Exclusive, LifeCycle
    <3> QED BY <2>1, <2>2, <2>3, <3>1, CallerNames DEF StartClient, Goto
  <2>4. CASE StartStorage
    <3>1. pc["storage"] = "none" BY <2>4 DEF StartStorage, Exclusive, LifeCycle, BeforeStorage
    <3> QED BY <2>2, <2>4, <3>1, CallerNames DEF StartStorage
  <2>5. CASE StartControl
    <3>1. pc["control"] = "none" BY <2>5 DEF StartControl, Exclusive, LifeCycle, BeforeControl
    <3> QED BY <2>1, <2>2, <2>5, <3>1, CallerNames DEF StartControl, Goto
  <2>6. CASE JoinCallers BY <2>2, <2>6, CallerNames DEF JoinCallers, JoinCaller
  <2>7. CASE StartThreads BY <1>2, <2>1, <2>7 DEF StartThreads, Move, Goto
  <2>8. CASE RaiseStopFlag \/ ExitJoinWriter \/ ExitJoinReport
    BY <2>1, <2>8 DEF RaiseStopFlag, ExitJoinWriter, ExitJoinReport, Move, Goto
  <2> QED BY <2>3, <2>4, <2>5, <2>6, <2>7, <2>8 DEF Main
<1> QED BY <1>1, <1>2

LEMMA QuietMoves ==
  ASSUME Exclusive, Quiet
  PROVE  UNCHANGED files /\ mu' = mu /\ state' = state /\ MovesOutside
<1>1. UNCHANGED files /\ mu' = mu /\ state' = state
  <2>1. CASE \E t \in Threads : StartBusy(t) \/ StopRefused(t) \/ RestartOverThreads(t)
    BY <2>1 DEF StartBusy, StopRefused, RestartOverThreads, files, sessionVars, bufferVars, fileVars
  <2>2. CASE WriterTop \/ WriterIdle \/ WriterPop \/ WriterStale
    BY <2>2 DEF WriterTop, WriterIdle, WriterPop, WriterStale, WriterUnchanged, files, fileVars
  <2>3. CASE Report \/ (\E cmd \in Commands : ControlCommand(cmd)) \/ StorageCritical \/ ControlLeaves \/ Signal
    BY <2>3 DEF Report, ControlCommand, StorageCritical, ControlLeaves, Signal, MainUnchanged, files, sessionVars,
       bufferVars, fileVars
  <2>4. CASE Client \/ ClientDisconnect \/ \E kind \in Kinds : ClientReceive(kind)
    BY <2>4 DEF Client, ClientAccept, ClientCheck, ClientPush, ClientPushStale, ClientDisconnect,
       ClientReceive, ClientUnchanged, files, sessionVars, fileVars
  <2>5. CASE Main
    BY <2>5 DEF Main, StartClient, StartStorage, StartThreads, StartControl, RaiseStopFlag,
       JoinCallers, JoinCaller, ExitJoinWriter, ExitJoinReport, MainUnchanged, files, sessionVars,
       bufferVars, fileVars
  <2>6. CASE UNCHANGED vars BY <2>6 DEF vars, files, sessionVars, bufferVars, fileVars
  <2> QED BY <2>1, <2>2, <2>3, <2>4, <2>5, <2>6 DEF Quiet
<1>2. MovesOutside
  <2>1. CASE Crash BY <2>1, CrashMoves
  <2>2. CASE pc' = pc BY <2>2 DEF MovesOutside
  <2>3. CASE \E t \in Threads : StartBusy(t) \/ StopRefused(t) BY <2>3, ServiceMoves
  <2>4. CASE \/ Client \/ ClientDisconnect \/ \E kind \in Kinds : ClientReceive(kind)
             \/ \E cmd \in Commands : ControlCommand(cmd)
             \/ StorageCritical \/ ControlLeaves \/ Signal
    BY <2>4, ClientMoves
  <2>5. CASE Main BY <2>5, MainMovesOutside
  <2>6. \/ \E t \in Threads : RestartOverThreads(t)
        \/ WriterTop \/ WriterIdle \/ WriterPop \/ WriterStale \/ Report \/ UNCHANGED vars
        => Crash \/ pc' = pc
    BY DEF RestartOverThreads, WriterTop, WriterIdle, WriterPop, WriterStale, Report,
       OnlyWriterMoves, vars
  <2> QED BY <2>1, <2>2, <2>3, <2>4, <2>5, <2>6 DEF Quiet
<1> QED BY <1>1, <1>2

LEMMA QuietOrderly ==
  ASSUME Orderly, Exclusive, Quiet
  PROVE  Orderly' /\ SealedStays
BY QuietMoves, QuietStep DEF MovesOutside

-----------------------------------------------------------------------------
LEMMA NextOrderly == Orderly /\ Exclusive /\ [Next]_vars => Orderly' /\ SealedStays
<1> SUFFICES ASSUME Orderly, Exclusive, [Next]_vars PROVE Orderly' /\ SealedStays OBVIOUS
<1>1. CASE Quiet BY <1>1, QuietOrderly
<1>2. CASE WriterWrite BY <1>2, WriterWriteOrderly
<1>3. ASSUME NEW t \in Threads, Service(t), ~Quiet PROVE Orderly' /\ SealedStays
  <2>1. ~(StartBusy(t) \/ StopRefused(t) \/ RestartOverThreads(t)) BY <1>3 DEF Quiet
  <2>2. CASE StartSession(t) BY <2>2, StartSessionOrderly
  <2>3. CASE StartBuffer(t) \/ StartWriter(t) BY <2>3, StartBufferOrderly
  <2>4. CASE StartOpened(t) \/ StartNotOpened(t) BY <2>4, StartOpenOrderly
  <2>5. CASE StopAccepted(t) BY <2>5, StopAcceptedOrderly
  <2>6. CASE StopWaitOver(t) \/ JoinWriter(t) \/ JoinReport(t) \/ DrainOver(t) BY <2>6, WaitsOrderly
  <2>7. CASE DrainWrite(t) BY <2>7, DrainWriteOrderly
  <2>8. CASE CloseWriter(t) BY <2>8, CloseWriterOrderly
  <2>9. CASE MarkStopped(t) \/ WriteSummary(t) BY <2>9, MarkOrderly
  <2>10. CASE ResetSession(t) BY <2>10, ResetOrderly
  <2>11. CASE TriggerOffline(t) BY <2>11, TriggerOrderly
  <2>12. CASE RestartThreads(t) BY <2>12, RestartOrderly
  <2> QED
    BY <1>3, <2>1, <2>2, <2>3, <2>4, <2>5, <2>6, <2>7, <2>8, <2>9, <2>10, <2>11, <2>12 DEF Service
<1> QED BY <1>1, <1>2, <1>3 DEF Next, Quiet, Writer, Terminated

LEMMA AlwaysOrderly == Spec => []Orderly
<1>1. Init => Orderly BY InitOrderly
<1>2. Orderly /\ Exclusive /\ [Next]_vars => Orderly' BY NextOrderly
<1> QED BY <1>1, <1>2, AlwaysExclusive, PTL DEF Spec

(* A session given to the offline pipeline is complete - closed chunks,    *)
(* metadata, summary - and is given to it once, whatever threads, commands *)
(* and failures do (runtime_service.cpp:363-396).                          *)
THEOREM PublishedIsComplete == Spec => []PublishedComplete
<1>1. Orderly => PublishedComplete BY DEF Orderly
<1> QED BY <1>1, AlwaysOrderly, PTL

(* No step changes a closed chunk file or opens it again                   *)
(* (chunk_writer.cpp:46-51, 69-73, 187-196).                               *)
THEOREM ClosedIsFinal == Spec => ClosedStaysClosed
<1>1. Orderly /\ Exclusive /\ [Next]_vars => [SealedStays]_vars BY NextOrderly
<1>2. [SealedStays]_vars <=> [\A s \in Sessions : chunk[s] = "closed" =>
                                 chunk'[s] = "closed" /\ disk'[s] = disk[s]]_vars
  BY DEF SealedStays
<1> QED BY <1>1, <1>2, AlwaysOrderly, AlwaysExclusive, PTL DEF Spec, ClosedStaysClosed

-----------------------------------------------------------------------------
(* Types.                                                                  *)
Allowed == [t \in Threads |-> Places[t] \cup Calling \cup {"crashed"}]

(* The starts that were begun by a caller and not yet accepted.            *)
MainStart    == IF pc["main"] \in BeforeControl \cup {"start"} THEN 1 ELSE 0
ClientStart  == IF pc["client"] = "start" THEN 1 ELSE 0
ControlStart == IF pc["control"] = "start" THEN 1 ELSE 0

Seats ==
  /\ \A t \in Threads : pc[t] \in Allowed[t]
  /\ \A t \in Threads : pc[t] \in Starting \cup Finishing => sid # 0
  /\ pc["storage"] # "start"
  /\ sid \in Nat /\ commands \in 0..MaxCommands
  /\ sid + MainStart + ClientStart + ControlStart <= commands + 2
  /\ ControlStart <= commands
  /\ state = "Idle" <=> sid = 0

(* The types of the data, by component.                                    *)
SessionTypes ==
  /\ mu \in Threads \cup {Free}
  /\ state \in {"Idle", "Recording", "Stopping", "Closed", "Error"}
  /\ finalizing \in BOOLEAN
  /\ saved \subseteq Sessions /\ summary \subseteq Sessions

ClientTypes ==
  /\ frame \in Frames \cup {0} /\ received \in 0..MaxFrames
  /\ pushed \in [Frames -> Sessions \cup {0}]
  /\ pc["client"] \notin {"none", "recv", "gone", "crashed"} => frame \in Frames

BufferTypes == buffer.queue \in Seq(Frames) /\ evicted \subseteq Frames

WorkerTypes ==
  /\ wthread \in {"none", "top", "pop", "write", "done"}
  /\ rthread \in {"none", "top", "tmp", "done"}
  /\ seen \in {"Idle", "Recording", "Stopping"}
  /\ held \in [frame: Frames \cup {0}, writer: Sessions \cup {0}]
  /\ wthread = "write" => held.frame \in Frames /\ held.writer # 0

FileTypes ==
  /\ disk \in [Sessions -> Seq(Frames)]
  /\ failed \subseteq Frames \X Sessions
  /\ alerts \in 0..MaxAlerts /\ faults \in 0..MaxFaults

FlagTypes == stop_threads \in BOOLEAN /\ daemon_running \in BOOLEAN

DataTypes ==
  SessionTypes /\ ClientTypes /\ BufferTypes /\ WorkerTypes /\ FileTypes /\ FlagTypes

Typed == Seats /\ DataTypes

LEMMA TypedImpliesTypeOK == Exclusive /\ Orderly /\ Typed => TypeOK
<1> SUFFICES ASSUME Exclusive, Orderly, Typed PROVE TypeOK OBVIOUS
<1>1. MaxCommands \in Nat /\ sid \in Sessions \cup {0} /\ writer \in Sessions \cup {0}
  <2>1. sid <= MaxCommands + 2
    BY ServiceAssumption DEF Typed, Seats, MainStart, ClientStart, ControlStart
  <2> QED BY <2>1, ServiceAssumption DEF Orderly, Shapes, Sessions
<1>2. pc = [t \in Threads |-> pc[t]] BY DEF Exclusive, LockOrder
<1>3. commands \in 0..MaxCommands /\ \A t \in Threads : pc[t] \in Places[t] \cup Calling \cup {"crashed"}
  BY DEF Typed, Seats, Allowed
<1> QED
  BY <1>1, <1>2, <1>3 DEF TypeOK, Typed, DataTypes, SessionTypes, ClientTypes, BufferTypes,
     WorkerTypes, FileTypes, FlagTypes, Orderly, Shapes

-----------------------------------------------------------------------------
(* The places of the threads and the number of sessions                    *)

LEMMA InitSeats == Init => Seats
<1> SUFFICES ASSUME Init PROVE Seats OBVIOUS
<1>1. /\ pc = [t \in Threads |-> IF t = "main" THEN "m_client" ELSE "none"]
      /\ sid = 0 /\ commands = 0 /\ state = "Idle"
  BY DEF Init
<1>2. \A t \in Threads : pc[t] \in Allowed[t] BY <1>1 DEF Threads, Allowed, Places
<1>3. \A t \in Threads : pc[t] \notin Starting \cup Finishing
  BY <1>1 DEF Starting, Finishing
<1>4. pc["main"] = "m_client" /\ pc["client"] = "none" /\ pc["control"] = "none" /\ pc["storage"] = "none"
  BY <1>1 DEF Threads
<1> QED
  BY <1>1, <1>2, <1>3, <1>4, ServiceAssumption DEF Seats, MainStart, ClientStart, ControlStart,
     BeforeControl, BeforeStorage

(* No thread takes a new start, but for the one the main thread has left.  *)
NoNewStart ==
  /\ \A t \in Threads :
       \/ pc'[t] = pc[t]
       \/ pc'[t] \in Allowed[t] /\ pc'[t] # "start"
       \/ t = "main" /\ pc[t] = "m_control" /\ pc'[t] = "start"
  /\ pc'["main"] \in BeforeControl => pc["main"] \in BeforeControl
  /\ \A t \in Threads : pc'[t] \in Starting \cup Finishing =>
       pc[t] \in Starting \cup Finishing \/ state # "Idle"

LEMMA SeatsKept ==
  ASSUME Seats, NoNewStart, sid' = sid, commands' = commands,
         state' = state \/ (state # "Idle" /\ state' # "Idle")
  PROVE  Seats'
<1>1. {"main", "client", "control", "storage"} \subseteq Threads BY CallerNames
<1>2. pc'["main"] \in BeforeControl \cup {"start"} => pc["main"] \in BeforeControl \cup {"start"}
  BY <1>1 DEF NoNewStart, BeforeControl
<1>3. /\ MainStart \in {0, 1} /\ MainStart' \in {0, 1} /\ MainStart' <= MainStart
      /\ ClientStart \in {0, 1} /\ ClientStart' \in {0, 1} /\ ClientStart' <= ClientStart
      /\ ControlStart \in {0, 1} /\ ControlStart' \in {0, 1} /\ ControlStart' <= ControlStart
  BY <1>1, <1>2 DEF NoNewStart, MainStart, ClientStart, ControlStart
<1>4. (\A t \in Threads : pc[t] \in Allowed[t])'
  <2>1. ASSUME NEW t \in Threads PROVE pc'[t] \in Allowed[t]
    <3>1. "start" \in Allowed[t] BY DEF Allowed, Calling
    <3> QED BY <3>1 DEF Seats, NoNewStart
  <2> QED BY <2>1
<1>5. pc'["storage"] # "start" BY <1>1 DEF Seats, NoNewStart
<1>6. \A t \in Threads : pc'[t] \in Starting \cup Finishing => sid' # 0
  BY DEF Seats, NoNewStart
<1>7. sid' \in Nat /\ commands' \in 0..MaxCommands /\ MaxCommands \in Nat
  BY ServiceAssumption DEF Seats
<1>8. sid' + MainStart' + ClientStart' + ControlStart' <= commands' + 2 /\ ControlStart' <= commands'
  <2>1. /\ sid \in Nat /\ commands \in Nat
        /\ sid + MainStart + ClientStart + ControlStart <= commands + 2
        /\ ControlStart <= commands
    BY <1>7 DEF Seats
  <2>2. PICK m, c, k, n, d, l \in {0, 1} :
          /\ m = MainStart /\ c = ClientStart /\ k = ControlStart
          /\ n = MainStart' /\ d = ClientStart' /\ l = ControlStart'
    BY <1>3
  <2>3. n <= m /\ d <= c /\ l <= k BY <1>3, <2>2
  <2>4. /\ m \in Int /\ c \in Int /\ k \in Int /\ n \in Int /\ d \in Int /\ l \in Int
        /\ sid \in Int /\ commands \in Int
        /\ sid + m + c + k <= commands + 2 /\ k <= commands
    BY <2>1, <2>2
  <2>5. sid + n + d + l <= commands + 2 /\ l <= commands BY <2>3, <2>4
  <2> QED BY <2>2, <2>5
<1>9. state' = "Idle" <=> sid' = 0 BY DEF Seats
<1> QED BY <1>4, <1>5, <1>6, <1>7, <1>8, <1>9 DEF Seats

LEMMA ReturnPlaces ==
  ASSUME NEW t \in Threads, NEW ok \in BOOLEAN
  PROVE  AfterStart(t, ok) \in Places[t] /\ AfterStop(t) \in Places[t]
<1>1. CASE t = "main" BY <1>1 DEF AfterStart, AfterStop, Places
<1>2. CASE t = "client" BY <1>2 DEF AfterStart, AfterStop, NextFrame, NextCommand, Places
<1>3. CASE t = "control" BY <1>3 DEF AfterStart, AfterStop, NextCommand, Places
<1>4. CASE t = "storage" BY <1>4 DEF AfterStart, AfterStop, Places
<1> QED BY <1>1, <1>2, <1>3, <1>4, CallerNames

LEMMA OneNoNewStart ==
  ASSUME Exclusive, NEW t \in Threads, NEW b, pc' = [pc EXCEPT ![t] = b],
         b \in Places[t] \cup Calling, b # "start", b \notin BeforeControl,
         b \in Starting \cup Finishing => pc[t] \in Starting \cup Finishing \/ state # "Idle"
  PROVE  NoNewStart
<1>1. pc' = [r \in Threads |-> IF r = t THEN b ELSE pc[r]] BY DEF Exclusive, LockOrder
<1>2. pc'["main"] \in BeforeControl => pc["main"] \in BeforeControl BY <1>1, CallerNames
<1>3. b \in Allowed[t] BY DEF Allowed
<1> QED BY <1>1, <1>2, <1>3 DEF NoNewStart

LEMMA CrashNoNewStart == Crash => NoNewStart
<1> SUFFICES ASSUME Crash PROVE NoNewStart OBVIOUS
<1>1. pc' = [t \in Threads |-> "crashed"] BY DEF Crash
<1>2. \A t \in Threads : "crashed" \in Allowed[t] BY DEF Allowed
<1> QED BY <1>1, <1>2, CallerNames DEF NoNewStart, Starting, Finishing, BeforeControl, BeforeStorage

(* A start is accepted: the caller's start is used up.                     *)
LEMMA StartSessionSeats ==
  ASSUME Seats, Exclusive, NEW t \in Threads, StartSession(t)
  PROVE  Seats'
<1>1. /\ pc[t] = "start" /\ pc' = [pc EXCEPT ![t] = "start_buffer"]
      /\ sid' = sid + 1 /\ commands' = commands /\ state' = "Recording"
  BY DEF StartSession, Move, Goto, envVars
<1>2. pc' = [r \in Threads |-> IF r = t THEN "start_buffer" ELSE pc[r]]
  BY <1>1 DEF Exclusive, LockOrder
<1>3. t \in {"main", "client", "control"}
  BY <1>1, CallerNames DEF Seats
<1>4. sid \in Nat /\ commands \in Nat /\ commands' \in 0..MaxCommands
      /\ sid + MainStart + ClientStart + ControlStart <= commands + 2 /\ ControlStart <= commands
  BY <1>1, ServiceAssumption DEF Seats
<1>5. PICK m, c, k, n, d, l \in {0, 1} :
        /\ m = MainStart /\ c = ClientStart /\ k = ControlStart
        /\ n = MainStart' /\ d = ClientStart' /\ l = ControlStart'
  BY DEF MainStart, ClientStart, ControlStart
<1>6. /\ t = "main" => m = 1 /\ n = 0 /\ d = c /\ l = k
      /\ t = "client" => c = 1 /\ d = 0 /\ n = m /\ l = k
      /\ t = "control" => k = 1 /\ l = 0 /\ n = m /\ d = c
  <2>1. "start_buffer" \notin BeforeControl BY DEF BeforeControl, BeforeStorage
  <2> QED BY <1>1, <1>2, <1>5, <2>1, CallerNames DEF MainStart, ClientStart, ControlStart
<1>7. (sid + 1) + n + d + l <= commands + 2 /\ l <= commands
  <2>1. m \in Int /\ c \in Int /\ k \in Int /\ sid \in Int /\ commands \in Int
        /\ sid + m + c + k <= commands + 2 /\ k <= commands
    BY <1>4, <1>5
  <2>2. l <= k BY <1>3, <1>5, <1>6
  <2>3. CASE t = "main" BY <1>6, <2>1, <2>2, <2>3
  <2>4. CASE t = "client" BY <1>6, <2>1, <2>2, <2>4
  <2>5. CASE t = "control" BY <1>6, <2>1, <2>2, <2>5
  <2> QED BY <1>3, <2>3, <2>4, <2>5
<1>8. (sid + MainStart + ClientStart + ControlStart <= commands + 2)' /\ (ControlStart <= commands)'
  BY <1>1, <1>5, <1>7
<1>9. \A r \in Threads : pc'[r] \in Allowed[r]
  <2>1. "start_buffer" \in Allowed[t] BY DEF Allowed, Calling, Starting
  <2> QED BY <1>2, <2>1 DEF Seats
<1>10. pc'["storage"] # "start" BY <1>2, CallerNames DEF Seats
<1>11. sid' # 0 /\ sid' \in Nat BY <1>1, <1>4
<1> QED BY <1>1, <1>4, <1>8, <1>9, <1>10, <1>11 DEF Seats

LEMMA ServiceSeats ==
  ASSUME Seats, Exclusive, NEW t \in Threads, Service(t)
  PROVE  Seats'
<1>1. CASE StartSession(t) BY <1>1, StartSessionSeats
<1>2. CASE RestartOverThreads(t)
  BY <1>2, CrashNoNewStart, SeatsKept DEF RestartOverThreads, sessionVars, envVars
<1>3. CASE \/ StartBusy(t) \/ StartBuffer(t) \/ StartWriter(t) \/ StartOpened(t) \/ StartNotOpened(t)
           \/ StopRefused(t) \/ StopAccepted(t) \/ StopWaitOver(t) \/ JoinWriter(t) \/ JoinReport(t)
           \/ DrainOver(t) \/ CloseWriter(t) \/ MarkStopped(t) \/ WriteSummary(t) \/ ResetSession(t)
           \/ TriggerOffline(t) \/ RestartThreads(t) \/ DrainWrite(t)
  <2>1. sid' = sid /\ commands' = commands
    BY <1>3 DEF StartBusy, StartBuffer, StartWriter, StartOpened, StartNotOpened, StopRefused, StopAccepted,
       StopWaitOver, JoinWriter, JoinReport, DrainOver, CloseWriter, MarkStopped, WriteSummary, ResetSession,
       TriggerOffline, RestartThreads, DrainWrite, sessionVars, envVars
  <2>2. state' = state \/ (state' # "Idle" /\ (pc[t] \in Starting \cup Finishing \/ state # "Idle"))
    BY <1>3 DEF StartBusy, StartBuffer, StartWriter, StartOpened, StartNotOpened, StopRefused, StopAccepted,
       StopWaitOver, JoinWriter, JoinReport, DrainOver, CloseWriter, MarkStopped, WriteSummary, ResetSession,
       TriggerOffline, RestartThreads, DrainWrite, sessionVars, Move, Starting, Finishing
  <2>3. state' = state \/ (state' # "Idle" /\ state # "Idle") BY <2>2 DEF Seats
  <2>4. CASE pc' = pc
    <3>1. NoNewStart BY <2>4 DEF NoNewStart
    <3> QED BY <2>1, <2>3, <3>1, SeatsKept
  <2>5. CASE pc' # pc
    <3>1. PICK b : /\ pc' = [pc EXCEPT ![t] = b]
                   /\ \/ b \in Places[t] /\ b \in {"wait", "d_flag", "accept", "serve", "watch", "recv", "gone"}
                      \/ b \in Starting \cup Finishing /\ (pc[t] \in Starting \cup Finishing \/ state # "Idle")
      <4>1. CASE StartBusy(t) BY <4>1, Returns, ReturnPlaces DEF StartBusy, Move, Goto
      <4>2. CASE StartOpened(t) BY <4>2, Returns, ReturnPlaces DEF StartOpened, Move, Goto
      <4>3. CASE StartNotOpened(t) BY <4>3, Returns, ReturnPlaces DEF StartNotOpened, Move, Goto
      <4>4. CASE StopRefused(t) BY <4>4, Returns, ReturnPlaces DEF StopRefused, Move, Goto
      <4>5. CASE RestartThreads(t) BY <4>5, Returns, ReturnPlaces DEF RestartThreads, Move, Goto
      <4>6. CASE StopAccepted(t) BY <4>6 DEF StopAccepted, Move, Goto, Finishing
      <4>7. CASE StartBuffer(t) \/ StartWriter(t)
        BY <4>7 DEF StartBuffer, StartWriter, Move, Goto, Starting
      <4>8. CASE StopWaitOver(t) \/ JoinWriter(t) \/ JoinReport(t) \/ DrainOver(t)
        BY <4>8 DEF StopWaitOver, JoinWriter, JoinReport, DrainOver, Move, Goto, Finishing
      <4>9. CASE CloseWriter(t) \/ MarkStopped(t) \/ WriteSummary(t) \/ ResetSession(t) \/ TriggerOffline(t)
        BY <4>9 DEF CloseWriter, MarkStopped, WriteSummary, ResetSession, TriggerOffline, Move, Goto, Finishing
      <4>10. CASE DrainWrite(t) BY <2>5, <4>10 DEF DrainWrite, Goto, Finishing
      <4> QED BY <1>3, <4>1, <4>2, <4>3, <4>4, <4>5, <4>6, <4>7, <4>8, <4>9, <4>10
    <3>2. /\ b \in Places[t] \cup Calling /\ b # "start" /\ b \notin BeforeControl
          /\ b \in Starting \cup Finishing => pc[t] \in Starting \cup Finishing \/ state # "Idle"
      BY <3>1 DEF Calling, Starting, Finishing, BeforeControl, BeforeStorage
    <3>3. NoNewStart BY <3>1, <3>2, OneNoNewStart
    <3> QED BY <2>1, <2>3, <3>3, SeatsKept
  <2> QED BY <2>4, <2>5
<1> QED BY <1>1, <1>2, <1>3 DEF Service

LEMMA WorkerSeats ==
  ASSUME Seats, Exclusive, Orderly, WorkerTypes, Writer \/ Report
  PROVE  Seats'
<1>1. sid' = sid /\ commands' = commands
  BY DEF Writer, WriterTop, WriterIdle, WriterPop, WriterWrite, WriterStale, WriterUnchanged, Report,
     sessionVars, envVars
<1>2. state' = state \/ (state' # "Idle" /\ state # "Idle")
  <2>1. CASE WriterWrite
    <3>1. writer # 0 BY <2>1 DEF WriterWrite, WorkerTypes
    <3>2. sid # 0 BY <3>1 DEF Orderly, Shapes
    <3> QED BY <2>1, <3>2 DEF WriterWrite, Seats
  <2>2. CASE ~WriterWrite
    BY <2>2 DEF Writer, WriterTop, WriterIdle, WriterPop, WriterStale, Report, sessionVars
  <2> QED BY <2>1, <2>2
<1>3. CASE Crash BY <1>1, <1>2, <1>3, CrashNoNewStart, SeatsKept
<1>4. CASE pc' = pc
  <2>1. NoNewStart BY <1>4 DEF NoNewStart
  <2> QED BY <1>1, <1>2, <2>1, SeatsKept
<1> QED
  BY <1>3, <1>4 DEF Writer, WriterTop, WriterIdle, WriterPop, WriterWrite, WriterStale, OnlyWriterMoves, Report

(* A SESSION_STARTED frame asks for a start in the state Idle only.        *)
LEMMA ClientStartSeats ==
  ASSUME Seats, Exclusive, pc["client"] = "recv", pc' = [pc EXCEPT !["client"] = "start"],
         state = "Idle", UNCHANGED <<state, sid, commands>>
  PROVE  Seats'
<1>1. pc' = [r \in Threads |-> IF r = "client" THEN "start" ELSE pc[r]]
  BY DEF Exclusive, LockOrder
<1>2. sid = 0 BY DEF Seats
<1>3. MainStart' = MainStart /\ ControlStart' = ControlStart /\ ClientStart' = 1
  BY <1>1, CallerNames DEF MainStart, ControlStart, ClientStart
<1>4. MainStart \in {0, 1} /\ ControlStart \in {0, 1} BY DEF MainStart, ControlStart
<1>5. commands \in Nat /\ ControlStart <= commands BY ServiceAssumption DEF Seats
<1>6. 0 + MainStart + 1 + ControlStart <= commands + 2
  <2>1. CASE MainStart = 0 BY <1>4, <1>5, <2>1
  <2>2. CASE MainStart = 1 BY <1>4, <1>5, <2>2
  <2> QED BY <1>4, <2>1, <2>2
<1>7. (sid + MainStart + ClientStart + ControlStart <= commands + 2)' /\ (ControlStart <= commands)'
  BY <1>2, <1>3, <1>5, <1>6
<1>8. \A r \in Threads : pc'[r] \in Allowed[r]
  <2>1. "start" \in Allowed["client"] BY CallerNames DEF Allowed, Calling
  <2> QED BY <1>1, <2>1 DEF Seats
<1>9. \A r \in Threads : pc'[r] \in Starting \cup Finishing => sid' # 0
  BY <1>1 DEF Seats, Starting, Finishing
<1>10. pc'["storage"] # "start" BY <1>1, CallerNames DEF Seats
<1> QED BY <1>7, <1>8, <1>9, <1>10 DEF Seats

LEMMA ClientSeats ==
  ASSUME Seats, Exclusive, Client \/ ClientDisconnect \/ \E kind \in Kinds : ClientReceive(kind)
  PROVE  Seats'
<1>1. sid' = sid /\ commands' = commands /\ state' = state
  BY DEF Client, ClientAccept, ClientCheck, ClientPush, ClientPushStale, ClientDisconnect, ClientReceive,
     ClientUnchanged, sessionVars, envVars
<1>2. CASE Crash BY <1>1, <1>2, CrashNoNewStart, SeatsKept
<1>3. CASE ~Crash
  <2>1. NextFrame \in {"gone", "recv"} BY DEF NextFrame
  <2>2. PICK b : /\ pc' = [pc EXCEPT !["client"] = b]
                 /\ \/ b \in {"check", "push", "gone", "recv", "stop", "accept"}
                    \/ b = "start" /\ state = "Idle" /\ pc["client"] = "recv"
    BY <1>3, <2>1 DEF Client, ClientAccept, ClientCheck, ClientPush, ClientPushStale,
       ClientDisconnect, ClientReceive, Move, Goto
  <2>3. CASE b = "start" BY <1>1, <2>2, <2>3, ClientStartSeats
  <2>4. CASE b \in {"check", "push", "gone", "recv", "stop", "accept"}
    <3>1. b \in Places["client"] \cup Calling BY <2>4 DEF Places, Calling
    <3>2. b # "start" /\ b \notin BeforeControl /\ b \notin Starting \cup Finishing
      BY <2>4 DEF BeforeControl, BeforeStorage, Starting, Finishing
    <3>3. NoNewStart BY <2>2, <3>1, <3>2, OneNoNewStart, CallerNames
    <3> QED BY <1>1, <3>3, SeatsKept
  <2> QED BY <2>2, <2>3, <2>4
<1> QED BY <1>2, <1>3

LEMMA CommandSeats ==
  ASSUME Seats, Exclusive, NEW cmd \in Commands, ControlCommand(cmd)
  PROVE  Seats'
<1>1. PICK b \in {"start", "stop"} :
        pc["control"] = "serve" /\ pc' = [pc EXCEPT !["control"] = b]
  BY DEF ControlCommand, Move, Goto
<1>2. commands < MaxCommands /\ commands' = commands + 1 /\ UNCHANGED <<state, sid>>
  BY DEF ControlCommand, sessionVars
<1>3. pc' = [r \in Threads |-> IF r = "control" THEN b ELSE pc[r]]
  BY <1>1 DEF Exclusive, LockOrder
<1>4. /\ MainStart' = MainStart /\ ClientStart' = ClientStart
      /\ ControlStart = 0 /\ ControlStart' \in {0, 1}
  BY <1>1, <1>3, CallerNames DEF MainStart, ClientStart, ControlStart
<1>5. PICK m, c \in {0, 1} : m = MainStart /\ c = ClientStart
  BY DEF MainStart, ClientStart
<1>6. /\ commands \in Nat /\ MaxCommands \in Nat /\ sid \in Nat
      /\ sid + m + c + 0 <= commands + 2
  BY <1>4, <1>5, ServiceAssumption DEF Seats
<1>7. /\ commands + 1 \in 0..MaxCommands
      /\ \A l \in {0, 1} : sid + m + c + l <= (commands + 1) + 2 /\ l <= commands + 1
  BY <1>2, <1>5, <1>6
<1>8. /\ (sid + MainStart + ClientStart + ControlStart <= commands + 2)'
      /\ (ControlStart <= commands)' /\ (commands \in 0..MaxCommands)'
  BY <1>2, <1>4, <1>5, <1>7
<1>9. \A r \in Threads : pc'[r] \in Allowed[r]
  <2>1. b \in Allowed["control"] BY CallerNames DEF Allowed, Calling
  <2> QED BY <1>3, <2>1 DEF Seats
<1>10. \A r \in Threads : pc'[r] \in Starting \cup Finishing => sid' # 0
  BY <1>2, <1>3 DEF Seats, Starting, Finishing
<1>11. pc'["storage"] # "start" BY <1>3, CallerNames DEF Seats
<1> QED BY <1>2, <1>8, <1>9, <1>10, <1>11 DEF Seats

LEMMA AlertSeats ==
  ASSUME Seats, Exclusive, StorageCritical \/ ControlLeaves \/ Signal
  PROVE  Seats'
<1>1. PICK t \in Threads, b \in {"stop", "gone"} :
         pc' = [pc EXCEPT ![t] = b] /\ b \in Places[t] \cup {"stop"}
  BY CallerNames DEF Places, StorageCritical, ControlLeaves, Signal, Move, Goto
<1>2. UNCHANGED <<state, sid, commands>>
  BY DEF StorageCritical, ControlLeaves, Signal, MainUnchanged, sessionVars, envVars
<1>3. b \in Places[t] \cup Calling /\ b # "start" /\ b \notin Starting \cup Finishing \cup BeforeControl
  BY <1>1 DEF Calling, Starting, Finishing, BeforeControl, BeforeStorage
<1>4. NoNewStart BY <1>1, <1>3, OneNoNewStart
<1> QED BY <1>2, <1>4, SeatsKept

LEMMA MainSeats ==
  ASSUME Seats, Exclusive, Main
  PROVE  Seats'
<1>1. UNCHANGED <<state, sid, commands>>
  BY DEF Main, StartClient, StartStorage, StartThreads, StartControl, RaiseStopFlag,
     JoinCallers, JoinCaller, ExitJoinWriter, ExitJoinReport, MainUnchanged, sessionVars, envVars
<1>2. ASSUME NEW a, pc' = [pc EXCEPT !["main"] = a],
             \/ a \in {"exited", "d_flag", "d_control", "d_report"}
             \/ a = "m_control" /\ pc["main"] = "m_threads"
      PROVE  NoNewStart
  <2>1. pc' = [r \in Threads |-> IF r = "main" THEN a ELSE pc[r]] BY <1>2 DEF Exclusive, LockOrder
  <2>2. a \in Allowed["main"] BY <1>2, CallerNames DEF Allowed, Places
  <2>3. a # "start" /\ a \notin Starting \cup Finishing
        /\ (a \in BeforeControl => pc["main"] \in BeforeControl)
    BY <1>2 DEF Starting, Finishing, BeforeControl, BeforeStorage
  <2> QED BY <2>1, <2>2, <2>3, CallerNames DEF NoNewStart
<1>3. ASSUME NEW t \in Threads \ {"main"}, NEW a, NEW b,
             pc' = [pc EXCEPT !["main"] = a, ![t] = b],
             \/ a \in {"d_client", "d_storage", "d_writer"} /\ b = "gone" /\ b \in Places[t]
             \/ a = "start" /\ pc["main"] = "m_control" /\ t = "control" /\ b = "serve"
             \/ a = "m_storage" /\ pc["main"] = "m_client" /\ t = "client" /\ b = "recv"
             \/ a = "m_threads" /\ pc["main"] = "m_storage" /\ t = "storage" /\ b = "watch"
      PROVE  NoNewStart
  <2>1. pc' = [r \in Threads |-> IF r = t THEN b ELSE IF r = "main" THEN a ELSE pc[r]]
    BY <1>3, CallerNames DEF Exclusive, LockOrder
  <2>2. a \in Allowed["main"] /\ b \in Allowed[t]
    BY <1>3, CallerNames DEF Allowed, Places, Calling
  <2>3. /\ {a, b} \cap (Starting \cup Finishing) = {} /\ b # "start"
        /\ a # "start" \/ pc["main"] = "m_control"
        /\ a \in BeforeControl => pc["main"] \in BeforeControl
    BY <1>3 DEF Starting, Finishing, BeforeControl, BeforeStorage
  <2> QED BY <2>1, <2>2, <2>3, CallerNames DEF NoNewStart
<1>4. NoNewStart
  <2>1. CASE StartClient BY <1>2, <1>3, <2>1, CallerNames DEF StartClient, Goto
  <2>2. CASE StartStorage BY <1>3, <2>2, CallerNames DEF StartStorage
  <2>3. CASE StartThreads BY <1>2, <2>3, CrashNoNewStart DEF StartThreads, Move, Goto
  <2>4. CASE StartControl BY <1>2, <1>3, <2>4, CallerNames DEF StartControl, Goto
  <2>5. CASE JoinCallers
    <3>1. "gone" \in Places["client"] /\ "gone" \in Places["control"] /\ "gone" \in Places["storage"]
      BY DEF Places
    <3> QED BY <1>3, <2>5, <3>1, CallerNames DEF JoinCallers, JoinCaller
  <2>6. CASE RaiseStopFlag \/ ExitJoinWriter \/ ExitJoinReport
    BY <1>2, <2>6 DEF RaiseStopFlag, ExitJoinWriter, ExitJoinReport, Move, Goto
  <2> QED BY <2>1, <2>2, <2>3, <2>4, <2>5, <2>6 DEF Main
<1> QED BY <1>1, <1>4, SeatsKept

LEMMA NextSeats ==
  ASSUME Seats, Exclusive, Orderly, WorkerTypes, [Next]_vars
  PROVE  Seats'
<1>1. CASE \E t \in Threads : Service(t) BY <1>1, ServiceSeats
<1>2. CASE Writer \/ Report BY <1>2, WorkerSeats
<1>3. CASE Client \/ ClientDisconnect \/ \E kind \in Kinds : ClientReceive(kind) BY <1>3, ClientSeats
<1>4. CASE (\E cmd \in Commands : ControlCommand(cmd)) \/ StorageCritical \/ ControlLeaves \/ Signal
  BY <1>4, CommandSeats, AlertSeats
<1>5. CASE Main BY <1>5, MainSeats
<1>6. CASE UNCHANGED vars
  <2>1. UNCHANGED <<pc, state, sid, commands>> BY <1>6 DEF vars, sessionVars, envVars
  <2>2. NoNewStart BY <2>1 DEF NoNewStart
  <2> QED BY <2>1, <2>2, SeatsKept
<1> QED BY <1>1, <1>2, <1>3, <1>4, <1>5, <1>6 DEF Next, Terminated

-----------------------------------------------------------------------------
(* The types of the data                                                   *)

LEMMA SessionRange ==
  ASSUME Seats, Orderly
  PROVE  sid \in Sessions \cup {0} /\ writer \in Sessions \cup {0}
<1>1. sid <= MaxCommands + 2
  <2>1. PICK m, c, k \in {0, 1} : m = MainStart /\ c = ClientStart /\ k = ControlStart
    BY DEF MainStart, ClientStart, ControlStart
  <2>2. /\ sid \in Nat /\ commands \in Nat /\ MaxCommands \in Nat /\ commands <= MaxCommands
        /\ sid + m + c + k <= commands + 2
    BY <2>1, ServiceAssumption DEF Seats
  <2>3. m >= 0 /\ c >= 0 /\ k >= 0 BY <2>1
  <2> QED BY <2>1, <2>2, <2>3
<1> QED BY <1>1, ServiceAssumption DEF Seats, Orderly, Shapes, Sessions

LEMMA InitTypes == Init => DataTypes
<1> SUFFICES ASSUME Init PROVE DataTypes OBVIOUS
<1>1. SessionTypes BY DEF Init, SessionTypes
<1>2. ClientTypes
  <2>1. pc["client"] = "none" BY CallerNames DEF Init
  <2> QED BY <2>1, ServiceAssumption DEF Init, ClientTypes, Frames, Sessions
<1>3. BufferTypes BY DEF Init, BufferTypes, NoBuffer
<1>4. WorkerTypes BY DEF Init, WorkerTypes
<1>5. FileTypes BY ServiceAssumption DEF Init, FileTypes
<1>6. FlagTypes BY DEF Init, FlagTypes
<1> QED BY <1>1, <1>2, <1>3, <1>4, <1>5, <1>6 DEF DataTypes

LEMMA FlagTypesKept == ASSUME FlagTypes, [Next]_vars PROVE FlagTypes'
<1>1. CASE \E t \in Threads : Service(t)
  <2>1. daemon_running' = daemon_running /\ stop_threads' \in {stop_threads, TRUE, FALSE}
    BY <1>1 DEF Service, StartBusy, StartSession, StartBuffer, StartWriter, StartOpened, StartNotOpened,
       StopRefused, StopAccepted, StopWaitOver, JoinWriter, JoinReport, DrainWrite, DrainOver, CloseWriter,
       MarkStopped, WriteSummary, ResetSession, TriggerOffline, RestartThreads, RestartOverThreads, flagVars
  <2> QED BY <2>1 DEF FlagTypes
<1>2. CASE Main
  BY <1>2 DEF Main, StartClient, StartStorage, StartThreads, StartControl, RaiseStopFlag, JoinCallers,
     JoinCaller, ExitJoinWriter, ExitJoinReport, flagVars, FlagTypes
<1>3. CASE Writer \/ Report \/ Client \/ ClientDisconnect \/ \E kind \in Kinds : ClientReceive(kind)
  <2>1. UNCHANGED flagVars
    BY <1>3 DEF Writer, WriterTop, WriterIdle, WriterPop, WriterWrite, WriterStale, WriterUnchanged, Report,
       Client, ClientAccept, ClientCheck, ClientPush, ClientPushStale, ClientDisconnect, ClientReceive,
       ClientUnchanged
  <2> QED BY <2>1 DEF FlagTypes, flagVars
<1>4. CASE (\E cmd \in Commands : ControlCommand(cmd)) \/ StorageCritical \/ ControlLeaves \/ Signal \/ UNCHANGED vars
  BY <1>4 DEF ControlCommand, StorageCritical, ControlLeaves, Signal, vars, flagVars, FlagTypes
<1> QED BY <1>1, <1>2, <1>3, <1>4 DEF Next, Terminated

LEMMA SessionTypesKept ==
  ASSUME Typed, Orderly, [Next]_vars
  PROVE  SessionTypes'
<1>1. SessionTypes BY DEF Typed, DataTypes
<1>2. CASE \E t \in Threads : Service(t)
  <2>1. PICK t \in Threads : Service(t) BY <1>2
  <2>2. pc[t] \in Finishing => sid \in Sessions BY SessionRange DEF Typed, Seats
  <2>3. mu' \in {mu, t, Free} /\ finalizing' \in {finalizing, TRUE, FALSE}
        /\ state' \in {state, "Recording", "Stopping", "Closed", "Error"}
    BY <2>1 DEF Service, StartBusy, StartSession, StartBuffer, StartWriter, StartOpened, StartNotOpened,
       StopRefused, StopAccepted, StopWaitOver, JoinWriter, JoinReport, DrainWrite, DrainOver, CloseWriter,
       MarkStopped, WriteSummary, ResetSession, TriggerOffline, RestartThreads, RestartOverThreads, sessionVars
  <2>4. /\ saved' = saved \/ (saved' = saved \cup {sid} /\ pc[t] \in Finishing)
        /\ summary' = summary \/ (summary' = summary \cup {sid} /\ pc[t] \in Finishing)
    BY <2>1 DEF Service, StartBusy, StartSession, StartBuffer, StartWriter, StartOpened, StartNotOpened,
       StopRefused, StopAccepted, StopWaitOver, JoinWriter, JoinReport, DrainWrite, DrainOver, CloseWriter,
       MarkStopped, WriteSummary, ResetSession, TriggerOffline, RestartThreads, RestartOverThreads, sessionVars,
       Move, Finishing
  <2>5. saved' \subseteq Sessions /\ summary' \subseteq Sessions
    BY <1>1, <2>2, <2>4 DEF SessionTypes
  <2> QED BY <1>1, <2>3, <2>5 DEF SessionTypes
<1>3. CASE Main \/ Client \/ ClientDisconnect \/ \E kind \in Kinds : ClientReceive(kind)
  <2>1. UNCHANGED <<mu, sessionVars>>
    BY <1>3 DEF Main, StartClient, StartStorage, StartThreads, StartControl, RaiseStopFlag, JoinCallers,
     JoinCaller, ExitJoinWriter, ExitJoinReport, MainUnchanged, Client, ClientAccept, ClientCheck, ClientPush,
     ClientPushStale, ClientDisconnect, ClientReceive, ClientUnchanged
  <2> QED BY <1>1, <2>1 DEF SessionTypes, sessionVars
<1>4. CASE Writer \/ Report
  <2>1. UNCHANGED <<mu, finalizing, saved, summary>> /\ state' \in {state, "Error"}
    BY <1>4 DEF Writer, WriterTop, WriterIdle, WriterPop, WriterWrite, WriterStale, WriterUnchanged, Report,
       sessionVars
  <2> QED BY <1>1, <2>1 DEF SessionTypes
<1>5. CASE (\E cmd \in Commands : ControlCommand(cmd)) \/ StorageCritical \/ ControlLeaves \/ Signal \/ UNCHANGED vars
  BY <1>1, <1>5 DEF ControlCommand, StorageCritical, ControlLeaves, Signal, MainUnchanged, vars, sessionVars, SessionTypes
<1> QED BY <1>2, <1>3, <1>4, <1>5 DEF Next, Terminated

LEMMA ClientTypesKept ==
  ASSUME Typed, Exclusive, Orderly, [Next]_vars
  PROVE  ClientTypes'
<1>1. ClientTypes BY DEF Typed, DataTypes
<1>2. ASSUME UNCHANGED <<frame, received, pushed>>,
             \/ pc'["client"] \in {pc["client"], "none", "recv", "gone", "crashed"}
             \/ pc["client"] \notin {"none", "recv", "gone", "crashed"}
      PROVE  ClientTypes'
  BY <1>1, <1>2 DEF ClientTypes
<1>3. CASE \E t \in Threads : Service(t)
  <2>1. PICK t \in Threads : Service(t) BY <1>3
  <2>2. UNCHANGED <<frame, received, pushed>>
    BY <2>1 DEF Service, StartBusy, StartSession, StartBuffer, StartWriter, StartOpened, StartNotOpened,
       StopRefused, StopAccepted, StopWaitOver, JoinWriter, JoinReport, DrainWrite, DrainOver, CloseWriter,
       MarkStopped, WriteSummary, ResetSession, TriggerOffline, RestartThreads, RestartOverThreads, clientVars
  <2>3. /\ pc[t] \in {"start", "stop"} \cup Starting \cup Finishing
        /\ pc' = pc \/ Crash \/ \E b : pc' = [pc EXCEPT ![t] = b]
    BY <2>1 DEF Service, StartBusy, StartSession, StartBuffer, StartWriter, StartOpened, StartNotOpened,
       StopRefused, StopAccepted, StopWaitOver, JoinWriter, JoinReport, DrainWrite, DrainOver, CloseWriter,
       MarkStopped, WriteSummary, ResetSession, TriggerOffline, RestartThreads, RestartOverThreads,
       Move, Goto, Starting, Finishing
  <2>4. CASE t = "client"
    <3>1. pc["client"] \notin {"none", "recv", "gone", "crashed"} BY <2>3, <2>4 DEF Starting, Finishing
    <3> QED BY <1>2, <2>2, <3>1
  <2>5. CASE t # "client"
    <3>1. pc'["client"] = pc["client"] \/ Crash
      <4>1. ASSUME NEW b, pc' = [pc EXCEPT ![t] = b] PROVE pc'["client"] = pc["client"]
        <5>1. pc' = [r \in Threads |-> IF r = t THEN b ELSE pc[r]] BY <4>1 DEF Exclusive, LockOrder
        <5> QED BY <2>5, <5>1, CallerNames
      <4> QED BY <2>3, <4>1
    <3>2. Crash => pc'["client"] = "crashed" BY CallerNames DEF Crash
    <3> QED BY <1>2, <2>2, <3>1, <3>2
  <2> QED BY <2>4, <2>5
<1>4. CASE \E kind \in Kinds : ClientReceive(kind)
  <2>1. /\ frame' = received + 1 /\ received' = received + 1 /\ received < MaxFrames /\ pushed' = pushed
    BY <1>4 DEF ClientReceive
  <2>2. received \in Nat /\ MaxFrames \in Nat BY <1>1, ServiceAssumption DEF ClientTypes
  <2>3. frame' \in Frames /\ received' \in 0..MaxFrames BY <2>1, <2>2 DEF Frames
  <2> QED BY <1>1, <2>1, <2>3 DEF ClientTypes
<1>5. CASE ClientPush
  <2>1. /\ pushed' = [pushed EXCEPT ![frame] = IF state = "Recording" THEN sid ELSE 0]
        /\ UNCHANGED <<frame, received>> /\ pc["client"] = "push"
    BY <1>5 DEF ClientPush, Move
  <2>2. sid \in Sessions \cup {0} BY SessionRange DEF Typed
  <2>3. pushed' \in [Frames -> Sessions \cup {0}] BY <1>1, <2>1, <2>2 DEF ClientTypes
  <2>4. frame \in Frames BY <1>1, <2>1 DEF ClientTypes
  <2> QED BY <1>1, <2>1, <2>3, <2>4 DEF ClientTypes
<1>6. CASE ClientAccept \/ ClientCheck \/ ClientPushStale \/ ClientDisconnect
  <2>1. UNCHANGED <<frame, received, pushed>>
    BY <1>6 DEF ClientAccept, ClientCheck, ClientPushStale, ClientDisconnect, clientVars
  <2>2. \/ pc["client"] \in {"accept", "check", "push"}
        \/ pc["client"] = "recv" /\ pc'["client"] = "gone"
    <3>1. ClientDisconnect => pc["client"] = "recv" /\ pc'["client"] = "gone"
      BY CallerNames DEF ClientDisconnect, Move, Goto, Exclusive, LockOrder
    <3> QED BY <1>6, <3>1 DEF ClientAccept, ClientCheck, ClientPushStale, Move
  <2> QED BY <1>2, <2>1, <2>2
<1>7. CASE Main
  <2>1. UNCHANGED <<frame, received, pushed>>
    BY <1>7 DEF Main, StartClient, StartStorage, StartThreads, StartControl, RaiseStopFlag, JoinCallers,
     JoinCaller, ExitJoinWriter, ExitJoinReport, MainUnchanged, clientVars
  <2>2. pc'["client"] \in {pc["client"], "recv", "gone", "crashed"}
    <3>1. Crash => pc'["client"] = "crashed" BY CallerNames DEF Crash
    <3>2. pc = [t \in Threads |-> pc[t]] BY DEF Exclusive, LockOrder
    <3> QED
      BY <1>7, <3>1, <3>2, CallerNames DEF Main, StartClient, StartStorage, StartThreads, StartControl,
         RaiseStopFlag, JoinCallers, JoinCaller, ExitJoinWriter, ExitJoinReport, Move, Goto
  <2> QED BY <1>2, <2>1, <2>2
<1>8. CASE Writer \/ Report \/ (\E cmd \in Commands : ControlCommand(cmd)) \/ StorageCritical \/ ControlLeaves \/ Signal
           \/ UNCHANGED vars
  <2>1. UNCHANGED <<frame, received, pushed>>
    BY <1>8 DEF Writer, WriterTop, WriterIdle, WriterPop, WriterWrite, WriterStale, WriterUnchanged, Report,
       ControlCommand, StorageCritical, ControlLeaves, Signal, MainUnchanged, vars, clientVars
  <2>2. pc'["client"] \in {pc["client"], "crashed"}
    <3>1. Crash => pc'["client"] = "crashed" BY CallerNames DEF Crash
    <3>2. pc = [t \in Threads |-> pc[t]] BY DEF Exclusive, LockOrder
    <3> QED
      BY <1>8, <3>1, <3>2, CallerNames DEF Writer, WriterTop, WriterIdle, WriterPop, WriterWrite, WriterStale,
         OnlyWriterMoves, Report, ControlCommand, StorageCritical, ControlLeaves, Signal, Move, Goto, vars
  <2> QED BY <1>2, <2>1, <2>2
<1> QED BY <1>3, <1>4, <1>5, <1>6, <1>7, <1>8 DEF Next, Client, Terminated

LEMMA PopType ==
  ASSUME BufferTypes, CanDrain
  PROVE  Head(buffer.queue) \in Frames /\ PB!Pop(buffer).queue \in Seq(Frames)
BY DEF BufferTypes, CanDrain, PB!Pop

LEMMA BufferTypesKept ==
  ASSUME Typed, [Next]_vars
  PROVE  BufferTypes'
<1>1. BufferTypes BY DEF Typed, DataTypes
<1>2. CASE \E t \in Threads : Service(t)
  <2>1. PICK t \in Threads : Service(t) BY <1>2
  <2>2. evicted' = evicted
        /\ \/ buffer' = buffer \/ buffer' = PB!EmptyBuffer \/ buffer' = NoBuffer
           \/ CanDrain /\ buffer' = PB!Pop(buffer)
    BY <2>1 DEF Service, StartBusy, StartSession, StartBuffer, StartWriter, StartOpened, StartNotOpened,
       StopRefused, StopAccepted, StopWaitOver, JoinWriter, JoinReport, DrainWrite, DrainOver, CloseWriter,
       MarkStopped, WriteSummary, ResetSession, TriggerOffline, RestartThreads, RestartOverThreads, bufferVars
  <2>3. PB!EmptyBuffer.queue = << >> /\ NoBuffer.queue = << >> BY DEF PB!EmptyBuffer, NoBuffer
  <2>4. CanDrain => PB!Pop(buffer).queue \in Seq(Frames) BY <1>1, PopType
  <2>5. buffer'.queue \in Seq(Frames)
    <3>1. buffer.queue \in Seq(Frames) /\ << >> \in Seq(Frames) BY <1>1 DEF BufferTypes
    <3> QED BY <2>2, <2>3, <2>4, <3>1
  <2> QED BY <1>1, <2>2, <2>5 DEF BufferTypes
<1>3. CASE ClientPush
  <2>1. PICK k \in 0..Len(buffer.queue) :
          /\ buffer' = PB!Push(buffer, frame, k)
          /\ evicted' = evicted \cup {buffer.queue[i] : i \in 1..k}
    BY <1>3 DEF ClientPush
  <2>2. frame \in Frames
    BY <1>3 DEF ClientPush, Move, Typed, DataTypes, ClientTypes
  <2>3. buffer.queue \in Seq(Frames) BY <1>1 DEF BufferTypes
  <2>4. SubSeq(buffer.queue, k + 1, Len(buffer.queue)) \in Seq(Frames) BY <2>3
  <2>5. buffer'.queue \in Seq(Frames) BY <2>1, <2>2, <2>4 DEF PB!Push
  <2>6. \A i \in 1..k : buffer.queue[i] \in Frames BY <2>3
  <2> QED BY <1>1, <2>1, <2>5, <2>6 DEF BufferTypes
<1>4. CASE Writer
  <2>1. evicted' = evicted /\ (buffer' = buffer \/ (CanDrain /\ buffer' = PB!Pop(buffer)))
    BY <1>4 DEF Writer, WriterTop, WriterIdle, WriterPop, WriterWrite, WriterStale, WriterUnchanged
  <2> QED BY <1>1, <2>1, PopType DEF BufferTypes
<1>5. CASE Main \/ ClientAccept \/ ClientCheck \/ ClientPushStale \/ ClientDisconnect
           \/ \E kind \in Kinds : ClientReceive(kind)
  <2>1. UNCHANGED <<buffer, evicted>>
    BY <1>5 DEF Main, StartClient, StartStorage, StartThreads, StartControl, RaiseStopFlag, JoinCallers,
     JoinCaller, ExitJoinWriter, ExitJoinReport, MainUnchanged, ClientAccept, ClientCheck,
     ClientPushStale, ClientDisconnect, ClientReceive, ClientUnchanged, bufferVars
  <2> QED BY <1>1, <2>1 DEF BufferTypes
<1>6. CASE Report \/ (\E cmd \in Commands : ControlCommand(cmd)) \/ StorageCritical \/ ControlLeaves \/ Signal \/ UNCHANGED vars
  BY <1>1, <1>6 DEF Report, ControlCommand, StorageCritical, ControlLeaves, Signal, MainUnchanged, vars, bufferVars, BufferTypes
<1> QED BY <1>2, <1>3, <1>4, <1>5, <1>6 DEF Next, Client, Terminated

LEMMA WorkerTypesKept ==
  ASSUME Typed, Orderly, [Next]_vars
  PROVE  WorkerTypes'
<1>1. WorkerTypes BY DEF Typed, DataTypes
<1>2. ASSUME UNCHANGED <<seen, held>>,
             wthread' \in {wthread, "none", "top"}, rthread' \in {rthread, "none", "top", "tmp", "done"}
      PROVE  WorkerTypes'
  BY <1>1, <1>2 DEF WorkerTypes
<1>3. CASE \E t \in Threads : Service(t)
  <2>1. UNCHANGED <<seen, held>> /\ wthread' \in {wthread, "none", "top"} /\ rthread' \in {rthread, "none", "top"}
    BY <1>3 DEF Service, StartBusy, StartSession, StartBuffer, StartWriter, StartOpened, StartNotOpened,
       StopRefused, StopAccepted, StopWaitOver, JoinWriter, JoinReport, DrainWrite, DrainOver, CloseWriter,
       MarkStopped, WriteSummary, ResetSession, TriggerOffline, RestartThreads, RestartOverThreads,
       LaunchThreads, Crash, workerVars
  <2> QED BY <1>2, <2>1
<1>4. CASE WriterPop
  <2>1. held' = [frame |-> Head(buffer.queue), writer |-> writer] /\ CanDrain /\ wthread' = "write"
        /\ UNCHANGED <<seen, rthread>>
    BY <1>4 DEF WriterPop, OnlyWriterMoves
  <2>2. Head(buffer.queue) \in Frames BY <2>1, PopType DEF Typed, DataTypes
  <2>3. writer \in Sessions \cup {0} /\ writer # 0 BY <2>1, SessionRange DEF Typed, CanDrain
  <2>4. held' \in [frame: Frames \cup {0}, writer: Sessions \cup {0}] BY <2>1, <2>2, <2>3
  <2>5. held'.frame \in Frames /\ held'.writer # 0 BY <2>1, <2>2, <2>3
  <2> QED BY <1>1, <2>1, <2>4, <2>5 DEF WorkerTypes
<1>5. CASE WriterTop \/ WriterIdle \/ WriterWrite \/ WriterStale
  <2>1. /\ held' = held /\ seen' \in {seen, "Recording", "Stopping"}
        /\ wthread' \in {"none", "top", "pop", "done"} /\ rthread' \in {rthread, "none"}
    BY <1>5 DEF WriterTop, WriterIdle, WriterWrite, WriterStale, OnlyWriterMoves, Crash
  <2> QED BY <1>1, <2>1 DEF WorkerTypes
<1>6. CASE Main \/ Report \/ Client \/ ClientDisconnect \/ \E kind \in Kinds : ClientReceive(kind)
  <2>1. UNCHANGED <<seen, held>> /\ wthread' \in {wthread, "none", "top"}
        /\ rthread' \in {rthread, "none", "top", "tmp", "done"}
    BY <1>6 DEF Main, StartClient, StartStorage, StartThreads, StartControl, RaiseStopFlag, JoinCallers,
     JoinCaller, ExitJoinWriter, ExitJoinReport, MainUnchanged, Client, ClientAccept, ClientCheck, ClientPush,
     ClientPushStale, ClientDisconnect, ClientReceive, ClientUnchanged, OnlyClientMoves, Report, Crash,
     LaunchThreads
  <2> QED BY <1>2, <2>1
<1>7. CASE (\E cmd \in Commands : ControlCommand(cmd)) \/ StorageCritical \/ ControlLeaves \/ Signal \/ UNCHANGED vars
  BY <1>2, <1>7 DEF ControlCommand, StorageCritical, ControlLeaves, Signal, MainUnchanged, vars, workerVars
<1> QED BY <1>3, <1>4, <1>5, <1>6, <1>7 DEF Next, Writer, Terminated

LEMMA WriteTypes ==
  ASSUME FileTypes, NEW s \in Sessions, NEW f \in Frames, WriteSucceeds(s, f) \/ WriteFails(s, f),
         alerts' = alerts
  PROVE  FileTypes'
<1>1. CASE WriteSucceeds(s, f)
  <2>1. PICK d \in Seq(Frames) : disk' = [disk EXCEPT ![s] = d]
    <3>1. <<f>> \in Seq(Frames) /\ Append(disk[s], f) \in Seq(Frames) BY DEF FileTypes
    <3> QED BY <1>1, <3>1 DEF WriteSucceeds
  <2>2. disk' \in [Sessions -> Seq(Frames)] BY <2>1 DEF FileTypes
  <2> QED BY <1>1, <2>2 DEF WriteSucceeds, FileTypes
<1>2. CASE WriteFails(s, f)
  <2>1. /\ disk' = disk /\ failed' = failed \cup {<<f, s>>}
        /\ faults' = faults \/ (faults' = faults + 1 /\ faults < MaxFaults)
    BY <1>2 DEF WriteFails
  <2>2. faults' \in 0..MaxFaults BY <2>1, ServiceAssumption DEF FileTypes
  <2> QED BY <2>1, <2>2 DEF FileTypes
<1> QED BY <1>1, <1>2

LEMMA FileTypesKept ==
  ASSUME Typed, Orderly, [Next]_vars
  PROVE  FileTypes'
<1>1. FileTypes BY DEF Typed, DataTypes
<1>2. CASE \E t \in Threads : DrainWrite(t)
  <2>1. /\ CanDrain /\ alerts' = alerts
        /\ WriteSucceeds(writer, Head(buffer.queue)) \/ WriteFails(writer, Head(buffer.queue))
    BY <1>2 DEF DrainWrite, envVars
  <2>2. Head(buffer.queue) \in Frames BY <2>1, PopType DEF Typed, DataTypes
  <2>3. writer \in Sessions BY <2>1, SessionRange DEF Typed, CanDrain
  <2> QED BY <1>1, <2>1, <2>2, <2>3, WriteTypes
<1>3. CASE WriterWrite
  <2>1. /\ wthread = "write" /\ held.writer = writer /\ alerts' = alerts
        /\ WriteSucceeds(writer, held.frame) \/ WriteFails(writer, held.frame)
    BY <1>3 DEF WriterWrite, WriterUnchanged, envVars
  <2>2. held.frame \in Frames /\ writer # 0 BY <2>1 DEF Typed, DataTypes, WorkerTypes
  <2>3. writer \in Sessions BY <2>2, SessionRange DEF Typed
  <2> QED BY <1>1, <2>1, <2>2, <2>3, WriteTypes
<1>4. ASSUME UNCHANGED <<disk, failed>>,
             alerts' = alerts \/ (alerts' = alerts + 1 /\ alerts < MaxAlerts),
             faults' = faults \/ (faults' = faults + 1 /\ faults < MaxFaults)
      PROVE  FileTypes'
  BY <1>1, <1>4, ServiceAssumption DEF FileTypes
<1>5. CASE \E t \in Threads : Service(t) /\ ~DrainWrite(t)
  BY <1>4, <1>5 DEF Service, StartBusy, StartSession, StartBuffer, StartWriter, StartOpened, StartNotOpened,
     StopRefused, StopAccepted, StopWaitOver, JoinWriter, JoinReport, DrainOver, CloseWriter,
     MarkStopped, WriteSummary, ResetSession, TriggerOffline, RestartThreads, RestartOverThreads,
     fileVars, envVars
<1>6. CASE Main \/ Report \/ Client \/ ClientDisconnect \/ \E kind \in Kinds : ClientReceive(kind)
  BY <1>4, <1>6 DEF Main, StartClient, StartStorage, StartThreads, StartControl, RaiseStopFlag, JoinCallers,
     JoinCaller, ExitJoinWriter, ExitJoinReport, MainUnchanged, Client, ClientAccept, ClientCheck, ClientPush,
     ClientPushStale, ClientDisconnect, ClientReceive, ClientUnchanged, Report, fileVars, envVars
<1>7. CASE WriterTop \/ WriterIdle \/ WriterPop \/ WriterStale
  BY <1>4, <1>7 DEF WriterTop, WriterIdle, WriterPop, WriterStale, WriterUnchanged, fileVars, envVars
<1>8. CASE (\E cmd \in Commands : ControlCommand(cmd)) \/ StorageCritical \/ ControlLeaves \/ Signal \/ UNCHANGED vars
  BY <1>4, <1>8 DEF ControlCommand, StorageCritical, ControlLeaves, Signal, MainUnchanged, vars, fileVars, envVars
<1> QED BY <1>2, <1>3, <1>5, <1>6, <1>7, <1>8 DEF Next, Writer, Terminated

-----------------------------------------------------------------------------
LEMMA NextTyped == Typed /\ Exclusive /\ Orderly /\ [Next]_vars => Typed'
<1> SUFFICES ASSUME Typed, Exclusive, Orderly, [Next]_vars PROVE Typed' OBVIOUS
<1>1. Seats' BY NextSeats DEF Typed, DataTypes
<1>2. FlagTypes' BY FlagTypesKept DEF Typed, DataTypes
<1> QED
  BY <1>1, <1>2, SessionTypesKept, ClientTypesKept, BufferTypesKept, WorkerTypesKept, FileTypesKept
     DEF Typed, DataTypes

LEMMA AlwaysTyped == Spec => []Typed
<1>1. Init => Typed BY InitSeats, InitTypes DEF Typed
<1>2. Typed /\ Exclusive /\ Orderly /\ [Next]_vars => Typed' BY NextTyped
<1> QED BY <1>1, <1>2, AlwaysExclusive, AlwaysOrderly, PTL DEF Spec

(* The daemon's state is well typed.  In particular the active session is  *)
(* always one of Sessions: no interleaving of callers makes the session    *)
(* manager accept more starts than were asked for                          *)
(* (session_manager.cpp:55-72).                                            *)
THEOREM TypeCorrectness == Spec => []TypeOK
<1>1. Exclusive /\ Orderly /\ Typed => TypeOK BY TypedImpliesTypeOK
<1> QED BY <1>1, AlwaysExclusive, AlwaysOrderly, AlwaysTyped, PTL

-----------------------------------------------------------------------------
(* Frames.                                                                 *)
(* Started over a session that was finished, or over none.                 *)
OnTop(s) == s = 1 \/ s - 1 \in saved

(* The sessions NoSilentLoss speaks of.                                    *)
Regular(s) == OnTop(s) /\ \A f \in Frames : <<f, s>> \notin failed

In(f, q) == \E i \in 1..Len(q) : q[i] = f

Logged(f, s) == In(f, disk[s])
Settled(s) == \A f \in Frames : pushed[f] = s => f \in evicted \/ Logged(f, s)

Queued(f) == In(f, buffer.queue)
InHand(f) == wthread = "write" /\ held.frame = f /\ held.writer = sid /\ writer = sid

Drained == {"close", "mark", "summary", "reset", "trigger"}
Unsaved == (Starting \cup Finishing) \ {"summary", "reset", "trigger", "restart"}

Empty == buffer = NoBuffer /\ writer = 0

(* What the holder of the mutex knows of the objects in place.             *)
Tidy(place) ==
  /\ place \in {"trigger", "restart"} => Empty
  /\ place = "start_buffer" /\ OnTop(sid) => Empty
  /\ place = "start_writer" /\ OnTop(sid) => writer = 0
  /\ place \in Unsaved => sid \notin saved
  /\ place \in Finishing => state # "Recording"
  /\ place \in Drained /\ Regular(sid) => Settled(sid)

HolderTidy == \A t \in Threads : Tidy(pc[t])

(* A finished session leaves nothing in place.                             *)
Clear == mu = Free /\ (sid = 0 \/ sid \in saved) => Empty /\ state \notin Active

WriterInPlace == OnTop(sid) => writer \in {0, sid}

(* No session or frame is of the future, and none that is recorded was     *)
(* published.                                                              *)
Numbered ==
  /\ \A s \in saved : s <= sid
  /\ \A f \in Frames : pushed[f] <= sid
  /\ state = "Recording" => \A s \in Sessions : triggered[s] > 0 => s < sid

InFlight ==
  pc["main"] # "crashed" /\ Regular(sid) =>
    \A f \in Frames : pushed[f] = sid =>
      f \in evicted \/ Logged(f, sid) \/ Queued(f) \/ InHand(f)

PublishedSettled == \A s \in Sessions : triggered[s] > 0 /\ Regular(s) => Settled(s)

Accounted ==
  HolderTidy /\ Clear /\ WriterInPlace /\ Numbered /\ InFlight /\ PublishedSettled

-----------------------------------------------------------------------------
(* Lemmas about the members of a sequence                                  *)

LEMMA InEmpty == \A f : ~In(f, << >>)
BY DEF In

LEMMA InAppend ==
  ASSUME NEW S, NEW q \in Seq(S), NEW f \in S
  PROVE  In(f, Append(q, f)) /\ \A g : In(g, q) => In(g, Append(q, f))
<1>1. Len(Append(q, f)) = Len(q) + 1 /\ Len(q) \in Nat OBVIOUS
<1>2. Append(q, f)[Len(q) + 1] = f OBVIOUS
<1>3. \A i \in 1..Len(q) : Append(q, f)[i] = q[i] OBVIOUS
<1>4. Len(q) + 1 \in 1..(Len(q) + 1) BY <1>1
<1>5. In(f, Append(q, f)) BY <1>1, <1>2, <1>4 DEF In
<1>6. \A i \in 1..Len(q) : i \in 1..(Len(q) + 1) BY <1>1
<1>7. \A g : In(g, q) => In(g, Append(q, f)) BY <1>1, <1>3, <1>6 DEF In
<1> QED BY <1>5, <1>7

LEMMA InAppended ==
  ASSUME NEW S, NEW q \in Seq(S), NEW f \in S, NEW g, In(g, Append(q, f))
  PROVE  In(g, q) \/ g = f
<1>1. Len(Append(q, f)) = Len(q) + 1 /\ Len(q) \in Nat OBVIOUS
<1>2. PICK k \in 1..(Len(q) + 1) : Append(q, f)[k] = g BY <1>1 DEF In
<1>3. Append(q, f)[Len(q) + 1] = f OBVIOUS
<1>4. \A i \in 1..Len(q) : Append(q, f)[i] = q[i] OBVIOUS
<1>5. k \in 1..Len(q) \/ k = Len(q) + 1 BY <1>1
<1> QED BY <1>2, <1>3, <1>4, <1>5 DEF In

LEMMA InSuffix ==
  ASSUME NEW S, NEW q \in Seq(S), NEW k \in 0..Len(q), NEW g, In(g, q)
  PROVE  g \in {q[i] : i \in 1..k} \/ In(g, SubSeq(q, k + 1, Len(q)))
<1>1. PICK i \in 1..Len(q) : q[i] = g BY DEF In
<1>2. CASE i <= k
  <2>1. i \in 1..k BY <1>1, <1>2
  <2> QED BY <1>1, <2>1
<1>3. CASE i > k
  <2> DEFINE r == SubSeq(q, k + 1, Len(q))
  <2>1. Len(r) = Len(q) - k BY DEF r
  <2>2. i - k \in 1..Len(r) BY <1>1, <1>3, <2>1
  <2>3. r[i - k] = q[i] BY <1>1, <1>3
  <2> QED BY <1>1, <2>2, <2>3 DEF In
<1> QED BY <1>1, <1>2, <1>3

LEMMA InTail ==
  ASSUME NEW S, NEW q \in Seq(S), q # << >>, NEW g, In(g, q)
  PROVE  g = Head(q) \/ In(g, Tail(q))
<1>1. PICK i \in 1..Len(q) : q[i] = g BY DEF In
<1>2. CASE i = 1 BY <1>1, <1>2
<1>3. CASE i # 1
  <2>1. Len(Tail(q)) = Len(q) - 1 /\ Len(q) \in Nat OBVIOUS
  <2>2. i - 1 \in 1..Len(Tail(q)) BY <1>1, <1>3, <2>1
  <2>3. Tail(q)[i - 1] = q[i] BY <1>1, <1>3, <2>1
  <2> QED BY <1>1, <2>2, <2>3 DEF In
<1> QED BY <1>2, <1>3

-----------------------------------------------------------------------------
(* Every step but the start and the publication of a session: what is      *)
(* logged, lost or counted stays so, and only the active session grows.    *)
Onward ==
  /\ failed \subseteq failed' /\ evicted \subseteq evicted'
  /\ \A s \in Sessions, f \in Frames : In(f, disk[s]) => In(f, disk'[s])
  /\ sid' = sid /\ triggered' = triggered
  /\ saved' = saved \/ saved' = saved \cup {sid}
  /\ \A f \in Frames :
       pushed'[f] \in {pushed[f], 0} \/ (state = "Recording" /\ pushed'[f] = sid)
  /\ state' = state \/ state' # "Recording"

LEMMA SavedInSessions ==
  ASSUME Typed
  PROVE  saved \subseteq Sessions /\ sid \in Nat /\ 0 \notin Sessions /\ Sessions \subseteq Nat
BY ServiceAssumption DEF Typed, Seats, DataTypes, SessionTypes, Sessions

LEMMA OnwardRegular ==
  ASSUME Typed, Onward, NEW s \in Nat, s <= sid
  PROVE  (OnTop(s)' <=> OnTop(s)) /\ (Regular(s)' => Regular(s))
<1>1. s - 1 # sid BY SavedInSessions
<1>2. OnTop(s)' <=> OnTop(s) BY <1>1 DEF Onward, OnTop
<1>3. Regular(s)' => Regular(s) BY <1>2 DEF Onward, Regular
<1> QED BY <1>2, <1>3

LEMMA OnwardSettled ==
  ASSUME Typed, Onward, NEW s \in Sessions, Settled(s), state = "Recording" => s # sid
  PROVE  Settled(s)'
<1>1. SUFFICES ASSUME NEW f \in Frames, pushed'[f] = s PROVE f \in evicted' \/ In(f, disk'[s])
  BY DEF Settled, Logged
<1>2. pushed[f] = s BY <1>1, SavedInSessions DEF Onward
<1>3. f \in evicted \/ In(f, disk[s]) BY <1>2 DEF Settled, Logged
<1> QED BY <1>3 DEF Onward

LEMMA OnwardNumbered ==
  ASSUME Typed, Onward, Numbered
  PROVE  Numbered'
<1>1. \A s \in saved' : s <= sid' BY SavedInSessions DEF Onward, Numbered
<1>2. \A f \in Frames : pushed'[f] <= sid' BY SavedInSessions DEF Onward, Numbered
<1>3. (state = "Recording" => \A s \in Sessions : triggered[s] > 0 => s < sid)'
  BY DEF Onward, Numbered
<1> QED BY <1>1, <1>2, <1>3 DEF Numbered

LEMMA OnwardPublished ==
  ASSUME Typed, Orderly, Onward, Numbered, PublishedSettled
  PROVE  PublishedSettled'
<1>1. SUFFICES ASSUME NEW s \in Sessions, triggered'[s] > 0, Regular(s)' PROVE Settled(s)'
  BY DEF PublishedSettled
<1>2. triggered[s] > 0 BY <1>1 DEF Onward
<1>3. s \in Nat /\ s <= sid BY <1>2, SavedInSessions DEF Orderly, Past
<1>4. Settled(s) BY <1>1, <1>2, <1>3, OnwardRegular DEF PublishedSettled
<1>5. state = "Recording" => s # sid BY <1>2, SavedInSessions DEF Numbered
<1> QED BY <1>4, <1>5, OnwardSettled

(* The same of the active session.                                         *)
LEMMA OnwardHere ==
  ASSUME Typed, Onward
  PROVE  /\ OnTop(sid)' <=> OnTop(sid)
         /\ Regular(sid)' => Regular(sid)
         /\ state # "Recording" /\ sid \in Sessions /\ Settled(sid) => Settled(sid)'
<1>1. PICK n \in Nat : n = sid BY SavedInSessions
<1>2. n - 1 # sid /\ sid' = n BY <1>1 DEF Onward
<1>3. OnTop(sid)' <=> OnTop(sid) BY <1>1, <1>2 DEF Onward, OnTop
<1>4. Regular(sid)' => Regular(sid) BY <1>1, <1>2, <1>3 DEF Onward, Regular
<1>5. ASSUME state # "Recording", sid \in Sessions, Settled(sid) PROVE Settled(sid)'
  <2>1. Settled(n) BY <1>1, <1>5 DEF Settled, Logged
  <2>2. Settled(n)' BY <1>1, <1>5, <2>1, OnwardSettled
  <2> QED BY <1>2, <2>2 DEF Settled, Logged
<1> QED BY <1>3, <1>4, <1>5

LEMMA OutsideTidy ==
  ASSUME NEW place, place \notin Starting \cup Finishing
  PROVE  Tidy(place) /\ Tidy(place)'
BY DEF Tidy, Starting, Finishing, Unsaved, Drained

(* A step that leaves the objects in place alone keeps what is known.      *)
LEMMA TidyKept ==
  ASSUME Typed, Onward, NEW place, Tidy(place),
         place \in Starting \cup Finishing => sid \in Sessions,
         saved' = saved, writer' = writer, Empty => buffer' = buffer
  PROVE  Tidy(place)'
<1>1. sid' = sid /\ (state' = state \/ state' # "Recording") BY DEF Onward
<1>2. Empty => Empty' BY DEF Empty
<1>3. place \in Drained => place \in Finishing BY DEF Drained, Finishing
<1>4. place \in Drained /\ Regular(sid)' => Settled(sid)'
  BY <1>3, OnwardHere DEF Tidy
<1> QED BY <1>1, <1>2, <1>4, OnwardHere DEF Tidy

LEMMA HolderSession ==
  ASSUME Typed, Orderly
  PROVE  \A t \in Threads : pc[t] \in Starting \cup Finishing => sid \in Sessions
BY SessionRange DEF Typed, Seats

LEMMA AccountedKept ==
  ASSUME Accounted, Typed, Orderly, Onward, MovesOutside, mu' = mu,
         state' = state \/ state' \notin Active,
         saved' = saved, writer' = writer, Empty => buffer' = buffer, InFlight'
  PROVE  Accounted'
<1>1. HolderTidy'
  <2>1. ASSUME NEW t \in Threads PROVE Tidy(pc[t])'
    <3>1. PICK a, b : a = pc[t] /\ b = pc'[t] OBVIOUS
    <3>2. Tidy(a) BY <3>1 DEF Accounted, HolderTidy
    <3>3. Tidy(a)' BY <3>1, <3>2, HolderSession, TidyKept
    <3>4. CASE b = a BY <3>1, <3>3, <3>4 DEF Tidy
    <3>5. CASE b \notin Starting \cup Finishing
      <4>1. Tidy(b)' BY <3>5, OutsideTidy
      <4> QED BY <3>1, <4>1 DEF Tidy
    <3>6. b = a \/ b \notin Starting \cup Finishing BY <3>1 DEF MovesOutside, Starting, Finishing
    <3> QED BY <3>4, <3>5, <3>6
  <2> QED BY <2>1 DEF HolderTidy
<1>2. Clear'
  BY DEF Accounted, Clear, Empty, Onward
<1>3. WriterInPlace' BY OnwardHere DEF Accounted, WriterInPlace, Onward
<1>4. Numbered' /\ PublishedSettled' BY OnwardNumbered, OnwardPublished DEF Accounted
<1> QED BY <1>1, <1>2, <1>3, <1>4 DEF Accounted

-----------------------------------------------------------------------------
(* Steps that move no frame                                                *)

HandKept ==
  \/ Crash
  \/ wthread = "write" /\ held.writer = writer => UNCHANGED <<wthread, held>>

Still == UNCHANGED <<buffer, evicted, failed, pushed>> /\ HandKept

LEMMA ServiceStill ==
  ASSUME NEW t \in Threads, StartBusy(t) \/ StopRefused(t) \/ RestartOverThreads(t)
  PROVE  Still
BY DEF StartBusy, StopRefused, RestartOverThreads, bufferVars, fileVars, workerVars, clientVars,
   Still, HandKept

LEMMA WorkersStill ==
  ASSUME WriterTop \/ WriterIdle \/ WriterStale \/ Report
  PROVE  Still
BY DEF WriterTop, WriterIdle, WriterStale, Report, WriterUnchanged, bufferVars, fileVars, clientVars,
   Still, HandKept

LEMMA ClientStill ==
  ASSUME \/ ClientAccept \/ ClientCheck \/ ClientPushStale \/ ClientDisconnect
         \/ \E kind \in Kinds : ClientReceive(kind)
  PROVE  Still
BY DEF ClientAccept, ClientCheck, ClientPushStale, ClientDisconnect, ClientReceive, ClientUnchanged,
   OnlyClientMoves, fileVars, clientVars, Still, HandKept

LEMMA EnvironmentStill ==
  ASSUME \/ \E cmd \in Commands : ControlCommand(cmd)
         \/ StorageCritical \/ ControlLeaves \/ Signal \/ UNCHANGED vars
  PROVE  Still
BY DEF ControlCommand, StorageCritical, ControlLeaves, Signal, MainUnchanged, vars, bufferVars, fileVars,
   workerVars, clientVars, Still, HandKept

LEMMA MainStill ==
  ASSUME Main
  PROVE  Still
BY DEF Main, StartClient, StartStorage, StartThreads, StartControl, RaiseStopFlag, JoinCallers, JoinCaller,
   ExitJoinWriter, ExitJoinReport, MainUnchanged, LaunchThreads, bufferVars, fileVars, clientVars,
   Still, HandKept

LEMMA StillAccounted ==
  ASSUME Accounted, Typed, Orderly, Exclusive, Quiet, Still
  PROVE  Accounted'
<1>1. UNCHANGED files /\ mu' = mu /\ state' = state /\ MovesOutside BY QuietMoves
<1>2. Onward BY <1>1 DEF Still, Onward, files
<1>3. InFlight'
  <2>1. CASE Crash BY <2>1, CallerNames DEF Crash, InFlight
  <2>2. CASE wthread = "write" /\ held.writer = writer => UNCHANGED <<wthread, held>>
    <3>1. pc["main"] = "crashed" => pc'["main"] = "crashed" BY <1>1, CallerNames DEF MovesOutside, Within
    <3>2. UNCHANGED <<sid, writer, disk, buffer, evicted, pushed>> BY <1>1 DEF Still, files
    <3>3. Regular(sid)' => Regular(sid) BY <1>2, OnwardHere
    <3>4. \A f \in Frames : InHand(f) => InHand(f)' BY <2>2, <3>2 DEF InHand
    <3> QED BY <3>1, <3>2, <3>3, <3>4 DEF Accounted, InFlight, Logged, Queued
  <2> QED BY <2>1, <2>2 DEF Still, HandKept
<1> QED BY <1>1, <1>2, <1>3, AccountedKept DEF Still, files

-----------------------------------------------------------------------------
(* Steps that move a frame                                                 *)

(* Into the buffer: what makes room for it is counted.                     *)
LEMMA PushAccounted ==
  ASSUME Accounted, Typed, Orderly, Exclusive, ClientPush
  PROVE  Accounted'
<1>1. UNCHANGED files /\ mu' = mu /\ state' = state /\ MovesOutside
  BY QuietMoves DEF Quiet, Client
<1>2. PICK k \in 0..Len(buffer.queue) :
        /\ buffer' = PB!Push(buffer, frame, k)
        /\ evicted' = evicted \cup {buffer.queue[i] : i \in 1..k}
  BY DEF ClientPush
<1>3. /\ buffer # NoBuffer /\ pc["client"] = "push"
      /\ pushed' = [pushed EXCEPT ![frame] = IF state = "Recording" THEN sid ELSE 0]
      /\ UNCHANGED <<failed, wthread, held>>
  BY DEF ClientPush, ClientUnchanged, OnlyClientMoves, Move, fileVars
<1>4. buffer.queue \in Seq(Frames) /\ frame \in Frames /\ pushed \in [Frames -> Sessions \cup {0}]
  BY <1>3 DEF Typed, DataTypes, BufferTypes, ClientTypes
<1>5. Onward BY <1>1, <1>2, <1>3, <1>4 DEF Onward, files
<1>6. /\ In(frame, buffer'.queue)
      /\ \A g : In(g, buffer.queue) => g \in evicted' \/ In(g, buffer'.queue)
  <2> DEFINE r == SubSeq(buffer.queue, k + 1, Len(buffer.queue))
  <2>1. r \in Seq(Frames) BY <1>4
  <2>2. buffer'.queue = Append(r, frame) BY <1>2 DEF PB!Push
  <2> HIDE DEF r
  <2>3. In(frame, buffer'.queue) /\ \A g : In(g, r) => In(g, buffer'.queue)
    BY <1>4, <2>1, <2>2, InAppend
  <2>4. \A g : In(g, buffer.queue) => g \in evicted' \/ In(g, r)
    BY <1>2, <1>4, InSuffix DEF r
  <2> QED BY <2>3, <2>4
<1>7. InFlight'
  <2>1. SUFFICES ASSUME pc'["main"] # "crashed", Regular(sid)', NEW f \in Frames, pushed'[f] = sid'
                 PROVE  f \in evicted' \/ In(f, disk'[sid']) \/ In(f, buffer'.queue) \/ InHand(f)'
    BY DEF InFlight, Logged, Queued
  <2>2. pc["main"] # "crashed" BY <1>1, <2>1, CallerNames DEF MovesOutside, Within
  <2>3. Regular(sid) BY <1>5, <2>1, OnwardHere
  <2>4. CASE f = frame BY <1>6, <2>4
  <2>5. CASE f # frame
    <3>1. pushed[f] = sid BY <1>1, <1>3, <1>4, <2>1, <2>5 DEF files
    <3>2. f \in evicted \/ In(f, disk[sid]) \/ In(f, buffer.queue) \/ InHand(f)
      BY <2>2, <2>3, <3>1 DEF Accounted, InFlight, Logged, Queued
    <3>3. InHand(f) => InHand(f)' BY <1>1, <1>3 DEF InHand, files
    <3> QED BY <1>1, <1>2, <1>6, <3>2, <3>3 DEF files
  <2> QED BY <2>4, <2>5
<1> QED BY <1>1, <1>3, <1>5, <1>7, AccountedKept DEF Empty, files

(* Out of it: the writer in place is the active session's.                 *)
LEMMA PopAccounted ==
  ASSUME Accounted, Typed, Orderly, Exclusive, WriterPop
  PROVE  Accounted'
<1>1. UNCHANGED files /\ mu' = mu /\ state' = state /\ MovesOutside
  BY QuietMoves DEF Quiet
<1>2. /\ wthread = "pop" /\ wthread' = "write" /\ CanDrain
      /\ held' = [frame |-> Head(buffer.queue), writer |-> writer]
      /\ buffer' = PB!Pop(buffer)
      /\ UNCHANGED <<failed, evicted, pushed, pc>>
  BY DEF WriterPop, WriterUnchanged, OnlyWriterMoves, fileVars, clientVars
<1>3. Onward BY <1>1, <1>2 DEF Onward, files
<1>4. buffer.queue \in Seq(Frames) /\ buffer.queue # << >> /\ writer # 0 /\ buffer # NoBuffer
  BY <1>2 DEF Typed, DataTypes, BufferTypes, CanDrain
<1>5. buffer'.queue = Tail(buffer.queue) BY <1>2 DEF PB!Pop
<1>6. InFlight'
  <2>1. SUFFICES ASSUME pc'["main"] # "crashed", Regular(sid)', NEW f \in Frames, pushed'[f] = sid'
                 PROVE  f \in evicted' \/ In(f, disk'[sid']) \/ In(f, buffer'.queue) \/ InHand(f)'
    BY DEF InFlight, Logged, Queued
  <2>2. Regular(sid) BY <1>3, <2>1, OnwardHere
  <2>3. f \in evicted \/ In(f, disk[sid]) \/ In(f, buffer.queue)
    <3>1. ~InHand(f) BY <1>2 DEF InHand
    <3> QED BY <1>1, <1>2, <2>1, <2>2, <3>1 DEF Accounted, InFlight, Logged, Queued, files
  <2>4. CASE In(f, buffer.queue)
    <3>1. f = Head(buffer.queue) \/ In(f, buffer'.queue) BY <1>4, <1>5, <2>4, InTail
    <3>2. writer = sid BY <1>4, <2>2 DEF Accounted, WriterInPlace, Regular
    <3>3. f = Head(buffer.queue) => InHand(f)' BY <1>1, <1>2, <3>2 DEF InHand, files
    <3> QED BY <3>1, <3>3
  <2> QED BY <1>1, <1>2, <2>3, <2>4 DEF files
<1> QED BY <1>1, <1>3, <1>4, <1>6, AccountedKept DEF Empty, files

(* Onto the disk, or among the failed writes.                              *)
LEMMA WriteLogs ==
  ASSUME Typed, NEW f \in Frames, writer \in Sessions, chunk[writer] # "closed",
         WriteSucceeds(writer, f) \/ WriteFails(writer, f)
  PROVE  /\ failed \subseteq failed'
         /\ \A s \in Sessions, g \in Frames : In(g, disk[s]) => In(g, disk'[s])
         /\ <<f, writer>> \in failed' \/ In(f, disk'[writer])
<1>1. CASE WriteFails(writer, f) BY <1>1 DEF WriteFails
<1>2. CASE WriteSucceeds(writer, f)
  <2>1. disk' = [disk EXCEPT ![writer] = Append(disk[writer], f)] /\ failed' = failed
    BY <1>2 DEF WriteSucceeds
  <2>2. disk \in [Sessions -> Seq(Frames)] BY DEF Typed, DataTypes, FileTypes
  <2>3. /\ disk'[writer] = Append(disk[writer], f) /\ disk[writer] \in Seq(Frames)
        /\ \A s \in Sessions \ {writer} : disk'[s] = disk[s]
    BY <2>1, <2>2
  <2>4. In(f, disk'[writer]) /\ \A g : In(g, disk[writer]) => In(g, disk'[writer])
    BY <2>3, InAppend
  <2> QED BY <2>1, <2>3, <2>4
<1> QED BY <1>1, <1>2

(* A frame in the writer's hands goes to a file that is not closed.        *)
LEMMA WriterHolds ==
  ASSUME Typed, Orderly, Exclusive, WriterWrite
  PROVE  held.frame \in Frames /\ writer \in Sessions /\ chunk[writer] # "closed"
<1>1. wthread = "write" /\ held.writer = writer BY DEF WriterWrite
<1>2. held.frame \in Frames /\ writer \in Sessions
  BY <1>1, SessionRange DEF Typed, DataTypes, WorkerTypes
<1>3. \A t \in Threads : pc[t] \notin Sealing \cup {"crashed"}
  BY <1>1 DEF Exclusive, WorkersOut, LifeCycle, Sealing, Alone
<1> QED BY <1>2, <1>3 DEF Orderly, WriterOpen

LEMMA WriterWriteAccounted ==
  ASSUME Accounted, Typed, Orderly, Exclusive, WriterWrite
  PROVE  Accounted'
<1>1. /\ wthread = "write" /\ held.writer = writer /\ wthread' = "top"
      /\ WriteSucceeds(writer, held.frame) \/ WriteFails(writer, held.frame)
      /\ state' = state \/ state' = "Error"
      /\ UNCHANGED <<pc, mu, sid, writer, buffer, triggered, saved, evicted, pushed>>
  BY DEF WriterWrite, WriterUnchanged, OnlyWriterMoves, clientVars
<1>2. held.frame \in Frames /\ writer \in Sessions /\ chunk[writer] # "closed" BY WriterHolds
<1>3. /\ failed \subseteq failed'
      /\ \A s \in Sessions, g \in Frames : In(g, disk[s]) => In(g, disk'[s])
      /\ <<held.frame, writer>> \in failed' \/ In(held.frame, disk'[writer])
  BY <1>1, <1>2, WriteLogs
<1>4. Onward BY <1>1, <1>3 DEF Onward
<1>5. InFlight'
  <2>1. SUFFICES ASSUME pc'["main"] # "crashed", Regular(sid)', NEW f \in Frames, pushed'[f] = sid'
                 PROVE  f \in evicted' \/ In(f, disk'[sid']) \/ In(f, buffer'.queue) \/ InHand(f)'
    BY DEF InFlight, Logged, Queued
  <2>2. f \in evicted \/ In(f, disk[sid]) \/ In(f, buffer.queue) \/ InHand(f)
    BY <1>1, <1>4, <2>1, OnwardHere DEF Accounted, InFlight, Logged, Queued
  <2>3. InHand(f) => In(f, disk'[sid])
    <3>1. <<f, sid>> \notin failed' BY <1>1, <2>1 DEF Regular
    <3> QED BY <1>3, <3>1 DEF InHand
  <2>4. sid \in Sessions => (In(f, disk[sid]) => In(f, disk'[sid])) BY <1>3
  <2>5. sid \in Sessions
    <3>1. sid \in Sessions \cup {0} BY SessionRange DEF Typed
    <3>2. sid # 0 BY <1>2, SavedInSessions DEF Orderly, Shapes
    <3> QED BY <3>1, <3>2
  <2> QED BY <1>1, <2>2, <2>3, <2>4, <2>5
<1>6. MovesOutside BY <1>1 DEF MovesOutside
<1> QED BY <1>1, <1>4, <1>5, <1>6, AccountedKept DEF Active

-----------------------------------------------------------------------------
(* Steps of the thread that holds the mutex, or takes it                   *)

LEMMA HolderTidyStep ==
  ASSUME Exclusive, NEW t \in Threads, NEW b, pc' = [pc EXCEPT ![t] = b],
         mu \in {t, Free}, Tidy(b)'
  PROVE  HolderTidy'
<1>1. \A r \in Threads :
        pc'[r] = IF r = t THEN b ELSE pc[r]
  BY DEF Exclusive, LockOrder
<1>2. \A r \in Threads \ {t} : pc[r] \notin Starting \cup Finishing
  BY CallerNames DEF Exclusive, LockOrder
<1>3. ASSUME NEW r \in Threads PROVE Tidy(pc[r])'
  <2>1. CASE r = t BY <1>1, <2>1 DEF Tidy
  <2>2. CASE r # t
    <3>1. PICK c : c = pc'[r] OBVIOUS
    <3>2. Tidy(c)' BY <1>1, <1>2, <2>2, <3>1, OutsideTidy
    <3> QED BY <3>1, <3>2 DEF Tidy
  <2> QED BY <2>1, <2>2
<1> QED BY <1>3 DEF HolderTidy

LEMMA HolderAccounted ==
  ASSUME Accounted, Typed, Orderly, Exclusive, Onward,
         NEW t \in Threads, NEW b, pc' = [pc EXCEPT ![t] = b], mu \in {t, Free},
         Tidy(b)', mu' = t \/ Clear', WriterInPlace', InFlight'
  PROVE  Accounted'
<1>1. HolderTidy' BY HolderTidyStep
<1>2. mu' = t => Clear' BY CallerNames DEF Clear
<1> QED BY <1>1, <1>2, OnwardNumbered, OnwardPublished DEF Accounted

(* The frames in flight stay where they are.                               *)
LEMMA InFlightStays ==
  ASSUME Accounted, Typed, Exclusive, Onward, NEW t \in Threads, pc[t] # "crashed",
         UNCHANGED <<disk, evicted, pushed>>,
         \A f \in Frames : Regular(sid) =>
           (In(f, buffer.queue) => In(f, buffer'.queue)) /\ (InHand(f) => InHand(f)')
  PROVE  InFlight'
<1>1. pc["main"] # "crashed" BY CallerNames DEF Exclusive, LifeCycle
<1>2. sid' = sid BY DEF Onward
<1> QED BY <1>1, <1>2, OnwardHere DEF Accounted, InFlight, Logged, Queued

(* A holder's step that leaves buffer and writer alone.                    *)
LEMMA PassiveStep ==
  ASSUME Accounted, Typed, Orderly, Exclusive, Onward,
         NEW t \in Threads, pc[t] # "crashed", NEW b, pc' = [pc EXCEPT ![t] = b], mu \in {t, Free},
         UNCHANGED <<buffer, writer, disk, evicted, pushed, held>>,
         wthread = "write" => wthread' = "write",
         Tidy(b)', mu' = t \/ Clear'
  PROVE  Accounted'
<1>1. sid' = sid BY DEF Onward
<1>2. \A f \in Frames : InHand(f) => InHand(f)' BY <1>1 DEF InHand
<1>3. InFlight' BY <1>2, InFlightStays
<1>4. WriterInPlace' BY <1>1, OnwardHere DEF Accounted, WriterInPlace
<1> QED BY <1>3, <1>4, HolderAccounted

(* StartRecording                                                          *)

(* The one step that makes a session active: nothing is in place when the  *)
(* one before was finished.                                                *)
LEMMA StartSessionAccounted ==
  ASSUME Accounted, Typed, Orderly, Exclusive, NEW t \in Threads, StartSession(t)
  PROVE  Accounted'
<1>1. /\ pc' = [pc EXCEPT ![t] = "start_buffer"] /\ mu = Free /\ mu' = t
      /\ sid' = sid + 1
      /\ UNCHANGED <<saved, triggered, buffer, writer, evicted, failed, disk, pushed, wthread, held>>
  BY DEF StartSession, Move, Goto, bufferVars, fileVars, workerVars, clientVars
<1>2. sid \in Nat /\ 0 \notin saved BY SavedInSessions
<1>3. OnTop(sid)' => Empty
  <2>1. OnTop(sid)' => sid = 0 \/ sid \in saved BY <1>1, <1>2 DEF OnTop
  <2> QED BY <1>1, <2>1 DEF Accounted, Clear
<1>4. sid' \notin saved' BY <1>1, <1>2 DEF Accounted, Numbered
<1>5. Tidy("start_buffer")' BY <1>1, <1>3, <1>4 DEF Tidy, Empty, Drained, Finishing
<1>6. HolderTidy' BY <1>1, <1>5, HolderTidyStep
<1>7. Clear' BY <1>1, CallerNames DEF Clear
<1>8. WriterInPlace' BY <1>1, <1>3 DEF WriterInPlace, Empty
<1>9. Numbered'
  <2>1. \A s \in saved : s <= sid + 1 BY <1>2, SavedInSessions DEF Accounted, Numbered
  <2>2. \A f \in Frames : pushed[f] <= sid + 1
    BY <1>2, SavedInSessions DEF Accounted, Numbered, Typed, DataTypes, ClientTypes
  <2>3. \A s \in Sessions : triggered[s] > 0 => s < sid + 1
    BY <1>2, SavedInSessions DEF Orderly, Past
  <2> QED BY <1>1, <2>1, <2>2, <2>3 DEF Numbered
<1>10. InFlight'
  <2>1. \A f \in Frames : pushed[f] # sid + 1
    BY <1>2, SavedInSessions DEF Accounted, Numbered, Typed, DataTypes, ClientTypes
  <2> QED BY <1>1, <2>1 DEF InFlight
<1>11. PublishedSettled'
  BY <1>1 DEF Accounted, PublishedSettled, Regular, OnTop, Settled, Logged
<1> QED BY <1>6, <1>7, <1>8, <1>9, <1>10, <1>11 DEF Accounted

(* A fresh buffer replaces an empty one.                                   *)
LEMMA StartBufferAccounted ==
  ASSUME Accounted, Typed, Orderly, Exclusive, NEW t \in Threads, StartBuffer(t)
  PROVE  Accounted'
<1>1. /\ pc[t] = "start_buffer" /\ pc' = [pc EXCEPT ![t] = "start_writer"]
      /\ UNCHANGED <<mu, state, sid, saved, triggered, writer, evicted, failed, disk, pushed, wthread, held>>
  BY DEF StartBuffer, Move, Goto, sessionVars, fileVars, workerVars, clientVars
<1>2. mu = t /\ Tidy("start_buffer") /\ sid # 0
  BY <1>1, HolderSession, SavedInSessions DEF Exclusive, LockOrder, Accounted, HolderTidy, Starting
<1>3. Onward BY <1>1 DEF Onward
<1>4. OnTop(sid) => buffer = NoBuffer /\ writer = 0 BY <1>2 DEF Tidy, Empty
<1>5. Tidy("start_writer")'
  <2>1. sid \notin saved BY <1>2 DEF Tidy, Unsaved, Starting
  <2> QED BY <1>1, <1>4, <2>1, <1>3, OnwardHere DEF Tidy, Drained, Finishing
<1>6. InFlight'
  <2>1. Regular(sid) => buffer.queue = << >> /\ \A f \in Frames : ~InHand(f)
    BY <1>2, <1>4 DEF Regular, InHand, NoBuffer
  <2> QED BY <1>1, <1>3, <2>1, InEmpty, InFlightStays
<1>7. WriterInPlace' BY <1>1, <1>3, OnwardHere DEF Accounted, WriterInPlace
<1> QED BY <1>1, <1>2, <1>3, <1>5, <1>6, <1>7, HolderAccounted

LEMMA StartWriterAccounted ==
  ASSUME Accounted, Typed, Orderly, Exclusive, NEW t \in Threads, StartWriter(t)
  PROVE  Accounted'
<1>1. /\ pc[t] = "start_writer" /\ pc' = [pc EXCEPT ![t] = "start_open"] /\ writer' = sid
      /\ UNCHANGED <<mu, state, sid, saved, triggered, buffer, evicted, failed, disk, pushed, wthread, held>>
  BY DEF StartWriter, Move, Goto, sessionVars, fileVars, workerVars, clientVars
<1>2. mu = t /\ Tidy("start_writer") /\ sid # 0
  BY <1>1, HolderSession, SavedInSessions DEF Exclusive, LockOrder, Accounted, HolderTidy, Starting
<1>3. Onward BY <1>1 DEF Onward
<1>4. Tidy("start_open")'
  <2>1. sid \notin saved BY <1>2 DEF Tidy, Unsaved, Starting
  <2> QED BY <1>1, <2>1 DEF Tidy, Drained, Finishing
<1>5. InFlight'
  <2>1. Regular(sid) => \A f \in Frames : ~InHand(f)
    BY <1>2 DEF Tidy, Regular, InHand
  <2> QED BY <1>1, <1>3, <2>1, InFlightStays
<1>6. WriterInPlace' BY <1>1 DEF WriterInPlace
<1> QED BY <1>1, <1>2, <1>3, <1>4, <1>5, <1>6, HolderAccounted

LEMMA StartOpenAccounted ==
  ASSUME Accounted, Typed, Orderly, Exclusive, NEW t \in Threads, StartOpened(t) \/ StartNotOpened(t)
  PROVE  Accounted'
<1>1. PICK b :
        /\ pc[t] = "start_open" /\ pc' = [pc EXCEPT ![t] = b] /\ b \notin Starting \cup Finishing
        /\ state' = state \/ state' = "Error"
        /\ UNCHANGED <<sid, saved, triggered, buffer, writer, evicted, failed, disk, pushed, wthread, held>>
  <2>1. AfterStart(t, TRUE) \notin Starting \cup Finishing
        /\ AfterStart(t, FALSE) \notin Starting \cup Finishing
    BY Returns DEF Starting, Finishing
  <2>2. CASE StartOpened(t)
    BY <2>1, <2>2 DEF StartOpened, Move, Goto, sessionVars, bufferVars, workerVars, clientVars
  <2>3. CASE StartNotOpened(t)
    BY <2>1, <2>3 DEF StartNotOpened, Move, Goto, bufferVars, workerVars, clientVars
  <2> QED BY <2>2, <2>3
<1>2. mu = t /\ Tidy("start_open") /\ sid # 0
  BY <1>1, HolderSession, SavedInSessions DEF Exclusive, LockOrder, Accounted, HolderTidy, Starting
<1>3. Onward BY <1>1 DEF Onward
<1>4. Clear' BY <1>1, <1>2 DEF Clear, Tidy, Unsaved, Starting
<1>5. Tidy(b)' BY <1>1, OutsideTidy
<1> QED BY <1>1, <1>2, <1>3, <1>4, <1>5, PassiveStep

(* StopRecording and FinalizeActiveSession                                 *)

LEMMA StopAcceptedAccounted ==
  ASSUME Accounted, Typed, Orderly, Exclusive, NEW t \in Threads, StopAccepted(t)
  PROVE  Accounted'
<1>1. /\ pc[t] = "stop" /\ pc' = [pc EXCEPT ![t] = "stop_wait"] /\ mu = Free /\ mu' = t
      /\ state \in Active /\ state' = "Stopping"
      /\ UNCHANGED <<sid, saved, triggered, buffer, writer, evicted, failed, disk, pushed, wthread, held>>
  BY DEF StopAccepted, Move, Goto, bufferVars, fileVars, workerVars, clientVars, Active
<1>2. Onward BY <1>1 DEF Onward
<1>3. sid \notin saved BY <1>1 DEF Accounted, Clear
<1>4. Tidy("stop_wait")' BY <1>1, <1>3 DEF Tidy, Drained
<1> QED BY <1>1, <1>2, <1>4, PassiveStep

LEMMA WaitsAccounted ==
  ASSUME Accounted, Typed, Orderly, Exclusive, NEW t \in Threads,
         StopWaitOver(t) \/ JoinWriter(t) \/ JoinReport(t)
  PROVE  Accounted'
<1>1. PICK b \in {"join_writer", "join_report", "drain"} :
        /\ pc[t] \in {"stop_wait", "join_writer", "join_report"} /\ pc' = [pc EXCEPT ![t] = b]
        /\ wthread = "write" => wthread' = "write"
        /\ UNCHANGED <<mu, state, sid, saved, triggered, buffer, writer, evicted, failed, disk, pushed, held>>
  BY DEF StopWaitOver, JoinWriter, JoinReport, Move, Goto, sessionVars, bufferVars, fileVars, workerVars, clientVars
<1>2. mu = t /\ Tidy(pc[t])
  BY <1>1 DEF Exclusive, LockOrder, Accounted, HolderTidy, Finishing
<1>3. Onward BY <1>1 DEF Onward
<1>4. sid \notin saved /\ state # "Recording" BY <1>1, <1>2 DEF Tidy, Unsaved, Finishing
<1>5. Tidy(b)' BY <1>1, <1>4 DEF Tidy, Drained
<1> QED BY <1>1, <1>2, <1>3, <1>5, PassiveStep

(* What the finaliser knows from the drain on.                             *)
LEMMA DrainKnows ==
  ASSUME Accounted, Typed, Orderly, Exclusive, NEW t \in Threads, pc[t] \in {"drain"} \cup Drained
  PROVE  /\ mu = t /\ Tidy(pc[t]) /\ Knows(pc[t])
         /\ sid \in Sessions /\ state # "Recording"
         /\ pc["main"] # "crashed"
<1>1. pc[t] \in Finishing /\ pc[t] # "crashed" BY DEF Drained, Finishing
<1>2. mu = t /\ Tidy(pc[t]) /\ Knows(pc[t]) /\ sid \in Sessions
  BY <1>1, HolderSession DEF Exclusive, LockOrder, Accounted, HolderTidy, Orderly, HolderKnows
<1>3. pc["main"] # "crashed" BY <1>1, CallerNames DEF Exclusive, LifeCycle
<1>4. state # "Recording" BY <1>1, <1>2 DEF Tidy
<1> QED BY <1>2, <1>3, <1>4

(* So does the first frame of the buffer that is drained.                  *)
LEMMA DrainHolds ==
  ASSUME Typed, Orderly, Exclusive, NEW t \in Threads, DrainWrite(t)
  PROVE  Head(buffer.queue) \in Frames /\ writer \in Sessions /\ chunk[writer] # "closed"
<1>1. pc[t] = "drain" /\ CanDrain BY DEF DrainWrite
<1>2. mu = t /\ writer \in Sessions
  BY <1>1, SessionRange DEF Exclusive, LockOrder, Finishing, CanDrain, Typed
<1>3. Head(buffer.queue) \in Frames BY <1>1, PopType DEF Typed, DataTypes
<1>4. \A r \in Threads : pc[r] \notin Sealing \cup {"crashed"}
  BY <1>1, <1>2 DEF Exclusive, LockOrder, LifeCycle, Sealing, Finishing
<1> QED BY <1>2, <1>3, <1>4 DEF Orderly, WriterOpen

LEMMA DrainWriteAccounted ==
  ASSUME Accounted, Typed, Orderly, Exclusive, NEW t \in Threads, DrainWrite(t)
  PROVE  Accounted'
<1> DEFINE head == Head(buffer.queue)
<1>1. /\ pc[t] = "drain" /\ CanDrain
      /\ buffer' = PB!Pop(buffer)
      /\ WriteSucceeds(writer, head) \/ WriteFails(writer, head)
      /\ \/ UNCHANGED <<pc, state>>
         \/ /\ WriteFails(writer, head) /\ pc' = [pc EXCEPT ![t] = "close"] /\ state' = "Error"
      /\ UNCHANGED <<mu, sid, writer, triggered, saved, evicted, pushed, wthread, held>>
  BY DEF DrainWrite, Goto, workerVars, clientVars
<1>2. /\ mu = t /\ Tidy("drain") /\ writer = sid /\ sid \in Sessions /\ state # "Recording"
      /\ pc["main"] # "crashed"
  BY <1>1, DrainKnows DEF Knows, Finishing
<1>3. /\ buffer.queue \in Seq(Frames) /\ buffer.queue # << >> /\ buffer # NoBuffer
      /\ head \in Frames /\ buffer'.queue = Tail(buffer.queue)
  BY <1>1, PopType DEF Typed, DataTypes, BufferTypes, CanDrain, PB!Pop
<1>4. chunk[writer] # "closed" BY DrainHolds
<1> HIDE DEF head
<1>5. /\ failed \subseteq failed'
      /\ \A s \in Sessions, g \in Frames : In(g, disk[s]) => In(g, disk'[s])
      /\ <<head, sid>> \in failed' \/ In(head, disk'[sid])
  BY <1>1, <1>2, <1>3, <1>4, WriteLogs
<1>6. Onward BY <1>1, <1>5 DEF Onward
<1>7. InFlight'
  <2>1. SUFFICES ASSUME Regular(sid)', NEW f \in Frames, pushed'[f] = sid'
                 PROVE  f \in evicted' \/ In(f, disk'[sid']) \/ In(f, buffer'.queue) \/ InHand(f)'
    BY DEF InFlight, Logged, Queued
  <2>2. f \in evicted \/ In(f, disk[sid]) \/ In(f, buffer.queue) \/ InHand(f)
    BY <1>1, <1>2, <1>6, <2>1, OnwardHere DEF Accounted, InFlight, Logged, Queued
  <2>3. InHand(f) => InHand(f)' BY <1>1 DEF InHand
  <2>4. In(f, buffer.queue) => f = head \/ In(f, buffer'.queue)
    BY <1>3, InTail DEF head
  <2>5. f = head => In(f, disk'[sid]) BY <1>1, <1>5, <2>1 DEF Regular
  <2> QED BY <1>1, <1>2, <1>5, <2>2, <2>3, <2>4, <2>5
<1>8. CASE UNCHANGED <<pc, state>>
  <2>1. MovesOutside BY <1>8 DEF MovesOutside
  <2> QED BY <1>1, <1>3, <1>6, <1>7, <1>8, <2>1, AccountedKept DEF Empty
<1>9. CASE WriteFails(writer, head) /\ pc' = [pc EXCEPT ![t] = "close"] /\ state' = "Error"
  <2>1. ~Regular(sid)' BY <1>1, <1>2, <1>3, <1>9 DEF Regular, WriteFails
  <2>2. sid \notin saved BY <1>2 DEF Tidy, Unsaved, Finishing
  <2>3. Tidy("close")' BY <1>1, <1>9, <2>1, <2>2 DEF Tidy
  <2>4. WriterInPlace' BY <1>1, <1>2 DEF WriterInPlace
  <2> QED BY <1>1, <1>2, <1>6, <1>7, <1>9, <2>3, <2>4, HolderAccounted
<1> QED BY <1>1, <1>8, <1>9

(* The drain is over: nothing is queued and no thread has a frame in hand. *)
LEMMA DrainOverAccounted ==
  ASSUME Accounted, Typed, Orderly, Exclusive, NEW t \in Threads, DrainOver(t)
  PROVE  Accounted'
<1>1. /\ pc[t] = "drain" /\ pc' = [pc EXCEPT ![t] = "close"] /\ ~CanDrain
      /\ UNCHANGED <<mu, state, sid, saved, triggered, buffer, writer, evicted, failed, disk, pushed, wthread, held>>
  BY DEF DrainOver, Move, Goto, sessionVars, bufferVars, fileVars, workerVars, clientVars
<1>2. /\ mu = t /\ Tidy("drain") /\ writer = sid /\ sid \in Sessions /\ state # "Recording"
      /\ pc["main"] # "crashed" /\ writer # 0
  BY <1>1, DrainKnows, SavedInSessions DEF Knows, Finishing
<1>3. Onward BY <1>1 DEF Onward
<1>4. buffer.queue = << >> BY <1>1, <1>2 DEF CanDrain, NoBuffer
<1>5. wthread # "write" BY <1>1 DEF Exclusive, WorkersOut, Alone
<1>6. Regular(sid) => Settled(sid)
  BY <1>2, <1>4, <1>5, InEmpty DEF Accounted, InFlight, Settled, Queued, InHand
<1>7. sid \notin saved BY <1>2 DEF Tidy, Unsaved, Finishing
<1>8. Tidy("close")' BY <1>1, <1>2, <1>3, <1>6, <1>7, OnwardHere DEF Tidy
<1> QED BY <1>1, <1>2, <1>3, <1>8, PassiveStep

(* Close, MarkStopped and WriteFinalSummary.                               *)
LEMMA SealAccounted ==
  ASSUME Accounted, Typed, Orderly, Exclusive, NEW t \in Threads,
         CloseWriter(t) \/ MarkStopped(t) \/ WriteSummary(t)
  PROVE  Accounted'
<1>1. PICK b \in {"mark", "summary", "reset"} :
        /\ pc[t] \in {"close", "mark", "summary"} /\ pc' = [pc EXCEPT ![t] = b]
        /\ b = "mark" => pc[t] = "close" /\ saved' = saved
        /\ saved' = saved \/ saved' = saved \cup {sid}
        /\ state' = state \/ state' = "Closed"
        /\ UNCHANGED <<mu, sid, triggered, buffer, writer, evicted, failed, disk, pushed, wthread, held>>
  <2>1. CASE CloseWriter(t)
    BY <2>1 DEF CloseWriter, Move, Goto, sessionVars, bufferVars, workerVars, clientVars
  <2>2. CASE MarkStopped(t)
    BY <2>2 DEF MarkStopped, Move, Goto, bufferVars, fileVars, workerVars, clientVars
  <2>3. CASE WriteSummary(t)
    BY <2>3 DEF WriteSummary, Move, Goto, bufferVars, fileVars, workerVars, clientVars
  <2> QED BY <2>1, <2>2, <2>3
<1>2. mu = t /\ Tidy(pc[t]) /\ sid \in Sessions /\ state # "Recording"
  BY <1>1, DrainKnows DEF Drained
<1>3. Onward BY <1>1 DEF Onward
<1>4. Regular(sid) => Settled(sid) BY <1>1, <1>2 DEF Tidy, Drained
<1>5. Regular(sid)' => Settled(sid)' BY <1>2, <1>3, <1>4, OnwardHere
<1>6. b = "mark" => sid \notin saved BY <1>1, <1>2 DEF Tidy, Unsaved, Finishing
<1>7. Tidy(b)' BY <1>1, <1>2, <1>5, <1>6 DEF Tidy, Unsaved
<1> QED BY <1>1, <1>2, <1>3, <1>7, PassiveStep

LEMMA ResetAccounted ==
  ASSUME Accounted, Typed, Orderly, Exclusive, NEW t \in Threads, ResetSession(t)
  PROVE  Accounted'
<1>1. /\ pc[t] = "reset" /\ pc' = [pc EXCEPT ![t] = "trigger"] /\ buffer' = NoBuffer /\ writer' = 0
      /\ UNCHANGED <<mu, state, sid, saved, triggered, evicted, failed, disk, pushed, wthread, held>>
  BY DEF ResetSession, Move, Goto, sessionVars, fileVars, workerVars, clientVars
<1>2. mu = t /\ Tidy("reset") /\ sid \in Sessions /\ state # "Recording"
  BY <1>1, DrainKnows DEF Drained
<1>3. Onward BY <1>1 DEF Onward
<1>4. Regular(sid) => Settled(sid) BY <1>2 DEF Tidy, Drained
<1>5. Tidy("trigger")' BY <1>1, <1>2, <1>3, <1>4, OnwardHere DEF Tidy, Empty, Unsaved
<1>6. InFlight' BY <1>1, <1>3, <1>4, OnwardHere DEF InFlight, Settled, Logged
<1>7. WriterInPlace' BY <1>1 DEF WriterInPlace
<1> QED BY <1>1, <1>2, <1>3, <1>5, <1>6, <1>7, HolderAccounted

(* The session is published.                                               *)
LEMMA TriggerAccounted ==
  ASSUME Accounted, Typed, Orderly, Exclusive, NEW t \in Threads, TriggerOffline(t)
  PROVE  Accounted'
<1>1. /\ pc[t] = "trigger" /\ pc' = [pc EXCEPT ![t] = "restart"]
      /\ triggered' = [triggered EXCEPT ![sid] = @ + 1]
      /\ UNCHANGED <<mu, state, sid, saved, buffer, writer, evicted, failed, disk, pushed, wthread, held>>
  BY DEF TriggerOffline, Move, Goto, bufferVars, fileVars, workerVars, clientVars
<1>2. mu = t /\ Tidy("trigger") /\ sid \in Sessions /\ state # "Recording"
  BY <1>1, DrainKnows DEF Drained
<1>3. Tidy("restart")' BY <1>1, <1>2 DEF Tidy, Empty, Unsaved, Drained
<1>4. HolderTidy' BY <1>1, <1>2, <1>3, HolderTidyStep
<1>5. Clear' BY <1>1, <1>2, CallerNames DEF Clear
<1>6. WriterInPlace' BY <1>1 DEF Accounted, WriterInPlace, OnTop
<1>7. Numbered' BY <1>1, <1>2 DEF Accounted, Numbered
<1>8. \A f : InHand(f) => InHand(f)' BY <1>1 DEF InHand
<1>9. InFlight'
  <2>1. pc["main"] # "crashed" BY <1>1, DrainKnows DEF Drained
  <2> QED BY <1>1, <1>8, <2>1 DEF Accounted, InFlight, Regular, OnTop, Logged, Queued
<1>10. PublishedSettled'
  <2>1. SUFFICES ASSUME NEW s \in Sessions, triggered'[s] > 0, Regular(s) PROVE Settled(s)
    BY <1>1 DEF PublishedSettled, Regular, OnTop, Settled, Logged
  <2>2. CASE s = sid BY <1>2, <2>1, <2>2 DEF Tidy, Drained
  <2>3. CASE s # sid
    <3>1. triggered'[s] = triggered[s] BY <1>1, <2>3 DEF Orderly, Shapes
    <3> QED BY <2>1, <3>1 DEF Accounted, PublishedSettled
  <2> QED BY <2>2, <2>3
<1> QED BY <1>4, <1>5, <1>6, <1>7, <1>9, <1>10 DEF Accounted

LEMMA RestartAccounted ==
  ASSUME Accounted, Typed, Orderly, Exclusive, NEW t \in Threads, RestartThreads(t)
  PROVE  Accounted'
<1>1. /\ pc[t] = "restart" /\ pc' = [pc EXCEPT ![t] = AfterStop(t)]
      /\ wthread = "write" => wthread' = "write"
      /\ UNCHANGED <<state, sid, saved, triggered, buffer, writer, evicted, failed, disk, pushed, held>>
  BY DEF RestartThreads, LaunchThreads, Move, Goto, bufferVars, fileVars, clientVars
<1>2. mu = t /\ Tidy("restart") /\ Knows("restart")
  BY <1>1 DEF Exclusive, LockOrder, Accounted, HolderTidy, Orderly, HolderKnows, Finishing
<1>3. Onward BY <1>1 DEF Onward
<1>4. Clear' BY <1>1, <1>2 DEF Clear, Tidy, Knows, Empty
<1>5. PICK b : b = AfterStop(t) OBVIOUS
<1>6. b \notin Starting \cup Finishing BY <1>5, Returns DEF Starting, Finishing
<1>7. Tidy(b)' BY <1>6, OutsideTidy
<1> QED BY <1>1, <1>2, <1>3, <1>4, <1>5, <1>7, PassiveStep

-----------------------------------------------------------------------------
LEMMA InitAccounted == Init => Accounted
<1> SUFFICES ASSUME Init PROVE Accounted OBVIOUS
<1>1. /\ sid = 0 /\ writer = 0 /\ state = "Idle" /\ buffer = NoBuffer /\ saved = {}
      /\ triggered = [s \in Sessions |-> 0] /\ pushed = [f \in Frames |-> 0]
      /\ pc = [t \in Threads |-> IF t = "main" THEN "m_client" ELSE "none"]
  BY DEF Init
<1>2. HolderTidy
  <2>1. \A t \in Threads : pc[t] \notin Starting \cup Finishing BY <1>1 DEF Starting, Finishing
  <2> QED BY <2>1, OutsideTidy DEF HolderTidy
<1>3. Clear /\ WriterInPlace BY <1>1 DEF Clear, WriterInPlace, Empty, Active
<1>4. Numbered /\ PublishedSettled BY <1>1 DEF Numbered, PublishedSettled
<1>5. ~OnTop(sid) BY <1>1 DEF OnTop
<1>6. InFlight BY <1>5 DEF InFlight, Regular
<1> QED BY <1>2, <1>3, <1>4, <1>6 DEF Accounted

LEMMA NextAccounted == Accounted /\ Typed /\ Orderly /\ Exclusive /\ [Next]_vars => Accounted'
<1> SUFFICES ASSUME Accounted, Typed, Orderly, Exclusive, [Next]_vars PROVE Accounted' OBVIOUS
<1>1. ASSUME Quiet PROVE Accounted'
  <2>1. CASE ClientPush BY <2>1, PushAccounted
  <2>2. CASE WriterPop BY <2>2, PopAccounted
  <2>3. CASE Still BY <1>1, <2>3, StillAccounted
  <2>4. ClientPush \/ WriterPop \/ Still
    BY <1>1, ServiceStill, WorkersStill, ClientStill, EnvironmentStill, MainStill DEF Quiet, Client
  <2> QED BY <2>1, <2>2, <2>3, <2>4
<1>2. CASE WriterWrite BY <1>2, WriterWriteAccounted
<1>3. ASSUME NEW t \in Threads, Service(t), ~Quiet PROVE Accounted'
  <2>1. ~(StartBusy(t) \/ StopRefused(t) \/ RestartOverThreads(t)) BY <1>3 DEF Quiet
  <2>2. CASE StartSession(t) BY <2>2, StartSessionAccounted
  <2>3. CASE StartBuffer(t) BY <2>3, StartBufferAccounted
  <2>4. CASE StartWriter(t) BY <2>4, StartWriterAccounted
  <2>5. CASE StartOpened(t) \/ StartNotOpened(t) BY <2>5, StartOpenAccounted
  <2>6. CASE StopAccepted(t) BY <2>6, StopAcceptedAccounted
  <2>7. CASE StopWaitOver(t) \/ JoinWriter(t) \/ JoinReport(t) BY <2>7, WaitsAccounted
  <2>8. CASE DrainWrite(t) BY <2>8, DrainWriteAccounted
  <2>9. CASE DrainOver(t) BY <2>9, DrainOverAccounted
  <2>10. CASE CloseWriter(t) \/ MarkStopped(t) \/ WriteSummary(t) BY <2>10, SealAccounted
  <2>11. CASE ResetSession(t) BY <2>11, ResetAccounted
  <2>12. CASE TriggerOffline(t) BY <2>12, TriggerAccounted
  <2>13. CASE RestartThreads(t) BY <2>13, RestartAccounted
  <2> QED
    BY <1>3, <2>1, <2>2, <2>3, <2>4, <2>5, <2>6, <2>7, <2>8, <2>9, <2>10, <2>11, <2>12, <2>13 DEF Service
<1> QED BY <1>1, <1>2, <1>3 DEF Next, Writer, Quiet, Terminated

(* A published session lacks no frame silently, whichever threads started  *)
(* and stopped it and whatever they were interrupted in: what the client   *)
(* thread pushed while it was recording is in its chunk files or was       *)
(* counted as dropped (runtime_service.cpp:255, 262-283, 365-383).         *)
THEOREM NothingIsLost == Spec => []NoSilentLoss
<1>1. Init => Accounted BY InitAccounted
<1>2. Accounted /\ Typed /\ Orderly /\ Exclusive /\ [Next]_vars => Accounted' BY NextAccounted
<1>3. Accounted => NoSilentLoss
  BY DEF Accounted, PublishedSettled, NoSilentLoss, Regular, OnTop, Settled, Logged, In
<1> QED BY <1>1, <1>2, <1>3, AlwaysExclusive, AlwaysOrderly, AlwaysTyped, PTL DEF Spec

-----------------------------------------------------------------------------
(* The writer thread is there (WriterAlive)                                *)

(* Places of the main thread from StartDaemon's threads to StopDaemon.     *)
Launched == {"m_control", "start", "wait", "stop"} \cup Starting \cup Finishing
Begun    == {"m_storage", "m_threads"} \cup Launched

(* Places of a finaliser that has not yet closed the session.              *)
StopsAt == {"stop_wait", "join_writer", "join_report", "drain", "close", "mark"}

At(places) == \E t \in Threads : pc[t] \in places

(* Only a finaliser, and only while it holds the mutex, has the flag up,   *)
(* the state Stopping, a writer that will leave or no writer.              *)
Manned ==
  /\ wthread \in {"none", "top", "pop", "write", "done"}
  /\ pc["main"] \in Begun => daemon_running
  /\ pc["main"] \in {"m_client"} \cup Begun /\ stop_threads => At(Told)
  /\ state = "Stopping" => At(StopsAt \cup {"crashed"})
  /\ wthread = "pop" /\ seen = "Stopping" => At({"stop_wait", "join_writer"})
  /\ pc["main"] \in Launched /\ wthread \in {"none", "done"} => At(Finishing)

LEMMA InitManned == Init => Manned
<1> SUFFICES ASSUME Init PROVE Manned OBVIOUS
<1>1. /\ pc = [t \in Threads |-> IF t = "main" THEN "m_client" ELSE "none"]
      /\ wthread = "none" /\ stop_threads = FALSE /\ state = "Idle"
  BY DEF Init
<1>2. pc["main"] = "m_client" BY <1>1, CallerNames
<1>3. pc["main"] \notin Begun BY <1>2 DEF Begun, Launched, Starting, Finishing
<1>4. pc["main"] \notin Launched BY <1>3 DEF Begun
<1> QED BY <1>1, <1>3, <1>4 DEF Manned

(* Where the holder of the mutex is, somebody is, and nobody elsewhere.    *)
LEMMA HolderAt ==
  ASSUME Exclusive, NEW t \in Threads, mu \in {t, Free}, pc[t] # "crashed",
         NEW b, pc' = [pc EXCEPT ![t] = b]
  PROVE  /\ \A P \in SUBSET Finishing : At(P) => pc[t] \in P
         /\ \A P \in SUBSET Finishing : At(P \cup {"crashed"}) => pc[t] \in P
         /\ pc'[t] = b
         /\ t # "main" => pc'["main"] = pc["main"]
<1>1. \A r \in Threads \ {t} : pc[r] \notin Finishing BY CallerNames DEF Exclusive, LockOrder
<1>2. \A r \in Threads : pc[r] # "crashed" BY DEF Exclusive, LifeCycle
<1>3. pc' = [r \in Threads |-> IF r = t THEN b ELSE pc[r]] BY DEF Exclusive, LockOrder
<1> QED BY <1>1, <1>2, <1>3, CallerNames DEF At

LEMMA CrashManned == Crash => Manned'
<1> SUFFICES ASSUME Crash PROVE Manned' OBVIOUS
<1>1. pc' = [t \in Threads |-> "crashed"] /\ wthread' = "none" BY DEF Crash
<1>2. pc'["main"] = "crashed" BY <1>1, CallerNames
<1>3. At(StopsAt \cup {"crashed"})' BY <1>1, CallerNames DEF At
<1> QED BY <1>1, <1>2, <1>3 DEF Manned, Begun, Launched, Starting, Finishing

(* A step of the thread that holds the mutex, or takes it.                 *)
LEMMA HolderManned ==
  ASSUME Manned, Exclusive, NEW t \in Threads, mu \in {t, Free},
         pc[t] \in {"start", "stop"} \cup Starting \cup Finishing,
         NEW b, b \notin {"m_client", "m_storage", "m_threads"}, pc' = [pc EXCEPT ![t] = b],
         daemon_running' = daemon_running, seen' = seen,
         wthread' \in {wthread, "none", "top"},
         stop_threads' = stop_threads \/ stop_threads' = FALSE \/ b \in Told,
         pc[t] \in Told => b \in Told \/ ~stop_threads',
         state' = "Stopping" => b \in StopsAt \/ (state = "Stopping" /\ pc[t] \notin StopsAt),
         pc[t] \in {"stop_wait", "join_writer"} => b \in {"stop_wait", "join_writer"} \/ wthread' # "pop",
         \/ wthread' = "top"
         \/ b \in Finishing
         \/ wthread' = wthread /\ pc[t] \notin Finishing
         \/ wthread' = wthread /\ ~daemon_running
  PROVE  Manned'
<1>1. pc[t] # "crashed" /\ pc[t] \in Launched BY DEF Starting, Finishing, Launched
<1>2. /\ \A P \in SUBSET Finishing : At(P) => pc[t] \in P
      /\ \A P \in SUBSET Finishing : At(P \cup {"crashed"}) => pc[t] \in P
      /\ pc'[t] = b
      /\ t # "main" => pc'["main"] = pc["main"]
  BY <1>1, HolderAt
<1>3. /\ pc'["main"] \in Begun => pc["main"] \in Begun
      /\ pc'["main"] \in Launched => pc["main"] \in Launched
      /\ pc'["main"] \in {"m_client"} \cup Begun => pc["main"] \in {"m_client"} \cup Begun
  BY <1>1, <1>2 DEF Begun
<1>4. \A P : b \in P => At(P)' BY <1>2 DEF At
<1>5. Told \in SUBSET Finishing /\ StopsAt \in SUBSET Finishing /\ Finishing \in SUBSET Finishing
      /\ {"stop_wait", "join_writer"} \in SUBSET Finishing
  BY DEF Told, Alone, StopsAt, Finishing
<1>6. wthread' \in {"none", "top", "pop", "write", "done"} BY DEF Manned
<1>7. (pc["main"] \in Begun => daemon_running)' BY <1>3 DEF Manned
<1>8. (pc["main"] \in {"m_client"} \cup Begun /\ stop_threads => At(Told))'
  <2>1. SUFFICES ASSUME pc["main"] \in {"m_client"} \cup Begun, stop_threads' PROVE b \in Told
    BY <1>3, <1>4
  <2>2. CASE stop_threads
    <3>1. pc[t] \in Told BY <1>2, <1>5, <2>1, <2>2 DEF Manned
    <3> QED BY <2>1, <3>1
  <2> QED BY <2>1, <2>2
<1>9. (state = "Stopping" => At(StopsAt \cup {"crashed"}))'
  <2>1. state = "Stopping" => pc[t] \in StopsAt BY <1>2, <1>5 DEF Manned
  <2> QED BY <1>4, <2>1
<1>10. (wthread = "pop" /\ seen = "Stopping" => At({"stop_wait", "join_writer"}))'
  <2>1. SUFFICES ASSUME wthread' = "pop", seen' = "Stopping" PROVE b \in {"stop_wait", "join_writer"}
    BY <1>4
  <2>2. pc[t] \in {"stop_wait", "join_writer"} BY <1>2, <1>5, <2>1 DEF Manned
  <2> QED BY <2>1, <2>2
<1>11. (pc["main"] \in Launched /\ wthread \in {"none", "done"} => At(Finishing))'
  <2>1. SUFFICES ASSUME pc["main"] \in Launched, wthread' \in {"none", "done"} PROVE b \in Finishing
    BY <1>3, <1>4
  <2>2. daemon_running BY <2>1 DEF Manned, Begun
  <2>3. wthread' = wthread => pc[t] \in Finishing BY <1>2, <1>5, <2>1 DEF Manned
  <2> QED BY <2>1, <2>2, <2>3
<1> QED BY <1>6, <1>7, <1>8, <1>9, <1>10, <1>11 DEF Manned

LEMMA StartManned ==
  ASSUME Manned, Exclusive, NEW t \in Threads,
         \/ StartBusy(t) \/ StartSession(t) \/ StartBuffer(t) \/ StartWriter(t)
         \/ StartOpened(t) \/ StartNotOpened(t) \/ StopRefused(t)
  PROVE  Manned'
<1>1. PICK b : /\ pc[t] \in {"start", "stop"} \cup Starting /\ pc' = [pc EXCEPT ![t] = b]
               /\ b \in Starting \cup {"wait", "d_flag", "accept", "serve", "watch", "recv", "gone"}
  <2>1. CASE StartBusy(t) \/ StartOpened(t) \/ StartNotOpened(t)
    BY <2>1, Returns DEF StartBusy, StartOpened, StartNotOpened, Move, Goto, Starting
  <2>2. CASE StopRefused(t) BY <2>2, Returns DEF StopRefused, Move, Goto
  <2>3. CASE StartSession(t) \/ StartBuffer(t) \/ StartWriter(t)
    BY <2>3 DEF StartSession, StartBuffer, StartWriter, Move, Goto, Starting
  <2> QED BY <2>1, <2>2, <2>3
<1>2. /\ UNCHANGED <<daemon_running, stop_threads, seen, wthread>>
      /\ state' = state \/ state' # "Stopping"
  BY DEF StartBusy, StartSession, StartBuffer, StartWriter, StartOpened, StartNotOpened, StopRefused,
     flagVars, workerVars, sessionVars
<1>3. mu \in {t, Free}
  BY DEF StartBusy, StartSession, StartBuffer, StartWriter, StartOpened, StartNotOpened, StopRefused,
     Move, Exclusive, LockOrder, Starting
<1>4. pc[t] \notin Finishing /\ b \notin {"m_client", "m_storage", "m_threads"}
  BY <1>1 DEF Starting, Finishing
<1>5. pc[t] \notin Told /\ pc[t] \notin StopsAt /\ pc[t] \notin {"stop_wait", "join_writer"}
  BY <1>4 DEF Told, Alone, StopsAt, Finishing
<1> QED BY <1>1, <1>2, <1>3, <1>4, <1>5, HolderManned

LEMMA FinishManned ==
  ASSUME Manned, Exclusive, Orderly, NEW t \in Threads,
         \/ StopAccepted(t) \/ StopWaitOver(t) \/ JoinWriter(t) \/ JoinReport(t)
         \/ DrainOver(t) \/ CloseWriter(t) \/ MarkStopped(t) \/ WriteSummary(t)
         \/ ResetSession(t) \/ TriggerOffline(t)
  PROVE  Manned'
<1>1. PICK b \in Finishing :
        /\ pc' = [pc EXCEPT ![t] = b]
        /\ UNCHANGED <<daemon_running, seen>> /\ wthread' \in {wthread, "none"}
        /\ \/ pc[t] = "stop" /\ b = "stop_wait" /\ mu = Free /\ stop_threads' = stop_threads
           \/ pc[t] = "stop_wait" /\ b = "join_writer" /\ state' = state
           \/ pc[t] = "join_writer" /\ b = "join_report" /\ wthread' = "none"
              /\ UNCHANGED <<state, stop_threads>>
           \/ pc[t] \in {"join_report", "drain", "close"} /\ b \in {"drain", "close", "mark"}
              /\ UNCHANGED <<state, stop_threads>>
           \/ pc[t] = "mark" /\ b = "summary" /\ stop_threads' = stop_threads /\ state' = "Closed"
           \/ pc[t] = "summary" /\ b = "reset" /\ UNCHANGED <<state, stop_threads>>
           \/ pc[t] = "reset" /\ b = "trigger" /\ stop_threads' = FALSE /\ state' = state
           \/ pc[t] = "trigger" /\ b = "restart" /\ UNCHANGED <<state, stop_threads>>
  <2>1. CASE StopAccepted(t)
    BY <2>1 DEF StopAccepted, Move, Goto, flagVars, workerVars, Finishing
  <2>2. CASE StopWaitOver(t)
    BY <2>2 DEF StopWaitOver, Move, Goto, workerVars, sessionVars, Finishing
  <2>3. CASE JoinWriter(t)
    BY <2>3 DEF JoinWriter, Move, Goto, flagVars, sessionVars, Finishing
  <2>4. CASE JoinReport(t) \/ DrainOver(t) \/ CloseWriter(t)
    BY <2>4 DEF JoinReport, DrainOver, CloseWriter, Move, Goto, flagVars, workerVars, sessionVars, Finishing
  <2>5. CASE MarkStopped(t) BY <2>5 DEF MarkStopped, Move, Goto, flagVars, workerVars, Finishing
  <2>6. CASE WriteSummary(t) \/ TriggerOffline(t)
    BY <2>6 DEF WriteSummary, TriggerOffline, Move, Goto, flagVars, workerVars, Finishing
  <2>7. CASE ResetSession(t)
    BY <2>7 DEF ResetSession, Move, Goto, workerVars, sessionVars, Finishing
  <2> QED BY <2>1, <2>2, <2>3, <2>4, <2>5, <2>6, <2>7
<1>2. mu \in {t, Free} /\ pc[t] \in {"start", "stop"} \cup Starting \cup Finishing
  BY <1>1 DEF Exclusive, LockOrder, Finishing
<1>3. b \notin {"m_client", "m_storage", "m_threads"} BY DEF Finishing
<1>4. stop_threads' = stop_threads \/ stop_threads' = FALSE \/ b \in Told
  BY <1>1 DEF Told
<1>5. pc[t] \in Told => b \in Told \/ ~stop_threads' BY <1>1 DEF Told, Alone
<1>6. state' = "Stopping" => b \in StopsAt \/ (state = "Stopping" /\ pc[t] \notin StopsAt)
  <2>1. pc[t] \in {"summary", "reset", "trigger"} => state \notin Active
    BY DEF Orderly, HolderKnows, Knows
  <2> QED BY <1>1, <2>1 DEF StopsAt, Active
<1>7. pc[t] \in {"stop_wait", "join_writer"} => b \in {"stop_wait", "join_writer"} \/ wthread' # "pop"
  BY <1>1
<1> QED BY <1>1, <1>2, <1>3, <1>4, <1>5, <1>6, <1>7, HolderManned

LEMMA DrainRestartManned ==
  ASSUME Manned, Exclusive, Orderly, NEW t \in Threads, DrainWrite(t) \/ RestartThreads(t)
  PROVE  Manned'
<1>1. CASE DrainWrite(t)
  <2>1. /\ pc[t] = "drain"
        /\ \/ pc' = pc /\ state' = state
           \/ pc' = [pc EXCEPT ![t] = "close"] /\ state' = "Error"
        /\ UNCHANGED <<daemon_running, stop_threads, seen, wthread>>
    BY <1>1 DEF DrainWrite, Goto, flagVars, workerVars
  <2>2. CASE pc' = pc /\ state' = state BY <2>1, <2>2 DEF Manned, At
  <2>3. CASE pc' = [pc EXCEPT ![t] = "close"] /\ state' = "Error"
    <3>1. mu \in {t, Free} BY <2>1 DEF Exclusive, LockOrder, Finishing
    <3>2. pc[t] \in Finishing /\ "close" \in Finishing /\ "close" \in Told /\ "close" \in StopsAt
      BY <2>1 DEF Finishing, Told, Alone, StopsAt
    <3> QED BY <2>1, <2>3, <3>1, <3>2, HolderManned
  <2> QED BY <2>1, <2>2, <2>3
<1>2. CASE RestartThreads(t)
  <2>1. PICK b : b = AfterStop(t) OBVIOUS
  <2>2. /\ pc[t] = "restart" /\ pc' = [pc EXCEPT ![t] = b]
        /\ IF daemon_running THEN wthread' = "top" ELSE wthread' = wthread
        /\ UNCHANGED <<daemon_running, stop_threads, seen, state>>
    BY <1>2, <2>1 DEF RestartThreads, LaunchThreads, Move, Goto, flagVars
  <2>3. mu \in {t, Free} /\ Knows("restart") /\ pc[t] \in Finishing
    BY <2>2 DEF Exclusive, LockOrder, Finishing, Orderly, HolderKnows
  <2>4. b \notin {"m_client", "m_storage", "m_threads"} BY <2>1, Returns
  <2>5. pc[t] \notin Told /\ pc[t] \notin {"stop_wait", "join_writer"} /\ state # "Stopping"
    BY <2>2, <2>3 DEF Told, Alone, Knows, Active
  <2> QED BY <2>2, <2>3, <2>4, <2>5, HolderManned
<1> QED BY <1>1, <1>2

(* A step outside the two functions.                                       *)
LEMMA OutsideManned ==
  ASSUME Manned, Exclusive', MovesOutside, state' = state,
         wthread' \in {"none", "top", "pop", "write", "done"},
         pc'["main"] \in Begun => daemon_running',
         pc'["main"] \in {"m_client"} \cup Begun /\ stop_threads' =>
           pc["main"] \in {"m_client"} \cup Begun /\ stop_threads,
         wthread' = "pop" /\ seen' = "Stopping" =>
           (wthread = "pop" /\ seen = "Stopping") \/ At({"stop_wait", "join_writer"}),
         pc'["main"] \in Launched /\ wthread' \in {"none", "done"} =>
           (pc["main"] \in Launched /\ wthread \in {"none", "done"}) \/ At(Finishing)
  PROVE  Manned'
<1>1. CASE pc'["main"] = "crashed"
  <2>1. wthread' = "none" BY <1>1, CallerNames DEF Exclusive, LifeCycle
  <2>2. At(StopsAt \cup {"crashed"})' BY <1>1, CallerNames DEF At
  <2> QED BY <1>1, <2>1, <2>2 DEF Manned, Begun, Launched, Starting, Finishing
<1>2. CASE pc'["main"] # "crashed"
  <2>1. \A t \in Threads : pc'[t] # "crashed" BY <1>2, CallerNames DEF Exclusive, LifeCycle
  <2>2. ASSUME NEW P \in SUBSET (Finishing \cup {"crashed"}), At(P) PROVE At(P)'
    <3>1. PICK t \in Threads : pc[t] \in P BY <2>2 DEF At
    <3>2. pc[t] \in Within BY <3>1 DEF Within
    <3>3. pc'[t] = pc[t] BY <2>1, <3>2 DEF MovesOutside
    <3> QED BY <3>1, <3>3 DEF At
  <2>3. {Told, StopsAt \cup {"crashed"}, {"stop_wait", "join_writer"}, Finishing}
          \subseteq SUBSET (Finishing \cup {"crashed"})
    BY DEF Told, Alone, StopsAt, Finishing
  <2>4. (pc["main"] \in {"m_client"} \cup Begun /\ stop_threads => At(Told))'
    BY <2>2, <2>3 DEF Manned
  <2>5. (state = "Stopping" => At(StopsAt \cup {"crashed"}))' BY <2>2, <2>3 DEF Manned
  <2>6. (wthread = "pop" /\ seen = "Stopping" => At({"stop_wait", "join_writer"}))'
    BY <2>2, <2>3 DEF Manned
  <2>7. (pc["main"] \in Launched /\ wthread \in {"none", "done"} => At(Finishing))'
    BY <2>2, <2>3 DEF Manned
  <2> QED BY <2>4, <2>5, <2>6, <2>7 DEF Manned
<1> QED BY <1>1, <1>2

(* The writer thread leaves only when told to.                             *)
LEMMA WriterManned ==
  ASSUME Manned, Exclusive, Exclusive', Writer
  PROVE  Manned'
<1>1. CASE Crash BY <1>1, CrashManned
<1>2. CASE ~Crash
  <2>1. /\ UNCHANGED <<pc, daemon_running, stop_threads>>
        /\ state' = state \/ (state' = "Error" /\ wthread' = "top")
    BY <1>2 DEF Writer, WriterTop, WriterIdle, WriterPop, WriterWrite, WriterStale, WriterUnchanged,
       OnlyWriterMoves, flagVars
  <2>2. wthread' \in {"none", "top", "pop", "write", "done"}
    BY <1>2 DEF Writer, WriterTop, WriterIdle, WriterPop, WriterWrite, WriterStale
  <2>3. wthread' = "pop" /\ seen' = "Stopping" => At({"stop_wait", "join_writer"})
    <3>1. SUFFICES ASSUME wthread' = "pop", seen' = "Stopping" PROVE At({"stop_wait", "join_writer"})
      OBVIOUS
    <3>2. ~stop_threads /\ state = "Stopping" /\ wthread # "none"
      BY <1>2, <3>1 DEF Writer, WriterTop, WriterIdle, WriterPop, WriterWrite, WriterStale
    <3>3. PICK t \in Threads : pc[t] \in StopsAt \cup {"crashed"} BY <3>2 DEF Manned, At
    <3>4. pc[t] # "crashed" BY <3>2 DEF Exclusive, LifeCycle
    <3>5. pc[t] \notin Told BY <3>2 DEF Exclusive, WorkersOut
    <3>6. pc[t] = "stop_wait" BY <3>3, <3>4, <3>5 DEF StopsAt, Told, Alone
    <3> QED BY <3>6 DEF At
  <2>4. pc["main"] \in Launched /\ wthread' \in {"none", "done"} => At(Finishing)
    <3>1. SUFFICES ASSUME pc["main"] \in Launched, wthread' = "done" PROVE At(Finishing)
      BY <1>2 DEF Writer, WriterTop, WriterIdle, WriterPop, WriterWrite, WriterStale
    <3>2. stop_threads \/ (wthread = "pop" /\ seen = "Stopping")
      BY <1>2, <3>1 DEF Writer, WriterTop, WriterIdle, WriterPop, WriterWrite, WriterStale
    <3>3. At(Told) \/ At({"stop_wait", "join_writer"}) BY <3>1, <3>2 DEF Manned, Begun
    <3> QED BY <3>3 DEF At, Told, Alone, Finishing
  <2>5. CASE state' = state
    <3>1. MovesOutside BY <2>1 DEF MovesOutside
    <3> QED BY <2>1, <2>2, <2>3, <2>4, <2>5, <3>1, OutsideManned DEF Manned
  <2>6. CASE state' = "Error" /\ wthread' = "top" BY <2>1, <2>6 DEF Manned, At
  <2> QED BY <2>1, <2>5, <2>6
<1> QED BY <1>1, <1>2

LEMMA CallersManned ==
  ASSUME Manned, Exclusive, Exclusive',
         \/ Report \/ Client \/ ClientDisconnect \/ \E kind \in Kinds : ClientReceive(kind)
         \/ \E cmd \in Commands : ControlCommand(cmd)
         \/ StorageCritical \/ ControlLeaves \/ Signal \/ UNCHANGED vars
  PROVE  Manned'
<1>1. state' = state /\ MovesOutside BY QuietMoves DEF Quiet
<1>2. CASE Crash BY <1>2, CrashManned
<1>3. CASE ~Crash
  <2>1. UNCHANGED <<wthread, seen, stop_threads, daemon_running>>
    BY <1>3 DEF Report, Client, ClientAccept, ClientCheck, ClientPush, ClientPushStale, ClientDisconnect,
       ClientReceive, ClientUnchanged, OnlyClientMoves, ControlCommand, StorageCritical, ControlLeaves,
       Signal, MainUnchanged, vars, flagVars, workerVars
  <2>2. \/ pc'["main"] = pc["main"]
        \/ pc["main"] \in Launched /\ pc'["main"] \in Launched
    <3>1. CASE Report \/ UNCHANGED vars BY <3>1 DEF Report, vars
    <3>2. CASE Signal BY <3>2, CallerNames DEF Signal, Move, Goto, Launched, Exclusive, LockOrder
    <3>3. ASSUME NEW t \in {"client", "control", "storage"}, NEW b, pc' = [pc EXCEPT ![t] = b]
          PROVE  pc'["main"] = pc["main"]
      BY <3>3, CallerNames DEF Exclusive, LockOrder
    <3>4. CASE Client \/ ClientDisconnect \/ \E kind \in Kinds : ClientReceive(kind)
      <4>1. \E b : pc' = [pc EXCEPT !["client"] = b]
        BY <1>3, <3>4 DEF Client, ClientAccept, ClientCheck, ClientPush, ClientPushStale, ClientDisconnect,
           ClientReceive, Move, Goto
      <4> QED BY <3>3, <4>1
    <3>5. CASE (\E cmd \in Commands : ControlCommand(cmd)) \/ StorageCritical \/ ControlLeaves
      <4>1. (\E b : pc' = [pc EXCEPT !["control"] = b]) \/ (\E b : pc' = [pc EXCEPT !["storage"] = b])
        BY <3>5 DEF ControlCommand, StorageCritical, ControlLeaves, Move, Goto
      <4> QED BY <3>3, <4>1
    <3> QED BY <3>1, <3>2, <3>4, <3>5
  <2>3. wthread' \in {"none", "top", "pop", "write", "done"} BY <2>1 DEF Manned
  <2>4. pc'["main"] \in Begun => daemon_running' BY <2>1, <2>2 DEF Manned, Begun
  <2>5. pc'["main"] \in {"m_client"} \cup Begun => pc["main"] \in {"m_client"} \cup Begun
    BY <2>2 DEF Begun
  <2> QED BY <1>1, <2>1, <2>2, <2>3, <2>4, <2>5, OutsideManned
<1> QED BY <1>2, <1>3

(* StartDaemon and StopDaemon.                                             *)
LEMMA MainManned ==
  ASSUME Manned, Exclusive, Exclusive', Main
  PROVE  Manned'
<1>1. state' = state /\ MovesOutside BY QuietMoves DEF Quiet
<1>2. CASE Crash BY <1>2, CrashManned
<1>3. CASE ~Crash
  <2>1. seen' = seen /\ wthread' \in {wthread, "none", "top"}
    BY <1>3 DEF Main, StartClient, StartStorage, StartThreads, StartControl, RaiseStopFlag, JoinCallers,
       JoinCaller, ExitJoinWriter, ExitJoinReport, MainUnchanged, LaunchThreads
  <2>2. \/ pc'["main"] \in {"exited", "d_flag", "d_control", "d_client", "d_storage", "d_writer", "d_report"}
        \/ /\ pc["main"] = "m_client" /\ pc'["main"] = "m_storage"
           /\ daemon_running' = TRUE /\ stop_threads' = FALSE
        \/ /\ pc["main"] \in Begun
           /\ \/ pc'["main"] = "m_threads"
              \/ pc'["main"] = "m_control" /\ wthread' = "top"
              \/ pc["main"] = "m_control" /\ pc'["main"] = "start" /\ wthread' = wthread
           /\ UNCHANGED <<daemon_running, stop_threads>>
    <3>1. pc = [t \in Threads |-> pc[t]] BY DEF Exclusive, LockOrder
    <3>2. CASE StartClient BY <3>1, <3>2, CallerNames DEF StartClient, Goto
    <3>3. CASE StartStorage BY <3>1, <3>3, CallerNames DEF StartStorage, flagVars, Begun
    <3>4. CASE StartThreads
      BY <1>3, <3>1, <3>4, CallerNames DEF StartThreads, Move, Goto, LaunchThreads, flagVars, Begun
    <3>5. CASE StartControl
      BY <3>1, <3>5, CallerNames DEF StartControl, Goto, flagVars, Begun, Launched
    <3>6. CASE JoinCallers BY <3>1, <3>6, CallerNames DEF JoinCallers, JoinCaller
    <3>7. CASE RaiseStopFlag \/ ExitJoinWriter \/ ExitJoinReport
      BY <3>1, <3>7, CallerNames DEF RaiseStopFlag, ExitJoinWriter, ExitJoinReport, Move, Goto
    <3> QED BY <3>2, <3>3, <3>4, <3>5, <3>6, <3>7 DEF Main
  <2>3. {"exited", "d_flag", "d_control", "d_client", "d_storage", "d_writer", "d_report"}
          \cap ({"m_client"} \cup Begun) = {}
    BY DEF Begun, Launched, Starting, Finishing
  <2>4. {"m_storage", "m_threads", "m_client"} \cap Launched = {} /\ "m_control" \in Launched
        /\ Launched \subseteq Begun
    BY DEF Begun, Launched, Starting, Finishing
  <2>5. wthread' \in {"none", "top", "pop", "write", "done"} BY <2>1 DEF Manned
  <2>6. pc'["main"] \in Begun => daemon_running' BY <2>2, <2>3 DEF Manned
  <2>7. pc'["main"] \in {"m_client"} \cup Begun /\ stop_threads' =>
          pc["main"] \in {"m_client"} \cup Begun /\ stop_threads
    BY <2>2, <2>3
  <2>8. pc'["main"] \in Launched /\ wthread' \in {"none", "done"} =>
          pc["main"] \in Launched /\ wthread \in {"none", "done"}
    BY <2>2, <2>3, <2>4
  <2> QED BY <1>1, <2>1, <2>5, <2>6, <2>7, <2>8, OutsideManned
<1> QED BY <1>2, <1>3

LEMMA NextManned == Manned /\ Orderly /\ Exclusive /\ [Next]_vars => Manned'
<1> SUFFICES ASSUME Manned, Orderly, Exclusive, [Next]_vars PROVE Manned' OBVIOUS
<1>1. Exclusive' BY NextExclusive
<1>2. CASE \E t \in Threads : Service(t)
  <2>1. PICK t \in Threads : Service(t) BY <1>2
  <2>2. CASE RestartOverThreads(t) BY <2>2, CrashManned DEF RestartOverThreads
  <2> QED BY <2>1, <2>2, StartManned, FinishManned, DrainRestartManned DEF Service
<1>3. CASE Writer BY <1>1, <1>3, WriterManned
<1>4. CASE Main BY <1>1, <1>4, MainManned
<1>5. CASE \/ Report \/ Client \/ ClientDisconnect \/ \E kind \in Kinds : ClientReceive(kind)
           \/ \E cmd \in Commands : ControlCommand(cmd)
           \/ StorageCritical \/ ControlLeaves \/ Signal \/ UNCHANGED vars
  BY <1>1, <1>5, CallersManned
<1> QED BY <1>2, <1>3, <1>4, <1>5 DEF Next, Terminated

(* Whenever the main thread waits for a signal and nobody starts or stops  *)
(* a session, the writer thread runs and the stop flag is down, so what is *)
(* recorded is written (runtime_service.cpp:386, 392-395).                 *)
THEOREM WriterIsAlive == Spec => []WriterAlive
<1>1. Init => Manned BY InitManned
<1>2. Manned /\ Orderly /\ Exclusive /\ [Next]_vars => Manned' BY NextManned
<1>3. Manned /\ Exclusive => WriterAlive
  <2> SUFFICES ASSUME Manned, Exclusive, pc["main"] = "wait", mu = Free
               PROVE  wthread \in {"top", "pop", "write"} /\ ~stop_threads
    BY DEF WriterAlive
  <2>1. ~At(Finishing) BY CallerNames DEF At, Exclusive, LockOrder
  <2>2. ~At(Told) BY <2>1 DEF At, Told, Alone, Finishing
  <2>3. pc["main"] \in Launched /\ pc["main"] \in Begun BY DEF Launched, Begun
  <2> QED BY <2>1, <2>2, <2>3 DEF Manned
<1> QED BY <1>1, <1>2, <1>3, AlwaysExclusive, AlwaysOrderly, PTL DEF Spec

-----------------------------------------------------------------------------
(* The order of the log (KeepsPromise)                                     *)

(* Places of the client thread with a frame that it may still push.        *)
Unpushed == {"start", "accept", "check", "push"} \cup Starting

LogBefore(n)   == \A s \in Sessions, f \in Frames : In(f, disk[s]) => f < n
TakenBefore(n) == LogBefore(n) /\ (wthread = "write" => held.frame < n)
AllBefore(n)   == TakenBefore(n) /\ \A i \in 1..Len(buffer.queue) : buffer.queue[i] < n

(* Disk, the writer's hands, the buffer, the client: a frame is behind     *)
(* those that arrived before it.                                           *)
Ordered ==
  /\ wthread = "write" => LogBefore(held.frame)
  /\ \A i \in 1..Len(buffer.queue) : TakenBefore(buffer.queue[i])
  /\ \A i, j \in 1..Len(buffer.queue) : i < j => buffer.queue[i] < buffer.queue[j]
  /\ AllBefore(received + 1)
  /\ pc["client"] \in Unpushed => frame = received /\ AllBefore(received)

LEMMA InitOrdered == Init => Ordered
<1> SUFFICES ASSUME Init PROVE Ordered OBVIOUS
<1>1. /\ buffer.queue = << >> /\ disk = [s \in Sessions |-> << >>] /\ wthread = "none"
      /\ pc = [t \in Threads |-> IF t = "main" THEN "m_client" ELSE "none"]
  BY DEF Init, NoBuffer
<1>2. pc["client"] = "none" BY <1>1, CallerNames
<1>3. \A n : AllBefore(n) BY <1>1, InEmpty DEF AllBefore, TakenBefore, LogBefore
<1> QED BY <1>1, <1>2, <1>3 DEF Ordered, Unpushed, Starting

(* Steps that log, take and push no frame.                                 *)
LEMMA OrderedKept ==
  ASSUME Ordered, UNCHANGED <<disk, frame, received>>,
         buffer'.queue = buffer.queue \/ buffer'.queue = << >>,
         wthread' = "write" => wthread = "write" /\ held' = held,
         pc'["client"] \in Unpushed => pc["client"] \in Unpushed
  PROVE  Ordered'
<1>1. (wthread = "write" => LogBefore(held.frame))' BY DEF Ordered, LogBefore
<1>2. (\A i \in 1..Len(buffer.queue) : TakenBefore(buffer.queue[i]))'
  BY DEF Ordered, TakenBefore, LogBefore
<1>3. (\A i, j \in 1..Len(buffer.queue) : i < j => buffer.queue[i] < buffer.queue[j])'
  BY DEF Ordered
<1>4. AllBefore(received + 1)' BY DEF Ordered, AllBefore, TakenBefore, LogBefore
<1>5. (pc["client"] \in Unpushed => frame = received /\ AllBefore(received))'
  BY DEF Ordered, AllBefore, TakenBefore, LogBefore
<1> QED BY <1>1, <1>2, <1>3, <1>4, <1>5 DEF Ordered

LEMMA FramesAreNumbers ==
  ASSUME Typed
  PROVE  /\ Frames \subseteq Nat /\ received \in Nat /\ frame \in Nat /\ held.frame \in Nat
         /\ buffer.queue \in Seq(Nat)
<1>1. Frames \subseteq Nat BY DEF Frames
<1>2. \A f \in Frames \cup {0} : f \in Nat BY <1>1
<1>3. received \in Nat BY ServiceAssumption DEF Typed, DataTypes, ClientTypes
<1>4. held.frame \in Nat BY <1>2 DEF Typed, DataTypes, WorkerTypes
<1>5. buffer.queue \in Seq(Nat)
  <2>1. buffer.queue \in Seq(Frames) BY DEF Typed, DataTypes, BufferTypes
  <2>2. \A S, T, q : S \subseteq T /\ q \in Seq(S) => q \in Seq(T) OBVIOUS
  <2> QED BY <1>1, <2>1, <2>2
<1>6. frame \in Nat BY <1>2 DEF Typed, DataTypes, ClientTypes
<1> QED BY <1>1, <1>3, <1>4, <1>5, <1>6

(* A frame arrives.                                                        *)
LEMMA ReceiveOrdered ==
  ASSUME Ordered, Typed, NEW kind \in Kinds, ClientReceive(kind)
  PROVE  Ordered'
<1>1. /\ received' = received + 1 /\ frame' = received + 1
      /\ UNCHANGED <<buffer, disk, wthread, held>>
  BY DEF ClientReceive, ClientUnchanged, OnlyClientMoves, fileVars
<1>2. /\ received \in Nat /\ buffer.queue \in Seq(Nat) /\ held.frame \in Nat
      /\ \A f \in Frames : f \in Nat
  BY FramesAreNumbers
<1>3. PICK m \in Nat : m = received + 1 BY <1>2
<1>4. AllBefore(m)' BY <1>1, <1>3 DEF Ordered, AllBefore, TakenBefore, LogBefore
<1>5. (wthread = "write" => LogBefore(held.frame))' BY <1>1 DEF Ordered, LogBefore
<1>6. (\A i \in 1..Len(buffer.queue) : TakenBefore(buffer.queue[i]))'
  BY <1>1 DEF Ordered, TakenBefore, LogBefore
<1>7. (\A i, j \in 1..Len(buffer.queue) : i < j => buffer.queue[i] < buffer.queue[j])'
  BY <1>1 DEF Ordered
<1>8. AllBefore(received)' BY <1>1, <1>3, <1>4 DEF AllBefore, TakenBefore, LogBefore
<1>9. AllBefore(received + 1)'
  <2>1. \A f \in Nat : f < m => f < m + 1 BY <1>3
  <2>2. received' + 1 = m + 1 BY <1>1, <1>3
  <2>3. \A i \in 1..Len(buffer.queue) : buffer.queue[i] \in Nat BY <1>2
  <2> QED BY <1>1, <1>2, <1>4, <2>1, <2>2, <2>3 DEF AllBefore, TakenBefore, LogBefore
<1> QED BY <1>1, <1>5, <1>6, <1>7, <1>8, <1>9 DEF Ordered

(* Its place in the buffer is the last.                                    *)
LEMMA PushOrdered ==
  ASSUME Ordered, Typed, Exclusive, ClientPush
  PROVE  Ordered'
<1>1. PICK k \in 0..Len(buffer.queue) : buffer' = PB!Push(buffer, frame, k)
  BY DEF ClientPush
<1>2. /\ pc["client"] = "push" /\ pc' = [pc EXCEPT !["client"] = NextFrame]
      /\ UNCHANGED <<received, frame, disk, wthread, held>>
  BY DEF ClientPush, Move, Goto, ClientUnchanged, OnlyClientMoves, fileVars
<1>3. pc'["client"] \notin Unpushed
  BY <1>2, CallerNames DEF NextFrame, Unpushed, Starting, Exclusive, LockOrder
<1>4. frame = received /\ AllBefore(frame) BY <1>2 DEF Ordered, Unpushed
<1>5. buffer.queue \in Seq(Nat) /\ frame \in Nat BY FramesAreNumbers
<1>6. PICK n \in Nat : n = Len(buffer.queue) - k
  <2>1. Len(buffer.queue) \in Nat BY <1>5
  <2>2. Len(buffer.queue) - k \in Nat BY <2>1
  <2> QED BY <2>2
<1>7. /\ Len(buffer'.queue) = n + 1
      /\ \A i \in 1..n : buffer'.queue[i] = buffer.queue[i + k] /\ i + k \in 1..Len(buffer.queue)
      /\ buffer'.queue[n + 1] = frame
  <2> DEFINE r == SubSeq(buffer.queue, k + 1, Len(buffer.queue))
  <2>1. r \in Seq(Nat) /\ Len(r) = n BY <1>5, <1>6
  <2>2. \A i \in 1..n : r[i] = buffer.queue[i + k] /\ i + k \in 1..Len(buffer.queue)
    BY <1>5, <1>6, <2>1
  <2>3. buffer'.queue = Append(r, frame) BY <1>1 DEF PB!Push
  <2> HIDE DEF r
  <2>4. \A i \in 1..n : Append(r, frame)[i] = r[i] BY <1>5, <2>1
  <2>5. Len(Append(r, frame)) = n + 1 /\ Append(r, frame)[n + 1] = frame BY <1>5, <2>1
  <2> QED BY <2>2, <2>3, <2>4, <2>5
<1>8. \A i \in 1..(n + 1) : i \in 1..n \/ i = n + 1 OBVIOUS
<1>9. (wthread = "write" => LogBefore(held.frame))' BY <1>2 DEF Ordered, LogBefore
<1>10. (\A i \in 1..Len(buffer.queue) : TakenBefore(buffer.queue[i]))'
  BY <1>2, <1>4, <1>7, <1>8 DEF Ordered, AllBefore, TakenBefore, LogBefore
<1>11. (\A i, j \in 1..Len(buffer.queue) : i < j => buffer.queue[i] < buffer.queue[j])'
  <2>1. SUFFICES ASSUME NEW i \in 1..(n + 1), NEW j \in 1..(n + 1), i < j
                 PROVE  buffer'.queue[i] < buffer'.queue[j]
    BY <1>7
  <2>2. i \in 1..n BY <1>6, <2>1
  <2>3. CASE j \in 1..n
    <3>1. i + k < j + k BY <2>1, <2>2, <2>3
    <3> QED BY <1>7, <2>2, <2>3, <3>1 DEF Ordered
  <2>4. CASE j = n + 1 BY <1>4, <1>7, <2>2, <2>4 DEF AllBefore
  <2> QED BY <1>8, <2>3, <2>4
<1>12. AllBefore(received + 1)'
  <2>1. TakenBefore(received + 1)' BY <1>2 DEF Ordered, AllBefore, TakenBefore, LogBefore
  <2>2. \A i \in 1..n : buffer'.queue[i] < received + 1 BY <1>7 DEF Ordered, AllBefore
  <2>3. frame < received + 1 BY <1>4, <1>5
  <2> QED BY <1>2, <1>7, <1>8, <2>1, <2>2, <2>3 DEF AllBefore
<1> QED BY <1>3, <1>9, <1>10, <1>11, <1>12 DEF Ordered

LEMMA TailPlaces ==
  ASSUME NEW q \in Seq(Nat), q # << >>
  PROVE  /\ 1 \in 1..Len(q) /\ Head(q) = q[1]
         /\ \A i \in 1..Len(Tail(q)) : /\ Tail(q)[i] = q[i + 1]
                                     /\ i + 1 \in 1..Len(q) /\ 1 < i + 1
         /\ \A i, j \in 1..Len(Tail(q)) : i < j => i + 1 < j + 1
<1>1. Len(q) \in Nat /\ Len(q) > 0 /\ Len(Tail(q)) = Len(q) - 1 OBVIOUS
<1>2. \A i \in 1..Len(Tail(q)) : Tail(q)[i] = q[i + 1] OBVIOUS
<1>3. \A i \in 1..Len(Tail(q)) : i + 1 \in 1..Len(q) /\ 1 < i + 1 BY <1>1
<1>4. \A i, j \in 1..Len(Tail(q)) : i < j => i + 1 < j + 1 BY <1>1
<1> QED BY <1>1, <1>2, <1>3, <1>4

(* The first frame of the buffer goes into the writer's hands.             *)
LEMMA PopOrdered ==
  ASSUME Ordered, Typed, WriterPop
  PROVE  Ordered'
<1> DEFINE q == buffer.queue
           r == Tail(buffer.queue)
<1>1. /\ buffer'.queue = r /\ held'.frame = Head(q) /\ q # << >>
      /\ UNCHANGED <<pc, disk, frame, received>>
  BY DEF WriterPop, WriterUnchanged, OnlyWriterMoves, fileVars, clientVars, CanDrain, PB!Pop
<1>2. q \in Seq(Nat) BY FramesAreNumbers
<1>3. /\ 1 \in 1..Len(q) /\ held'.frame = q[1]
      /\ \A i \in 1..Len(r) : r[i] = q[i + 1] /\ i + 1 \in 1..Len(q) /\ 1 < i + 1
      /\ \A i, j \in 1..Len(r) : i < j => i + 1 < j + 1
  BY <1>1, <1>2, TailPlaces
<1>4. /\ \A i \in 1..Len(q) : LogBefore(q[i])
      /\ \A i, j \in 1..Len(q) : i < j => q[i] < q[j]
  BY DEF Ordered, TakenBefore
<1> HIDE DEF q, r
<1>5. (wthread = "write" => LogBefore(held.frame))' BY <1>1, <1>3, <1>4 DEF LogBefore
<1>6. (\A i \in 1..Len(buffer.queue) : TakenBefore(buffer.queue[i]))'
  BY <1>1, <1>3, <1>4 DEF TakenBefore, LogBefore
<1>7. (\A i, j \in 1..Len(buffer.queue) : i < j => buffer.queue[i] < buffer.queue[j])'
  BY <1>1, <1>3, <1>4
<1>8. ASSUME NEW n, AllBefore(n) PROVE AllBefore(n)'
  BY <1>1, <1>3, <1>8 DEF AllBefore, TakenBefore, LogBefore, q
<1>9. AllBefore(received + 1)' BY <1>1, <1>8 DEF Ordered, AllBefore, TakenBefore, LogBefore
<1>10. (pc["client"] \in Unpushed => frame = received /\ AllBefore(received))'
  BY <1>1, <1>8 DEF Ordered, AllBefore, TakenBefore, LogBefore
<1> QED BY <1>5, <1>6, <1>7, <1>9, <1>10 DEF Ordered

(* A write logs no frame but its own.                                      *)
LEMMA WriteLogsOnly ==
  ASSUME Typed, NEW f \in Frames, writer \in Sessions, chunk[writer] # "closed",
         WriteSucceeds(writer, f) \/ WriteFails(writer, f)
  PROVE  \A s \in Sessions, g \in Frames : In(g, disk'[s]) => In(g, disk[s]) \/ g = f
<1>1. CASE WriteFails(writer, f) BY <1>1 DEF WriteFails
<1>2. CASE WriteSucceeds(writer, f)
  <2>1. disk' = [disk EXCEPT ![writer] = Append(disk[writer], f)] BY <1>2 DEF WriteSucceeds
  <2>2. disk \in [Sessions -> Seq(Frames)] BY DEF Typed, DataTypes, FileTypes
  <2>3. /\ disk'[writer] = Append(disk[writer], f) /\ disk[writer] \in Seq(Frames)
        /\ \A s \in Sessions \ {writer} : disk'[s] = disk[s]
    BY <2>1, <2>2
  <2>4. \A g : In(g, disk'[writer]) => In(g, disk[writer]) \/ g = f BY <2>3, InAppended
  <2> QED BY <2>3, <2>4
<1> QED BY <1>1, <1>2

(* Out of the writer's hands onto the disk.                                *)
LEMMA WriterWriteOrdered ==
  ASSUME Ordered, Typed, Orderly, Exclusive, WriterWrite
  PROVE  Ordered'
<1>1. /\ wthread = "write" /\ wthread' = "top"
      /\ WriteSucceeds(writer, held.frame) \/ WriteFails(writer, held.frame)
      /\ UNCHANGED <<pc, buffer, frame, received>>
  BY DEF WriterWrite, WriterUnchanged, OnlyWriterMoves, clientVars
<1>2. held.frame \in Frames /\ writer \in Sessions /\ chunk[writer] # "closed" BY WriterHolds
<1>3. \A s \in Sessions, g \in Frames : In(g, disk'[s]) => In(g, disk[s]) \/ g = held.frame
  BY <1>1, <1>2, WriteLogsOnly
<1>4. ASSUME NEW n, TakenBefore(n) PROVE TakenBefore(n)'
  BY <1>1, <1>3, <1>4 DEF TakenBefore, LogBefore
<1>5. ASSUME NEW n, AllBefore(n) PROVE AllBefore(n)' BY <1>1, <1>4, <1>5 DEF AllBefore, TakenBefore, LogBefore
<1>6. (\A i \in 1..Len(buffer.queue) : TakenBefore(buffer.queue[i]))'
  BY <1>1, <1>4 DEF Ordered, TakenBefore, LogBefore
<1>7. AllBefore(received + 1)' BY <1>1, <1>5 DEF Ordered, AllBefore, TakenBefore, LogBefore
<1>8. (pc["client"] \in Unpushed => frame = received /\ AllBefore(received))'
  BY <1>1, <1>5 DEF Ordered, AllBefore, TakenBefore, LogBefore
<1> QED BY <1>1, <1>6, <1>7, <1>8 DEF Ordered

(* Out of the buffer onto the disk: the writer's hands are empty.          *)
LEMMA DrainWriteOrdered ==
  ASSUME Ordered, Typed, Orderly, Exclusive, NEW t \in Threads, DrainWrite(t)
  PROVE  Ordered'
<1> DEFINE q == buffer.queue
           r == Tail(buffer.queue)
<1>1. /\ pc[t] = "drain" /\ buffer'.queue = r /\ q # << >>
      /\ WriteSucceeds(writer, Head(q)) \/ WriteFails(writer, Head(q))
      /\ pc' = pc \/ pc' = [pc EXCEPT ![t] = "close"]
      /\ UNCHANGED <<frame, received, wthread, held>>
  BY DEF DrainWrite, Goto, workerVars, clientVars, CanDrain, PB!Pop
<1>2. Head(q) \in Frames /\ writer \in Sessions /\ chunk[writer] # "closed" BY DrainHolds
<1>3. wthread # "write" BY <1>1 DEF Exclusive, WorkersOut, Alone
<1>4. pc'["client"] \in Unpushed => pc["client"] \in Unpushed
  BY <1>1, CallerNames DEF Exclusive, LockOrder, Unpushed, Starting
<1>5. q \in Seq(Nat) BY FramesAreNumbers
<1>6. /\ 1 \in 1..Len(q) /\ Head(q) = q[1]
      /\ \A i \in 1..Len(r) : r[i] = q[i + 1] /\ i + 1 \in 1..Len(q) /\ 1 < i + 1
      /\ \A i, j \in 1..Len(r) : i < j => i + 1 < j + 1
  BY <1>1, <1>5, TailPlaces
<1>7. \A s \in Sessions, g \in Frames : In(g, disk'[s]) => In(g, disk[s]) \/ g = q[1]
  BY <1>1, <1>2, <1>6, WriteLogsOnly
<1>8. /\ \A i \in 1..Len(q) : LogBefore(q[i])
      /\ \A i, j \in 1..Len(q) : i < j => q[i] < q[j]
  BY DEF Ordered, TakenBefore
<1> HIDE DEF q, r
<1>9. (\A i \in 1..Len(buffer.queue) : TakenBefore(buffer.queue[i]))'
  <2>1. SUFFICES ASSUME NEW i \in 1..Len(r) PROVE LogBefore(buffer.queue[i])'
    BY <1>1, <1>3 DEF TakenBefore, LogBefore
  <2>2. LogBefore(q[i + 1]) /\ q[1] < q[i + 1] BY <1>6, <1>8
  <2> QED BY <1>1, <1>6, <1>7, <2>2 DEF LogBefore
<1>10. (\A i, j \in 1..Len(buffer.queue) : i < j => buffer.queue[i] < buffer.queue[j])'
  BY <1>1, <1>6, <1>8
<1>11. ASSUME NEW n, AllBefore(n) PROVE AllBefore(n)'
  <2>1. \A i \in 1..Len(q) : q[i] < n BY <1>11 DEF AllBefore, q
  <2>2. LogBefore(n) BY <1>11 DEF AllBefore, TakenBefore
  <2>3. LogBefore(n)' BY <1>6, <1>7, <2>1, <2>2 DEF LogBefore
  <2> QED BY <1>1, <1>3, <1>6, <2>1, <2>3 DEF AllBefore, TakenBefore, LogBefore
<1>12. AllBefore(received + 1)' BY <1>1, <1>11 DEF Ordered, AllBefore, TakenBefore, LogBefore
<1>13. (pc["client"] \in Unpushed => frame = received /\ AllBefore(received))'
  BY <1>1, <1>4, <1>11 DEF Ordered, AllBefore, TakenBefore, LogBefore
<1> QED BY <1>1, <1>3, <1>9, <1>10, <1>12, <1>13 DEF Ordered

(* Only a frame that arrives brings the client thread to these places.     *)
LEMMA ServiceUnpushed ==
  ASSUME Exclusive, NEW t \in Threads, Service(t), pc'["client"] \in Unpushed
  PROVE  pc["client"] \in Unpushed
<1>1. "crashed" \notin Unpushed /\ Unpushed \cap Finishing = {} /\ "start" \in Unpushed
      /\ Starting \subseteq Unpushed
  BY DEF Unpushed, Starting, Finishing
<1>2. CASE RestartOverThreads(t) BY <1>1, <1>2, CallerNames DEF RestartOverThreads, Crash
<1>3. PICK b :
        \/ /\ pc' = [pc EXCEPT ![t] = b]
           /\ b \in Finishing \cup {AfterStop(t)} \/ pc[t] \in {"start"} \cup Starting
        \/ Crash \/ pc' = pc
  <2>1. CASE \/ StartBusy(t) \/ StartSession(t) \/ StartBuffer(t) \/ StartWriter(t)
             \/ StartOpened(t) \/ StartNotOpened(t)
    BY <2>1 DEF StartBusy, StartSession, StartBuffer, StartWriter, StartOpened, StartNotOpened, Move, Goto,
       Starting
  <2>2. CASE \/ StopRefused(t) \/ StopAccepted(t) \/ StopWaitOver(t) \/ JoinWriter(t) \/ JoinReport(t)
             \/ DrainWrite(t) \/ DrainOver(t)
    BY <2>2 DEF StopRefused, StopAccepted, StopWaitOver, JoinWriter, JoinReport, DrainWrite, DrainOver,
       Move, Goto, Finishing
  <2>3. CASE \/ CloseWriter(t) \/ MarkStopped(t) \/ WriteSummary(t) \/ ResetSession(t)
             \/ TriggerOffline(t) \/ RestartThreads(t)
    BY <2>3 DEF CloseWriter, MarkStopped, WriteSummary, ResetSession, TriggerOffline, RestartThreads,
       Move, Goto, Finishing
  <2> QED BY <1>2, <2>1, <2>2, <2>3 DEF Service, RestartOverThreads
<1>4. AfterStop("client") \notin Unpushed BY DEF AfterStop, NextFrame, Unpushed, Starting
<1>5. pc' = pc => pc["client"] \in Unpushed OBVIOUS
<1>6. ~Crash BY <1>1, CallerNames DEF Crash
<1>7. CASE t = "client" BY <1>1, <1>3, <1>4, <1>5, <1>6, <1>7 DEF Exclusive, LockOrder
<1>8. CASE t # "client" BY <1>3, <1>5, <1>6, <1>8, CallerNames DEF Exclusive, LockOrder
<1> QED BY <1>7, <1>8

LEMMA OthersUnpushed ==
  ASSUME Exclusive, pc'["client"] \in Unpushed,
         \/ Writer \/ Report \/ Client \/ ClientDisconnect \/ \E cmd \in Commands : ControlCommand(cmd)
         \/ StorageCritical \/ Signal \/ Main \/ ControlLeaves \/ UNCHANGED vars
  PROVE  pc["client"] \in Unpushed
<1>1. ~Crash BY CallerNames DEF Crash, Unpushed, Starting
<1>2. {"recv", "gone"} \cap Unpushed = {} /\ NextFrame \in {"recv", "gone"}
  BY DEF Unpushed, Starting, NextFrame
<1>3. pc = [t \in Threads |-> pc[t]] BY DEF Exclusive, LockOrder
<1>4. CASE Writer \/ Report \/ UNCHANGED vars
  BY <1>1, <1>4 DEF Writer, WriterTop, WriterIdle, WriterPop, WriterWrite, WriterStale, OnlyWriterMoves,
     Report, vars
<1>5. CASE Client \/ ClientDisconnect
  BY <1>1, <1>2, <1>3, <1>5, CallerNames DEF Client, ClientAccept, ClientCheck, ClientPush, ClientPushStale,
     ClientDisconnect, Move, Goto, Unpushed
<1>6. CASE (\E cmd \in Commands : ControlCommand(cmd)) \/ StorageCritical \/ Signal \/ ControlLeaves
  BY <1>3, <1>6, CallerNames DEF ControlCommand, StorageCritical, Signal, ControlLeaves, Move, Goto
<1>7. CASE Main
  <2>1. \/ \E a : pc' = [pc EXCEPT !["main"] = a]
        \/ \E a, b, t : pc' = [pc EXCEPT !["main"] = a, ![t] = b] /\ b \in {"recv", "gone", "watch", "serve"}
    BY <1>1, <1>7 DEF Main, StartClient, StartStorage, StartThreads, StartControl, RaiseStopFlag,
       JoinCallers, JoinCaller, ExitJoinWriter, ExitJoinReport, Move, Goto
  <2>2. {"recv", "gone", "watch", "serve"} \cap Unpushed = {} BY DEF Unpushed, Starting
  <2> QED BY <1>3, <2>1, <2>2, CallerNames
<1> QED BY <1>4, <1>5, <1>6, <1>7

(* What the other steps leave alone.                                       *)
Passed ==
  /\ UNCHANGED <<disk, frame, received>>
  /\ buffer'.queue = buffer.queue \/ buffer'.queue = << >>
  /\ wthread' = "write" => wthread = "write" /\ held' = held

LEMMA ServicePasses ==
  ASSUME NEW t \in Threads, Service(t), ~DrainWrite(t)
  PROVE  Passed
<1>1. CASE \/ StartBusy(t) \/ StartSession(t) \/ StartBuffer(t) \/ StartWriter(t)
           \/ StartOpened(t) \/ StartNotOpened(t)
  <2>1. StartBuffer(t) => Passed
    BY DEF StartBuffer, fileVars, workerVars, clientVars, Passed, PB!EmptyBuffer
  <2>2. StartBusy(t) \/ StartSession(t) \/ StartWriter(t) => Passed
    BY DEF StartBusy, StartSession, StartWriter, bufferVars, fileVars, workerVars, clientVars, Passed
  <2>3. StartOpened(t) \/ StartNotOpened(t) => Passed
    BY DEF StartOpened, StartNotOpened, bufferVars, workerVars, clientVars, Passed
  <2> QED BY <1>1, <2>1, <2>2, <2>3
<1>2. CASE \/ StopRefused(t) \/ StopAccepted(t) \/ StopWaitOver(t) \/ JoinWriter(t) \/ JoinReport(t)
           \/ DrainOver(t)
  BY <1>2 DEF StopRefused, StopAccepted, StopWaitOver, JoinWriter, JoinReport, DrainOver,
     bufferVars, fileVars, workerVars, clientVars, Passed
<1>3. CASE \/ CloseWriter(t) \/ MarkStopped(t) \/ WriteSummary(t) \/ ResetSession(t)
           \/ TriggerOffline(t)
  BY <1>3 DEF CloseWriter, MarkStopped, WriteSummary, ResetSession, TriggerOffline,
     bufferVars, fileVars, workerVars, clientVars, Passed, NoBuffer
<1>4. CASE RestartThreads(t) \/ RestartOverThreads(t)
  BY <1>4 DEF RestartThreads, RestartOverThreads, LaunchThreads, Crash, bufferVars, fileVars, clientVars, Passed
<1> QED BY <1>1, <1>2, <1>3, <1>4 DEF Service

LEMMA OthersPass ==
  ASSUME \/ WriterTop \/ WriterIdle \/ WriterStale \/ Report
         \/ ClientAccept \/ ClientCheck \/ ClientPushStale \/ ClientDisconnect
         \/ \E cmd \in Commands : ControlCommand(cmd)
         \/ StorageCritical \/ Signal \/ Main \/ ControlLeaves \/ UNCHANGED vars
  PROVE  Passed
<1>1. CASE WriterTop \/ WriterIdle \/ WriterStale \/ Report
  BY <1>1 DEF WriterTop, WriterIdle, WriterStale, Report, WriterUnchanged, Crash,
     bufferVars, fileVars, clientVars, Passed
<1>2. CASE ClientAccept \/ ClientCheck \/ ClientPushStale \/ ClientDisconnect
  BY <1>2 DEF ClientAccept, ClientCheck, ClientPushStale, ClientDisconnect, ClientUnchanged,
     OnlyClientMoves, Crash, fileVars, clientVars, Passed
<1>3. CASE \/ \E cmd \in Commands : ControlCommand(cmd)
           \/ StorageCritical \/ Signal \/ ControlLeaves \/ UNCHANGED vars
  BY <1>3 DEF ControlCommand, StorageCritical, Signal, ControlLeaves, MainUnchanged, vars,
     bufferVars, fileVars, workerVars, clientVars, Passed
<1>4. CASE Main
  BY <1>4 DEF Main, StartClient, StartStorage, StartThreads, StartControl, RaiseStopFlag, JoinCallers,
     JoinCaller, ExitJoinWriter, ExitJoinReport, MainUnchanged, LaunchThreads, Crash,
     bufferVars, fileVars, clientVars, Passed
<1> QED BY <1>1, <1>2, <1>3, <1>4

LEMMA NextOrdered == Ordered /\ Typed /\ Orderly /\ Exclusive /\ [Next]_vars => Ordered'
<1> SUFFICES ASSUME Ordered, Typed, Orderly, Exclusive, [Next]_vars PROVE Ordered' OBVIOUS
<1>1. ASSUME Passed, pc'["client"] \in Unpushed => pc["client"] \in Unpushed PROVE Ordered'
  BY <1>1, OrderedKept DEF Passed
<1>2. ASSUME NEW t \in Threads, Service(t) PROVE Ordered'
  <2>1. CASE DrainWrite(t) BY <2>1, DrainWriteOrdered
  <2>2. CASE ~DrainWrite(t) BY <1>1, <1>2, <2>2, ServicePasses, ServiceUnpushed
  <2> QED BY <2>1, <2>2
<1>3. CASE \E kind \in Kinds : ClientReceive(kind) BY <1>3, ReceiveOrdered
<1>4. CASE ClientPush BY <1>4, PushOrdered
<1>5. CASE WriterPop BY <1>5, PopOrdered
<1>6. CASE WriterWrite BY <1>6, WriterWriteOrdered
<1>7. CASE \/ WriterTop \/ WriterIdle \/ WriterStale \/ Report
           \/ ClientAccept \/ ClientCheck \/ ClientPushStale \/ ClientDisconnect
           \/ \E cmd \in Commands : ControlCommand(cmd)
           \/ StorageCritical \/ Signal \/ Main \/ ControlLeaves \/ UNCHANGED vars
  <2>1. Passed BY <1>7, OthersPass
  <2>2. pc'["client"] \in Unpushed => pc["client"] \in Unpushed
    BY <1>7, OthersUnpushed DEF Writer, Client
  <2> QED BY <1>1, <2>1, <2>2
<1> QED BY <1>2, <1>3, <1>4, <1>5, <1>6, <1>7 DEF Next, Writer, Client, Terminated

-----------------------------------------------------------------------------
(* The service implements the promise (KeepsPromise)                       *)

Stutters == UNCHANGED <<phaseOf, disk>>

LEMMA PhaseKept ==
  ASSUME UNCHANGED <<sid, triggered>>,
         \A s \in Sessions : chunk'[s] = "closed" <=> chunk[s] = "closed"
  PROVE  phaseOf' = phaseOf
BY DEF phaseOf

LEMMA PhaseCases ==
  ASSUME Orderly, NEW s \in Sessions
  PROVE  /\ phaseOf[s] # "unused" <=> s <= sid
         /\ s <= sid /\ chunk[s] # "closed" => phaseOf[s] = "recording"
         /\ chunk[s] = "closed" /\ triggered[s] = 0 => phaseOf[s] = "sealed"
         /\ triggered[s] > 0 => phaseOf[s] = "published"
         /\ chunk[s] # "closed" => triggered[s] = 0
<1>1. triggered[s] \in Nat /\ (triggered[s] > 0 => chunk[s] = "closed")
  BY DEF Orderly, Shapes, PublishedComplete
<1>2. chunk[s] = "closed" \/ triggered[s] > 0 => s <= sid BY DEF Orderly, Past
<1> QED BY <1>1, <1>2 DEF phaseOf

LEMMA StartBegins ==
  ASSUME Orderly, Typed', NEW t \in Threads, StartSession(t)
  PROVE  Promise!Next
<1>1. sid' = sid + 1 /\ UNCHANGED <<chunk, disk, triggered>> BY DEF StartSession, fileVars
<1>2. PICK n \in Nat : n = sid BY DEF Orderly, Shapes
<1>3. sid' <= MaxCommands + 2
  <2>1. MainStart' \in {0, 1} /\ ClientStart' \in {0, 1} /\ ControlStart' \in {0, 1}
    BY DEF MainStart, ClientStart, ControlStart
  <2>2. Seats' BY DEF Typed
  <2>3. /\ sid' \in Nat /\ commands' \in 0..MaxCommands
        /\ sid' + MainStart' + ClientStart' + ControlStart' <= commands' + 2
    BY <2>2 DEF Seats
  <2>4. \A i, e \in Nat, m, c, k \in {0, 1} :
          i + m + c + k <= e + 2 /\ e <= MaxCommands => i <= MaxCommands + 2
    BY ServiceAssumption
  <2>5. commands' \in Nat /\ commands' <= MaxCommands BY <2>3, ServiceAssumption
  <2> QED BY <2>1, <2>3, <2>4, <2>5
<1>4. n + 1 \in Sessions /\ Sessions \subseteq Nat
  BY <1>1, <1>2, <1>3, ServiceAssumption DEF Sessions
<1>5. \A r \in Sessions : r < n + 1 <=> phaseOf[r] # "unused" BY <1>2, <1>4, PhaseCases
<1>6. phaseOf[n + 1] = "unused" BY <1>4, <1>5
<1>7. phaseOf' = [phaseOf EXCEPT ![n + 1] = "recording"]
  <2>1. \A r \in Sessions : r <= sid' <=> r <= sid \/ r = n + 1 BY <1>1, <1>2, <1>4
  <2>2. chunk[n + 1] # "closed" /\ ~(triggered[n + 1] > 0)
    BY <1>2, <1>4 DEF Orderly, Past
  <2> QED BY <1>1, <1>2, <2>1, <2>2 DEF phaseOf
<1>8. Promise!Begin(n + 1) BY <1>1, <1>5, <1>6, <1>7 DEF Promise!Begin, Promise!Change
<1> QED BY <1>4, <1>8 DEF Promise!Next

LEMMA CloseSeals ==
  ASSUME Orderly, Typed, Exclusive, NEW t \in Threads, CloseWriter(t)
  PROVE  Promise!Next \/ Stutters
<1>1. /\ pc[t] = "close" /\ UNCHANGED <<sid, disk, triggered>>
      /\ chunk' = IF writer = 0 THEN chunk ELSE [chunk EXCEPT ![writer] = "closed"]
  BY DEF CloseWriter, Move, sessionVars
<1>2. CASE writer = 0 \/ chunk[writer] = "closed"
  <2>1. \A s \in Sessions : chunk'[s] = "closed" <=> chunk[s] = "closed"
    BY <1>1, <1>2 DEF Orderly, Shapes
  <2> QED BY <1>1, <2>1, PhaseKept DEF Stutters
<1>3. CASE writer # 0 /\ chunk[writer] # "closed"
  <2>1. writer \in Sessions /\ writer <= sid
    BY <1>3, SessionRange DEF Typed, Orderly, Shapes
  <2>2. phaseOf[writer] = "recording" /\ triggered[writer] = 0 BY <1>3, <2>1, PhaseCases
  <2>3. phaseOf' = [phaseOf EXCEPT ![writer] = "sealed"]
    BY <1>1, <1>3, <2>1, <2>2 DEF phaseOf, Orderly, Shapes
  <2>4. Promise!Seal(writer) BY <1>1, <2>2, <2>3 DEF Promise!Seal, Promise!Change
  <2> QED BY <2>1, <2>4 DEF Promise!Next
<1> QED BY <1>2, <1>3

LEMMA TriggerPublishes ==
  ASSUME Orderly, Typed, Exclusive, NEW t \in Threads, TriggerOffline(t)
  PROVE  Promise!Next
<1>1. /\ pc[t] = "trigger" /\ UNCHANGED <<sid, disk, chunk>>
      /\ triggered' = [triggered EXCEPT ![sid] = @ + 1]
  BY DEF TriggerOffline, Move, fileVars
<1>2. sid \in Sessions BY <1>1, HolderSession DEF Finishing
<1>3. Knows("trigger") BY <1>1 DEF Orderly, HolderKnows
<1>4. triggered[sid] = 0 /\ chunk[sid] = "closed" BY <1>2, <1>3 DEF Knows, Finishing
<1>5. phaseOf[sid] = "sealed" BY <1>2, <1>4, PhaseCases
<1>6. phaseOf' = [phaseOf EXCEPT ![sid] = "published"]
  <2>1. triggered'[sid] = 1 /\ \A s \in Sessions \ {sid} : triggered'[s] = triggered[s]
    BY <1>1, <1>2, <1>4 DEF Orderly, Shapes
  <2>2. triggered'[sid] > 0 BY <2>1
  <2>3. sid' = sid /\ chunk' = chunk BY <1>1
  <2> QED BY <1>2, <2>1, <2>2, <2>3 DEF phaseOf
<1>7. Promise!Publish(sid) BY <1>1, <1>5, <1>6 DEF Promise!Publish, Promise!Change
<1> QED BY <1>2, <1>7 DEF Promise!Next

(* A write is a Record of a frame behind those that are logged.            *)
LEMMA WriteRecords ==
  ASSUME Orderly, Typed, UNCHANGED <<sid, triggered>>, NEW f \in Frames,
         writer \in Sessions, chunk[writer] # "closed", LogBefore(f),
         WriteSucceeds(writer, f) \/ WriteFails(writer, f)
  PROVE  Promise!Next \/ Stutters
<1>1. phaseOf' = phaseOf
  <2>1. chunk \in [Sessions -> {"none", "open", "bad", "closed"}] BY DEF Orderly, Shapes
  <2>2. /\ chunk'[writer] # "closed"
        /\ \A s \in Sessions \ {writer} : chunk'[s] = chunk[s]
    <3>1. CASE WriteSucceeds(writer, f) BY <2>1, <3>1 DEF WriteSucceeds
    <3>2. CASE WriteFails(writer, f) BY <2>1, <3>2 DEF WriteFails
    <3> QED BY <3>1, <3>2
  <2> QED BY <2>2, PhaseKept
<1>2. CASE WriteFails(writer, f) BY <1>1, <1>2 DEF WriteFails, Stutters
<1>3. CASE WriteSucceeds(writer, f)
  <2>1. disk' = [disk EXCEPT ![writer] = Append(@, f)] BY <1>3 DEF WriteSucceeds
  <2>2. phaseOf[writer] = "recording" BY PhaseCases DEF Orderly, Shapes
  <2>3. \A g \in Promise!Logged : g < f
    <3>1. SUFFICES ASSUME NEW s \in Sessions, NEW k \in 1..Len(disk[s]) PROVE disk[s][k] < f
      BY DEF Promise!Logged
    <3>2. disk[s] \in Seq(Frames) BY DEF Typed, DataTypes, FileTypes
    <3>3. disk[s][k] \in Frames /\ In(disk[s][k], disk[s]) BY <3>2 DEF In
    <3> QED BY <3>3 DEF LogBefore
  <2>4. Promise!Record(writer, f) BY <1>1, <2>1, <2>2, <2>3 DEF Promise!Record
  <2> QED BY <2>4 DEF Promise!Next
<1> QED BY <1>2, <1>3

(* No other step of the service shows.                                     *)
LEMMA ServiceStutters ==
  ASSUME Orderly, Exclusive, NEW t \in Threads, Service(t), ~StartSession(t), ~DrainWrite(t),
         ~CloseWriter(t), ~TriggerOffline(t)
  PROVE  Stutters
<1>1. disk' = disk BY ServicePasses DEF Passed
<1>2. UNCHANGED <<sid, triggered>>
  BY DEF Service, StartBusy, StartBuffer, StartWriter, StartOpened, StartNotOpened, StopRefused,
     StopAccepted, StopWaitOver, JoinWriter, JoinReport, DrainOver, MarkStopped, WriteSummary,
     ResetSession, RestartThreads, RestartOverThreads, sessionVars
<1>3. \A s \in Sessions : chunk'[s] = "closed" <=> chunk[s] = "closed"
  <2>1. CASE StartOpened(t) \/ StartNotOpened(t)
    <3>1. Knows("start_open")
      BY <2>1 DEF StartOpened, StartNotOpened, Move, Orderly, HolderKnows
    <3>2. sid \in Sessions => chunk[sid] # "closed" BY <3>1 DEF Knows, Starting
    <3>3. \E c \in {"none", "open", "bad", chunk[sid]} : chunk' = [chunk EXCEPT ![sid] = c]
      BY <2>1 DEF StartOpened, StartNotOpened
    <3> QED BY <3>2, <3>3 DEF Orderly, Shapes
  <2>2. CASE ~(StartOpened(t) \/ StartNotOpened(t))
    <3>1. chunk' = chunk
      BY <2>2 DEF Service, StartBusy, StartBuffer, StartWriter, StopRefused,
         StopAccepted, StopWaitOver, JoinWriter, JoinReport, DrainOver, MarkStopped, WriteSummary,
         ResetSession, RestartThreads, RestartOverThreads, fileVars
    <3> QED BY <3>1
  <2> QED BY <2>1, <2>2
<1> QED BY <1>1, <1>2, <1>3, PhaseKept DEF Stutters

LEMMA StepRefines ==
  Orderly /\ Typed /\ Typed' /\ Exclusive /\ Ordered /\ [Next]_vars =>
    [Promise!Next]_<<phaseOf, disk>>
<1> SUFFICES ASSUME Orderly, Typed, Typed', Exclusive, Ordered, [Next]_vars
             PROVE  Promise!Next \/ Stutters
  BY DEF Stutters
<1>1. CASE Quiet
  <2>1. UNCHANGED files BY <1>1, QuietMoves
  <2> QED BY <2>1, PhaseKept DEF files, Stutters
<1>2. CASE WriterWrite
  <2>1. UNCHANGED <<sid, triggered>> BY <1>2 DEF WriterWrite, WriterUnchanged
  <2>2. WriteSucceeds(writer, held.frame) \/ WriteFails(writer, held.frame) BY <1>2 DEF WriterWrite
  <2>3. LogBefore(held.frame) BY <1>2 DEF WriterWrite, Ordered
  <2> QED BY <1>2, <2>1, <2>2, <2>3, WriterHolds, WriteRecords
<1>3. ASSUME NEW t \in Threads, DrainWrite(t) PROVE Promise!Next \/ Stutters
  <2>1. /\ UNCHANGED <<sid, triggered>> /\ buffer.queue # << >>
        /\ WriteSucceeds(writer, Head(buffer.queue)) \/ WriteFails(writer, Head(buffer.queue))
    BY <1>3 DEF DrainWrite, CanDrain
  <2>2. 1 \in 1..Len(buffer.queue) /\ Head(buffer.queue) = buffer.queue[1]
    BY <2>1, FramesAreNumbers, TailPlaces
  <2>3. LogBefore(Head(buffer.queue)) BY <2>2 DEF Ordered, TakenBefore
  <2> QED BY <1>3, <2>1, <2>3, DrainHolds, WriteRecords
<1>4. ASSUME NEW t \in Threads, Service(t) PROVE Promise!Next \/ Stutters
  BY <1>3, <1>4, StartBegins, CloseSeals, TriggerPublishes, ServiceStutters
<1> QED BY <1>1, <1>2, <1>4 DEF Next, Quiet, Writer, Terminated

(* Whoever starts and stops the sessions, and whichever thread logs: the   *)
(* chunk files hold frames once and in the order of their arrival, and a   *)
(* session's are not touched from the close of its ChunkWriter on, which   *)
(* comes before the offline pipeline is started on it                      *)
(* (runtime_service.cpp:262-283, 365-390).                                 *)
THEOREM PromiseIsKept == Spec => KeepsPromise
<1>1. Init => Promise!Init
  <2> SUFFICES ASSUME Init PROVE Promise!Init OBVIOUS
  <2>1. /\ sid = 0 /\ chunk = [s \in Sessions |-> "none"]
        /\ disk = [s \in Sessions |-> << >>] /\ triggered = [s \in Sessions |-> 0]
    BY DEF Init
  <2>2. \A s \in Sessions : ~(s <= 0) BY ServiceAssumption DEF Sessions
  <2> QED BY <2>1, <2>2 DEF phaseOf, Promise!Init
<1>2. Init => Ordered BY InitOrdered
<1>3. Ordered /\ Typed /\ Orderly /\ Exclusive /\ [Next]_vars => Ordered' BY NextOrdered
<1>4. Orderly /\ Typed /\ Typed' /\ Exclusive /\ Ordered /\ [Next]_vars => [Promise!Next]_(Promise!vars)
  BY StepRefines DEF Promise!vars
<1> QED
  BY <1>1, <1>2, <1>3, <1>4, AlwaysExclusive, AlwaysOrderly, AlwaysTyped, PTL
  DEF Spec, KeepsPromise, Promise!Spec
=============================================================================
