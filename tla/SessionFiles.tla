----------------------------- MODULE SessionFiles -----------------------------
(***************************************************************************)
(* The files of a session that was closed, judged by CheckSessionIntegrity *)
(* as FinalizeActiveSession does (runtime_service.cpp:375-380).            *)
(***************************************************************************)
EXTENDS ChunkWriter, SessionIntegrity

VARIABLE verdict   (* integrity.result; "none" before the check            *)

sessionVars == <<vars, verdict>>

InitSession == Init /\ verdict = "none"

(* The reader sees what reached the system; a file whose last bytes did    *)
(* not may end in a piece of a frame.                                      *)
CheckClosedSession ==
  /\ pc = "closed" /\ verdict = "none"
  /\ \E frames \in Found([i \in 1..last |-> chunks[i].os]),
        lines \in index.os..index.lines :
       \E torn \in SUBSET {i \in 1..last : frames[i] < chunks[i].packet_count} :
         /\ left' = [frames |-> frames, index |-> lines]
         /\ verdict' = CheckSessionIntegrity(
              [tmp      |-> tmp.state # "none",
               manifest |-> manifest.state # "none",
               index    |-> index.exists,
               lines    |-> lines,
               chunks   |-> [i \in 1..last |-> [frames |-> frames[i], torn |-> i \in torn]]])
  /\ UNCHANGED <<pc, after, files, sinceFlush, listing, bounds, flushed>>

NextSession ==
  \/ Next /\ verdict = "none" /\ UNCHANGED verdict
  \/ CheckClosedSession

SessionSpec == InitSession /\ [][NextSession]_sessionVars

-----------------------------------------------------------------------------
(* A recording that met no error ends with integrity ok (AC-06), and its   *)
(* manifest lists each chunk with exactly the frames that are in it.       *)
CleanSessionIsOk ==
  (verdict # "none" /\ faults = 0) =>
    /\ verdict = "ok"
    /\ manifest = WholeFile
    /\ left.frames = Counts

(* One failing system call, wherever it strikes, cannot lose a frame that  *)
(* WriteContractFrame accepted behind the verdict ok: the index, written   *)
(* separately, gives it away (session_integrity.cpp:66-72).                *)
LossIsNoticed ==
  (verdict = "ok" /\ faults <= 1) => left.frames = Counts
=============================================================================
