--------------------------- MODULE SessionIntegrity ---------------------------
(***************************************************************************)
(* What a reader makes of the files of a session: counting the frames of a *)
(* chunk (contract_frame_io.cpp) and judging the session                   *)
(* (session_integrity.cpp).  A file is the number of whole valid frames it *)
(* begins with, and whether something else follows them.                   *)
(***************************************************************************)
EXTENDS Lists

(* ForEachContractFrame stops at the first frame that is cut off or fails  *)
(* validation, so only the valid beginning of a file counts.               *)
CountContractFrames(file) == file.frames

Unreadable(file) == CountContractFrames(file) = 0 /\ file.torn

FramesInChunks(found) ==
  SumSeq([i \in DOMAIN found.chunks |-> CountContractFrames(found.chunks[i])])

(* Deviation: lines and frames are not compared. *)
CheckSessionFiles(found) ==
  CASE found.tmp -> "warning"
    [] ~found.tmp /\ ~(found.manifest /\ found.index) -> "failed"
    [] OTHER ->
         IF \E i \in DOMAIN found.chunks : Unreadable(found.chunks[i]) THEN "failed" ELSE "ok"

(* The checks in the order of the code.  The manifest only has to exist.   *)
CheckSessionIntegrity(found) ==
  CASE found.tmp -> "warning"
    [] ~found.tmp /\ ~(found.manifest /\ found.index) -> "failed"
    [] OTHER ->
         IF \E i \in DOMAIN found.chunks : Unreadable(found.chunks[i]) THEN "failed"
         ELSE IF found.lines # FramesInChunks(found) THEN "warning"
         ELSE "ok"
=============================================================================
