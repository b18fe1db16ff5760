-------------------------- MODULE RecordingSession --------------------------
(***************************************************************************)
(* What a recording promises to whoever reads it later (offline processing *)
(* is started on a session directory as soon as it is published): frames   *)
(* are logged once, in the order of their arrival, and the log of a        *)
(* session does not change after the session was sealed, which is before   *)
(* it is published.  How frames reach the log, which of them are dropped,  *)
(* and which thread seals is not said.                                     *)
(***************************************************************************)
EXTENDS Naturals, Sequences

CONSTANTS
  Sessions,   (* sessions, numbered in the order they are started          *)
  Frames      (* frames, numbered in the order they arrive                 *)

VARIABLES
  phase,   (* of each session                                              *)
  log      (* the frames each session has on disk                          *)

vars == <<phase, log>>

Init ==
  /\ phase = [s \in Sessions |-> "unused"]
  /\ log = [s \in Sessions |-> << >>]

Change(s, from, to) ==
  /\ phase[s] = from
  /\ phase' = [phase EXCEPT ![s] = to]
  /\ UNCHANGED log

(* Sessions begin one after the other.  The one before may have been given *)
(* up, for instance after a disk error, and then stays unsealed.           *)
Begin(s) ==
  /\ \A r \in Sessions : r < s <=> phase[r] # "unused"
  /\ Change(s, "unused", "recording")

Logged == UNION {{log[s][i] : i \in 1..Len(log[s])} : s \in Sessions}

Record(s, f) ==
  /\ phase[s] = "recording"
  /\ \A g \in Logged : g < f
  /\ log' = [log EXCEPT ![s] = Append(@, f)]
  /\ UNCHANGED phase

Seal(s) == Change(s, "recording", "sealed")

Publish(s) == Change(s, "sealed", "published")

Next ==
  \E s \in Sessions :
    \/ Begin(s) \/ Seal(s) \/ Publish(s)
    \/ \E f \in Frames : Record(s, f)

Spec == Init /\ [][Next]_vars
=============================================================================
