------------------------------ MODULE Lifecycle ------------------------------
(***************************************************************************)
(* What a session promises to whoever started it, and nothing of how: it   *)
(* starts, may come up, ends once and for good, and once it has ended it   *)
(* disposes of what it owns.  Forward, Serve and Transfer implement it     *)
(* with phase <- state and disposed <- closed of session.go.               *)
(***************************************************************************)

VARIABLES
  phase,     \* "starting", "running", "done", "stopped" or "failed"
  disposed   \* the session has taken its resources away for closing

vars == <<phase, disposed>>

Ended == {"done", "stopped", "failed"}

TypeOK ==
  /\ phase \in {"starting", "running"} \cup Ended
  /\ disposed \in BOOLEAN

Init ==
  /\ phase = "starting"
  /\ disposed = FALSE

\* The session is up: tunnel established, server listening, transfer moving.
Run ==
  /\ phase = "starting"
  /\ phase' = "running"
  /\ UNCHANGED disposed

\* The session ends, from either live phase.
End ==
  /\ phase \notin Ended
  /\ phase' \in Ended
  /\ UNCHANGED disposed

\* Only an ended session is disposed of, and only once.
Dispose ==
  /\ phase \in Ended
  /\ ~disposed
  /\ disposed' = TRUE
  /\ UNCHANGED phase

Next == Run \/ End \/ Dispose

\* The safety part, which the implementations are proved to refine.
Safe == Init /\ [][Next]_vars

\* An ended session does get disposed of.
Spec == Safe /\ WF_vars(Dispose)
=============================================================================
