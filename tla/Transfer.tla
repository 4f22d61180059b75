------------------------------ MODULE Transfer ------------------------------
(***************************************************************************)
(* A file session of core/engine/files.go: the upload and download jobs    *)
(* (sendFiles, download), which run in a goroutine ("worker"), and         *)
(* listRemote, which runs in the tc_call itself ("caller").  Both reach    *)
(* the share through openShare, which owns the client and the file client  *)
(* until it returns: a stop in the meantime can only cancel the context,   *)
(* and listRemote does not even use that context but the engine's.         *)
(***************************************************************************)
EXTENDS Session

CONSTANT Paths   \* how many paths a job moves

ASSUME PathsPositive == Paths \in Nat \ {0}

VARIABLES
  kind,    \* "job" or "list"
  moved    \* paths moved so far

transferVars == <<kind, moved>>
vars == <<sessionVars, transferVars>>

Opener == IF kind = "job" THEN "worker" ELSE "caller"

\* Where an openShare that returned an error leaves its caller.
Failure == IF kind = "job" THEN "fail" ELSE "listFailed"

Init ==
  /\ SessionInit
  /\ res = [r \in Resource |-> "absent"]
  /\ kind \in {"job", "list"}
  /\ moved = 0
  /\ pc = [t \in Thread |-> CASE t = "caller" -> IF kind = "job" THEN "spawn" ELSE "newClient"
                              [] t \in Stopper -> "stop"
                              [] OTHER -> "idle"]

\* t moves on, and nothing else changes but what the action says.
Step(t, from, to) ==
  /\ At(t, from)
  /\ Go(t, to)
  /\ UNCHANGED <<state, cancelled, closed, closers, told, pend, transferVars>>

Spawn ==
  /\ At("caller", "spawn")
  /\ pc' = [pc EXCEPT !["caller"] = "halt", !["worker"] = "start"]
  /\ UNCHANGED <<state, cancelled, closed, closers, res, told, pend, toClose, transferVars>>

Connecting ==
  /\ At("worker", "start")
  /\ SetState("worker", "starting")
  /\ Go("worker", "newClient")
  /\ UNCHANGED <<cancelled, closed, closers, res, told, toClose, transferVars>>

-----------------------------------------------------------------------------
(* openShare.                                                              *)

NewClient ==
  /\ Step(Opener, "newClient", "open")
  /\ Open("client")
  /\ UNCHANGED toClose

\* openShare that returns an error without closing the client.
ConnectLeaks ==
  \/ /\ Step(Opener, "open", "handshake")
     /\ Open("files")
     /\ UNCHANGED toClose
  \/ /\ Step(Opener, "open", Failure)
     /\ UNCHANGED <<res, toClose>>

\* The warm-up and the dial of port 22, both bounded by timers and, for a job,
\* ended by the session's context.  On an error the client is closed.
Connect ==
  \/ /\ kind = "job" => ~cancelled
     /\ Step(Opener, "open", "handshake")
     /\ Open("files")
     /\ UNCHANGED toClose
  \/ /\ Step(Opener, "open", Failure)
     /\ toClose' = [toClose EXCEPT ![Opener] = <<"client">>]
     /\ UNCHANGED res

\* fileshare.NewClient: the SSH handshake and the sftp subsystem.  Nothing
\* bounds it but the peer.  On an error connection and client are closed.
Handshake ==
  \/ /\ Step(Opener, "handshake", IF kind = "job" THEN "addClient" ELSE "list")
     /\ UNCHANGED <<res, toClose>>
  \/ /\ Step(Opener, "handshake", Failure)
     /\ toClose' = [toClose EXCEPT ![Opener] = <<"files", "client">>]
     /\ UNCHANGED res

-----------------------------------------------------------------------------
(* The goroutine of a job.                                                 *)

RegisterClient ==
  /\ At("worker", "addClient")
  /\ AddCloser("worker", "client")
  /\ Go("worker", "addFiles")
  /\ UNCHANGED <<state, cancelled, closed, res, told, pend, transferVars>>

RegisterFiles ==
  /\ At("worker", "addFiles")
  /\ AddCloser("worker", "files")
  /\ Go("worker", "setRunning")
  /\ UNCHANGED <<state, cancelled, closed, res, told, pend, transferVars>>

SetRunning ==
  /\ At("worker", "setRunning")
  /\ SetState("worker", "running")
  /\ Go("worker", "move")
  /\ UNCHANGED <<cancelled, closed, closers, res, told, toClose, transferVars>>

\* A loop over the paths that does not stop after the last.
MoveTooFar ==
  /\ At("worker", "move")
  /\ moved <= Paths
  /\ res["files"] = "open"
  /\ moved' = moved + 1
  /\ UNCHANGED <<sessionVars, kind>>

\* One path is uploaded or downloaded.
MovePath ==
  /\ At("worker", "move")
  /\ moved < Paths
  /\ res["files"] = "open"
  /\ moved' = moved + 1
  /\ UNCHANGED <<sessionVars, kind>>

\* Upload or Download returns an error: the first one ends the job.
MoveFails ==
  /\ moved < Paths
  /\ Step("worker", "move", "moveError")
  /\ UNCHANGED <<res, toClose>>

\* A stopped job returns in silence, any other error is a failure.
MoveError ==
  /\ Step("worker", "moveError", IF cancelled THEN "halt" ELSE "fail")
  /\ UNCHANGED <<res, toClose>>

\* The loop left one path early.
FinishEarly ==
  /\ At("worker", "move")
  /\ moved >= Paths - 1
  /\ Finish("worker", "done")
  /\ UNCHANGED transferVars

\* setState(done), shutdown.
FinishJob ==
  /\ At("worker", "move")
  /\ moved = Paths
  /\ Finish("worker", "done")
  /\ UNCHANGED transferVars

-----------------------------------------------------------------------------
(* listRemote after openShare: its deferred calls close the file client,   *)
(* then the client, then shut the session down.  It fails the session      *)
(* without an error event: the command itself returns the error.           *)

ListFailed ==
  /\ At("caller", "listFailed")
  /\ Finish("caller", "failed")
  /\ UNCHANGED transferVars

ListReturns ==
  /\ At("caller", "list")
  /\ \E st \in {"done", "failed"} : SetState("caller", st)
  /\ Go("caller", "closeOwn")
  /\ UNCHANGED <<cancelled, closed, closers, res, told, toClose, transferVars>>

CloseOwn ==
  /\ Step("caller", "closeOwn", "cancel")
  /\ toClose' = [toClose EXCEPT !["caller"] = <<"files", "client">>]
  /\ UNCHANGED res

-----------------------------------------------------------------------------
\* t is inside fileshare.Client.Close.  Before it closes the SSH client and the
\* connection it calls sftp.Client.Close, which ends the requests to the peer and
\* waits until the peer has ended its answers.  (After a failed handshake "files"
\* is the bare connection, whose Close does not wait.)
ClosesFiles(t) ==
  /\ toClose[t] # <<>>
  /\ Head(toClose[t]) = "files"
  /\ pc[t] # Failure

-----------------------------------------------------------------------------
CallerStep == Spawn \/ ListFailed \/ CloseOwn

OpenStep == NewClient \/ Connect

JobStep ==
  Connecting \/ RegisterClient \/ RegisterFiles \/ SetRunning \/ MoveError \/ FinishJob

SharedStep(t) == SessionStep(t) /\ UNCHANGED transferVars

\* Every goroutine has returned.
Idle == AllQuiet /\ UNCHANGED vars

Next ==
  \/ CallerStep
  \/ OpenStep
  \/ Handshake
  \/ ListReturns
  \/ JobStep
  \/ MovePath
  \/ MoveFails
  \/ \E t \in Thread : SharedStep(t)
  \/ \E t \in Stopper : Stop(t) /\ UNCHANGED transferVars
  \/ Idle

\* Goroutines run, the warm-up and the dial return, and a call on a closed file
\* client returns.  A peer that accepts the connection and then keeps silent
\* may block the handshake, a listing, the transfer of a path and the closing of
\* the file client for ever.  Nobody has to stop the session.
Fairness ==
  /\ WF_vars(CallerStep)
  /\ WF_vars(OpenStep)
  /\ WF_vars(JobStep)
  /\ WF_vars(res["files"] = "closed" /\ MoveFails)
  /\ \A t \in Thread : WF_vars(~ClosesFiles(t) /\ SharedStep(t))

Spec == Init /\ [][Next]_vars /\ Fairness

-----------------------------------------------------------------------------
Label ==
  {"halt", "idle", "stop", "fail", "failed", "cancel", "take",
   "spawn", "start", "newClient", "open", "handshake", "addClient", "addFiles",
   "setRunning", "move", "moveError", "list", "listFailed", "closeOwn"}

TypeOK ==
  /\ SessionTypeOK
  /\ pc \in [Thread -> Label]
  /\ kind \in {"job", "list"}
  /\ moved \in 0..Paths

\* A job that reports itself done has moved everything, and nothing is
\* reported failed that was: a partial transfer is never called done.
DoneMeansMoved ==
  kind = "job" /\ state = "done" => moved = Paths /\ "error" \notin ToSet(told)

\* A goroutine is inside a call that only the peer can end: neither stop nor a
\* timer reaches the connection there.
WaitsForPeer ==
  \/ pc[Opener] \in {"handshake", "list"}
  \/ \E t \in Thread : ClosesFiles(t)

\* A stop reaches a file session wherever it is, if only the peer does not keep
\* it in the handshake, in a listing or in the closing of the file client for
\* ever: everything is closed for good and the goroutines return, in particular
\* the one that was transferring.
StopEndsTransfer ==
  <>[]~WaitsForPeer =>
    (state \in Ended ~> []( /\ \A r \in Resource : res[r] # "open"
                           /\ \A t \in Goroutine : Quiet(t) ))
=============================================================================
