-------------------------------- MODULE Serve --------------------------------
(***************************************************************************)
(* A server session: start_server of core/engine/server.go after its       *)
(* argument checks, with serverPathProbe of path.go.                       *)
(*                                                                         *)
(* The caller may open a file share and registers it; the goroutine        *)
(* ("worker") starts the tailcat server, which takes a while, and only     *)
(* then registers it.  From that moment on connections come in through the *)
(* tunnel (Handler) and are proxied to local ports.                        *)
(***************************************************************************)
EXTENDS Session

VARIABLES
  port22,    \* what serves port 22: "share" (files, share_paths), "shell", "none"
  token      \* s.token has been set

serveVars == <<port22, token>>
vars == <<sessionVars, serveVars>>

Init ==
  /\ SessionInit
  /\ res = [r \in Resource |-> "absent"]
  /\ port22 \in {"share", "shell", "none"}
  /\ token = FALSE
  /\ pc = [t \in Thread |-> CASE t = "caller" -> "openShare"
                              [] t \in Stopper -> "stop"
                              [] OTHER -> "idle"]

\* t moves on, and nothing else changes but what the action says.
Step(t, from, to) ==
  /\ At(t, from)
  /\ Go(t, to)
  /\ UNCHANGED <<state, cancelled, closed, closers, told, pend, toClose, serveVars>>

-----------------------------------------------------------------------------
(* The caller: startServer, after newSession.                              *)

\* NewServer, NewPathsServer or sshShellHandler; an error fails the session.
\* A shell has nothing to close.
OpenShare ==
  \/ port22 = "share" /\ Step("caller", "openShare", "addShare") /\ Open("share")
  \/ port22 # "share" /\ Step("caller", "openShare", "spawn") /\ UNCHANGED res
  \/ port22 # "none" /\ Step("caller", "openShare", "fail") /\ UNCHANGED res

RegisterShare ==
  /\ At("caller", "addShare")
  /\ AddCloser("caller", "share")
  /\ Go("caller", "spawn")
  /\ UNCHANGED <<state, cancelled, closed, res, told, pend, serveVars>>

Spawn ==
  /\ At("caller", "spawn")
  /\ pc' = [pc EXCEPT !["caller"] = "halt", !["worker"] = "start"]
  /\ UNCHANGED <<state, cancelled, closed, closers, res, told, pend, toClose, serveVars>>

-----------------------------------------------------------------------------
(* The goroutine that brings the server up.                                *)

Selecting ==
  /\ At("worker", "start")
  /\ SetState("worker", "starting")
  /\ Go("worker", "starting")
  /\ UNCHANGED <<cancelled, closed, closers, res, told, toClose, serveVars>>

\* An error of srv.Start that is overlooked.
StartIgnoresError ==
  \/ Step("worker", "starting", "addServer") /\ Open("server")
  \/ Step("worker", "starting", "setToken") /\ UNCHANGED res

\* srv.Start is not cancelled by the session.
StartReturns ==
  \/ Step("worker", "starting", "addServer") /\ Open("server")
  \/ Step("worker", "starting", "fail") /\ UNCHANGED res

\* A start that gives up on a stopped session and forgets the server.
ForgetServer ==
  /\ At("worker", "addServer")
  /\ IF closed
     THEN UNCHANGED <<closers, toClose>>
     ELSE AddCloser("worker", "server")
  /\ Go("worker", "setToken")
  /\ UNCHANGED <<state, cancelled, closed, res, told, pend, serveVars>>

RegisterServer ==
  /\ At("worker", "addServer")
  /\ AddCloser("worker", "server")
  /\ Go("worker", "setToken")
  /\ UNCHANGED <<state, cancelled, closed, res, told, pend, serveVars>>

\* setToken pushes token_ready whatever the state.
SetToken ==
  /\ At("worker", "setToken")
  /\ token' = TRUE
  /\ pend' = [pend EXCEPT !["worker"] = "token"]
  /\ Go("worker", "setRunning")
  /\ UNCHANGED <<state, cancelled, closed, closers, res, told, toClose, port22>>

SetRunning ==
  /\ At("worker", "setRunning")
  /\ SetState("worker", "running")
  /\ Go("worker", "probe")
  /\ UNCHANGED <<cancelled, closed, closers, res, told, toClose, serveVars>>

\* serverPathProbe: path events, which told leaves out, until the context is
\* cancelled.
ProbeEnds ==
  /\ cancelled
  /\ Step("worker", "probe", "halt")
  /\ UNCHANGED res

-----------------------------------------------------------------------------
(* Connections that reach a port the session forwards: tcpForwardTo.       *)

Incoming(h) ==
  /\ res["server"] = "open"
  /\ Step(h, "idle", "dial")
  /\ UNCHANGED res

\* The dial of the local port, under the session's context.
DialLocal(h) ==
  /\ \/ ~cancelled /\ Step(h, "dial", "proxy")
     \/ Step(h, "dial", "halt")
  /\ UNCHANGED res

\* ProxyConns ends when a side hangs up, or when the closed server breaks the
\* tunnel side.
HangUp(h) ==
  /\ Step(h, "proxy", "halt")
  /\ UNCHANGED res

-----------------------------------------------------------------------------
CallerStep == OpenShare \/ RegisterShare \/ Spawn

StarterStep ==
  Selecting \/ StartReturns \/ RegisterServer \/ SetToken \/ SetRunning \/ ProbeEnds

SharedStep(t) == SessionStep(t) /\ UNCHANGED serveVars

\* Nothing left to do: the server is listening, or the session has ended.
Idle ==
  /\ \A t \in Thread : Quiet(t) \/ pc[t] \in {"probe", "proxy"}
  /\ UNCHANGED vars

Next ==
  \/ CallerStep
  \/ StarterStep
  \/ \E h \in Handler : Incoming(h) \/ DialLocal(h) \/ HangUp(h)
  \/ \E t \in Thread : SharedStep(t)
  \/ \E t \in Stopper : Stop(t) /\ UNCHANGED serveVars
  \/ Idle

\* Goroutines run, srv.Start and a local dial return, a proxy ends once the
\* server is closed.  Nobody has to connect, to hang up or to stop.
Fairness ==
  /\ WF_vars(CallerStep)
  /\ WF_vars(StarterStep)
  /\ \A t \in Thread : WF_vars(SharedStep(t))
  /\ \A h \in Handler :
       /\ WF_vars(DialLocal(h))
       /\ WF_vars(res["server"] = "closed" /\ HangUp(h))

Spec == Init /\ [][Next]_vars /\ Fairness

-----------------------------------------------------------------------------
Label ==
  {"halt", "idle", "stop", "fail", "failed", "cancel", "take",
   "openShare", "addShare", "spawn", "start", "starting", "addServer",
   "setToken", "setRunning", "probe", "dial", "proxy"}

TypeOK ==
  /\ SessionTypeOK
  /\ pc \in [Thread -> Label]
  /\ port22 \in {"share", "shell", "none"}
  /\ token \in BOOLEAN
  /\ token => res["server"] # "absent"
=============================================================================
