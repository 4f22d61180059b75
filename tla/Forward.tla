------------------------------- MODULE Forward -------------------------------
(***************************************************************************)
(* A client session with a local listener: start_forward and start_ssh     *)
(* (core/engine/forward.go) and start_socks (core/engine/socks.go), with   *)
(* the warm-up of connect.go and the path probe of path.go.                *)
(*                                                                         *)
(* The caller has the listener bound when the session is created; it       *)
(* creates the tailcat client, registers both and spawns the accept loop   *)
(* ("aux") and the warm-up ("worker").  Each accepted connection is a      *)
(* Handler that waits for the tunnel, dials the peer and proxies; one of a *)
(* SOCKS session first negotiates what to dial with the local program.     *)
(* Timers may fire at any time.                                            *)
(***************************************************************************)
EXTENDS Session

CONSTANT MaxDial   \* dial attempts of dialPeerPort: 3 in the code

ASSUME MaxDialPositive == MaxDial \in Nat \ {0}

VARIABLES
  kind,    \* "forward" (and ssh) or "socks"
  ready,   \* s.ready is closed: the tunnel is up
  tries    \* failed dials of each connection

forwardVars == <<kind, ready, tries>>
vars == <<sessionVars, forwardVars>>

Init ==
  /\ SessionInit
  /\ res = [r \in Resource |-> IF r = "listener" THEN "open" ELSE "absent"]
  /\ pc = [t \in Thread |-> CASE t = "caller" -> "newClient"
                              [] t \in Stopper -> "stop"
                              [] OTHER -> "idle"]
  /\ kind \in {"forward", "socks"}
  /\ ready = FALSE
  /\ tries = [h \in Handler |-> 0]

-----------------------------------------------------------------------------
(* The caller: startForward and startSocks, after newSession.              *)

NewClient ==
  /\ At("caller", "newClient")
  /\ Open("client")
  /\ Go("caller", "addClient")
  /\ UNCHANGED <<state, cancelled, closed, closers, told, pend, toClose, forwardVars>>

\* A caller that forgets to register the client.
SkipClient ==
  /\ At("caller", "addClient")
  /\ Go("caller", "addListener")
  /\ UNCHANGED <<state, cancelled, closed, closers, res, told, pend, toClose, forwardVars>>

RegisterClient ==
  /\ At("caller", "addClient")
  /\ AddCloser("caller", "client")
  /\ Go("caller", "addListener")
  /\ UNCHANGED <<state, cancelled, closed, res, told, pend, forwardVars>>

RegisterListener ==
  /\ At("caller", "addListener")
  /\ AddCloser("caller", "listener")
  /\ Go("caller", "spawn")
  /\ UNCHANGED <<state, cancelled, closed, res, told, pend, forwardVars>>

\* The goroutines start and the response goes out.
Spawn ==
  /\ At("caller", "spawn")
  /\ pc' = [pc EXCEPT !["caller"] = "halt", !["aux"] = "accept", !["worker"] = "start"]
  /\ UNCHANGED <<state, cancelled, closed, closers, res, told, pend, toClose, forwardVars>>

-----------------------------------------------------------------------------
(* acceptLoop, and the Serve loop of the SOCKS server.                     *)

Accept(h) ==
  /\ At("aux", "accept")
  /\ res["listener"] = "open"
  /\ pc[h] = "idle"
  /\ Go(h, IF kind = "socks" THEN "negotiate" ELSE "wait")
  /\ UNCHANGED <<state, cancelled, closed, closers, res, told, pend, toClose, forwardVars>>

\* Accept returns net.ErrClosed.
AcceptClosed ==
  /\ At("aux", "accept")
  /\ res["listener"] = "closed"
  /\ Go("aux", "halt")
  /\ UNCHANGED <<state, cancelled, closed, closers, res, told, pend, toClose, forwardVars>>

\* An accept loop that only logs, as the SOCKS one does.
AcceptErrorLogged ==
  /\ At("aux", "accept")
  /\ res["listener"] = "open"
  /\ Go("aux", "halt")
  /\ UNCHANGED <<state, cancelled, closed, closers, res, told, pend, toClose, forwardVars>>

\* Accept fails for another reason: a forward fails the session unless it is
\* stopping already, a SOCKS session logs it and stays as it is.
AcceptError ==
  /\ At("aux", "accept")
  /\ res["listener"] = "open"
  /\ Go("aux", IF kind = "forward" /\ ~cancelled THEN "fail" ELSE "halt")
  /\ UNCHANGED <<state, cancelled, closed, closers, res, told, pend, toClose, forwardVars>>

-----------------------------------------------------------------------------
(* One accepted connection: dialPeerPort and the SOCKS Dialer.             *)

MoveHandler(h, l) ==
  /\ Go(h, l)
  /\ UNCHANGED <<state, cancelled, closed, closers, res, told, pend, toClose,
                 kind, ready>>

\* socks5.Server has read the greeting and the request and calls the Dialer, or
\* gives the connection up.  It reads from the local program, which may stay
\* silent; neither a deadline nor the session ends that.
Negotiate(h) ==
  /\ At(h, "negotiate")
  /\ \/ MoveHandler(h, "wait")
     \/ MoveHandler(h, "halt")
  /\ UNCHANGED tries

\* A connection that dials without waiting for the tunnel.
DialAtOnce(h) ==
  /\ At(h, "wait")
  /\ \/ MoveHandler(h, "dial")
     \/ MoveHandler(h, "halt")
  /\ UNCHANGED tries

\* waitReady.  When several of its cases are ready select picks any of them;
\* the timer may have fired at any time.  On an error the connection is closed.
WaitReady(h) ==
  /\ At(h, "wait")
  /\ \/ ready /\ MoveHandler(h, "dial")
     \/ MoveHandler(h, "halt")
  /\ UNCHANGED tries

\* A forward dials under the session's context, the SOCKS server under its own.
DialOk(h) ==
  /\ At(h, "dial")
  /\ kind = "forward" => ~cancelled
  /\ res["client"] = "open"
  /\ MoveHandler(h, "proxy")
  /\ UNCHANGED tries

\* One attempt too many.
DialErrorLate(h) ==
  /\ At(h, "dial")
  /\ tries' = [tries EXCEPT ![h] = @ + 1]
  /\ MoveHandler(h, IF kind = "socks" \/ cancelled \/ tries'[h] > MaxDial
                    THEN "halt" ELSE "dial")

\* A forward gives up when the session is stopping or after MaxDial attempts;
\* the SOCKS dialer has one attempt.
DialError(h) ==
  /\ At(h, "dial")
  /\ tries' = [tries EXCEPT ![h] = @ + 1]
  /\ MoveHandler(h, IF kind = "socks" \/ cancelled \/ tries'[h] = MaxDial
                    THEN "halt" ELSE "dial")

\* ProxyConns ends when a side hangs up, or when the closed client breaks the
\* tunnel side.
HangUp(h) ==
  /\ At(h, "proxy")
  /\ MoveHandler(h, "halt")
  /\ UNCHANGED tries

-----------------------------------------------------------------------------
(* clientWarmup.                                                           *)

StartWarmup ==
  /\ At("worker", "start")
  /\ SetState("worker", "starting")
  /\ Go("worker", "warm")
  /\ UNCHANGED <<cancelled, closed, closers, res, told, toClose, forwardVars>>

\* warmClient and DiscoPing return: the handshake needs an open client and a
\* live context, an error may come at any time.
WarmReturns ==
  /\ At("worker", "warm")
  /\ \/ res["client"] = "open" /\ ~cancelled /\ Go("worker", "up")
     \/ Go("worker", "warmError")
  /\ UNCHANGED <<state, cancelled, closed, closers, res, told, pend, toClose, forwardVars>>

\* An error because the session is stopping is not a failure.
WarmError ==
  /\ At("worker", "warmError")
  /\ Go("worker", IF cancelled THEN "halt" ELSE "fail")
  /\ UNCHANGED <<state, cancelled, closed, closers, res, told, pend, toClose, forwardVars>>

MarkReady ==
  /\ At("worker", "up")
  /\ ready' = TRUE
  /\ Go("worker", "setRunning")
  /\ UNCHANGED <<state, cancelled, closed, closers, res, told, pend, toClose, kind, tries>>

SetRunning ==
  /\ At("worker", "setRunning")
  /\ SetState("worker", "running")
  /\ Go("worker", "probe")
  /\ UNCHANGED <<cancelled, closed, closers, res, told, toClose, forwardVars>>

\* clientPathProbe: path events, which told leaves out, until the context is
\* cancelled.
ProbeEnds ==
  /\ At("worker", "probe")
  /\ cancelled
  /\ Go("worker", "halt")
  /\ UNCHANGED <<state, cancelled, closed, closers, res, told, pend, toClose, forwardVars>>

-----------------------------------------------------------------------------
CallerStep == NewClient \/ RegisterClient \/ RegisterListener \/ Spawn

WarmupStep ==
  StartWarmup \/ WarmReturns \/ WarmError \/ MarkReady \/ SetRunning \/ ProbeEnds

SharedStep(t) == SessionStep(t) /\ UNCHANGED forwardVars

\* Nothing left to do but wait: the probe is pinging, or the session has ended.
Idle ==
  /\ \A t \in Thread :
       Quiet(t) \/ pc[t] \in {"probe", "accept", "proxy", "negotiate"}
  /\ UNCHANGED vars

Next ==
  \/ CallerStep
  \/ WarmupStep
  \/ AcceptClosed
  \/ AcceptError
  \/ \E h \in Handler :
       \/ Accept(h) \/ Negotiate(h) \/ WaitReady(h)
       \/ DialOk(h) \/ DialError(h) \/ HangUp(h)
  \/ \E t \in Thread : SharedStep(t)
  \/ \E t \in Stopper : Stop(t) /\ UNCHANGED forwardVars
  \/ Idle

\* Goroutines run.  Every blocking call of the worker is bounded by a timer, and
\* so are waitReady and the dial of a forward; Accept returns once the listener is
\* closed, and a proxy ends once the client is.  Nobody has to connect, to hang up
\* or to stop.  A SOCKS connection negotiates for as long as the local program
\* likes, and dials under the context of socks5.Server, which has no timer.
Fairness ==
  /\ WF_vars(CallerStep)
  /\ WF_vars(WarmupStep)
  /\ WF_vars(AcceptClosed)
  /\ \A t \in Thread : WF_vars(SharedStep(t))
  /\ \A h \in Handler :
       /\ WF_vars(WaitReady(h))
       /\ WF_vars(kind = "forward" /\ (DialOk(h) \/ DialError(h)))
       /\ WF_vars(res["client"] = "closed" /\ HangUp(h))

Spec == Init /\ [][Next]_vars /\ Fairness

-----------------------------------------------------------------------------
Label ==
  {"halt", "idle", "stop", "fail", "failed", "cancel", "take",
   "newClient", "addClient", "addListener", "spawn", "accept",
   "negotiate", "wait", "dial", "proxy",
   "start", "warm", "warmError", "up", "setRunning", "probe"}

TypeOK ==
  /\ SessionTypeOK
  /\ pc \in [Thread -> Label]
  /\ kind \in {"forward", "socks"}
  /\ ready \in BOOLEAN
  /\ tries \in [Handler -> 0..MaxDial]

\* No connection reaches the tunnel before the handshake, and the session is
\* not reported running before connections can be dialled (session.go, ready).
DialsOnlyWhenReady ==
  /\ \A h \in Handler : pc[h] \in {"dial", "proxy"} => ready
  /\ "running" \in ToSet(told) => ready

\* Where a SOCKS connection is in the hands of socks5.Server alone.
InSocks(h) == kind = "socks" /\ pc[h] \in {"negotiate", "dial"}

\* A connection does not outlive its session: its wait, its dial and its proxying
\* end (forward.go, dialPeerPort and ProxyConns).  What the session cannot end is
\* left out: a SOCKS connection that negotiates or dials (socks.go).
ConnectionsEnd ==
  \A h \in Handler : state \in Ended ~> pc[h] \in {"idle", "halt"} \/ InSocks(h)

\* A forward whose accept loop is gone does not go on looking alive.
NoDeafForward == kind = "forward" /\ pc["aux"] = "halt" ~> state \in Ended
=============================================================================
