-------------------------------- MODULE Engine --------------------------------
(***************************************************************************)
(* The engines of the process: core/bridge/main.go keeps one in a global,  *)
(* core/engine/engine.go keeps its sessions.  Threads of the app call      *)
(* tc_init, tc_call, tc_poll and tc_shutdown at any time.  A call takes    *)
(* the engine under the bridge's lock and uses it after the unlock, so it  *)
(* may work on an engine that is being closed, or make a new one after a   *)
(* tc_shutdown.  Each engine numbers its sessions from 1; of a session     *)
(* this module keeps only whether it has ended (see Session for the rest). *)
(***************************************************************************)
EXTENDS Naturals, Sequences

CONSTANTS
  Caller,        \* threads of the app
  MaxEngines,    \* bound on the engines made
  MaxSessions    \* bound on the sessions of one engine

ASSUME BoundsNat ==
  MaxEngines \in Nat \ {0} /\ MaxSessions \in Nat

Engines == 1..MaxEngines

Nil == 0

VARIABLES
  eng,        \* bridge.eng: the current engine or Nil
  made,       \* how many engines were made
  closed,     \* e.closed
  cancelled,  \* e.ctx is cancelled
  sessions,   \* e.sessions by number: "live" or "ended"
  pc,         \* where each caller is
  held,       \* the engine it took under the bridge's lock
  todo,       \* the sessions it has still to stop
  waits       \* it is inside the closers of the one it stops

bridgeVars == <<eng, made>>
engineVars == <<closed, cancelled, sessions>>
callVars == <<pc, held, todo, waits>>
vars == <<bridgeVars, engineVars, callVars>>

\* The app has made its first call, tc_init.
Init ==
  /\ eng = 1
  /\ made = 1
  /\ closed = [g \in Engines |-> FALSE]
  /\ cancelled = [g \in Engines |-> FALSE]
  /\ sessions = [g \in Engines |-> <<>>]
  /\ pc = [c \in Caller |-> "idle"]
  /\ held = [c \in Caller |-> Nil]
  /\ todo = [c \in Caller |-> {}]
  /\ waits = [c \in Caller |-> FALSE]

Go(c, l) == pc' = [pc EXCEPT ![c] = l]

Return(c) ==
  /\ Go(c, "idle")
  /\ held' = [held EXCEPT ![c] = Nil]

\* A new engine becomes the current one.
Make ==
  /\ made < MaxEngines
  /\ made' = made + 1
  /\ eng' = made'

-----------------------------------------------------------------------------
(* bridge/main.go                                                          *)

\* tc_init, all of it under the lock: an engine that exists is kept as it is.
TcInit(c) ==
  /\ pc[c] = "idle"
  /\ IF eng # Nil THEN UNCHANGED bridgeVars ELSE Make
  /\ UNCHANGED <<engineVars, callVars>>

\* currentEngine, for a command or a poll: without an engine one is made.
CurrentEngine(c) ==
  /\ pc[c] = "idle"
  /\ IF eng # Nil THEN UNCHANGED bridgeVars ELSE Make
  /\ held' = [held EXCEPT ![c] = eng']
  /\ Go(c, "call")
  /\ UNCHANGED <<engineVars, todo, waits>>

\* tc_shutdown takes the engine away under the lock and closes it after.
TcShutdown(c) ==
  /\ pc[c] = "idle"
  /\ eng' = Nil
  /\ held' = [held EXCEPT ![c] = eng]
  /\ Go(c, IF eng = Nil THEN "idle" ELSE "close")
  /\ UNCHANGED <<made, engineVars, todo, waits>>

-----------------------------------------------------------------------------
(* engine/engine.go                                                        *)

\* The command ends without an effect here: tc_poll, an error before
\* newSession, a closed engine, list_sessions, a stop of an unknown session.
CallReturns(c) ==
  /\ pc[c] = "call"
  /\ Return(c)
  /\ UNCHANGED <<bridgeVars, engineVars, todo, waits>>

\* newSession that does not look at e.closed.
NewSessionAlways(c) ==
  /\ pc[c] = "call"
  /\ Len(sessions[held[c]]) < MaxSessions
  /\ sessions' = [sessions EXCEPT ![held[c]] = Append(@, "live")]
  /\ Return(c)
  /\ UNCHANGED <<bridgeVars, closed, cancelled, todo, waits>>

\* newSession: a closed engine takes no session.
NewSession(c) ==
  /\ pc[c] = "call"
  /\ ~closed[held[c]]
  /\ Len(sessions[held[c]]) < MaxSessions
  /\ sessions' = [sessions EXCEPT ![held[c]] = Append(@, "live")]
  /\ Return(c)
  /\ UNCHANGED <<bridgeVars, closed, cancelled, todo, waits>>

\* stopSession looks the session up under the lock, ...
Lookup(c) ==
  /\ pc[c] = "call"
  /\ \E i \in DOMAIN sessions[held[c]] : todo' = [todo EXCEPT ![c] = {i}]
  /\ Go(c, "stop")
  /\ UNCHANGED <<bridgeVars, engineVars, held, waits>>

\* s.stop, of a session that may have ended in the meantime.  The first to stop
\* it closes what it owns, which may take a while; any other returns at once.
StopOne(c) ==
  /\ pc[c] \in {"stop", "closing"}
  /\ ~waits[c]
  /\ \E i \in todo[c] :
       /\ sessions' = [sessions EXCEPT ![held[c]][i] = "ended"]
       /\ todo' = [todo EXCEPT ![c] = @ \ {i}]
  /\ \E w \in BOOLEAN : waits' = [waits EXCEPT ![c] = w]
  /\ UNCHANGED <<bridgeVars, closed, cancelled, pc, held>>

\* The closers have returned.  That of a transfer, fileshare.Client.Close, waits
\* for the peer (Transfer, ClosesFiles).
ClosersReturn(c) ==
  /\ waits[c]
  /\ waits' = [waits EXCEPT ![c] = FALSE]
  /\ UNCHANGED <<bridgeVars, engineVars, pc, held, todo>>

\* ... and returns when it has stopped it.
StopReturns(c) ==
  /\ pc[c] = "stop"
  /\ todo[c] = {}
  /\ ~waits[c]
  /\ Return(c)
  /\ UNCHANGED <<bridgeVars, engineVars, todo, waits>>

\* Close that copies the sessions but leaves the engine open until the end.
CloseOpen(c) ==
  /\ pc[c] = "close"
  /\ todo' = [todo EXCEPT ![c] = DOMAIN sessions[held[c]]]
  /\ Go(c, "closing")
  /\ UNCHANGED <<bridgeVars, engineVars, held, waits>>

\* Close sets closed and copies the sessions under one lock, ...
Close(c) ==
  /\ pc[c] = "close"
  /\ closed' = [closed EXCEPT ![held[c]] = TRUE]
  /\ todo' = [todo EXCEPT ![c] = DOMAIN sessions[held[c]]]
  /\ Go(c, "closing")
  /\ UNCHANGED <<bridgeVars, cancelled, sessions, held, waits>>

\* A Close that returns after the first session.
CloseReturnsEarly(c) ==
  /\ pc[c] = "closing"
  /\ ~waits[c]
  /\ cancelled' = [cancelled EXCEPT ![held[c]] = TRUE]
  /\ todo' = [todo EXCEPT ![c] = {}]
  /\ Return(c)
  /\ UNCHANGED <<bridgeVars, closed, sessions, waits>>

\* ... stops each of them, and cancels the engine's context when all are.
CloseReturns(c) ==
  /\ pc[c] = "closing"
  /\ todo[c] = {}
  /\ ~waits[c]
  /\ cancelled' = [cancelled EXCEPT ![held[c]] = TRUE]
  /\ Return(c)
  /\ UNCHANGED <<bridgeVars, closed, sessions, todo, waits>>

-----------------------------------------------------------------------------
\* A session fails, is done or is stopped by what it runs.
SessionEnds(g, i) ==
  /\ sessions[g][i] = "live"
  /\ sessions' = [sessions EXCEPT ![g][i] = "ended"]
  /\ UNCHANGED <<bridgeVars, closed, cancelled, callVars>>

CallStep(c) ==
  \/ TcInit(c) \/ CurrentEngine(c) \/ TcShutdown(c)
  \/ CallReturns(c) \/ NewSession(c) \/ Lookup(c)

\* The rest of stopSession and Close: what a caller does once it has begun.
EndStep(c) == StopOne(c) \/ StopReturns(c) \/ Close(c) \/ CloseReturns(c)

Next ==
  \/ \E c \in Caller : CallStep(c) \/ EndStep(c) \/ ClosersReturn(c)
  \/ \E g \in Engines : \E i \in DOMAIN sessions[g] : SessionEnds(g, i)

\* A caller goes on with what it has begun, except that nobody makes the closers
\* of a session return: a silent peer may keep fileshare.Client.Close for ever.
Spec == Init /\ [][Next]_vars /\ \A c \in Caller : WF_vars(EndStep(c))

-----------------------------------------------------------------------------
TypeOK ==
  /\ eng \in 0..made
  /\ made \in 0..MaxEngines
  /\ closed \in [Engines -> BOOLEAN]
  /\ cancelled \in [Engines -> BOOLEAN]
  /\ sessions \in [Engines -> Seq({"live", "ended"})]
  /\ pc \in [Caller -> {"idle", "call", "stop", "close", "closing"}]
  /\ held \in [Caller -> 0..made]
  /\ todo \in [Caller -> SUBSET Nat]
  /\ waits \in [Caller -> BOOLEAN]
  /\ \A c \in Caller : todo[c] # {} => todo[c] \subseteq DOMAIN sessions[held[c]]
  /\ \A g \in Engines : cancelled[g] => closed[g]

\* Nothing is orphaned: a live session can be reached through the current
\* engine, or a tc_shutdown that has not returned is going to stop it.  A
\* tc_call that took the engine before the shutdown cannot start one behind
\* its back (main.go tc_shutdown, engine.go Close and newSession).
NoOrphanSession ==
  \A g \in Engines : \A i \in DOMAIN sessions[g] :
    sessions[g][i] = "live" =>
      \/ g = eng
      \/ \E c \in Caller :
           /\ held[c] = g
           /\ pc[c] = "close" \/ (pc[c] = "closing" /\ i \in todo[c])

AllEnded(g) == \A i \in DOMAIN sessions[g] : sessions[g][i] = "ended"

\* An engine that was taken away does get closed with all it runs, whatever calls
\* are still in it, if no peer keeps the closers of a session for ever.
ShutdownCompletes ==
  (\A c \in Caller : []<>~waits[c]) =>
    \A g \in Engines : closed[g] ~> [](cancelled[g] /\ AllEnded(g))
=============================================================================
