------------------------------- MODULE UiSync -------------------------------
(***************************************************************************)
(* How the app comes to show the sessions of the core:                     *)
(* app/lib/core/engine.dart (the poll of the event queue),                 *)
(* app/lib/core/providers.dart (SessionsNotifier) and Session.fromJson of  *)
(* app/lib/core/models.dart.                                               *)
(*                                                                         *)
(* The core is here what its events can tell: each session is a server,    *)
(* with a worker that starts it and a stop that may come at any time; both *)
(* push the event of what they did after they have let go of the session's *)
(* lock.  The core outlives the app's screen: Android may destroy the      *)
(* activity and its Dart isolates and start main() again in a process in   *)
(* which sessions still run (Restart).                                     *)
(***************************************************************************)
EXTENDS Naturals, Sequences

CONSTANTS
  Id,         \* sessions
  MaxQueue,   \* the bound of the event queue
  MaxRestart, \* bound: how often main() runs again
  None        \* nothing pending, no entry, no row

ASSUME MaxQueueAssumption == MaxQueue \in Nat \ {0, 1}
ASSUME MaxRestartAssumption == MaxRestart \in Nat

VARIABLES
  core,     \* of each session the core's state and whether it has a token
  worker,   \* where the goroutine of startServer is
  pending,  \* the event a worker or a stop has still to push
  last,     \* the state in the session's last pushed event
  queue,    \* EventQueue.events
  lossy,    \* the queue has dropped events
  stream,   \* Engine._events: added, not yet delivered
  active,   \* Engine._active
  timer,    \* Engine._currentInterval: "idle" or "active"
  seed,     \* where SessionsNotifier._seed is
  rows,     \* the answer of list_sessions
  ui,       \* SessionsNotifier.state
  removed,  \* sessions the user took off the list
  restarts

coreVars == <<core, worker, pending, last, queue, lossy>>
uiVars == <<stream, active, timer, seed, rows, ui, removed, restarts>>
vars == <<coreVars, uiVars>>

States == {"starting", "running", "ended"}
Entry == [state : States, token : BOOLEAN]
StateEvent(id, s) == [type |-> "session_state", id |-> id, state |-> s]
TokenEvent(id) == [type |-> "token_ready", id |-> id]
Event == {StateEvent(id, s) : id \in Id, s \in States} \cup {TokenEvent(id) : id \in Id}

ASSUME NoneIsNothing == None \notin Entry \cup Event \cup States

Init ==
  /\ core = [id \in Id |-> None]
  /\ worker = [id \in Id |-> "none"]
  /\ pending = [t \in {"worker", "stop"} |-> [id \in Id |-> None]]
  /\ last = [id \in Id |-> None]
  /\ queue = <<>>
  /\ lossy = FALSE
  /\ stream = <<>>
  /\ active = {}
  /\ timer = "idle"
  /\ seed = "none"
  /\ rows = [id \in Id |-> None]
  /\ ui = [id \in Id |-> None]
  /\ removed = {}
  /\ restarts = 0

-----------------------------------------------------------------------------
(* The core.                                                               *)

\* newSession, for a call of a screen that is there.
NewSession(id) ==
  /\ core[id] = None
  /\ seed # "none"
  /\ core' = [core EXCEPT ![id] = [state |-> "starting", token |-> FALSE]]
  /\ worker' = [worker EXCEPT ![id] = "starting"]
  /\ UNCHANGED <<pending, last, queue, lossy, uiVars>>

\* setState by t: an ended session stays as it is and nothing is told.
SetState(t, id, s) ==
  /\ pending[t][id] = None
  /\ IF core[id].state = "ended"
     THEN UNCHANGED <<core, pending>>
     ELSE /\ core' = [core EXCEPT ![id] = [state |-> s, token |-> @.token]]
          /\ pending' = [pending EXCEPT ![t][id] = StateEvent(id, s)]
  /\ UNCHANGED <<last, queue, lossy>>

Work(id, from, to) ==
  /\ worker[id] = from
  /\ worker' = [worker EXCEPT ![id] = to]

WorkerStarting(id) ==
  /\ Work(id, "starting", "start")
  /\ SetState("worker", id, "starting")
  /\ UNCHANGED uiVars

\* srv.Start returned; setToken.
WorkerToken(id) ==
  /\ Work(id, "start", "running")
  /\ pending["worker"][id] = None
  /\ core' = [core EXCEPT ![id] = [state |-> @.state, token |-> TRUE]]
  /\ pending' = [pending EXCEPT !["worker"][id] = TokenEvent(id)]
  /\ UNCHANGED <<last, queue, lossy, uiVars>>

WorkerFails(id) ==
  /\ Work(id, "start", "halt")
  /\ SetState("worker", id, "ended")
  /\ UNCHANGED uiVars

WorkerRunning(id) ==
  /\ Work(id, "running", "halt")
  /\ SetState("worker", id, "running")
  /\ UNCHANGED uiVars

\* stop, by the user or by anyone else.
Stop(id) ==
  /\ core[id] # None
  /\ core[id].state # "ended"
  /\ SetState("stop", id, "ended")
  /\ UNCHANGED <<worker, uiVars>>

\* Push of a queue without a bound.
PushUnbounded(t, id) ==
  /\ pending[t][id] # None
  /\ LET e == pending[t][id]
     IN  /\ queue' = Append(queue, e)
         /\ last' = IF e.type = "session_state" THEN [last EXCEPT ![id] = e.state] ELSE last
  /\ pending' = [pending EXCEPT ![t][id] = None]
  /\ UNCHANGED <<core, worker, lossy, uiVars>>

\* EventQueue.Push of what the unlock left to push.
Push(t, id) ==
  /\ pending[t][id] # None
  /\ LET e == pending[t][id]
         full == Len(queue) >= MaxQueue
         kept == IF full THEN SubSeq(queue, Len(queue) \div 2 + 1, Len(queue)) ELSE queue
     IN  /\ queue' = Append(kept, e)
         /\ lossy' = (lossy \/ full)
         /\ last' = IF e.type = "session_state" THEN [last EXCEPT ![id] = e.state] ELSE last
  /\ pending' = [pending EXCEPT ![t][id] = None]
  /\ UNCHANGED <<core, worker, uiVars>>

-----------------------------------------------------------------------------
(* engine.dart.                                                            *)

Tells(e, id) == e.type = "session_state" /\ e.id = id

\* Event i of q is the last one that tells the state of the session.
LastTells(q, id, i) ==
  i \in DOMAIN q /\ Tells(q[i], id) /\ \A j \in i + 1 .. Len(q) : ~Tells(q[j], id)

Silent(q, id) == \A i \in DOMAIN q : ~Tells(q[i], id)

\* _active after the events of q: the last one that tells a state counts.
ActiveAfter(q) ==
  {id \in Id : \/ Silent(q, id) /\ id \in active
               \/ \E i \in DOMAIN q : LastTells(q, id, i) /\ q[i].state # "ended"}

\* _schedule that never slows down.
ScheduleFaster == timer' = IF active' = {} THEN timer ELSE "active"

\* _schedule: the interval follows _active.
Schedule == timer' = IF active' = {} THEN "idle" ELSE "active"

\* pump.  A broadcast stream drops what is added while nobody listens.
Drain ==
  /\ active' = ActiveAfter(queue)
  /\ stream' = IF seed = "none" THEN stream ELSE stream \o queue
  /\ queue' = <<>>
  /\ Schedule

\* pump by the timer or behind the answer of some call.
Pump ==
  /\ queue # <<>>
  /\ Drain
  /\ UNCHANGED <<core, worker, pending, last, lossy, seed, rows, ui, removed, restarts>>

-----------------------------------------------------------------------------
(* providers.dart, SessionsNotifier.                                       *)

\* A constructor that only listens.
ListenOnly ==
  /\ seed = "none"
  /\ seed' = "done"
  /\ UNCHANGED <<coreVars, stream, active, timer, rows, ui, removed, restarts>>

\* The constructor: listen, then _seed sends list_sessions to an isolate.
Listen ==
  /\ seed = "none"
  /\ seed' = "called"
  /\ UNCHANGED <<coreVars, stream, active, timer, rows, ui, removed, restarts>>

\* The core answers with a row for each session.
SeedAnswer ==
  /\ seed = "called"
  /\ rows' = core
  /\ seed' = "answered"
  /\ UNCHANGED <<coreVars, stream, active, timer, ui, removed, restarts>>

\* The call fails, without a pump, and _seed swallows the error.
SeedFails ==
  /\ seed = "called"
  /\ seed' = "failed"
  /\ UNCHANGED <<coreVars, stream, active, timer, rows, ui, removed, restarts>>

\* Engine.call goes on with the answer: it pumps before it returns.
SeedReturn ==
  /\ seed = "answered"
  /\ Drain
  /\ seed' = "returned"
  /\ UNCHANGED <<core, worker, pending, last, lossy, rows, ui, removed, restarts>>

\* The rest of _seed with rows that win over what is there.
SeedOverwrite ==
  /\ seed = "returned"
  /\ ui' = [id \in Id |-> IF rows[id] # None THEN rows[id] ELSE ui[id]]
  /\ rows' = [id \in Id |-> None]
  /\ seed' = "done"
  /\ UNCHANGED <<coreVars, stream, active, timer, removed, restarts>>

\* The rest of _seed, in a later microtask: a row counts only for a session
\* that is not there yet.
SeedMerge ==
  /\ seed = "returned"
  /\ ui' = [id \in Id |-> IF ui[id] # None THEN ui[id] ELSE rows[id]]
  /\ rows' = [id \in Id |-> None]
  /\ seed' = "done"
  /\ UNCHANGED <<coreVars, stream, active, timer, removed, restarts>>

\* The entry after event e.  A state event has no token: the previous entry's
\* stays.  A token for a session that is not there goes nowhere.
Reduced(entry, e) ==
  IF e.type = "session_state"
  THEN [state |-> e.state, token |-> entry # None /\ entry.token]
  ELSE IF entry = None THEN None ELSE [state |-> entry.state, token |-> TRUE]

\* _onEvent, one event in each microtask.
Deliver ==
  /\ stream # <<>>
  /\ LET e == Head(stream) IN ui' = [ui EXCEPT ![e.id] = Reduced(@, e)]
  /\ stream' = Tail(stream)
  /\ UNCHANGED <<coreVars, active, timer, seed, rows, removed, restarts>>

\* remove: only what is not active.
Remove(id) ==
  /\ ui[id] # None
  /\ ui[id].state = "ended"
  /\ ui' = [ui EXCEPT ![id] = None]
  /\ removed' = removed \cup {id}
  /\ UNCHANGED <<coreVars, stream, active, timer, seed, rows, restarts>>

\* main() again, over a core that went on: tc_init leaves its engine alone.
Restart ==
  /\ restarts < MaxRestart
  /\ restarts' = restarts + 1
  /\ stream' = <<>>
  /\ active' = {}
  /\ timer' = "idle"
  /\ seed' = "none"
  /\ rows' = [id \in Id |-> None]
  /\ ui' = [id \in Id |-> None]
  /\ removed' = {}
  /\ UNCHANGED coreVars

-----------------------------------------------------------------------------
CoreStep(id) ==
  \/ WorkerStarting(id) \/ WorkerToken(id) \/ WorkerFails(id) \/ WorkerRunning(id)
  \/ \E t \in {"worker", "stop"} : Push(t, id)

UiStep ==
  Pump \/ Listen \/ SeedAnswer \/ SeedFails \/ SeedReturn \/ SeedMerge \/ Deliver

\* Nothing more to do: the app waits for its user.
Idle ==
  /\ queue = <<>> /\ stream = <<>> /\ seed \in {"done", "failed"}
  /\ \A id \in Id : core[id] # None /\ core[id].state = "ended"
  /\ UNCHANGED vars

Next ==
  \/ \E id \in Id : NewSession(id) \/ Stop(id) \/ CoreStep(id) \/ Remove(id)
  \/ UiStep
  \/ Restart
  \/ Idle

\* Goroutines run, the timer ticks, calls are answered and microtasks run.
\* Nobody has to start, to stop or to remove a session.
Fairness ==
  /\ \A id \in Id, t \in {"worker", "stop"} : WF_vars(Push(t, id))
  /\ WF_vars(Pump)
  /\ WF_vars(Listen)
  /\ WF_vars(SeedAnswer \/ SeedFails)
  /\ WF_vars(SeedReturn)
  /\ WF_vars(SeedMerge)
  /\ WF_vars(Deliver)

Spec == Init /\ [][Next]_vars /\ Fairness

-----------------------------------------------------------------------------
TypeOK ==
  /\ core \in [Id -> Entry \cup {None}]
  /\ worker \in [Id -> {"none", "starting", "start", "running", "halt"}]
  /\ pending \in [{"worker", "stop"} -> [Id -> Event \cup {None}]]
  /\ last \in [Id -> States \cup {None}]
  /\ queue \in Seq(Event) /\ Len(queue) <= MaxQueue
  /\ lossy \in BOOLEAN
  /\ stream \in Seq(Event)
  /\ active \subseteq Id
  /\ timer \in {"idle", "active"}
  /\ seed \in {"none", "called", "answered", "returned", "done", "failed"}
  /\ rows \in [Id -> Entry \cup {None}]
  /\ ui \in [Id -> Entry \cup {None}]
  /\ removed \subseteq Id
  /\ restarts \in 0 .. MaxRestart

\* Nothing is on its way from the core to the screen, which has got the rows.
Quiet ==
  /\ seed = "done" /\ queue = <<>> /\ stream = <<>>
  /\ \A id \in Id, t \in {"worker", "stop"} : pending[t][id] = None

\* The last event of the session tells its state: the events of two racing
\* state changes were not pushed in the other order.
InOrder(id) == core[id] # None /\ last[id] = core[id].state

\* When nothing is on its way, every session of the core that the user has not
\* removed is shown, with the core's state: neither the rows of list_sessions
\* nor the order of events and answers, nor a restart of the app, leave an old
\* state behind (providers.dart, _seed and _onEvent).  A full queue loses events for good, and
\* the screen may stay behind: hence ~lossy.
ShowsTheCore ==
  Quiet /\ ~lossy =>
    \A id \in Id \ removed :
      InOrder(id) => ui[id] # None /\ ui[id].state = core[id].state

\* "Polls ... on a timer that runs fast while sessions are active and slowly
\* otherwise": the poll slows down when every session has ended.
PollSlowsDown ==
  Quiet /\ ~lossy /\ (\A id \in Id : core[id] # None => InOrder(id) /\ core[id].state = "ended")
    => timer = "idle"

\* The end of a session reaches the screen, also of one that ended while the app
\* was not there to hear it, unless list_sessions failed (providers.dart, _seed).
EndShown ==
  \A id \in Id :
    (InOrder(id) /\ core[id].state = "ended") ~>
      \/ ui[id] # None /\ ui[id].state = "ended"
      \/ id \in removed \/ lossy \/ ~InOrder(id) \/ seed = "failed"

\* "sessions reduce state, token, path and errors" (engine_test.dart): when
\* nothing is on its way, a running server is shown with its token.
TokenShown ==
  Quiet /\ ~lossy =>
    \A id \in Id :
      core[id] # None /\ core[id].state = "running" /\ ui[id] # None => ui[id].token
=============================================================================
