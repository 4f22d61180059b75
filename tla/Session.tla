------------------------------- MODULE Session -------------------------------
(***************************************************************************)
(* The session object of core/engine/session.go: the part that every kind  *)
(* of session shares.  Several goroutines work on one session at a time:   *)
(*   "caller"  the tc_call that runs start_* (or list_remote),             *)
(*   "worker"  the goroutine it spawns (warm-up, server start, transfer),  *)
(*   "aux"     the accept loop of a forward or SOCKS listener,             *)
(*   Handler   one goroutine per accepted connection,                      *)
(*   Stopper   one Session.stop each: stop commands and Engine.Close.      *)
(* Forward, Serve and Transfer EXTEND this module with their goroutines.   *)
(*                                                                         *)
(* A step is what a goroutine does inside s.mu, or one call outside it.    *)
(* What a call leaves for its goroutine to do after s.mu is unlocked is    *)
(* kept in pend (an event to Push) and toClose (closers to Close); At      *)
(* makes the goroutine finish that before it goes on.                      *)
(***************************************************************************)
EXTENDS Naturals, Sequences, SequencesExt, FiniteSets

CONSTANTS
  Handler,   \* accepted connections
  Stopper    \* calls of Session.stop

Goroutine == {"caller", "worker", "aux"}

Thread == Goroutine \cup Handler \cup Stopper

ASSUME ThreadsDistinct ==
  /\ Goroutine \cap (Handler \cup Stopper) = {}
  /\ Handler \cap Stopper = {}

\* Everything a session of some kind opens and must close.
Resource == {"client", "listener", "share", "server", "files"}

Ended == {"done", "stopped", "failed"}
State == {"starting", "running"} \cup Ended

\* The events of a session that the model keeps: its session_state events by
\* their state, token_ready and the session_failed error.
EventName == State \cup {"token", "error"}

VARIABLES
  state,      \* s.state
  cancelled,  \* s.ctx is cancelled
  closed,     \* s.closed
  closers,    \* s.closers
  res,        \* "absent", "open" or "closed", for each resource
  told,       \* the session's events, in the order they entered the queue
  pc,         \* where each thread is
  pend,       \* the event it has still to Push, or "none"
  toClose     \* the closers it has still to Close, next first

sessionVars ==
  <<state, cancelled, closed, closers, res, told, pc, pend, toClose>>

-----------------------------------------------------------------------------
(* Methods that run under s.mu, as parts of actions.                       *)

At(t, l) == pc[t] = l /\ pend[t] = "none" /\ toClose[t] = <<>>

Go(t, l) == pc' = [pc EXCEPT ![t] = l]

\* setState without the check that keeps terminal states.
SetStateNotSticky(t, st) ==
  /\ state' = st
  /\ pend' = [pend EXCEPT ![t] = st]

\* setState under the lock.  The event is built here and pushed later, after
\* the unlock.  The early return for an unchanged state and detail is covered
\* by the one for ended states: live states are never set twice alike.
SetState(t, st) ==
  IF state \in Ended
  THEN UNCHANGED <<state, pend>>
  ELSE /\ state' = st
       /\ pend' = [pend EXCEPT ![t] = st]

\* addCloser that appends whether or not the session is closed.
AddCloserAlways(t, r) ==
  /\ closers' = Append(closers, r)
  /\ UNCHANGED toClose

\* addCloser: a closed session takes nothing more, the caller closes r itself.
AddCloser(t, r) ==
  IF closed
  THEN /\ toClose' = [toClose EXCEPT ![t] = <<r>>]
       /\ UNCHANGED closers
  ELSE /\ closers' = Append(closers, r)
       /\ UNCHANGED toClose

\* A thread acquires r, which it then owns until it registers or closes it.
Open(r) == res' = [res EXCEPT ![r] = "open"]

-----------------------------------------------------------------------------
(* Steps every thread may have to take.                                    *)

\* Push of the event that setState or setToken built.
PushEvent(t) ==
  /\ pend[t] # "none"
  /\ told' = Append(told, pend[t])
  /\ pend' = [pend EXCEPT ![t] = "none"]
  /\ UNCHANGED <<state, cancelled, closed, closers, res, pc, toClose>>

\* One Close, outside the lock.
CloseNext(t) ==
  /\ toClose[t] # <<>>
  /\ res' = [res EXCEPT ![Head(toClose[t])] = "closed"]
  /\ toClose' = [toClose EXCEPT ![t] = Tail(@)]
  /\ UNCHANGED <<state, cancelled, closed, closers, told, pc, pend>>

\* fail: the error event first, ...
EmitError(t) ==
  /\ At(t, "fail")
  /\ told' = Append(told, "error")
  /\ Go(t, "failed")
  /\ UNCHANGED <<state, cancelled, closed, closers, res, pend, toClose>>

\* setState(st) of a thread that calls shutdown next.
Finish(t, st) ==
  /\ SetState(t, st)
  /\ Go(t, "cancel")
  /\ UNCHANGED <<cancelled, closed, closers, res, told, toClose>>

\* ... then the state, then shutdown.
EnterFailed(t) == At(t, "failed") /\ Finish(t, "failed")

\* stop: the state, then shutdown.
Stop(t) == At(t, "stop") /\ Finish(t, "stopped")

\* shutdown cancels the context before it takes the lock, ...
Cancel(t) ==
  /\ At(t, "cancel")
  /\ cancelled' = TRUE
  /\ Go(t, "take")
  /\ UNCHANGED <<state, closed, closers, res, told, pend, toClose>>

\* shutdown without the check of s.closed, and without the reset of s.closers.
TakeAgain(t) ==
  /\ At(t, "take")
  /\ closed' = TRUE
  /\ toClose' = [toClose EXCEPT ![t] = Reverse(closers)]
  /\ Go(t, "halt")
  /\ UNCHANGED <<state, cancelled, closers, res, told, pend>>

\* shutdown that copies the closers but forgets to set s.closed.
TakeWithoutClosed(t) ==
  /\ At(t, "take")
  /\ toClose' = [toClose EXCEPT ![t] = Reverse(closers)]
  /\ closers' = <<>>
  /\ Go(t, "halt")
  /\ UNCHANGED <<state, cancelled, closed, res, told, pend>>

\* ... then takes the closers, once, to close them in reverse order.
TakeClosers(t) ==
  /\ At(t, "take")
  /\ IF closed
     THEN UNCHANGED <<closed, closers, toClose>>
     ELSE /\ closed' = TRUE
          /\ toClose' = [toClose EXCEPT ![t] = Reverse(closers)]
          /\ closers' = <<>>
  /\ Go(t, "halt")
  /\ UNCHANGED <<state, cancelled, res, told, pend>>

\* What t does inside session.go once it has begun.
SessionStep(t) ==
  \/ PushEvent(t)
  \/ CloseNext(t)
  \/ EmitError(t)
  \/ EnterFailed(t)
  \/ Cancel(t)
  \/ TakeClosers(t)

\* newSession: the fields every kind starts from.  res and pc are the kind's.
SessionInit ==
  /\ state = "starting"
  /\ cancelled = FALSE
  /\ closed = FALSE
  /\ closers = <<>>
  /\ told = <<>>
  /\ pend = [t \in Thread |-> "none"]
  /\ toClose = [t \in Thread |-> <<>>]

-----------------------------------------------------------------------------
(* Properties of the session object, whatever its kind.                    *)

SessionTypeOK ==
  /\ state \in State
  /\ cancelled \in BOOLEAN
  /\ closed \in BOOLEAN
  /\ closers \in Seq(Resource)
  /\ res \in [Resource -> {"absent", "open", "closed"}]
  /\ told \in Seq(EventName)
  /\ pend \in [Thread -> EventName \cup {"none"}]
  /\ toClose \in [Thread -> Seq(Resource)]

\* t has nothing in hand: it has returned or was never called.
Quiet(t) ==
  /\ pc[t] \in {"halt", "idle", "stop"}
  /\ pend[t] = "none"
  /\ toClose[t] = <<>>

AllQuiet == \A t \in Thread : Quiet(t)

\* shutdown is final: whichever of its callers got there first, a closed
\* session has ended, its context is cancelled, and addCloser adds nothing to
\* the list that nobody would ever close (session.go, shutdown and addCloser).
ClosedIsFinal ==
  closed => /\ state \in Ended
            /\ cancelled
            /\ closers = <<>>

\* Nothing leaks: once a session is shut down and its goroutines have
\* returned, everything any of them opened is closed, also what was being
\* opened while another goroutine shut the session down.
NoLeak ==
  closed /\ AllQuiet => \A r \in Resource : res[r] # "open"

\* Where a resource waits to be closed: on the session's list, or with a thread
\* that has taken it from there or could not add it.
Registered(r) == \E i \in DOMAIN closers : closers[i] = r
InHand(t, r) == \E i \in DOMAIN toClose[t] : toClose[t][i] = r

\* Nothing is closed twice: what is still to be closed, by shutdown or by an
\* addCloser that came late, is open and is in one place once.
ClosedOnce ==
  /\ IsInjective(closers)
  /\ \A t \in Thread : IsInjective(toClose[t])
  /\ \A r \in Resource : Registered(r) => res[r] = "open"
  /\ \A r \in Resource, t \in Thread :
       InHand(t, r) => /\ res[r] = "open"
                       /\ ~Registered(r)
                       /\ \A u \in Thread \ {t} : ~InHand(u, r)

\* The end of a session is reported once, as the end it really had, however
\* many of stop, fail and completion race; it is never left unreported.
EndReportedOnce ==
  LET ends == {i \in DOMAIN told : told[i] \in Ended}
  IN /\ \A i, j \in ends : i = j
     /\ \A i \in ends : told[i] = state
     /\ state \in Ended /\ AllQuiet => ends # {}

\* An ended session lets go of everything it opened, for good, also of what
\* its goroutines were still acquiring when it ended.
EndReleases ==
  state \in Ended ~> [](closed /\ \A r \in Resource : res[r] # "open")

\* The session is a Lifecycle.
Life == INSTANCE Lifecycle WITH phase <- state, disposed <- closed

ImplementsLifecycle == Life!Spec
=============================================================================
