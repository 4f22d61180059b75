------------------------------ MODULE EventQueue ------------------------------
(***************************************************************************)
(* The queue between the engine's goroutines and the poller:               *)
(* core/engine/events.go.  Push and Drain each run under q.mu, so each is  *)
(* one step.  An event is named by its place in the order in which pushes  *)
(* got the lock.                                                           *)
(***************************************************************************)
EXTENDS Naturals, Sequences, SequencesExt

CONSTANTS
  MaxQueued,   \* maxQueuedEvents: 5000 in the code
  MaxPushes,   \* bound on the pushes of a behaviour
  Notice       \* the event that tells of an overflow

\* With a single slot, half of it is nothing and the queue would grow.
ASSUME MaxQueuedAtLeast2 == MaxQueued \in Nat /\ MaxQueued >= 2
ASSUME MaxPushesNat == MaxPushes \in Nat
ASSUME NoticeIsNoEvent == Notice \notin Nat

VARIABLES
  events,    \* q.events
  dropped,   \* q.dropped
  pushes,    \* how many events were pushed
  batch      \* what the last Drain returned

queueVars == <<events, dropped, pushes, batch>>

QueueInit ==
  /\ events = <<>>
  /\ dropped = 0
  /\ pushes = 0
  /\ batch = <<>>

\* The queue with its oldest n events dropped.
DropOldest(n) == SubSeq(events, n + 1, Len(events))

\* A queue that is full by one event too many.
PushLate ==
  /\ pushes < MaxPushes
  /\ pushes' = pushes + 1
  /\ LET n == IF Len(events) > MaxQueued THEN Len(events) \div 2 ELSE 0
     IN /\ dropped' = dropped + n
        /\ events' = Append(DropOldest(n), pushes')
  /\ UNCHANGED batch

\* A full queue drops what is being pushed.
PushDropsNewest ==
  /\ pushes < MaxPushes
  /\ pushes' = pushes + 1
  /\ IF Len(events) >= MaxQueued
     THEN dropped' = dropped + 1 /\ UNCHANGED events
     ELSE events' = Append(events, pushes') /\ UNCHANGED dropped
  /\ UNCHANGED batch

\* Push: a full queue first loses its oldest half.
Push ==
  /\ pushes < MaxPushes
  /\ pushes' = pushes + 1
  /\ LET n == IF Len(events) >= MaxQueued THEN Len(events) \div 2 ELSE 0
     IN /\ dropped' = dropped + n
        /\ events' = Append(DropOldest(n), pushes')
  /\ UNCHANGED batch

\* Drain that forgets the loss when it hands out the events.
DrainSilently ==
  /\ batch' = events
  /\ events' = <<>>
  /\ dropped' = 0
  /\ UNCHANGED pushes

\* Drain: nothing when the queue is empty, else everything in it, after the
\* notice if something was dropped.
Drain ==
  /\ IF events = <<>>
     THEN /\ batch' = <<>>
          /\ UNCHANGED <<events, dropped>>
     ELSE /\ batch' = (IF dropped > 0 THEN <<Notice>> ELSE <<>>) \o events
          /\ events' = <<>>
          /\ dropped' = 0
  /\ UNCHANGED pushes

QueueNext == Push \/ Drain

\* The poller's timer keeps calling Drain.
QueueSpec == QueueInit /\ [][QueueNext]_queueVars /\ WF_queueVars(Drain)

-----------------------------------------------------------------------------
\* The queue never exceeds its bound ("bounds the queue", events.go), and a
\* loss leaves something behind to be announced with.
QueueTypeOK ==
  /\ events \in Seq(Nat)
  /\ Len(events) <= MaxQueued
  /\ dropped \in Nat
  /\ pushes \in Nat
  /\ batch \in Seq(Nat \cup {Notice})
  /\ dropped > 0 => events # <<>>

\* The queue holds an unbroken run that ends with the newest event: an overflow
\* in the middle of anything loses the oldest events and only those.
NewestKept ==
  \A i \in DOMAIN events : events[i] = pushes - Len(events) + i

\* The poller's view: in order, at most once, no silent loss.
Feed == INSTANCE EventFeed WITH
  sent <- pushes, settled <- pushes - Len(events), gap <- (dropped > 0)

ImplementsFeed == Feed!Spec
=============================================================================
