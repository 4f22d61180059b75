------------------------------ MODULE EventFeed ------------------------------
(***************************************************************************)
(* What the event queue promises to the poller: events arrive in the order *)
(* they were pushed, each at most once; some may be lost, but only the     *)
(* oldest ones waiting and never the newest; and the first batch after a   *)
(* loss begins with a notice.  Events are named by their place in the      *)
(* order of pushes.  EventQueue implements this.                           *)
(***************************************************************************)
EXTENDS Naturals, Sequences

CONSTANT Notice   \* the overflow event, none of the numbers

VARIABLES
  sent,    \* how many events were pushed
  settled, \* events up to this one were delivered or lost
  gap,     \* some were lost since the last batch
  batch    \* the last batch delivered

vars == <<sent, settled, gap, batch>>

\* The events from a to b, in order.
Run(a, b) == [i \in 1..(b - a + 1) |-> a + i - 1]

TypeOK ==
  /\ sent \in Nat
  /\ settled \in 0..sent
  /\ gap \in BOOLEAN
  /\ batch \in Seq(Nat \cup {Notice})

Init ==
  /\ sent = 0
  /\ settled = 0
  /\ gap = FALSE
  /\ batch = <<>>

\* An event is pushed; older ones may get lost to make room.
Send ==
  /\ sent' = sent + 1
  /\ settled' \in settled..sent
  /\ gap' = (gap \/ settled' # settled)
  /\ UNCHANGED batch

\* The poller takes everything that waits.
Receive ==
  /\ settled < sent
  /\ batch' = (IF gap THEN <<Notice>> ELSE <<>>) \o Run(settled + 1, sent)
  /\ settled' = sent
  /\ gap' = FALSE
  /\ UNCHANGED sent

\* The poller finds nothing.
ReceiveNothing ==
  /\ settled = sent
  /\ batch' = <<>>
  /\ UNCHANGED <<sent, settled, gap>>

Next == Send \/ Receive \/ ReceiveNothing

Spec == Init /\ [][Next]_vars
=============================================================================
