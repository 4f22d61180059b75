---------------------------- MODULE ForwardProofs ----------------------------
(***************************************************************************)
(* Proofs about Forward, for any number of connections and of stops and    *)
(* any number of dial attempts.  FInv is the inductive invariant; what     *)
(* session.go contributes to it is proved in SessionProofs.                *)
(***************************************************************************)
EXTENDS Forward, SessionProofs

\* Where the caller holds what it has not registered yet.
Held(r) ==
  \/ r = "listener" /\ pc["caller"] \in {"newClient", "addClient", "addListener"}
  \/ r = "client" /\ pc["caller"] = "addClient"

\* Whatever is open is in one place: on its way to being closed, or still in the
\* caller's hands.  The client that newClient is about to create is not open yet.
Owned ==
  /\ ClosedOnce
  /\ \A r \in Resource :
       /\ res[r] = "open" => Accounted(r) \/ Held(r)
       /\ Held(r) => res[r] = "open" /\ ~Accounted(r)
  /\ pc["caller"] = "newClient" => res["client"] # "open"

ForwardTypeOK ==
  /\ kind \in {"forward", "socks"}
  /\ ready \in BOOLEAN
  /\ tries \in [Handler -> 0..MaxDial]

\* A connection that dials does so for a tunnel that is up, and has an attempt left.
DialInv ==
  \A h \in Handler :
    /\ pc[h] \in {"idle", "negotiate", "wait"} => tries[h] = 0
    /\ pc[h] = "dial" => tries[h] < MaxDial
    /\ pc[h] \in {"dial", "proxy"} => ready

\* "running" is first a step of the worker, then the state, then an event to
\* push, then one that was pushed; the tunnel is up before all of them.
ReadyInv ==
  /\ pc["worker"] = "setRunning" => ready
  /\ state = "running" => ready
  /\ \A t \in Thread : pend[t] = "running" => ready
  /\ \A i \in DOMAIN told : told[i] = "running" => ready

\* The worker starts after the caller has registered everything, and until it
\* reports running nobody else does.
NotYetRunning ==
  /\ pc["caller"] \in {"newClient", "addClient", "addListener", "spawn"}
       => pc["worker"] = "idle"
  /\ pc["worker"] \in {"idle", "start", "warm", "warmError", "up", "setRunning"}
       => state # "running"

FInv ==
  /\ CoreInv(Label)
  /\ ForwardTypeOK
  /\ Owned
  /\ EndInv
  /\ DialInv
  /\ ReadyInv
  /\ NotYetRunning

-----------------------------------------------------------------------------
\* A forward starts with its listener in the caller's hands and all else at rest.
LEMMA InitFInv == Init => FInv
<1> SUFFICES ASSUME Init PROVE FInv
  OBVIOUS
<1>0. res \in [Resource -> {"absent", "open", "closed"}] /\ SessionInit
  BY DEF Init
<1>1. CoreInv(Label)
  <2>1. pc \in [Thread -> Label \ {"cancel", "take"}]
    BY DEF Init, Label
  <2>2. QED
    BY <1>0, <2>1, NewSession DEF CoreInv, ShutdownOrder, SharedLabel, Label
<1>2. ForwardTypeOK
  <2>1. tries \in [Handler -> 0..MaxDial]
    BY MaxDialPositive DEF Init
  <2>2. ready = FALSE
    BY DEF Init
  <2>3. ready \in BOOLEAN
    BY <2>2
  <2>4. QED
    BY <2>1, <2>3 DEF Init, ForwardTypeOK
<1>3. pc["caller"] = "newClient" /\ pc["worker"] = "idle"
  BY ThreadsDistinct DEF Init, Thread, Goroutine
<1>4. Owned /\ EndInv
  <2>1. \A r \in Resource : res[r] = "open" <=> Held(r)
    BY <1>3 DEF Init, Held
  <2>2. res["client"] # "open"
    BY DEF Init, Resource
  <2>3. QED
    BY <1>0, <2>1, <2>2, NewSession DEF Owned
<1>5. DialInv
  BY ThreadsDistinct, MaxDialPositive DEF Init, DialInv, Thread, Goroutine
<1>6. ReadyInv /\ NotYetRunning
  BY <1>3 DEF Init, SessionInit, ReadyInv, NotYetRunning
<1>7. QED
  BY <1>1, <1>2, <1>4, <1>5, <1>6 DEF FInv

-----------------------------------------------------------------------------
\* The threads are different from one another.
LEMMA Threads ==
  /\ {"caller", "worker", "aux"} \subseteq Thread
  /\ Handler \subseteq Thread /\ Stopper \subseteq Thread
  /\ \A h \in Handler : h \notin {"caller", "worker", "aux"}
  /\ \A t \in Stopper : t \notin {"caller", "worker", "aux"} /\ t \notin Handler
  BY ThreadsDistinct DEF Thread, Goroutine

\* newClient and addCloser: the caller takes the client and gives both away.
LEMMA CallerFInv ==
  ASSUME FInv, CallerStep
  PROVE  FInv'
<1> USE Threads DEF FInv, At, Go
<1>1. CASE NewClient
  <2>1. SessionTypeOK'
    BY <1>1 DEF NewClient, Open, CoreInv, SessionTypeOK, Resource
  <2>2. CoreInv(Label)'
    BY <1>1, <2>1, MoveCore, "addClient" \in Label \ {"cancel", "take"} DEF NewClient, Label
  <2>3. Owned'
    <3>1. /\ res'["client"] = "open"
          /\ \A r \in Resource : r # "client" => res'[r] = res[r]
      BY <1>1 DEF NewClient, Open, CoreInv, SessionTypeOK, Resource
    <3>2. ClosedOnce' /\ \A r \in Resource : Accounted(r)' <=> Accounted(r)
      BY <1>1, <3>1, OpenOnce DEF NewClient, Owned
    <3>3. \A r \in Resource : Held(r)' <=> Held(r) \/ r = "client"
      BY <1>1 DEF NewClient, Held, CoreInv
    <3>4. pc'["caller"] = "addClient" /\ ~Held("client") /\ "client" \in Resource
      BY <1>1 DEF NewClient, CoreInv, Held, Resource
    <3>5. ~Accounted("client")
      BY <1>1, <3>4 DEF NewClient, Owned, ClosedOnce, Accounted
    <3>6. QED
      BY <3>1, <3>2, <3>3, <3>4, <3>5 DEF Owned
  <2>4. EndInv'
    BY <1>1, OtherReports DEF NewClient, CoreInv
  <2>5. QED
    BY <1>1, <2>2, <2>3, <2>4
    DEF NewClient, forwardVars, ForwardTypeOK, DialInv, ReadyInv, NotYetRunning, CoreInv
<1>2. CASE RegisterClient
  <2>1. /\ toClose["caller"] = <<>>
        /\ AddCloser("caller", "client")
        /\ "client" \in Resource
    BY <1>2 DEF RegisterClient, Resource
  <2>2. /\ closers' \in Seq(Resource)
        /\ toClose' \in [Thread -> Seq(Resource)]
        /\ closed /\ closers = <<>> => closers' = <<>>
        /\ \A q \in Resource : Accounted(q) \/ q = "client" => Accounted(q)'
    BY <2>1, AddCloserAccounts DEF CoreInv
  <2>3. SessionTypeOK'
    BY <1>2, <2>2 DEF RegisterClient, CoreInv, SessionTypeOK
  <2>4. CoreInv(Label)'
    BY <1>2, <2>2, <2>3, MoveCore, "addListener" \in Label \ {"cancel", "take"}
    DEF RegisterClient, Label
  <2>5. Owned'
    <3>1. Held("client") /\ res' = res
      BY <1>2 DEF RegisterClient, Held
    <3>2. /\ ClosedOnce'
          /\ \A q \in Resource : Accounted(q)' <=> Accounted(q) \/ q = "client"
      BY <2>1, <3>1, AddCloserOnce DEF Owned, CoreInv
    <3>3. \A q \in Resource : Held(q)' <=> Held(q) /\ q # "client"
      BY <1>2 DEF RegisterClient, Held, CoreInv
    <3>4. pc'["caller"] # "newClient"
      BY <1>2 DEF RegisterClient, CoreInv
    <3>5. QED
      BY <2>1, <3>1, <3>2, <3>3, <3>4 DEF Owned
  <2>6. EndInv'
    BY <1>2, OtherReports DEF RegisterClient, CoreInv
  <2>7. QED
    BY <1>2, <2>4, <2>5, <2>6
    DEF RegisterClient, forwardVars, ForwardTypeOK, DialInv, ReadyInv, NotYetRunning, CoreInv
<1>3. CASE RegisterListener
  <2>1. /\ toClose["caller"] = <<>>
        /\ AddCloser("caller", "listener")
        /\ "listener" \in Resource
    BY <1>3 DEF RegisterListener, Resource
  <2>2. /\ closers' \in Seq(Resource)
        /\ toClose' \in [Thread -> Seq(Resource)]
        /\ closed /\ closers = <<>> => closers' = <<>>
        /\ \A q \in Resource : Accounted(q) \/ q = "listener" => Accounted(q)'
    BY <2>1, AddCloserAccounts DEF CoreInv
  <2>3. SessionTypeOK'
    BY <1>3, <2>2 DEF RegisterListener, CoreInv, SessionTypeOK
  <2>4. CoreInv(Label)'
    BY <1>3, <2>2, <2>3, MoveCore, "spawn" \in Label \ {"cancel", "take"}
    DEF RegisterListener, Label
  <2>5. Owned'
    <3>1. Held("listener") /\ res' = res
      BY <1>3 DEF RegisterListener, Held
    <3>2. /\ ClosedOnce'
          /\ \A q \in Resource : Accounted(q)' <=> Accounted(q) \/ q = "listener"
      BY <2>1, <3>1, AddCloserOnce DEF Owned, CoreInv
    <3>3. \A q \in Resource : Held(q)' <=> Held(q) /\ q # "listener"
      BY <1>3 DEF RegisterListener, Held, CoreInv
    <3>4. pc'["caller"] # "newClient"
      BY <1>3 DEF RegisterListener, CoreInv
    <3>5. QED
      BY <2>1, <3>1, <3>2, <3>3, <3>4 DEF Owned
  <2>6. EndInv'
    BY <1>3, OtherReports DEF RegisterListener, CoreInv
  <2>7. QED
    BY <1>3, <2>4, <2>5, <2>6
    DEF RegisterListener, forwardVars, ForwardTypeOK, DialInv, ReadyInv, NotYetRunning, CoreInv
<1>4. CASE Spawn
  <2>1. CoreInv(Label)'
    BY <1>4 DEF Spawn, CoreInv, SessionTypeOK, ClosedIsFinal, ShutdownOrder, Label
  <2>2. Owned'
    <3>1. ClosedOnce' /\ \A r \in Resource : Accounted(r)' <=> Accounted(r)
      BY <1>4, OpenOnce DEF Spawn, Owned
    <3>2. /\ \A r \in Resource : ~Held(r) /\ ~Held(r)'
          /\ pc'["caller"] # "newClient"
      BY <1>4 DEF Spawn, Held, CoreInv
    <3>3. QED
      BY <1>4, <3>1, <3>2 DEF Spawn, Owned
  <2>3. NotYetRunning'
    BY <1>4 DEF Spawn, NotYetRunning, CoreInv
  <2>4. EndInv'
    BY <1>4, OtherReports DEF Spawn, CoreInv
  <2>5. QED
    BY <1>4, <2>1, <2>2, <2>3, <2>4
    DEF Spawn, forwardVars, ForwardTypeOK, DialInv, ReadyInv, CoreInv
<1>5. QED
  BY <1>1, <1>2, <1>3, <1>4 DEF CallerStep
-----------------------------------------------------------------------------
\* A step of a goroutine other than the caller that opens, registers and closes
\* nothing leaves every open resource with whoever had it.
LEMMA OwnedKept ==
  ASSUME Owned, UNCHANGED <<res, closers, toClose>>, pc'["caller"] = pc["caller"]
  PROVE  Owned'
<1>1. ClosedOnce' /\ \A r \in Resource : Accounted(r)' <=> Accounted(r)
  BY OpenOnce DEF Owned
<1>2. \A r \in Resource : Held(r)' <=> Held(r)
  BY DEF Held
<1>3. QED
  BY <1>1, <1>2 DEF Owned

\* What the accept loop and the goroutines of the connections do to the session:
\* they only move.
LEMMA MoveFInv ==
  ASSUME FInv, NEW t \in Thread \ {"caller", "worker"},
         NEW l \in Label \ {"cancel", "take"}, Go(t, l),
         UNCHANGED <<state, cancelled, closed, closers, res, told, pend, toClose>>
  PROVE  /\ CoreInv(Label)'
         /\ Owned' /\ EndInv'
         /\ pc'["caller"] = pc["caller"] /\ pc'["worker"] = pc["worker"]
         /\ UNCHANGED ready => ReadyInv' /\ NotYetRunning'
<1>1. SessionTypeOK'
  BY DEF FInv, CoreInv, SessionTypeOK
<1>2. CoreInv(Label)'
  BY <1>1, MoveCore DEF FInv
<1>3. pc'["caller"] = pc["caller"] /\ pc'["worker"] = pc["worker"]
  BY Threads DEF Go, FInv, CoreInv
<1>4. Owned' /\ EndInv'
  BY <1>3, OwnedKept, OtherReports DEF FInv, CoreInv
<1>5. UNCHANGED ready => ReadyInv' /\ NotYetRunning'
  BY <1>3 DEF FInv, ReadyInv, NotYetRunning
<1>6. QED
  BY <1>2, <1>3, <1>4, <1>5

\* acceptLoop: the end of the listener.
LEMMA AcceptFInv ==
  ASSUME FInv, AcceptClosed \/ AcceptError
  PROVE  FInv'
<1>1. PICK l \in {"halt", "fail"} :
        /\ Go("aux", l)
        /\ UNCHANGED <<state, cancelled, closed, closers, res, told, pend, toClose, forwardVars>>
  BY DEF AcceptClosed, AcceptError
<1>2. l \in Label \ {"cancel", "take"} /\ "aux" \in Thread \ {"caller", "worker"}
  BY Threads DEF Label
<1>3. CoreInv(Label)' /\ Owned' /\ EndInv' /\ ReadyInv' /\ NotYetRunning'
  BY <1>1, <1>2, MoveFInv DEF forwardVars
<1>4. DialInv'
  BY <1>1, Threads DEF FInv, DialInv, Go, CoreInv, forwardVars
<1>5. QED
  BY <1>1, <1>3, <1>4 DEF FInv, ForwardTypeOK, forwardVars

\* Accept, the SOCKS negotiation, waitReady, dialPeerPort and the SOCKS dialer:
\* the attempts are counted, and the dial follows the handshake.
LEMMA ConnectionFInv ==
  ASSUME FInv, NEW h \in Handler,
         \/ Accept(h) \/ Negotiate(h) \/ WaitReady(h)
         \/ DialOk(h) \/ DialError(h) \/ HangUp(h)
  PROVE  FInv'
<1> USE Threads
<1>1. PICK l \in {"negotiate", "wait", "dial", "proxy", "halt"} :
        /\ Go(h, l)
        /\ UNCHANGED <<state, cancelled, closed, closers, res, told, pend, toClose, kind, ready>>
  BY DEF Accept, Negotiate, WaitReady, DialOk, DialError, HangUp, MoveHandler, forwardVars
<1>2. l \in Label \ {"cancel", "take"} /\ h \in Thread \ {"caller", "worker"}
  BY DEF Label
<1>3. CoreInv(Label)' /\ Owned' /\ EndInv' /\ ReadyInv' /\ NotYetRunning'
  BY <1>1, <1>2, MoveFInv
<1>4. /\ pc' = [pc EXCEPT ![h] = l]
      /\ pc \in [Thread -> Label]
      /\ tries \in [Handler -> 0..MaxDial]
      /\ MaxDial \in Nat \ {0}
  BY <1>1, MaxDialPositive DEF Go, FInv, CoreInv, ForwardTypeOK
<1>5. tries' \in [Handler -> 0..MaxDial] /\ DialInv'
  <2>1. CASE Accept(h)
    BY <1>1, <1>4, <2>1 DEF Accept, At, Go, forwardVars, FInv, DialInv
  <2>2. CASE Negotiate(h) \/ WaitReady(h)
    BY <1>1, <1>4, <2>2 DEF Negotiate, WaitReady, At, Go, MoveHandler, FInv, DialInv
  <2>3. CASE DialOk(h) \/ HangUp(h)
    BY <1>1, <1>4, <2>3 DEF DialOk, HangUp, At, Go, MoveHandler, FInv, DialInv
  <2>4. CASE DialError(h)
    <3>1. /\ tries[h] < MaxDial
          /\ tries' = [tries EXCEPT ![h] = @ + 1]
          /\ ready /\ ready'
          /\ pc'[h] = "dial" => tries'[h] # MaxDial
          /\ pc'[h] \in {"halt", "dial"}
      BY <1>1, <1>4, <2>4 DEF DialError, At, Go, MoveHandler, FInv, DialInv
    <3>2. tries' \in [Handler -> 0..MaxDial]
      BY <1>4, <3>1
    <3>3. pc'[h] = "dial" => tries'[h] < MaxDial
      BY <3>1, <3>2, MaxDialPositive
    <3>4. \A g \in Handler : g # h => pc'[g] = pc[g] /\ tries'[g] = tries[g]
      BY <1>4, <3>1
    <3>5. DialInv'
      BY <1>1, <3>1, <3>3, <3>4 DEF FInv, DialInv
    <3>6. QED
      BY <3>2, <3>5
  <2>5. QED
    BY <2>1, <2>2, <2>3, <2>4
<1>6. QED
  BY <1>1, <1>3, <1>5 DEF FInv, ForwardTypeOK
\* clientWarmup: the tunnel is marked ready before the session is set running.
LEMMA WarmupFInv ==
  ASSUME FInv, WarmupStep
  PROVE  FInv'
<1> USE Threads DEF At, Go
<1>1. PICK l \in Label \ {"cancel", "take"} :
        /\ Go("worker", l)
        /\ UNCHANGED <<cancelled, closed, closers, res, told, toClose, kind, tries>>
  BY DEF WarmupStep, StartWarmup, WarmReturns, WarmError, MarkReady, SetRunning,
         ProbeEnds, Label, forwardVars
<1>2. /\ pc' = [pc EXCEPT !["worker"] = l]
      /\ pc \in [Thread -> Label]
      /\ pc'["caller"] = pc["caller"]
      /\ \A h \in Handler : pc'[h] = pc[h]
      /\ pc["worker"] # "idle"
  BY <1>1 DEF FInv, CoreInv, WarmupStep, StartWarmup, WarmReturns, WarmError,
              MarkReady, SetRunning, ProbeEnds
<1>3. Owned'
  BY <1>1, <1>2, OwnedKept DEF FInv
<1>4. CASE StartWarmup
  <2>1. SetState("worker", "starting") /\ ready' = ready /\ "starting" \in State
    BY <1>4 DEF StartWarmup, forwardVars, State
  <2>2. /\ state' \in State
        /\ pend' \in [Thread -> EventName \cup {"none"}]
        /\ state \in Ended => state' = state
    BY <2>1, SetStateKeepsEnd DEF FInv, CoreInv
  <2>3. CoreInv(Label)'
    <3>1. SessionTypeOK'
      BY <1>1, <2>2 DEF FInv, CoreInv, SessionTypeOK
    <3>2. QED
      BY <1>1, <2>2, <3>1, MoveCore DEF FInv
  <2>4. state' # "running" /\ \A t \in Thread : pend'[t] = "running" => pend[t] = "running"
    BY <1>4, <2>1 DEF StartWarmup, SetState, FInv, CoreInv, SessionTypeOK, NotYetRunning
  <2>5. ReadyInv'
    BY <1>1, <1>2, <1>4, <2>1, <2>4 DEF StartWarmup, FInv, ReadyInv
  <2>6. NotYetRunning'
    BY <1>2, <2>4 DEF FInv, NotYetRunning
  <2>7. EndInv'
    BY <1>1, <1>4, <2>1, SetStateReports DEF StartWarmup, FInv, CoreInv
  <2>8. QED
    BY <1>1, <1>2, <1>3, <2>1, <2>3, <2>5, <2>6, <2>7 DEF FInv, ForwardTypeOK, DialInv
<1>5. CASE SetRunning
  <2>1. SetState("worker", "running") /\ ready' = ready /\ "running" \in State
    BY <1>5 DEF SetRunning, forwardVars, State
  <2>2. /\ state' \in State
        /\ pend' \in [Thread -> EventName \cup {"none"}]
        /\ state \in Ended => state' = state
    BY <2>1, SetStateKeepsEnd DEF FInv, CoreInv
  <2>3. CoreInv(Label)'
    <3>1. SessionTypeOK'
      BY <1>1, <2>2 DEF FInv, CoreInv, SessionTypeOK
    <3>2. QED
      BY <1>1, <2>2, <3>1, MoveCore DEF FInv
  <2>4. ready
    BY <1>5 DEF SetRunning, FInv, ReadyInv
  <2>5. ReadyInv'
    BY <2>1, <2>4 DEF ReadyInv
  <2>6. NotYetRunning'
    BY <1>2, <1>5 DEF SetRunning, FInv, NotYetRunning
  <2>7. EndInv'
    BY <1>1, <1>5, <2>1, SetStateReports DEF SetRunning, FInv, CoreInv
  <2>8. QED
    BY <1>1, <1>2, <1>3, <2>1, <2>3, <2>5, <2>6, <2>7 DEF FInv, ForwardTypeOK, DialInv
<1>6. CASE WarmReturns \/ WarmError \/ ProbeEnds \/ MarkReady
  <2>1. /\ state' = state /\ pend' = pend
        /\ ready' = ready \/ ready' = TRUE
    BY <1>6 DEF WarmReturns, WarmError, ProbeEnds, MarkReady, forwardVars
  <2>2. ready' \in BOOLEAN /\ (ready => ready')
    BY <2>1 DEF FInv, ForwardTypeOK
  <2>3. CoreInv(Label)'
    <3>1. SessionTypeOK'
      BY <1>1, <2>1 DEF FInv, CoreInv, SessionTypeOK
    <3>2. QED
      BY <1>1, <2>1, <3>1, MoveCore DEF FInv
  <2>4. pc'["worker"] = "setRunning" => ready'
    BY <1>2, <1>6 DEF WarmReturns, WarmError, ProbeEnds, MarkReady
  <2>5. ReadyInv'
    BY <1>1, <2>1, <2>2, <2>4 DEF FInv, ReadyInv
  <2>6. pc'["worker"] \in {"up", "warmError", "setRunning"} => state # "running"
    BY <1>2, <1>6 DEF WarmReturns, WarmError, ProbeEnds, MarkReady, FInv, NotYetRunning
  <2>7. pc'["worker"] \notin {"idle", "start", "warm"}
    BY <1>2, <1>6 DEF WarmReturns, WarmError, ProbeEnds, MarkReady
  <2>8. NotYetRunning'
    BY <1>2, <2>1, <2>6, <2>7 DEF FInv, NotYetRunning
  <2>9. DialInv'
    BY <1>1, <1>2, <2>2 DEF FInv, DialInv
  <2>10. EndInv'
    BY <1>1, <2>1, OtherReports DEF FInv, CoreInv
  <2>11. QED
    BY <1>1, <1>3, <2>2, <2>3, <2>5, <2>8, <2>9, <2>10 DEF FInv, ForwardTypeOK
<1>7. QED
  BY <1>4, <1>5, <1>6 DEF WarmupStep

\* fail, shutdown and what the threads still have in hand: session.go.
LEMMA SessionFInv ==
  ASSUME FInv, NEW t \in Thread,
         SharedStep(t) \/ (Stop(t) /\ UNCHANGED forwardVars)
  PROVE  FInv'
<1> USE Threads DEF SharedStep
<1>1. CoreInv(Label)'
  BY SessionStepCore, FinishCore DEF FInv, Stop, Ended
<1>2. \A u \in Thread :
        pc'[u] = pc[u] \/ /\ pc[u] \in {"fail", "failed", "stop", "cancel", "take"}
                          /\ pc'[u] \in {"failed", "cancel", "take", "halt"}
  BY SessionStepMoves DEF FInv
<1>3. Owned' /\ EndInv'
  <2>1. ClosedOnce' /\ KeepsOwners
    BY SessionStepOnce DEF FInv, Owned
  <2>2. \A r \in Resource : Held(r)' <=> Held(r)
    BY <1>2 DEF Held
  <2>3. pc'["caller"] = "newClient" => pc["caller"] = "newClient"
    BY <1>2
  <2>4. Owned'
    BY <2>1, <2>2, <2>3, "client" \in Resource DEF FInv, Owned, KeepsOwners, Resource
  <2>5. QED
    BY <2>4, SessionStepReports DEF FInv, CoreInv
<1>4. /\ state' = "running" => state = "running"
      /\ \A u \in Thread : pend'[u] = "running" => pend[u] = "running"
      /\ \A i \in DOMAIN told' :
           told'[i] = "running" => \/ \E j \in DOMAIN told : told[j] = "running"
                                  \/ \E u \in Thread : pend[u] = "running"
  BY SessionStepTells DEF FInv
<1>5. ready' = ready /\ tries' = tries /\ kind' = kind
  BY DEF forwardVars
<1>6. ReadyInv'
  BY <1>2, <1>4, <1>5 DEF FInv, ReadyInv
<1>7. NotYetRunning'
  BY <1>2, <1>4 DEF FInv, NotYetRunning
<1>8. DialInv'
  BY <1>2, <1>5 DEF FInv, DialInv
<1>9. QED
  BY <1>1, <1>3, <1>5, <1>6, <1>7, <1>8 DEF FInv, ForwardTypeOK

\* A stuttering step.
LEMMA StutterFInv ==
  ASSUME FInv, UNCHANGED vars
  PROVE  FInv'
<1>1. CoreInv(Label)'
  BY DEF FInv, vars, sessionVars, CoreInv, SessionTypeOK, ClosedIsFinal, ShutdownOrder
<1>2. Owned' /\ EndInv'
  BY OwnedKept, OtherReports DEF FInv, CoreInv, vars, sessionVars
<1>3. QED
  BY <1>1, <1>2 DEF FInv, vars, sessionVars, forwardVars, ForwardTypeOK, DialInv,
                    ReadyInv, NotYetRunning

\* Every step of a forward or SOCKS session keeps the invariant.
LEMMA NextFInv ==
  ASSUME FInv, [Next]_vars
  PROVE  FInv'
<1>1. CASE \E t \in Thread : SharedStep(t)
  BY <1>1, SessionFInv
<1>2. CASE \E t \in Stopper : Stop(t) /\ UNCHANGED forwardVars
  BY <1>2, SessionFInv, Threads
<1>3. QED
  BY <1>1, <1>2, CallerFInv, WarmupFInv, AcceptFInv, ConnectionFInv, StutterFInv
  DEF Next, Idle

\* The inductive invariant, for any number of connections, stops and attempts.
THEOREM ForwardInvariant == Spec => []FInv
  BY InitFInv, NextFInv, PTL DEF Spec
-----------------------------------------------------------------------------
\* Types and bounds: in particular no connection dials more than MaxDial times.
THEOREM ForwardTypes == Spec => []TypeOK
<1>1. FInv => TypeOK
  BY DEF FInv, ForwardTypeOK, CoreInv, TypeOK
<1>2. QED
  BY <1>1, ForwardInvariant, PTL

\* Whoever shuts the session down, in whatever order with the others: a closed
\* session has ended, is cancelled and takes nothing more.
THEOREM ForwardClosedIsFinal == Spec => []ClosedIsFinal
<1>1. FInv => ClosedIsFinal
  BY DEF FInv, CoreInv
<1>2. QED
  BY <1>1, ForwardInvariant, PTL

\* Once a shut down session has come to rest its listener and client are closed,
\* also when the stop came in the middle of startForward.
THEOREM ForwardNoLeak == Spec => []NoLeak
<1>1. FInv => NoLeak
  <2> SUFFICES ASSUME FInv, closed, AllQuiet, NEW r \in Resource, res[r] = "open"
               PROVE  FALSE
    BY DEF NoLeak
  <2>1. ~Accounted(r)
    BY QuietAccounts DEF FInv
  <2>2. ~Held(r)
    BY Threads DEF AllQuiet, Quiet, Held
  <2>3. QED
    BY <2>1, <2>2 DEF FInv, Owned
<1>2. QED
  BY <1>1, ForwardInvariant, PTL

\* The client and the listener are each closed by one of those who race for it:
\* shutdown, or the addCloser that finds the session closed already.
THEOREM ForwardClosedOnce == Spec => []ClosedOnce
<1>1. FInv => ClosedOnce
  BY DEF FInv, Owned
<1>2. QED
  BY <1>1, ForwardInvariant, PTL

\* However many stops race with a failing warm-up and accept loop, the end is
\* reported once and as it was.
THEOREM ForwardEndReportedOnce == Spec => []EndReportedOnce
<1>1. FInv => EndReportedOnce
  BY EndReported DEF FInv
<1>2. QED
  BY <1>1, ForwardInvariant, PTL

\* No connection is dialled and no session reported running before the handshake.
THEOREM ForwardDialsOnlyWhenReady == Spec => []DialsOnlyWhenReady
<1>1. FInv => DialsOnlyWhenReady
  BY DEF FInv, DialInv, ReadyInv, DialsOnlyWhenReady, ToSet
<1>2. QED
  BY <1>1, ForwardInvariant, PTL

\* startForward, the warm-up, the accept loop and every stop together do to the
\* state of the session only what a Lifecycle does.
THEOREM ForwardRefinesLifecycle == Spec => Life!Safe
<1>1. Init => Life!Init
  BY DEF Init, SessionInit, Life!Init
<1>2. ASSUME FInv, [Next]_vars
      PROVE  [Life!Next]_(Life!vars)
  <2>1. ASSUME UNCHANGED <<state, closed>>
        PROVE  UNCHANGED Life!vars
    BY <2>1 DEF Life!vars
  <2>2. CASE CallerStep
    BY <2>1, <2>2 DEF CallerStep, NewClient, RegisterClient, RegisterListener, Spawn
  <2>3. CASE AcceptClosed \/ AcceptError
    BY <2>1, <2>3 DEF AcceptClosed, AcceptError
  <2>4. CASE \E h \in Handler :
               \/ Accept(h) \/ Negotiate(h) \/ WaitReady(h)
               \/ DialOk(h) \/ DialError(h) \/ HangUp(h)
    BY <2>1, <2>4 DEF Accept, Negotiate, WaitReady, DialOk, DialError, HangUp, MoveHandler
  <2>5. CASE WarmupStep
    <3>1. CASE StartWarmup
      BY <1>2, <2>1, <3>1 DEF StartWarmup, SetState, At, FInv, NotYetRunning,
                        CoreInv, SessionTypeOK, State
    <3>2. CASE SetRunning
      <4>1. CASE state \in Ended
        BY <2>1, <3>2, <4>1 DEF SetRunning, SetState
      <4>2. CASE state \notin Ended
        <5>1. state = "starting"
          BY <1>2, <3>2, <4>2 DEF SetRunning, At, FInv, NotYetRunning, CoreInv, SessionTypeOK, State
        <5>2. state' = "running" /\ closed' = closed
          BY <3>2, <4>2 DEF SetRunning, SetState
        <5>3. QED
          BY <5>1, <5>2 DEF Life!Next, Life!Run
      <4>3. QED
        BY <4>1, <4>2
    <3>3. CASE WarmReturns \/ WarmError \/ ProbeEnds \/ MarkReady
      BY <2>1, <3>3 DEF WarmReturns, WarmError, ProbeEnds, MarkReady
    <3>4. QED
      BY <2>5, <3>1, <3>2, <3>3 DEF WarmupStep
  <2>6. CASE \E t \in Thread : SharedStep(t)
    <3>1. PICK t \in Thread : SharedStep(t)
      BY <2>6
    <3>2. SessionStep(t)
      BY <3>1 DEF SharedStep
    <3>3. QED
      BY <1>2, <3>1, <3>2, SessionStepRefines DEF FInv
  <2>7. CASE \E t \in Stopper : Stop(t) /\ UNCHANGED forwardVars
    BY <1>2, <2>7, SessionStepRefines, Threads DEF FInv
  <2>8. CASE UNCHANGED vars
    BY <2>1, <2>8 DEF vars, sessionVars
  <2>9. QED
    BY <1>2, <2>2, <2>3, <2>4, <2>5, <2>6, <2>7, <2>8 DEF Next, Idle
<1>3. QED
  BY <1>1, <1>2, ForwardInvariant, PTL DEF Spec, Life!Safe
=============================================================================
