----------------------------- MODULE ServeProofs -----------------------------
(***************************************************************************)
(* Proofs about Serve, for any number of connections and of stops.  SrvInv *)
(* is the inductive invariant; what session.go contributes to it is proved *)
(* in SessionProofs.                                                       *)
(***************************************************************************)
EXTENDS Serve, SessionProofs

\* The caller's file share and the worker's server, before they are registered.
Held(r) ==
  \/ r = "share" /\ pc["caller"] = "addShare"
  \/ r = "server" /\ pc["worker"] = "addServer"

\* Whatever is open is in one place: on its way to being closed, or in the hands
\* of the thread that opened it.  What has still to be opened is not open.
Owned ==
  /\ ClosedOnce
  /\ \A r \in Resource :
       /\ res[r] = "open" => Accounted(r) \/ Held(r)
       /\ Held(r) => res[r] = "open" /\ ~Accounted(r)
  /\ pc["caller"] = "openShare" => res["share"] # "open"
  /\ pc["worker"] \in {"idle", "start", "starting"} => res["server"] # "open"

\* A token is one of a server that was started.
TokenInv ==
  /\ port22 \in {"share", "shell", "none"}
  /\ token \in BOOLEAN
  /\ token \/ pc["worker"] \in {"addServer", "setToken"} => res["server"] # "absent"

\* The goroutine starts once the share is registered, and until it reports
\* running nobody else does.
NotYetRunning ==
  /\ pc["caller"] \in {"openShare", "addShare", "spawn"} => pc["worker"] = "idle"
  /\ pc["worker"] \in {"idle", "start", "starting", "addServer", "setToken", "setRunning"}
       => state # "running"

SrvInv ==
  /\ CoreInv(Label)
  /\ Owned
  /\ TokenInv
  /\ EndInv
  /\ NotYetRunning

-----------------------------------------------------------------------------
\* The threads are different from one another.
LEMMA Threads ==
  /\ {"caller", "worker", "aux"} \subseteq Thread
  /\ Handler \subseteq Thread /\ Stopper \subseteq Thread
  /\ \A h \in Handler : h \notin {"caller", "worker", "aux"}
  /\ \A t \in Stopper : t \notin {"caller", "worker", "aux"}
  BY ThreadsDistinct DEF Thread, Goroutine

\* A server session starts with nothing open and its share still to be opened.
LEMMA InitSrvInv == Init => SrvInv
<1> SUFFICES ASSUME Init PROVE SrvInv
  OBVIOUS
<1>1. /\ res \in [Resource -> {"absent", "open", "closed"}] /\ SessionInit
      /\ \A r \in Resource : res[r] = "absent"
      /\ token = FALSE /\ state = "starting"
      /\ port22 \in {"share", "shell", "none"}
  BY DEF Init, SessionInit
<1>2. pc \in [Thread -> {"openShare", "stop", "idle"}]
  BY DEF Init
<1>3. pc["caller"] = "openShare" /\ pc["worker"] = "idle"
  BY ThreadsDistinct DEF Init, Thread, Goroutine
<1>4. CoreInv(Label)
  BY <1>1, <1>2, NewSession DEF CoreInv, ShutdownOrder, SharedLabel, Label
<1>5. Owned
  BY <1>1, <1>3, NewSession DEF Owned, Held, Resource
<1>6. TokenInv
  <2>1. token \in BOOLEAN
    BY <1>1
  <2>2. QED
    BY <1>1, <1>3, <2>1 DEF TokenInv
<1>7. NotYetRunning
  BY <1>1, <1>3 DEF NotYetRunning
<1>8. QED
  BY <1>1, <1>4, <1>5, <1>6, <1>7, NewSession DEF SrvInv

-----------------------------------------------------------------------------
\* A step that leaves what is open, registered and in hand alone, while caller
\* and worker hold what they held.
LEMMA OwnedKept ==
  ASSUME Owned, UNCHANGED <<res, closers, toClose>>,
         \A r \in Resource : Held(r)' <=> Held(r),
         pc'["caller"] = "openShare" => pc["caller"] = "openShare",
         pc'["worker"] \in {"idle", "start", "starting"}
           => pc["worker"] \in {"idle", "start", "starting"}
  PROVE  Owned'
<1>1. ClosedOnce' /\ \A r \in Resource : Accounted(r)' <=> Accounted(r)
  BY OpenOnce DEF Owned
<1>2. QED
  BY <1>1 DEF Owned

\* A step of one thread that opens, registers and reports nothing.
LEMMA PlainSrvInv ==
  ASSUME SrvInv, NEW t \in Thread, NEW l \in Label \ {"cancel", "take"}, Go(t, l),
         UNCHANGED <<state, cancelled, closed, closers, res, told, pend, toClose, serveVars>>,
         t \in {"caller", "worker"} =>
           \/ pc[t] = "openShare" /\ l \in {"spawn", "fail"}
           \/ pc[t] = "starting" /\ l = "fail"
           \/ pc[t] = "probe" /\ l = "halt"
  PROVE  SrvInv'
<1> USE Threads
<1>1. /\ pc \in [Thread -> Label] /\ pc' = [pc EXCEPT ![t] = l]
      /\ SessionTypeOK
  BY DEF SrvInv, CoreInv, Go
<1>2. CoreInv(Label)'
  <2>1. SessionTypeOK'
    BY <1>1 DEF SessionTypeOK
  <2>2. QED
    BY <2>1, MoveCore DEF SrvInv
<1>3. \A r \in Resource : Held(r)' <=> Held(r)
  BY <1>1 DEF Held
<1>4. Owned'
  BY <1>1, <1>3, OwnedKept DEF SrvInv
<1>5. TokenInv'
  BY <1>1 DEF SrvInv, TokenInv, serveVars
<1>6. EndInv'
  BY <1>1, OtherReports DEF SrvInv
<1>7. NotYetRunning'
  BY <1>1 DEF SrvInv, NotYetRunning
<1>8. QED
  BY <1>2, <1>4, <1>5, <1>6, <1>7 DEF SrvInv

\* NewServer and srv.Start: what a thread opens it holds.
LEMMA OpenSrvInv ==
  ASSUME SrvInv, NEW t \in {"caller", "worker"}, NEW r \in Resource, NEW l \in Label,
         \/ t = "caller" /\ r = "share" /\ pc[t] = "openShare" /\ l = "addShare"
         \/ t = "worker" /\ r = "server" /\ pc[t] = "starting" /\ l = "addServer",
         Step(t, pc[t], l), Open(r)
  PROVE  SrvInv'
<1> USE Threads
<1>1. /\ pc \in [Thread -> Label] /\ pc' = [pc EXCEPT ![t] = l]
      /\ pc'[t] = l /\ \A u \in Thread \ {t} : pc'[u] = pc[u]
      /\ SessionTypeOK
      /\ UNCHANGED <<state, cancelled, closed, closers, told, pend, toClose, port22, token>>
  BY DEF SrvInv, CoreInv, Step, Go, serveVars
<1>2. /\ res' \in [Resource -> {"absent", "open", "closed"}]
      /\ res[r] # "open"
      /\ \A q \in Resource : q # r => res'[q] = res[q]
      /\ res'[r] = "open"
  BY <1>1 DEF Open, SessionTypeOK, SrvInv, Owned
<1>3. CoreInv(Label)'
  <2>1. SessionTypeOK'
    BY <1>1, <1>2 DEF SessionTypeOK
  <2>2. QED
    BY <1>1, <2>1, MoveCore DEF SrvInv, Go
<1>4. Owned'
  <2>1. ClosedOnce' /\ \A q \in Resource : Accounted(q)' <=> Accounted(q)
    BY <1>1, <1>2, OpenOnce DEF SrvInv, Owned
  <2>2. ~Accounted(r)
    BY <1>2 DEF SrvInv, Owned, ClosedOnce, Accounted
  <2>3. \A q \in Resource : Held(q)' <=> Held(q) \/ q = r
    BY <1>1 DEF Held
  <2>4. {"share", "server"} \subseteq Resource
    BY DEF Resource
  <2>5. QED
    BY <1>1, <1>2, <2>1, <2>2, <2>3, <2>4 DEF SrvInv, Owned
<1>5. TokenInv'
  <2>1. "server" \in Resource
    BY DEF Resource
  <2>2. QED
    BY <1>1, <1>2, <2>1 DEF SrvInv, TokenInv
<1>6. EndInv'
  BY <1>1, OtherReports DEF SrvInv
<1>7. NotYetRunning'
  BY <1>1 DEF SrvInv, NotYetRunning
<1>8. QED
  BY <1>3, <1>4, <1>5, <1>6, <1>7 DEF SrvInv

\* addCloser: the caller gives away the share, the worker the server.
LEMMA RegisterSrvInv ==
  ASSUME SrvInv, RegisterShare \/ RegisterServer
  PROVE  SrvInv'
<1> USE Threads
<1>1. PICK t \in {"caller", "worker"}, r \in {"share", "server"}, l \in {"spawn", "setToken"} :
        /\ \/ t = "caller" /\ r = "share" /\ pc[t] = "addShare" /\ l = "spawn"
           \/ t = "worker" /\ r = "server" /\ pc[t] = "addServer" /\ l = "setToken"
        /\ toClose[t] = <<>>
        /\ AddCloser(t, r)
        /\ Go(t, l)
        /\ UNCHANGED <<state, cancelled, closed, res, told, pend, port22, token>>
  BY DEF RegisterShare, RegisterServer, At, serveVars
<1>2. /\ pc \in [Thread -> Label] /\ pc' = [pc EXCEPT ![t] = l]
      /\ pc'[t] = l /\ \A u \in Thread \ {t} : pc'[u] = pc[u]
      /\ SessionTypeOK /\ ClosedOnce
      /\ r \in Resource /\ Held(r)
  BY <1>1 DEF SrvInv, CoreInv, Owned, Go, Resource, Held
<1>3. res[r] = "open" /\ ~Accounted(r)
  BY <1>2 DEF SrvInv, Owned
<1>4. /\ closers' \in Seq(Resource) /\ toClose' \in [Thread -> Seq(Resource)]
      /\ closed /\ closers = <<>> => closers' = <<>>
      /\ ClosedOnce'
      /\ \A q \in Resource : Accounted(q)' <=> Accounted(q) \/ q = r
  BY <1>1, <1>2, <1>3, AddCloserAccounts, AddCloserOnce
<1>5. CoreInv(Label)'
  <2>1. SessionTypeOK'
    BY <1>1, <1>2, <1>4 DEF SessionTypeOK
  <2>2. QED
    BY <1>1, <1>4, <2>1, l \in Label \ {"cancel", "take"}, MoveCore DEF SrvInv, Label
<1>6. Owned'
  <2>1. \A q \in Resource : Held(q)' <=> Held(q) /\ q # r
    BY <1>1, <1>2 DEF Held
  <2>2. QED
    BY <1>1, <1>2, <1>3, <1>4, <2>1 DEF SrvInv, Owned
<1>7. EndInv'
  BY <1>1, <1>2, OtherReports DEF SrvInv
<1>8. TokenInv' /\ NotYetRunning'
  BY <1>1, <1>2 DEF SrvInv, TokenInv, NotYetRunning
<1>9. QED
  BY <1>5, <1>6, <1>7, <1>8 DEF SrvInv

\* The goroutine reports: connecting, the token, running.
LEMMA ReportSrvInv ==
  ASSUME SrvInv, Selecting \/ SetToken \/ SetRunning
  PROVE  SrvInv'
<1> USE Threads
<1>1. PICK l \in {"starting", "setRunning", "probe"} :
        /\ \/ pc["worker"] = "start" /\ l = "starting" /\ SetState("worker", "starting")
           \/ pc["worker"] = "setToken" /\ l = "setRunning"
                /\ state' = state /\ pend' = [pend EXCEPT !["worker"] = "token"]
           \/ pc["worker"] = "setRunning" /\ l = "probe" /\ SetState("worker", "running")
        /\ pend["worker"] = "none"
        /\ Go("worker", l)
        /\ UNCHANGED <<cancelled, closed, closers, res, told, toClose, port22>>
  BY DEF Selecting, SetToken, SetRunning, At, serveVars
<1>2. /\ pc \in [Thread -> Label] /\ pc' = [pc EXCEPT !["worker"] = l]
      /\ pc'["worker"] = l /\ \A u \in Thread \ {"worker"} : pc'[u] = pc[u]
      /\ SessionTypeOK /\ {"starting", "running"} \subseteq State
  BY <1>1 DEF SrvInv, CoreInv, Go, State
<1>3. /\ state' \in State
      /\ pend' \in [Thread -> EventName \cup {"none"}]
      /\ state \in Ended => state' = state
      /\ EndInv'
  <2>1. CASE pc["worker"] = "setToken"
    BY <1>1, <1>2, <2>1, OtherReports DEF SrvInv, SessionTypeOK, EventName
  <2>2. CASE pc["worker"] # "setToken"
    BY <1>1, <1>2, <2>2, SetStateKeepsEnd, SetStateReports DEF SrvInv
  <2>3. QED
    BY <2>1, <2>2
<1>4. CoreInv(Label)'
  <2>1. SessionTypeOK'
    BY <1>1, <1>2, <1>3 DEF SessionTypeOK
  <2>2. QED
    BY <1>1, <1>3, <2>1, l \in Label \ {"cancel", "take"}, MoveCore DEF SrvInv, Label
<1>5. Owned'
  <2>1. \A r \in Resource : Held(r)' <=> Held(r)
    BY <1>1, <1>2 DEF Held
  <2>2. QED
    BY <1>1, <1>2, <2>1, OwnedKept DEF SrvInv
<1>6. TokenInv'
  <2>1. token' = token \/ (token' = TRUE /\ pc["worker"] = "setToken")
    BY DEF Selecting, SetToken, SetRunning, At, serveVars
  <2>2. token' \in BOOLEAN
    BY <2>1 DEF SrvInv, TokenInv
  <2>3. token' => token \/ pc["worker"] = "setToken"
    BY <2>1
  <2>4. pc'["worker"] \notin {"addServer", "setToken"}
    BY <1>2
  <2>5. QED
    BY <1>1, <2>2, <2>3, <2>4 DEF SrvInv, TokenInv
<1>7. NotYetRunning'
  <2>1. l # "probe" => (state' = "running" => state = "running")
    BY <1>1 DEF SetState
  <2>2. QED
    BY <1>1, <1>2, <2>1 DEF SrvInv, NotYetRunning
<1>8. QED
  BY <1>3, <1>4, <1>5, <1>6, <1>7 DEF SrvInv

\* startServer spawns the goroutine and returns.
LEMMA SpawnSrvInv ==
  ASSUME SrvInv, Spawn
  PROVE  SrvInv'
<1> USE Threads
<1>1. /\ pc["caller"] = "spawn"
      /\ pc' = [pc EXCEPT !["caller"] = "halt", !["worker"] = "start"]
      /\ UNCHANGED <<state, cancelled, closed, closers, res, told, pend, toClose, port22, token>>
  BY DEF Spawn, At, serveVars
<1>2. /\ pc \in [Thread -> Label] /\ SessionTypeOK
      /\ pc["worker"] = "idle" /\ pc'["worker"] = "start" /\ pc'["caller"] = "halt"
  BY <1>1 DEF SrvInv, NotYetRunning, CoreInv
<1>3. CoreInv(Label)'
  BY <1>1, <1>2 DEF SrvInv, CoreInv, SessionTypeOK, ClosedIsFinal, ShutdownOrder, Label
<1>4. Owned'
  <2>1. \A r \in Resource : Held(r)' <=> Held(r)
    BY <1>1, <1>2 DEF Held
  <2>2. QED
    BY <1>1, <1>2, <2>1, OwnedKept DEF SrvInv
<1>5. EndInv'
  BY <1>1, <1>2, OtherReports DEF SrvInv
<1>6. TokenInv' /\ NotYetRunning'
  BY <1>1, <1>2 DEF SrvInv, TokenInv, NotYetRunning
<1>7. QED
  BY <1>3, <1>4, <1>5, <1>6 DEF SrvInv

\* fail, shutdown and what the threads still have in hand: session.go.
LEMMA SessionSrvInv ==
  ASSUME SrvInv, NEW t \in Thread, SessionStep(t) \/ Stop(t), UNCHANGED serveVars
  PROVE  SrvInv'
<1> USE Threads
<1>1. CoreInv(Label)'
  BY SessionStepCore, FinishCore DEF SrvInv, Stop, Ended
<1>2. \A u \in Thread :
        \/ pc'[u] = pc[u]
        \/ /\ pc[u] \in {"fail", "failed", "stop", "cancel", "take"}
           /\ pc'[u] \in {"failed", "cancel", "take", "halt"}
  BY SessionStepMoves DEF SrvInv
<1>3. Owned'
  <2>1. ClosedOnce' /\ KeepsOwners
    BY SessionStepOnce DEF SrvInv, Owned
  <2>2. \A r \in Resource : Held(r)' <=> Held(r)
    BY <1>2 DEF Held
  <2>3. /\ pc'["caller"] = "openShare" => pc["caller"] = "openShare"
        /\ pc'["worker"] \in {"idle", "start", "starting"} => pc'["worker"] = pc["worker"]
        /\ {"share", "server"} \subseteq Resource
    BY <1>2 DEF Resource
  <2>4. QED
    BY <2>1, <2>2, <2>3 DEF SrvInv, Owned, KeepsOwners
<1>4. TokenInv'
  <2>1. res'["server"] = "absent" => res["server"] = "absent"
    BY SessionStepOpens DEF SrvInv, Resource
  <2>2. pc'["worker"] \in {"addServer", "setToken"} => pc["worker"] \in {"addServer", "setToken"}
    BY <1>2
  <2>3. QED
    BY <2>1, <2>2 DEF SrvInv, TokenInv, serveVars
<1>5. EndInv'
  BY SessionStepReports DEF SrvInv, CoreInv
<1>6. NotYetRunning'
  <2>1. state' = "running" => state = "running"
    BY SessionStepTells DEF SrvInv
  <2>2. QED
    BY <1>2, <2>1 DEF SrvInv, NotYetRunning
<1>7. QED
  BY <1>1, <1>3, <1>4, <1>5, <1>6 DEF SrvInv

\* A stuttering step.
LEMMA StutterSrvInv ==
  ASSUME SrvInv, UNCHANGED vars
  PROVE  SrvInv'
<1>1. CoreInv(Label)'
  BY DEF SrvInv, vars, sessionVars, CoreInv, SessionTypeOK, ClosedIsFinal, ShutdownOrder
<1>2. \A r \in Resource : Held(r)' <=> Held(r)
  BY DEF vars, sessionVars, Held
<1>3. Owned' /\ EndInv'
  BY <1>2, OwnedKept, OtherReports DEF SrvInv, CoreInv, vars, sessionVars
<1>4. QED
  BY <1>1, <1>3 DEF SrvInv, vars, sessionVars, serveVars, TokenInv, NotYetRunning

\* Every step of a server session keeps the invariant.
LEMMA NextSrvInv ==
  ASSUME SrvInv, [Next]_vars
  PROVE  SrvInv'
<1> USE Threads
<1>1. CASE OpenShare
  <2>1. CASE port22 = "share" /\ Step("caller", "openShare", "addShare") /\ Open("share")
    <3>1. pc["caller"] = "openShare" /\ "share" \in Resource /\ "addShare" \in Label
      BY <2>1 DEF Step, At, Resource, Label
    <3>2. QED
      BY <2>1, <3>1, OpenSrvInv
  <2>2. CASE \E l \in {"spawn", "fail"} : Step("caller", "openShare", l) /\ UNCHANGED res
    BY <2>2, PlainSrvInv DEF Step, At, Label
  <2>3. QED
    BY <1>1, <2>1, <2>2 DEF OpenShare
<1>2. CASE StartReturns
  <2>1. CASE Step("worker", "starting", "addServer") /\ Open("server")
    <3>1. pc["worker"] = "starting" /\ "server" \in Resource /\ "addServer" \in Label
      BY <2>1 DEF Step, At, Resource, Label
    <3>2. QED
      BY <2>1, <3>1, OpenSrvInv
  <2>2. CASE Step("worker", "starting", "fail") /\ UNCHANGED res
    BY <2>2, PlainSrvInv DEF Step, At, Label
  <2>3. QED
    BY <1>2, <2>1, <2>2 DEF StartReturns
<1>3. CASE ProbeEnds
  BY <1>3, PlainSrvInv DEF ProbeEnds, Step, At, Label
<1>4. CASE \E h \in Handler : Incoming(h) \/ DialLocal(h) \/ HangUp(h)
  BY <1>4, PlainSrvInv DEF Incoming, DialLocal, HangUp, Step, Label
<1>5. CASE \E t \in Thread : SharedStep(t)
  BY <1>5, SessionSrvInv DEF SharedStep
<1>6. CASE \E t \in Stopper : Stop(t) /\ UNCHANGED serveVars
  BY <1>6, SessionSrvInv
<1>7. QED
  BY <1>1, <1>2, <1>3, <1>4, <1>5, <1>6, RegisterSrvInv, ReportSrvInv, SpawnSrvInv, StutterSrvInv
  DEF Next, CallerStep, StarterStep, Idle

\* The inductive invariant, for any number of connections and of stops.
THEOREM ServeInvariant == Spec => []SrvInv
  BY InitSrvInv, NextSrvInv, PTL DEF Spec

-----------------------------------------------------------------------------
\* Types: in particular no token is announced for a server that never started.
THEOREM ServeTypes == Spec => []TypeOK
<1>1. SrvInv => TypeOK
  BY DEF SrvInv, TokenInv, CoreInv, TypeOK
<1>2. QED
  BY <1>1, ServeInvariant, PTL

\* However many stops race with each other and with a start that fails, the end
\* of a server session is reported once, and as the end it had.
THEOREM ServeEndReportedOnce == Spec => []EndReportedOnce
<1>1. SrvInv => EndReportedOnce
  BY EndReported DEF SrvInv
<1>2. QED
  BY <1>1, ServeInvariant, PTL

\* Once a shut down session has come to rest its share and its server are closed,
\* also a server that came up after the stop.
THEOREM ServeNoLeak == Spec => []NoLeak
<1>1. SrvInv => NoLeak
  <2> SUFFICES ASSUME SrvInv, closed, AllQuiet, NEW r \in Resource, res[r] = "open"
               PROVE  FALSE
    BY DEF NoLeak
  <2>1. ~Accounted(r)
    BY QuietAccounts DEF SrvInv
  <2>2. ~Held(r)
    BY Threads DEF AllQuiet, Quiet, Held
  <2>3. QED
    BY <2>1, <2>2 DEF SrvInv, Owned
<1>2. QED
  BY <1>1, ServeInvariant, PTL

\* The share and the server are each closed once.
THEOREM ServeClosedOnce == Spec => []ClosedOnce
<1>1. SrvInv => ClosedOnce
  BY DEF SrvInv, Owned
<1>2. QED
  BY <1>1, ServeInvariant, PTL

\* startServer, its goroutine and every stop together do to the state of the
\* session only what a Lifecycle does.
THEOREM ServeRefinesLifecycle == Spec => Life!Safe
<1>1. Init => Life!Init
  BY DEF Init, SessionInit, Life!Init
<1>2. ASSUME SrvInv, [Next]_vars
      PROVE  [Life!Next]_(Life!vars)
  <2>1. ASSUME UNCHANGED <<state, closed>>
        PROVE  UNCHANGED Life!vars
    BY <2>1 DEF Life!vars
  <2>2. CASE OpenShare \/ RegisterShare \/ Spawn
    BY <2>1, <2>2 DEF OpenShare, RegisterShare, Spawn, Step
  <2>3. CASE StartReturns \/ RegisterServer \/ SetToken \/ ProbeEnds
    BY <2>1, <2>3 DEF StartReturns, RegisterServer, SetToken, ProbeEnds, Step
  <2>4. CASE \E h \in Handler : Incoming(h) \/ DialLocal(h) \/ HangUp(h)
    BY <2>1, <2>4 DEF Incoming, DialLocal, HangUp, Step
  <2>5. CASE Selecting \/ SetRunning
    <3>1. pc["worker"] \in {"start", "setRunning"}
      BY <2>5 DEF Selecting, SetRunning, At
    <3>2. state \notin Ended => state = "starting"
      BY <1>2, <3>1 DEF SrvInv, NotYetRunning, CoreInv, SessionTypeOK, State
    <3>3. CASE state \in Ended
      BY <2>1, <2>5, <3>3 DEF Selecting, SetRunning, SetState
    <3>4. CASE state \notin Ended
      BY <2>1, <2>5, <3>2, <3>4 DEF Selecting, SetRunning, SetState, Life!Next, Life!Run
    <3>5. QED
      BY <3>3, <3>4
  <2>6. CASE \E t \in Thread : SharedStep(t)
    BY <1>2, <2>6, SessionStepRefines DEF SharedStep, SrvInv
  <2>7. CASE \E t \in Stopper : Stop(t) /\ UNCHANGED serveVars
    BY <1>2, <2>7, SessionStepRefines, Threads DEF SrvInv
  <2>8. CASE UNCHANGED vars
    BY <2>1, <2>8 DEF vars, sessionVars
  <2>9. QED
    BY <1>2, <2>2, <2>3, <2>4, <2>5, <2>6, <2>7, <2>8 DEF Next, CallerStep, StarterStep, Idle
<1>3. QED
  BY <1>1, <1>2, ServeInvariant, PTL DEF Spec, Life!Safe
=============================================================================
