---------------------------- MODULE TransferProofs ----------------------------
(***************************************************************************)
(* Proofs about Transfer, for any number of paths and of stops.  TInv is   *)
(* the inductive invariant; what session.go contributes to it is proved in *)
(* SessionProofs.                                                          *)
(***************************************************************************)
EXTENDS Transfer, SessionProofs

TransferTypeOK ==
  /\ kind \in {"job", "list"}
  /\ moved \in 0..Paths

\* Who does what: a job is the worker's once the caller has spawned it, a
\* listing is the caller's alone, and everybody else only stops the session.
OwnLabels ==
  /\ kind = "job" =>
       /\ pc["caller"] \in {"spawn", "halt"}
       /\ pc["caller"] = "spawn" => pc["worker"] = "idle"
       /\ pc["worker"] \notin {"stop", "list", "listFailed", "closeOwn"}
  /\ kind = "list" =>
       /\ pc["worker"] = "idle"
       /\ pc["caller"] \in {"newClient", "open", "handshake", "list", "listFailed",
                            "closeOwn", "cancel", "take", "halt"}
  /\ \A t \in Thread \ {"caller", "worker"} :
       pc[t] \in {"idle", "stop", "cancel", "take", "halt"}

\* What openShare and its callers hold and have not registered yet.
Held(r) ==
  \/ r = "client" /\ pc[Opener] \in {"open", "handshake", "addClient", "list", "closeOwn"}
  \/ r = "files" /\ pc[Opener] \in {"handshake", "addClient", "addFiles", "list", "closeOwn"}

\* Whatever is open is in one place: on its way to being closed, or in the hands
\* of the thread that opened it.  What has still to be opened is not open.
Owned ==
  /\ ClosedOnce
  /\ \A r \in Resource :
       /\ res[r] = "open" => Accounted(r) \/ Held(r)
       /\ Held(r) => res[r] = "open" /\ ~Accounted(r)
  /\ pc[Opener] \in {"idle", "start", "newClient"} => res["client"] # "open"
  /\ pc[Opener] \in {"idle", "start", "newClient", "open"} => res["files"] # "open"

\* A job runs only once it is moving paths, and a listing never does; a listing
\* has ended when it closes what it opened.
NotYetRunning ==
  /\ state = "running" =>
       /\ kind = "job"
       /\ pc["worker"] \in {"move", "moveError", "fail", "failed", "cancel", "take", "halt"}
  /\ pc["caller"] = "closeOwn" => state \in Ended

\* A job that is done has moved everything and is past its loop for good; an
\* error event comes from a job that is failing.
DoneInv ==
  /\ kind = "job" /\ state = "done" =>
       /\ moved = Paths
       /\ pc["worker"] \in {"cancel", "take", "halt"}
       /\ \A i \in DOMAIN told : told[i] # "error"
  /\ \A t \in Thread : pend[t] # "error"
  /\ \A i \in DOMAIN told :
       told[i] = "error" => pc["worker"] \in {"failed", "cancel", "take", "halt"}

TInv ==
  /\ CoreInv(Label)
  /\ TransferTypeOK
  /\ OwnLabels
  /\ Owned
  /\ EndInv
  /\ NotYetRunning
  /\ DoneInv
-----------------------------------------------------------------------------
\* The threads are different from one another.
LEMMA Threads ==
  /\ {"caller", "worker", "aux"} \subseteq Thread
  /\ Stopper \subseteq Thread
  /\ Opener \in {"caller", "worker"}
  /\ \A t \in Stopper : t \notin {"caller", "worker", "aux"}
  BY ThreadsDistinct DEF Thread, Goroutine, Opener

\* A file session starts with nothing open, and with a job still to be spawned.
LEMMA InitTInv == Init => TInv
<1> SUFFICES ASSUME Init PROVE TInv
  OBVIOUS
<1>1. /\ res \in [Resource -> {"absent", "open", "closed"}] /\ SessionInit
      /\ \A r \in Resource : res[r] = "absent"
      /\ kind \in {"job", "list"} /\ moved = 0 /\ state = "starting"
  BY DEF Init, SessionInit
<1>2. pc \in [Thread -> {"spawn", "newClient", "stop", "idle"}]
  BY DEF Init
<1>3. /\ pc["caller"] = IF kind = "job" THEN "spawn" ELSE "newClient"
      /\ pc["worker"] = "idle"
      /\ \A t \in Thread \ {"caller", "worker"} : pc[t] \in {"idle", "stop"}
  BY ThreadsDistinct DEF Init, Thread, Goroutine
<1>4. CoreInv(Label)
  BY <1>1, <1>2, NewSession DEF CoreInv, ShutdownOrder, SharedLabel, Label
<1>5. TransferTypeOK
  BY <1>1, PathsPositive DEF TransferTypeOK
<1>6. OwnLabels
  BY <1>1, <1>3 DEF OwnLabels
<1>7. pc[Opener] \in {"idle", "newClient"}
  BY <1>1, <1>3 DEF Opener
<1>8. Owned
  BY <1>1, <1>7, NewSession DEF Owned, Held, Resource
<1>9. NotYetRunning /\ DoneInv
  BY <1>1, <1>3 DEF NotYetRunning, DoneInv, SessionInit
<1>10. QED
  BY <1>1, <1>4, <1>5, <1>6, <1>8, <1>9, NewSession DEF TInv

-----------------------------------------------------------------------------
\* A step that leaves what is open, registered and in hand alone, while the
\* opener holds what it held.
LEMMA OwnedKept ==
  ASSUME Owned, UNCHANGED <<res, closers, toClose, kind>>,
         \A r \in Resource : Held(r)' <=> Held(r),
         \/ pc'[Opener] = pc[Opener]
         \/ pc[Opener] = "idle" /\ pc'[Opener] \in {"start", "newClient"}
         \/ pc[Opener] = "start" /\ pc'[Opener] = "newClient"
         \/ pc'[Opener] \notin {"idle", "start", "newClient", "open"}
  PROVE  Owned'
<1>1. ClosedOnce' /\ \A r \in Resource : Accounted(r)' <=> Accounted(r)
  BY OpenOnce DEF Owned
<1>2. Opener' = Opener
  BY DEF Opener
<1>3. QED
  BY <1>1, <1>2 DEF Owned

\* openShare: what a thread opens it holds; when openShare fails the thread goes
\* on to close all of it.
LEMMA OpenTInv ==
  ASSUME TInv, NewClient \/ Connect \/ Handshake
  PROVE  TInv'
<1> USE Threads
<1>1. PICK t \in {"caller", "worker"},
            l \in {"open", "handshake", "addClient", "list", "fail", "listFailed"} :
        /\ t = Opener
        /\ At(t, pc[t]) /\ pc[t] \in {"newClient", "open", "handshake"}
        /\ Go(t, l)
        /\ l \in {"addClient", "fail"} => kind = "job"
        /\ l \in {"list", "listFailed"} => kind = "list"
        /\ UNCHANGED <<state, cancelled, closed, closers, told, pend, transferVars>>
  BY DEF NewClient, Connect, Handshake, Step, At, Failure, TInv, TransferTypeOK
<1>2. /\ pc \in [Thread -> Label] /\ pc' = [pc EXCEPT ![t] = l]
      /\ Opener = t /\ Opener' = t /\ pc'[t] = l
      /\ \A u \in Thread \ {t} : pc'[u] = pc[u]
  BY <1>1 DEF TInv, CoreInv, Go, transferVars, Opener
<1>3. /\ SessionTypeOK'
      /\ Owned'
  <2>1. /\ SessionTypeOK /\ ClosedOnce /\ toClose[t] = <<>>
        /\ {"client", "files"} \subseteq Resource
    BY <1>1 DEF TInv, CoreInv, Owned, At, Resource
  <2>2. ASSUME NEW r \in {"client", "files"}, res[r] # "open", Open(r), UNCHANGED toClose
        PROVE  /\ SessionTypeOK'
               /\ ClosedOnce'
               /\ \A q \in Resource : Accounted(q)' <=> Accounted(q)
               /\ ~Accounted(r)
               /\ \A q \in Resource : res'[q] = "open" <=> res[q] = "open" \/ q = r
    <3>1. /\ res' \in [Resource -> {"absent", "open", "closed"}]
          /\ \A q \in Resource : res'[q] = "open" <=> res[q] = "open" \/ q = r
      BY <2>1, <2>2 DEF Open, SessionTypeOK
    <3>2. SessionTypeOK'
      BY <1>1, <2>1, <2>2, <3>1 DEF SessionTypeOK
    <3>3. ClosedOnce' /\ \A q \in Resource : Accounted(q)' <=> Accounted(q)
      BY <1>1, <2>1, <2>2, <3>1, OpenOnce
    <3>4. ~Accounted(r)
      BY <2>1, <2>2 DEF ClosedOnce, Accounted
    <3>5. QED
      BY <3>1, <3>2, <3>3, <3>4
  <2>3. ASSUME NEW s \in Seq(Resource), IsInjective(s), UNCHANGED res,
               toClose' = [toClose EXCEPT ![t] = s],
               \A q \in ToSet(s) : q \in Resource /\ Held(q)
        PROVE  /\ SessionTypeOK'
               /\ ClosedOnce'
               /\ \A q \in Resource :
                    Accounted(q)' <=> Accounted(q) \/ q \in ToSet(s)
    <3>1. \A q \in ToSet(s) : res[q] = "open" /\ ~Accounted(q)
      BY <2>3 DEF TInv, Owned
    <3>2. /\ toClose' \in [Thread -> Seq(Resource)]
          /\ ClosedOnce'
          /\ \A q \in Resource :
               Accounted(q)' <=> Accounted(q) \/ q \in ToSet(s)
      BY <1>1, <2>1, <2>3, <3>1, TakeOnce
    <3>3. QED
      BY <1>1, <2>1, <2>3, <3>2 DEF SessionTypeOK
  <2>4. CASE NewClient
    <3>1. /\ Open("client") /\ UNCHANGED toClose /\ res["client"] # "open"
          /\ pc[Opener] = "newClient" /\ l = "open"
      BY <1>2, <2>4 DEF NewClient, Step, At, Go, TInv, Owned
    <3>2. /\ \A r \in Resource : Held(r)' <=> Held(r) \/ r = "client"
          /\ res["files"] # "open"
      BY <1>2, <3>1 DEF Held, TInv, Owned
    <3>3. QED
      BY <1>2, <2>1, <2>2, <3>1, <3>2 DEF TInv, Owned
  <2>5. CASE Connect /\ l = "handshake"
    <3>1. /\ Open("files") /\ UNCHANGED toClose /\ res["files"] # "open"
          /\ pc[Opener] = "open"
      BY <1>2, <2>5 DEF Connect, Step, At, Go, Failure, TInv, Owned
    <3>2. \A r \in Resource : Held(r)' <=> Held(r) \/ r = "files"
      BY <1>2, <2>5, <3>1 DEF Held
    <3>3. QED
      BY <1>2, <2>2, <2>5, <3>1, <3>2 DEF TInv, Owned
  <2>6. CASE Connect /\ l # "handshake"
    <3> DEFINE one == <<"client">>
    <3>1. /\ toClose' = [toClose EXCEPT ![t] = one] /\ UNCHANGED res
          /\ pc[Opener] = "open" /\ l \in {"fail", "listFailed"}
      BY <1>2, <2>6 DEF Connect, Step, At, Go, Failure
    <3>2. one \in Seq(Resource) /\ DOMAIN one = {1} /\ one[1] = "client"
          /\ ToSet(one) = {"client"}
      BY <2>1 DEF ToSet
    <3> HIDE DEF one
    <3>3. IsInjective(one) /\ \A q \in ToSet(one) : q \in Resource /\ Held(q)
      BY <1>2, <2>1, <3>1, <3>2 DEF IsInjective, Held
    <3>4. /\ SessionTypeOK' /\ ClosedOnce'
          /\ \A q \in Resource : Accounted(q)' <=> Accounted(q) \/ q = "client"
      BY <2>3, <3>1, <3>2, <3>3
    <3>5. \A r \in Resource : ~Held(r)' /\ (Held(r) <=> r = "client")
      BY <1>2, <3>1 DEF Held
    <3>6. QED
      BY <1>2, <3>1, <3>4, <3>5 DEF TInv, Owned
  <2>7. CASE Handshake /\ l \in {"addClient", "list"}
    <3>1. /\ UNCHANGED <<res, toClose>>
          /\ pc[Opener] = "handshake"
      BY <1>2, <2>7 DEF Handshake, Step, At, Go, Failure
    <3>2. \A r \in Resource : Held(r)' <=> Held(r)
      BY <1>2, <2>7, <3>1 DEF Held
    <3>3. SessionTypeOK'
      BY <1>1, <2>1, <3>1 DEF SessionTypeOK
    <3>4. QED
      BY <1>1, <1>2, <2>7, <3>1, <3>2, <3>3, OwnedKept DEF TInv, transferVars
  <2>8. CASE Handshake /\ l \notin {"addClient", "list"}
    <3> DEFINE both == <<"files", "client">>
    <3>1. /\ toClose' = [toClose EXCEPT ![t] = both] /\ UNCHANGED res
          /\ pc[Opener] = "handshake" /\ l \in {"fail", "listFailed"}
      BY <1>2, <2>8 DEF Handshake, Step, At, Go, Failure
    <3>2. /\ both \in Seq(Resource) /\ DOMAIN both = {1, 2}
          /\ both[1] = "files" /\ both[2] = "client"
          /\ ToSet(both) = {"files", "client"}
      BY <2>1 DEF ToSet
    <3> HIDE DEF both
    <3>3. IsInjective(both) /\ \A q \in ToSet(both) : q \in Resource /\ Held(q)
      BY <1>2, <2>1, <3>1, <3>2 DEF IsInjective, Held
    <3>4. /\ SessionTypeOK' /\ ClosedOnce'
          /\ \A q \in Resource : Accounted(q)' <=> Accounted(q) \/ q \in {"files", "client"}
      BY <2>3, <3>1, <3>2, <3>3
    <3>5. \A r \in Resource : ~Held(r)' /\ (Held(r) <=> r \in {"files", "client"})
      BY <1>2, <3>1 DEF Held
    <3>6. QED
      BY <1>2, <3>1, <3>4, <3>5 DEF TInv, Owned
  <2>9. QED
    BY <2>4, <2>5, <2>6, <2>7, <2>8
<1>4. CoreInv(Label)'
  <2>1. l \in Label \ {"cancel", "take"}
    BY <1>1 DEF Label
  <2>2. QED
    BY <1>1, <1>3, <2>1, MoveCore DEF TInv
<1>5. OwnLabels'
  BY <1>1, <1>2 DEF TInv, TransferTypeOK, OwnLabels, transferVars, Opener
<1>6. NotYetRunning' /\ DoneInv'
  BY <1>1, <1>2 DEF TInv, NotYetRunning, DoneInv, OwnLabels, transferVars, Opener
<1>7. EndInv'
  BY <1>1, OtherReports DEF TInv, CoreInv
<1>8. QED
  BY <1>1, <1>3, <1>4, <1>5, <1>6, <1>7 DEF TInv, TransferTypeOK, transferVars

\* addCloser in a job: the worker gives away what it held, one after the other.
LEMMA RegisterTInv ==
  ASSUME TInv, RegisterClient \/ RegisterFiles
  PROVE  TInv'
<1> USE Threads
<1>1. PICK r \in {"client", "files"}, l \in {"addFiles", "setRunning"} :
        /\ At("worker", pc["worker"])
        /\ \/ r = "client" /\ pc["worker"] = "addClient" /\ l = "addFiles"
           \/ r = "files" /\ pc["worker"] = "addFiles" /\ l = "setRunning"
        /\ AddCloser("worker", r)
        /\ Go("worker", l)
        /\ UNCHANGED <<state, cancelled, closed, res, told, pend, kind, moved>>
  BY DEF RegisterClient, RegisterFiles, At, transferVars
<1>2. /\ pc \in [Thread -> Label] /\ pc' = [pc EXCEPT !["worker"] = l]
      /\ pc'["worker"] = l
      /\ \A t \in Thread \ {"worker"} : pc'[t] = pc[t]
      /\ kind = "job" /\ Opener = "worker" /\ Opener' = "worker"
  BY <1>1 DEF TInv, TransferTypeOK, OwnLabels, CoreInv, Go, Opener
<1>3. r \in Resource /\ Held(r) /\ toClose["worker"] = <<>>
  BY <1>1, <1>2 DEF Resource, Held, At
<1>4. /\ SessionTypeOK /\ ClosedOnce
      /\ res[r] = "open" /\ ~Accounted(r)
  BY <1>3 DEF TInv, CoreInv, Owned
<1>5. /\ closers' \in Seq(Resource) /\ toClose' \in [Thread -> Seq(Resource)]
      /\ closed /\ closers = <<>> => closers' = <<>>
      /\ ClosedOnce'
      /\ \A q \in Resource : Accounted(q)' <=> Accounted(q) \/ q = r
  BY <1>1, <1>3, <1>4, AddCloserAccounts, AddCloserOnce
<1>6. SessionTypeOK'
  BY <1>1, <1>4, <1>5 DEF SessionTypeOK
<1>7. CoreInv(Label)'
  BY <1>1, <1>5, <1>6, l \in Label \ {"cancel", "take"}, MoveCore DEF TInv, Label
<1>8. Owned'
  <2>1. \A q \in Resource : Held(q)' <=> Held(q) /\ q # r
    BY <1>1, <1>2 DEF Held
  <2>2. QED
    BY <1>1, <1>2, <1>4, <1>5, <2>1 DEF TInv, Owned
<1>9. EndInv'
  BY <1>1, OtherReports DEF TInv, CoreInv
<1>10. OwnLabels' /\ NotYetRunning' /\ DoneInv'
  BY <1>1, <1>2 DEF TInv, OwnLabels, NotYetRunning, DoneInv
<1>11. QED
  BY <1>1, <1>7, <1>8, <1>9, <1>10 DEF TInv, TransferTypeOK

\* setState in a job before its end: connecting, and running.
LEMMA ReportTInv ==
  ASSUME TInv, Connecting \/ SetRunning
  PROVE  TInv'
<1> USE Threads
<1>1. PICK st \in {"starting", "running"}, l \in {"newClient", "move"} :
        /\ At("worker", pc["worker"])
        /\ \/ st = "starting" /\ pc["worker"] = "start" /\ l = "newClient"
           \/ st = "running" /\ pc["worker"] = "setRunning" /\ l = "move"
        /\ SetState("worker", st)
        /\ Go("worker", l)
        /\ UNCHANGED <<cancelled, closed, closers, res, told, toClose, kind, moved>>
  BY DEF Connecting, SetRunning, At, transferVars
<1>2. /\ pc \in [Thread -> Label] /\ pc' = [pc EXCEPT !["worker"] = l]
      /\ pc'["worker"] = l
      /\ \A t \in Thread \ {"worker"} : pc'[t] = pc[t]
      /\ kind = "job" /\ Opener = "worker" /\ Opener' = "worker"
  BY <1>1 DEF TInv, TransferTypeOK, OwnLabels, CoreInv, Go, Opener
<1>3. /\ SessionTypeOK /\ st \in State /\ pend["worker"] = "none"
  BY <1>1 DEF TInv, CoreInv, State, At
<1>4. /\ state' \in State
      /\ pend' \in [Thread -> EventName \cup {"none"}]
      /\ state \in Ended => state' = state
      /\ EndInv'
  BY <1>1, <1>3, SetStateKeepsEnd, SetStateReports DEF TInv
<1>5. SessionTypeOK'
  BY <1>1, <1>3, <1>4 DEF SessionTypeOK
<1>6. CoreInv(Label)'
  BY <1>1, <1>4, <1>5, l \in Label \ {"cancel", "take"}, MoveCore DEF TInv, Label
<1>7. Owned'
  <2>1. \A q \in Resource : Held(q)' <=> Held(q)
    BY <1>1, <1>2 DEF Held
  <2>2. QED
    BY <1>1, <1>2, <2>1, OwnedKept DEF TInv
<1>8. OwnLabels'
  BY <1>1, <1>2 DEF TInv, OwnLabels
<1>9. /\ state' = "running" => state = "running" \/ l = "move"
      /\ state' # "done" \/ state' = state
      /\ \A t \in Thread : pend'[t] # "error"
  BY <1>1, <1>3 DEF SetState, SessionTypeOK, TInv, DoneInv
<1>10. NotYetRunning'
  BY <1>1, <1>2, <1>4, <1>9 DEF TInv, NotYetRunning, OwnLabels
<1>11. DoneInv'
  BY <1>1, <1>2, <1>9 DEF TInv, DoneInv
<1>12. QED
  BY <1>1, <1>4, <1>6, <1>7, <1>8, <1>10, <1>11 DEF TInv, TransferTypeOK

\* The loop of a job over its paths, as long as it goes on.
LEMMA MoveTInv ==
  ASSUME TInv, MovePath \/ MoveFails \/ MoveError
  PROVE  TInv'
<1> USE Threads
<1>1. PICK l \in {"move", "moveError", "halt", "fail"} :
        /\ pc["worker"] \in {"move", "moveError"}
        /\ pc' = [pc EXCEPT !["worker"] = l]
        /\ moved' \in {moved, moved + 1} /\ (moved' # moved => moved < Paths)
        /\ UNCHANGED <<state, cancelled, closed, closers, res, told, pend, toClose, kind>>
  <2>1. CASE MovePath
    <3>1. pc' = [pc EXCEPT !["worker"] = "move"]
      BY <2>1 DEF MovePath, sessionVars, At, TInv, CoreInv
    <3>2. QED
      BY <2>1, <3>1 DEF MovePath, sessionVars, At
  <2>2. CASE MoveFails \/ MoveError
    BY <2>2 DEF MoveFails, MoveError, Step, At, Go, transferVars
  <2>3. QED
    BY <2>1, <2>2
<1>2. /\ pc \in [Thread -> Label]
      /\ pc'["worker"] = l
      /\ \A t \in Thread \ {"worker"} : pc'[t] = pc[t]
      /\ kind = "job" /\ Opener = "worker" /\ Opener' = "worker"
  BY <1>1 DEF TInv, TransferTypeOK, OwnLabels, CoreInv, Opener
<1>3. moved' \in 0..Paths
  BY <1>1, PathsPositive DEF TInv, TransferTypeOK
<1>4. CoreInv(Label)'
  <2>1. SessionTypeOK'
    BY <1>1 DEF TInv, CoreInv, SessionTypeOK
  <2>2. QED
    BY <1>1, <2>1, l \in Label \ {"cancel", "take"}, MoveCore DEF TInv, Label, Go
<1>5. Owned'
  <2>1. \A q \in Resource : Held(q)' <=> Held(q)
    BY <1>1, <1>2 DEF Held
  <2>2. QED
    BY <1>1, <1>2, <2>1, OwnedKept DEF TInv
<1>6. OwnLabels'
  BY <1>1, <1>2 DEF TInv, OwnLabels
<1>7. EndInv'
  BY <1>1, OtherReports DEF TInv, CoreInv
<1>8. NotYetRunning' /\ DoneInv'
  BY <1>1, <1>2 DEF TInv, NotYetRunning, DoneInv
<1>9. QED
  BY <1>1, <1>3, <1>4, <1>5, <1>6, <1>7, <1>8 DEF TInv, TransferTypeOK

\* A thread that ends the session on its way into shutdown: a job that is done,
\* a listing whose openShare failed.
LEMMA FinishTInv ==
  ASSUME TInv, FinishJob \/ ListFailed
  PROVE  TInv'
<1> USE Threads
<1>1. PICK t \in {"caller", "worker"}, st \in {"done", "failed"} :
        /\ t = Opener
        /\ \/ t = "worker" /\ kind = "job" /\ st = "done" /\ pc[t] = "move" /\ moved = Paths
           \/ t = "caller" /\ kind = "list" /\ st = "failed" /\ pc[t] = "listFailed"
        /\ Finish(t, st)
        /\ pend[t] = "none"
        /\ UNCHANGED <<kind, moved>>
  BY DEF FinishJob, ListFailed, At, transferVars, TInv, TransferTypeOK, OwnLabels, Opener
<1>2. /\ pc \in [Thread -> Label] /\ pc' = [pc EXCEPT ![t] = "cancel"]
      /\ pc'[t] = "cancel"
      /\ \A u \in Thread \ {t} : pc'[u] = pc[u]
      /\ Opener = t /\ Opener' = t
      /\ st \in State /\ st \in Ended /\ SessionTypeOK
      /\ SetState(t, st)
      /\ UNCHANGED <<cancelled, closed, closers, res, told, toClose>>
  BY <1>1 DEF TInv, CoreInv, Finish, Go, Opener, State, Ended
<1>3. CoreInv(Label)'
  BY <1>1, <1>2, FinishCore DEF TInv
<1>4. /\ state' \in Ended
      /\ state \in Ended => state' = state
      /\ EndInv'
  BY <1>1, <1>2, SetStateKeepsEnd, SetStateReports DEF TInv
<1>5. Owned'
  <2>1. \A q \in Resource : Held(q)' <=> Held(q)
    BY <1>1, <1>2 DEF Held
  <2>2. QED
    BY <1>1, <1>2, <2>1, OwnedKept DEF TInv
<1>6. OwnLabels'
  BY <1>1, <1>2 DEF TInv, OwnLabels
<1>7. NotYetRunning'
  BY <1>1, <1>2, <1>4 DEF TInv, NotYetRunning, OwnLabels, Ended
<1>8. DoneInv'
  <2>1. \A u \in Thread : pend'[u] # "error"
    BY <1>1, <1>2 DEF SetState, SessionTypeOK, TInv, DoneInv
  <2>2. CASE t = "worker"
    BY <1>1, <1>2, <2>1, <2>2 DEF TInv, DoneInv
  <2>3. CASE t = "caller"
    BY <1>1, <1>2, <2>1, <2>3 DEF TInv, DoneInv
  <2>4. QED
    BY <2>1, <2>2, <2>3
<1>9. QED
  BY <1>1, <1>3, <1>4, <1>5, <1>6, <1>7, <1>8 DEF TInv, TransferTypeOK

\* What a listing reports when openShare has returned, before it closes what it
\* opened.
LEMMA ListReturnsTInv ==
  ASSUME TInv, ListReturns
  PROVE  TInv'
<1> USE Threads
<1>1. PICK st \in {"done", "failed"} :
        /\ At("caller", "list")
        /\ SetState("caller", st)
        /\ Go("caller", "closeOwn")
        /\ UNCHANGED <<cancelled, closed, closers, res, told, toClose, kind, moved>>
  BY DEF ListReturns, transferVars
<1>2. /\ pc \in [Thread -> Label] /\ pc' = [pc EXCEPT !["caller"] = "closeOwn"]
      /\ pc["caller"] = "list" /\ pc'["caller"] = "closeOwn"
      /\ \A t \in Thread \ {"caller"} : pc'[t] = pc[t]
      /\ kind = "list" /\ Opener = "caller" /\ Opener' = "caller"
      /\ st \in State /\ st \in Ended /\ SessionTypeOK /\ pend["caller"] = "none"
  BY <1>1 DEF TInv, TransferTypeOK, OwnLabels, CoreInv, At, Go, Opener, State, Ended
<1>3. /\ state' \in State /\ state' \in Ended
      /\ pend' \in [Thread -> EventName \cup {"none"}]
      /\ state \in Ended => state' = state
      /\ EndInv'
  BY <1>1, <1>2, SetStateKeepsEnd, SetStateReports DEF TInv
<1>4. SessionTypeOK'
  BY <1>1, <1>2, <1>3 DEF SessionTypeOK
<1>5. CoreInv(Label)'
  BY <1>1, <1>3, <1>4, "closeOwn" \in Label \ {"cancel", "take"}, MoveCore DEF TInv, Label
<1>6. Owned'
  <2>1. \A q \in Resource : Held(q)' <=> Held(q)
    BY <1>2 DEF Held
  <2>2. QED
    BY <1>1, <1>2, <2>1, OwnedKept DEF TInv
<1>7. OwnLabels' /\ NotYetRunning'
  BY <1>1, <1>2, <1>3 DEF TInv, OwnLabels, NotYetRunning, Ended
<1>8. DoneInv'
  <2>1. \A t \in Thread : pend'[t] # "error"
    BY <1>1, <1>2 DEF SetState, SessionTypeOK, TInv, DoneInv
  <2>2. QED
    BY <1>1, <1>2, <2>1 DEF TInv, DoneInv
<1>9. QED
  BY <1>1, <1>3, <1>5, <1>6, <1>7, <1>8 DEF TInv, TransferTypeOK

\* The deferred calls of a listing: it takes both of what it opened in hand.
LEMMA CloseOwnTInv ==
  ASSUME TInv, CloseOwn
  PROVE  TInv'
<1> USE Threads
<1> DEFINE both == <<"files", "client">>
<1>1. /\ At("caller", "closeOwn") /\ pc' = [pc EXCEPT !["caller"] = "cancel"]
      /\ toClose' = [toClose EXCEPT !["caller"] = both]
      /\ UNCHANGED <<state, cancelled, closed, closers, res, told, pend, kind, moved>>
  BY DEF CloseOwn, Step, Go, transferVars
<1>2. /\ both \in Seq(Resource) /\ DOMAIN both = {1, 2}
      /\ both[1] = "files" /\ both[2] = "client"
      /\ ToSet(both) = {"files", "client"}
  BY DEF ToSet, Resource
<1> HIDE DEF both
<1>3. /\ pc \in [Thread -> Label]
      /\ pc["caller"] = "closeOwn" /\ pc'["caller"] = "cancel"
      /\ \A t \in Thread \ {"caller"} : pc'[t] = pc[t]
      /\ kind = "list" /\ Opener = "caller" /\ Opener' = "caller"
      /\ SessionTypeOK /\ ClosedOnce /\ toClose["caller"] = <<>>
      /\ state \in Ended
  BY <1>1 DEF TInv, TransferTypeOK, OwnLabels, CoreInv, Owned, NotYetRunning, At, Opener
<1>4. /\ \A q \in Resource : Held(q) <=> q \in {"files", "client"}
      /\ \A q \in Resource : ~Held(q)'
  BY <1>3 DEF Held
<1>5. IsInjective(both) /\ {"files", "client"} \subseteq Resource
  BY <1>2 DEF IsInjective, Resource
<1>6. /\ toClose' \in [Thread -> Seq(Resource)]
      /\ ClosedOnce'
      /\ \A q \in Resource : Accounted(q)' <=> Accounted(q) \/ q \in {"files", "client"}
  <2>1. \A q \in ToSet(both) : res[q] = "open" /\ ~Accounted(q)
    BY <1>2, <1>4, <1>5 DEF TInv, Owned
  <2>2. QED
    BY <1>1, <1>2, <1>3, <1>5, <2>1, TakeOnce
<1>7. SessionTypeOK'
  BY <1>1, <1>3, <1>6 DEF SessionTypeOK
<1>8. CoreInv(Label)'
  BY <1>1, <1>3, <1>7, "cancel" \in Label \ {"take"}, MoveCore DEF TInv, Label, Go
<1>9. Owned'
  BY <1>1, <1>3, <1>4, <1>6 DEF TInv, Owned
<1>10. EndInv'
  BY <1>1, OtherReports DEF TInv, CoreInv
<1>11. OwnLabels' /\ NotYetRunning' /\ DoneInv'
  BY <1>1, <1>3 DEF TInv, OwnLabels, NotYetRunning, DoneInv
<1>12. QED
  BY <1>1, <1>8, <1>9, <1>10, <1>11 DEF TInv, TransferTypeOK

\* startJob spawns the goroutine of a job and returns.
LEMMA SpawnTInv ==
  ASSUME TInv, Spawn
  PROVE  TInv'
<1> USE Threads
<1>1. /\ At("caller", "spawn")
      /\ pc' = [pc EXCEPT !["caller"] = "halt", !["worker"] = "start"]
      /\ UNCHANGED <<state, cancelled, closed, closers, res, told, pend, toClose, kind, moved>>
  BY DEF Spawn, transferVars
<1>2. /\ pc \in [Thread -> Label] /\ SessionTypeOK
      /\ pc["worker"] = "idle" /\ pc'["worker"] = "start" /\ pc'["caller"] = "halt"
      /\ \A t \in Thread \ {"caller", "worker"} : pc'[t] = pc[t]
      /\ kind = "job" /\ Opener = "worker" /\ Opener' = "worker"
  BY <1>1 DEF TInv, TransferTypeOK, OwnLabels, CoreInv, At, Opener
<1>3. CoreInv(Label)'
  BY <1>1, <1>2 DEF TInv, CoreInv, SessionTypeOK, ClosedIsFinal, ShutdownOrder, Label
<1>4. Owned'
  <2>1. \A q \in Resource : Held(q)' <=> Held(q)
    BY <1>2 DEF Held
  <2>2. QED
    BY <1>1, <1>2, <2>1, OwnedKept DEF TInv
<1>5. EndInv'
  BY <1>1, <1>2, OtherReports DEF TInv
<1>6. OwnLabels' /\ NotYetRunning' /\ DoneInv'
  BY <1>1, <1>2 DEF TInv, OwnLabels, NotYetRunning, DoneInv
<1>7. QED
  BY <1>1, <1>3, <1>4, <1>5, <1>6 DEF TInv, TransferTypeOK

\* fail, shutdown and what the threads still have in hand: session.go.
LEMMA SessionTInv ==
  ASSUME TInv, NEW t \in Thread, SessionStep(t) \/ Stop(t), UNCHANGED transferVars
  PROVE  TInv'
<1> USE Threads
<1>1. CoreInv(Label)'
  BY SessionStepCore, FinishCore DEF TInv, Stop, Ended
<1>2. kind' = kind /\ moved' = moved /\ Opener' = Opener
  BY DEF transferVars, Opener
<1>3. \A u \in Thread :
        \/ pc'[u] = pc[u]
        \/ /\ u = t
           /\ \/ pc[u] = "fail" /\ pc'[u] = "failed"
              \/ pc[u] \in {"failed", "stop"} /\ pc'[u] = "cancel"
              \/ pc[u] = "cancel" /\ pc'[u] = "take"
              \/ pc[u] = "take" /\ pc'[u] = "halt"
  BY SessionStepMoves DEF TInv
<1>4. Owned'
  <2>1. ClosedOnce' /\ KeepsOwners
    BY SessionStepOnce DEF TInv, Owned
  <2>2. \A r \in Resource : Held(r)' <=> Held(r)
    BY <1>2, <1>3 DEF Held
  <2>3. /\ pc'[Opener] \in {"idle", "start", "newClient", "open"} => pc'[Opener] = pc[Opener]
        /\ {"client", "files"} \subseteq Resource
    BY <1>3 DEF Resource
  <2>4. QED
    BY <1>2, <2>1, <2>2, <2>3 DEF TInv, Owned, KeepsOwners
<1>5. EndInv'
  BY SessionStepReports DEF TInv, CoreInv
<1>6. OwnLabels'
  BY <1>2, <1>3 DEF TInv, OwnLabels
<1>7. /\ state' \in {state, "failed", "stopped"}
      /\ state \in Ended => state' = state
      /\ \A u \in Thread : pend'[u] \in {pend[u], "none", "failed", "stopped"}
      /\ \A i \in DOMAIN told' :
           \/ \E j \in DOMAIN told : told'[i] = told[j]
           \/ told'[i] # "none" /\ \E u \in Thread : told'[i] = pend[u]
           \/ told'[i] = "error" /\ pc[t] = "fail" /\ pc'[t] = "failed"
  BY SessionStepTells DEF TInv
<1>8. NotYetRunning'
  BY <1>2, <1>3, <1>7 DEF TInv, NotYetRunning
<1>9. DoneInv'
  <2>1. \A u \in Thread : pend'[u] # "error"
    BY <1>7 DEF TInv, DoneInv
  <2>2. /\ pc["worker"] \in {"cancel", "take", "halt"} => pc'["worker"] \in {"cancel", "take", "halt"}
        /\ pc["worker"] = "failed" => pc'["worker"] \in {"failed", "cancel"}
    BY <1>3
  <2>3. ASSUME NEW i \in DOMAIN told', told'[i] = "error"
        PROVE  \/ \E j \in DOMAIN told : told[j] = "error"
               \/ t = "worker" /\ pc[t] = "fail" /\ pc'["worker"] = "failed"
    <3>1. pc[t] = "fail" => t = "worker"
      BY DEF TInv, TransferTypeOK, OwnLabels
    <3>2. QED
      BY <1>7, <2>3, <3>1 DEF TInv, DoneInv
  <2>4. QED
    BY <1>2, <1>7, <2>1, <2>2, <2>3 DEF TInv, DoneInv
<1>10. QED
  BY <1>1, <1>2, <1>4, <1>5, <1>6, <1>8, <1>9 DEF TInv, TransferTypeOK

\* A stuttering step.
LEMMA StutterTInv ==
  ASSUME TInv, UNCHANGED vars
  PROVE  TInv'
<1>1. CoreInv(Label)'
  BY DEF TInv, vars, sessionVars, CoreInv, SessionTypeOK, ClosedIsFinal, ShutdownOrder
<1>2. Opener' = Opener /\ \A r \in Resource : Held(r)' <=> Held(r)
  BY DEF vars, sessionVars, transferVars, Opener, Held
<1>3. Owned' /\ EndInv'
  BY <1>2, OwnedKept, OtherReports DEF TInv, CoreInv, vars, sessionVars, transferVars
<1>4. QED
  BY <1>1, <1>2, <1>3
  DEF TInv, vars, sessionVars, transferVars, TransferTypeOK, OwnLabels, NotYetRunning, DoneInv

\* Every step of a file session keeps the invariant.
LEMMA NextTInv ==
  ASSUME TInv, [Next]_vars
  PROVE  TInv'
<1>1. CASE \E t \in Thread : SharedStep(t)
  BY <1>1, SessionTInv DEF SharedStep
<1>2. CASE \E t \in Stopper : Stop(t) /\ UNCHANGED transferVars
  BY <1>2, SessionTInv, Threads
<1>3. QED
  BY <1>1, <1>2, SpawnTInv, FinishTInv, CloseOwnTInv, OpenTInv, ListReturnsTInv, ReportTInv,
     RegisterTInv, MoveTInv, StutterTInv
  DEF Next, CallerStep, OpenStep, JobStep, Idle

\* The inductive invariant, for any number of paths and of stops.
THEOREM TransferInvariant == Spec => []TInv
  BY InitTInv, NextTInv, PTL DEF Spec

-----------------------------------------------------------------------------
\* Types and bounds: in particular a job never moves more paths than it has.
THEOREM TransferTypes == Spec => []TypeOK
<1>1. TInv => TypeOK
  BY DEF TInv, TransferTypeOK, CoreInv, TypeOK
<1>2. QED
  BY <1>1, TransferInvariant, PTL

\* Once a shut down session has come to rest its client and its file client are
\* closed, wherever in openShare the stop found it and whichever call failed.
THEOREM TransferNoLeak == Spec => []NoLeak
<1>1. TInv => NoLeak
  <2> SUFFICES ASSUME TInv, closed, AllQuiet, NEW r \in Resource, res[r] = "open"
               PROVE  FALSE
    BY DEF NoLeak
  <2>1. ~Accounted(r)
    BY QuietAccounts DEF TInv
  <2>2. ~Held(r)
    BY Threads DEF AllQuiet, Quiet, Held
  <2>3. QED
    BY <2>1, <2>2 DEF TInv, Owned
<1>2. QED
  BY <1>1, TransferInvariant, PTL

\* openShare that fails, addCloser that comes late, the deferred calls of a
\* listing and shutdown never close the same thing twice.
THEOREM TransferClosedOnce == Spec => []ClosedOnce
<1>1. TInv => ClosedOnce
  BY DEF TInv, Owned
<1>2. QED
  BY <1>1, TransferInvariant, PTL

\* A stop that races with the end of a job or of a listing does not report a
\* second end.
THEOREM TransferEndReportedOnce == Spec => []EndReportedOnce
<1>1. TInv => EndReportedOnce
  BY EndReported DEF TInv
<1>2. QED
  BY <1>1, TransferInvariant, PTL

\* A job that reports itself done has moved every path and has reported no error,
\* also when it was stopped, or failed, on the way.
THEOREM TransferDoneMeansMoved == Spec => []DoneMeansMoved
<1>1. TInv => DoneMeansMoved
  BY DEF TInv, DoneInv, DoneMeansMoved, ToSet
<1>2. QED
  BY <1>1, TransferInvariant, PTL

\* A job and a listing do to the state of the session only what a Lifecycle does.
THEOREM TransferRefinesLifecycle == Spec => Life!Safe
<1>1. Init => Life!Init
  BY DEF Init, SessionInit, Life!Init
<1>2. ASSUME TInv, [Next]_vars
      PROVE  [Life!Next]_(Life!vars)
  <2>1. ASSUME UNCHANGED <<state, closed>>
        PROVE  UNCHANGED Life!vars
    BY <2>1 DEF Life!vars
  <2>2. ASSUME NEW t \in Thread, NEW st \in Ended, SetState(t, st), UNCHANGED closed
        PROVE  Life!Next \/ UNCHANGED Life!vars
    BY <2>1, <2>2 DEF SetState, Ended, Life!Next, Life!End, Life!Ended
  <2>3. CASE OpenStep \/ Handshake \/ Spawn \/ CloseOwn
    BY <2>1, <2>3 DEF OpenStep, NewClient, Connect, Handshake, Spawn, CloseOwn, Step
  <2>4. CASE RegisterClient \/ RegisterFiles \/ MovePath \/ MoveFails \/ MoveError
    BY <2>1, <2>4
    DEF RegisterClient, RegisterFiles, MovePath, MoveFails, MoveError, Step, sessionVars
  <2>5. CASE ListReturns \/ ListFailed \/ FinishJob
    BY <2>2, <2>5, Threads DEF ListReturns, ListFailed, FinishJob, Finish, Ended
  <2>6. CASE Connecting \/ SetRunning
    <3>1. pc["worker"] \in {"start", "setRunning"}
      BY <2>6 DEF Connecting, SetRunning, At
    <3>2. state \notin Ended => state = "starting"
      BY <1>2, <3>1 DEF TInv, NotYetRunning, CoreInv, SessionTypeOK, State
    <3>3. CASE state \in Ended
      BY <2>1, <2>6, <3>3 DEF Connecting, SetRunning, SetState
    <3>4. CASE state \notin Ended
      BY <2>1, <2>6, <3>2, <3>4 DEF Connecting, SetRunning, SetState, Life!Next, Life!Run
    <3>5. QED
      BY <3>3, <3>4
  <2>7. CASE \E t \in Thread : SharedStep(t)
    BY <1>2, <2>7, SessionStepRefines DEF SharedStep, TInv
  <2>8. CASE \E t \in Stopper : Stop(t) /\ UNCHANGED transferVars
    BY <1>2, <2>8, SessionStepRefines, Threads DEF TInv
  <2>9. CASE UNCHANGED vars
    BY <2>1, <2>9 DEF vars, sessionVars
  <2>10. QED
    BY <1>2, <2>3, <2>4, <2>5, <2>6, <2>7, <2>8, <2>9
    DEF Next, CallerStep, OpenStep, JobStep, Idle
<1>3. QED
  BY <1>1, <1>2, TransferInvariant, PTL DEF Spec, Life!Safe
=============================================================================
