----------------------------- MODULE SessionProofs -----------------------------
(***************************************************************************)
(* Facts about the session object that hold whatever its kind: how a step  *)
(* of session.go treats the types, the finality of shutdown and the        *)
(* resources.  The proofs about Forward and Transfer cite them.            *)
(***************************************************************************)
EXTENDS Session, TLAPS

\* r is on its way to being closed: registered, or in the hands of a thread
\* that closes it next.
Accounted(r) == Registered(r) \/ \E t \in Thread : InHand(t, r)

\* What a thread on its way through shutdown has already done.
ShutdownOrder ==
  \A t \in Thread :
    /\ pc[t] \in {"cancel", "take"} => state \in Ended
    /\ pc[t] = "take" => cancelled

\* The labels of session.go itself.
SharedLabel == {"fail", "failed", "cancel", "take", "halt", "stop"}

\* The part of the inductive invariants that every kind has; L are the labels
\* of the kind.
CoreInv(L) ==
  /\ SessionTypeOK
  /\ pc \in [Thread -> L]
  /\ SharedLabel \subseteq L
  /\ ClosedIsFinal
  /\ ShutdownOrder

-----------------------------------------------------------------------------
\* Reversing a sequence keeps its type and its elements, and repeats none.
LEMMA ReverseSeq ==
  ASSUME NEW S, NEW s \in Seq(S)
  PROVE  /\ Reverse(s) \in Seq(S)
         /\ \A i \in DOMAIN s : \E j \in DOMAIN Reverse(s) : Reverse(s)[j] = s[i]
         /\ \A j \in DOMAIN Reverse(s) : \E i \in DOMAIN s : Reverse(s)[j] = s[i]
         /\ IsInjective(s) => IsInjective(Reverse(s))
<1>1. Reverse(s) \in Seq(S) /\ DOMAIN Reverse(s) = DOMAIN s
  BY DEF Reverse
<1>2. \A j \in DOMAIN s : /\ (Len(s) - j) + 1 \in DOMAIN s
                          /\ Reverse(s)[j] = s[(Len(s) - j) + 1]
  BY DEF Reverse
<1>3. ASSUME NEW i \in DOMAIN s
      PROVE  \E j \in DOMAIN Reverse(s) : Reverse(s)[j] = s[i]
  <2>1. /\ (Len(s) - i) + 1 \in DOMAIN s
        /\ (Len(s) - ((Len(s) - i) + 1)) + 1 = i
    OBVIOUS
  <2>2. QED
    BY <1>1, <1>2, <2>1
<1>4. ASSUME IsInjective(s)
      PROVE  IsInjective(Reverse(s))
  <2>1. \A i, j \in DOMAIN s : (Len(s) - i) + 1 = (Len(s) - j) + 1 => i = j
    OBVIOUS
  <2>2. QED
    BY <1>1, <1>2, <1>4, <2>1 DEF IsInjective
<1>5. QED
  BY <1>1, <1>2, <1>3, <1>4

\* What is not at the head of a sequence is in its tail.
LEMMA TailKeeps ==
  ASSUME NEW S, NEW s \in Seq(S), s # <<>>, NEW i \in DOMAIN s, s[i] # Head(s)
  PROVE  /\ Tail(s) \in Seq(S)
         /\ \E j \in DOMAIN Tail(s) : Tail(s)[j] = s[i]
<1>1. i \in 2..Len(s)
  OBVIOUS
<1>2. i - 1 \in DOMAIN Tail(s) /\ Tail(s)[i - 1] = s[i]
  BY <1>1
<1>3. QED
  BY <1>2

\* The tail of a sequence without repetitions has everything but the head.
LEMMA TailLacksHead ==
  ASSUME NEW S, NEW s \in Seq(S), s # <<>>, IsInjective(s)
  PROVE  /\ Tail(s) \in Seq(S)
         /\ IsInjective(Tail(s))
         /\ Head(s) = s[1] /\ 1 \in DOMAIN s
         /\ \A j \in DOMAIN Tail(s) :
              Tail(s)[j] # Head(s) /\ \E i \in DOMAIN s : Tail(s)[j] = s[i]
<1>1. /\ Tail(s) \in Seq(S)
      /\ \A j \in DOMAIN Tail(s) : j + 1 \in DOMAIN s /\ j + 1 # 1 /\ Tail(s)[j] = s[j + 1]
      /\ 1 \in DOMAIN s /\ Head(s) = s[1]
      /\ DOMAIN Tail(s) \subseteq Nat
  OBVIOUS
<1>2. \A i, j \in DOMAIN Tail(s) : i + 1 = j + 1 => i = j
  BY <1>1
<1>3. QED
  BY <1>1, <1>2 DEF IsInjective

\* setState keeps an ended state: the steps after it in stop, fail and
\* completion may rely on the session having ended.
LEMMA SetStateKeepsEnd ==
  ASSUME SessionTypeOK, NEW t \in Thread, NEW st \in State, SetState(t, st)
  PROVE  /\ state' \in State
         /\ pend' \in [Thread -> EventName \cup {"none"}]
         /\ state \in Ended => state' = state
         /\ st \in Ended => state' \in Ended
  BY DEF SessionTypeOK, SetState, State, Ended, EventName

\* addCloser accounts for the resource it is given and forgets no other.
LEMMA AddCloserAccounts ==
  ASSUME SessionTypeOK, NEW t \in Thread, NEW r \in Resource,
         toClose[t] = <<>>, AddCloser(t, r)
  PROVE  /\ closers' \in Seq(Resource)
         /\ toClose' \in [Thread -> Seq(Resource)]
         /\ closed /\ closers = <<>> => closers' = <<>>
         /\ \A q \in Resource : Accounted(q) \/ q = r => Accounted(q)'
<1>1. CASE closed
  <2>1. toClose' = [toClose EXCEPT ![t] = <<r>>] /\ closers' = closers
    BY <1>1 DEF AddCloser
  <2>2. toClose' \in [Thread -> Seq(Resource)]
    BY <2>1 DEF SessionTypeOK
  <2>3. Accounted(r)'
    <3>1. toClose'[t] = <<r>>
      BY <2>1 DEF SessionTypeOK
    <3>2. 1 \in DOMAIN toClose'[t] /\ toClose'[t][1] = r
      BY <3>1
    <3>3. QED
      BY <3>2 DEF Accounted, Registered, InHand
  <2>4. ASSUME NEW q \in Resource, Accounted(q)
        PROVE  Accounted(q)'
    <3>1. CASE \E i \in DOMAIN closers : closers[i] = q
      BY <2>1, <3>1 DEF Accounted, Registered, InHand
    <3>2. CASE \E u \in Thread : \E i \in DOMAIN toClose[u] : toClose[u][i] = q
      <4>1. PICK u \in Thread : \E i \in DOMAIN toClose[u] : toClose[u][i] = q
        BY <3>2
      <4>2. u # t
        BY <4>1
      <4>3. toClose'[u] = toClose[u]
        BY <2>1, <4>2 DEF SessionTypeOK
      <4>4. QED
        BY <4>1, <4>3 DEF Accounted, Registered, InHand
    <3>3. QED
      BY <2>4, <3>1, <3>2 DEF Accounted, Registered, InHand
  <2>5. QED
    BY <2>1, <2>2, <2>3, <2>4 DEF SessionTypeOK
<1>2. CASE ~closed
  <2>1. closers' = Append(closers, r) /\ toClose' = toClose
    BY <1>2 DEF AddCloser
  <2>2. closers' \in Seq(Resource)
    BY <2>1 DEF SessionTypeOK
  <2>3. Len(closers) + 1 \in DOMAIN closers' /\ closers'[Len(closers) + 1] = r
    BY <2>1 DEF SessionTypeOK
  <2>4. \A i \in DOMAIN closers : i \in DOMAIN closers' /\ closers'[i] = closers[i]
    BY <2>1 DEF SessionTypeOK
  <2>5. \A q \in Resource : Accounted(q) \/ q = r => Accounted(q)'
    BY <2>1, <2>3, <2>4 DEF Accounted, Registered, InHand
  <2>6. QED
    BY <1>2, <2>1, <2>2, <2>5 DEF SessionTypeOK
<1>3. QED
  BY <1>1, <1>2

-----------------------------------------------------------------------------
\* A step that only moves a thread, to shutdown only once the session has ended,
\* keeps the core invariant, whatever it does to what is not mentioned there.
LEMMA MoveCore ==
  ASSUME NEW L, CoreInv(L), NEW t \in Thread, NEW l \in L \ {"take"},
         Go(t, l), SessionTypeOK', UNCHANGED <<cancelled, closed>>,
         l = "cancel" => state \in Ended,
         state \in Ended => state' = state,
         closed /\ closers = <<>> => closers' = <<>>
  PROVE  CoreInv(L)'
<1>1. pc' = [pc EXCEPT ![t] = l] /\ pc' \in [Thread -> L]
  BY DEF Go, CoreInv
<1>2. ClosedIsFinal'
  BY DEF CoreInv, ClosedIsFinal
<1>3. ShutdownOrder'
  BY <1>1 DEF CoreInv, ShutdownOrder
<1>4. QED
  BY <1>1, <1>2, <1>3 DEF CoreInv

\* Entering shutdown by way of setState keeps the core invariant: stop, fail
\* and completion all report the end before they cancel and close.
LEMMA FinishCore ==
  ASSUME NEW L, CoreInv(L), NEW t \in Thread, NEW st \in Ended, Finish(t, st)
  PROVE  CoreInv(L)'
<1>0. st \in State
  BY DEF State
<1>1. /\ state' \in State
      /\ pend' \in [Thread -> EventName \cup {"none"}]
      /\ state \in Ended => state' = state
      /\ state' \in Ended
  BY <1>0, SetStateKeepsEnd DEF Finish, CoreInv
<1>2. SessionTypeOK'
  BY <1>1 DEF CoreInv, SessionTypeOK, Finish
<1>3. pc' = [pc EXCEPT ![t] = "cancel"] /\ pc' \in [Thread -> L]
  BY DEF Finish, Go, CoreInv, SharedLabel
<1>4. ClosedIsFinal'
  BY <1>1 DEF CoreInv, ClosedIsFinal, Finish
<1>5. ShutdownOrder'
  BY <1>1, <1>3 DEF CoreInv, ShutdownOrder, Finish
<1>6. QED
  BY <1>2, <1>3, <1>4, <1>5 DEF CoreInv

\* A step of session.go keeps the core invariant.
LEMMA SessionStepCore ==
  ASSUME NEW L, CoreInv(L), NEW t \in Thread, SessionStep(t)
  PROVE  CoreInv(L)'
<1> USE DEF CoreInv, At, Go
<1>1. CASE PushEvent(t)
  <2>1. pend[t] \in EventName
    BY <1>1 DEF PushEvent, SessionTypeOK
  <2>2. SessionTypeOK'
    BY <1>1, <2>1 DEF PushEvent, SessionTypeOK
  <2>3. QED
    BY <1>1, <2>2 DEF PushEvent, ClosedIsFinal, ShutdownOrder
<1>2. CASE CloseNext(t)
  <2>1. /\ toClose[t] \in Seq(Resource)
        /\ toClose[t] # <<>>
    BY <1>2 DEF CloseNext, SessionTypeOK
  <2>2. Head(toClose[t]) \in Resource /\ Tail(toClose[t]) \in Seq(Resource)
    BY <2>1
  <2>3. SessionTypeOK'
    BY <1>2, <2>2 DEF CloseNext, SessionTypeOK
  <2>4. QED
    BY <1>2, <2>3 DEF CloseNext, ClosedIsFinal, ShutdownOrder
<1>3. CASE EmitError(t)
  <2>1. SessionTypeOK'
    BY <1>3 DEF EmitError, SessionTypeOK, EventName
  <2>2. pc' \in [Thread -> L]
    BY <1>3 DEF EmitError, SharedLabel
  <2>3. QED
    BY <1>3, <2>1, <2>2 DEF EmitError, ClosedIsFinal, ShutdownOrder
<1>4. CASE EnterFailed(t)
  BY <1>4, FinishCore DEF EnterFailed, Ended
<1>5. CASE Cancel(t)
  <2>1. SessionTypeOK' /\ pc' \in [Thread -> L]
    BY <1>5 DEF Cancel, SessionTypeOK, SharedLabel
  <2>2. QED
    BY <1>5, <2>1 DEF Cancel, ClosedIsFinal, ShutdownOrder
<1>6. CASE TakeClosers(t)
  <2>1. state \in Ended /\ cancelled
    BY <1>6 DEF TakeClosers, ShutdownOrder
  <2>2. Reverse(closers) \in Seq(Resource)
    BY ReverseSeq DEF SessionTypeOK
  <2>3. SessionTypeOK' /\ pc' \in [Thread -> L]
    <3>1. CASE closed
      BY <1>6, <3>1 DEF TakeClosers, SessionTypeOK, SharedLabel
    <3>2. CASE ~closed
      <4>1. /\ closed' = TRUE
            /\ closers' = <<>>
            /\ toClose' = [toClose EXCEPT ![t] = Reverse(closers)]
        BY <1>6, <3>2 DEF TakeClosers
      <4>2. toClose' \in [Thread -> Seq(Resource)]
        BY <2>2, <4>1 DEF SessionTypeOK
      <4>3. pc' \in [Thread -> L]
        BY <1>6 DEF TakeClosers, SharedLabel
      <4>4. QED
        BY <1>6, <4>1, <4>2, <4>3 DEF TakeClosers, SessionTypeOK
    <3>3. QED
      BY <3>1, <3>2
  <2>4. ClosedIsFinal'
    BY <1>6, <2>1 DEF TakeClosers, ClosedIsFinal
  <2>5. ShutdownOrder'
    BY <1>6 DEF TakeClosers, ShutdownOrder
  <2>6. QED
    BY <2>3, <2>4, <2>5
<1>7. QED
  BY <1>1, <1>2, <1>3, <1>4, <1>5, <1>6 DEF SessionStep

\* What a step of session.go does to the threads: at most t moves, from a label
\* of session.go to the next one.
LEMMA SessionStepMoves ==
  ASSUME NEW L, CoreInv(L), NEW t \in Thread, SessionStep(t) \/ Stop(t)
  PROVE  \A u \in Thread :
           \/ pc'[u] = pc[u]
           \/ /\ u = t
              /\ \/ pc[u] = "fail" /\ pc'[u] = "failed"
                 \/ pc[u] \in {"failed", "stop"} /\ pc'[u] = "cancel"
                 \/ pc[u] = "cancel" /\ pc'[u] = "take"
                 \/ pc[u] = "take" /\ pc'[u] = "halt"
<1>1. /\ pc \in [Thread -> L]
      /\ \/ pc' = pc
         \/ pc[t] = "fail" /\ pc' = [pc EXCEPT ![t] = "failed"]
         \/ pc[t] \in {"failed", "stop"} /\ pc' = [pc EXCEPT ![t] = "cancel"]
         \/ pc[t] = "cancel" /\ pc' = [pc EXCEPT ![t] = "take"]
         \/ pc[t] = "take" /\ pc' = [pc EXCEPT ![t] = "halt"]
  BY DEF CoreInv, SessionStep, PushEvent, CloseNext, EmitError, EnterFailed, Cancel,
         TakeClosers, Stop, Finish, At, Go
<1>2. QED
  BY <1>1

\* What it does to the state and to what is reported: session.go by itself only
\* fails and stops a session, and an error event comes from a thread at fail.
LEMMA SessionStepTells ==
  ASSUME NEW L, CoreInv(L), NEW t \in Thread, SessionStep(t) \/ Stop(t)
  PROVE  /\ state' \in {state, "failed", "stopped"}
         /\ state \in Ended => state' = state
         /\ \A u \in Thread : pend'[u] \in {pend[u], "none", "failed", "stopped"}
         /\ \A i \in DOMAIN told' :
              \/ \E j \in DOMAIN told : told'[i] = told[j]
              \/ told'[i] # "none" /\ \E u \in Thread : told'[i] = pend[u]
              \/ told'[i] = "error" /\ pc[t] = "fail" /\ pc'[t] = "failed"
<1>1. ASSUME NEW st \in {"failed", "stopped"}, Finish(t, st)
      PROVE  /\ state' \in {state, "failed", "stopped"}
             /\ state \in Ended => state' = state
             /\ \A u \in Thread : pend'[u] \in {pend[u], "none", "failed", "stopped"}
             /\ told' = told
  BY <1>1 DEF Finish, SetState, CoreInv, SessionTypeOK
<1>2. CASE PushEvent(t)
  BY <1>2 DEF PushEvent, CoreInv, SessionTypeOK
<1>3. CASE EmitError(t)
  BY <1>3 DEF EmitError, At, Go, CoreInv, SessionTypeOK
<1>4. CASE CloseNext(t) \/ Cancel(t) \/ TakeClosers(t)
  BY <1>4 DEF CloseNext, Cancel, TakeClosers
<1>5. QED
  BY <1>1, <1>2, <1>3, <1>4 DEF SessionStep, EnterFailed, Stop

\* A step of session.go opens nothing, and what it leaves open stays on its
\* way to being closed.
LEMMA SessionStepAccounts ==
  ASSUME NEW L, CoreInv(L), NEW t \in Thread, SessionStep(t) \/ Stop(t),
         NEW r \in Resource, res'[r] = "open"
  PROVE  /\ res[r] = "open"
         /\ Accounted(r) => Accounted(r)'
<1>1. CASE /\ UNCHANGED <<res, closers, toClose>>
  BY <1>1 DEF Accounted, Registered, InHand
<1>2. CASE CloseNext(t)
  <2>1. /\ toClose[t] \in Seq(Resource) /\ toClose[t] # <<>>
        /\ r # Head(toClose[t]) /\ res[r] = "open"
    BY <1>2 DEF CloseNext, CoreInv, SessionTypeOK
  <2>2. toClose'[t] = Tail(toClose[t]) /\ closers' = closers
    BY <1>2 DEF CloseNext, CoreInv, SessionTypeOK
  <2>3. ASSUME NEW u \in Thread, NEW i \in DOMAIN toClose[u], toClose[u][i] = r
        PROVE  \E j \in DOMAIN toClose'[u] : toClose'[u][j] = r
    <3>1. CASE u = t
      <4>1. i \in DOMAIN toClose[t] /\ toClose[t][i] # Head(toClose[t])
        BY <2>1, <2>3, <3>1
      <4>2. \E j \in DOMAIN Tail(toClose[t]) : Tail(toClose[t])[j] = toClose[t][i]
        BY <2>1, <4>1, TailKeeps
      <4>3. QED
        BY <2>2, <2>3, <3>1, <4>2
    <3>2. CASE u # t
      <4>1. toClose'[u] = toClose[u]
        BY <1>2, <3>2 DEF CloseNext, CoreInv, SessionTypeOK
      <4>2. QED
        BY <2>3, <4>1
    <3>3. QED
      BY <3>1, <3>2
  <2>4. QED
    BY <2>1, <2>2, <2>3 DEF Accounted, Registered, InHand
<1>3. CASE TakeClosers(t)
  <2>0. res' = res
    BY <1>3 DEF TakeClosers
  <2>1. CASE closed
    BY <1>3, <2>0, <2>1 DEF TakeClosers, Accounted, Registered, InHand
  <2>2. CASE ~closed
    <3>1. /\ toClose[t] = <<>>
          /\ toClose' = [toClose EXCEPT ![t] = Reverse(closers)]
      BY <1>3, <2>2 DEF TakeClosers, At
    <3>2. toClose'[t] = Reverse(closers)
      BY <3>1 DEF CoreInv, SessionTypeOK
    <3>3. ASSUME NEW i \in DOMAIN closers, closers[i] = r
          PROVE  Accounted(r)'
      <4>1. \E j \in DOMAIN Reverse(closers) : Reverse(closers)[j] = r
        BY <3>3, ReverseSeq DEF CoreInv, SessionTypeOK
      <4>2. QED
        BY <3>2, <4>1 DEF Accounted, Registered, InHand
    <3>4. ASSUME NEW u \in Thread, NEW i \in DOMAIN toClose[u], toClose[u][i] = r
          PROVE  Accounted(r)'
      <4>1. u # t
        BY <3>1, <3>4
      <4>2. toClose'[u] = toClose[u]
        BY <3>1, <4>1 DEF CoreInv, SessionTypeOK
      <4>3. QED
        BY <3>4, <4>2 DEF Accounted, Registered, InHand
    <3>5. QED
      BY <2>0, <3>3, <3>4 DEF Accounted, Registered, InHand
  <2>3. QED
    BY <2>1, <2>2
<1>4. QED
  BY <1>1, <1>2, <1>3
  DEF SessionStep, PushEvent, EmitError, EnterFailed, Cancel, Finish, Stop

-----------------------------------------------------------------------------
(* Nothing is closed twice.                                                *)

\* A step of session.go does not undo the opening of anything.
LEMMA SessionStepOpens ==
  ASSUME NEW L, CoreInv(L), NEW t \in Thread, SessionStep(t) \/ Stop(t),
         NEW r \in Resource, res'[r] = "absent"
  PROVE  res[r] = "absent"
<1>1. CASE CloseNext(t)
  BY <1>1 DEF CloseNext, CoreInv, SessionTypeOK
<1>2. CASE UNCHANGED res
  BY <1>2
<1>3. QED
  BY <1>1, <1>2
  DEF SessionStep, PushEvent, EmitError, EnterFailed, Cancel, TakeClosers, Finish, Stop

\* What a step of session.go leaves to whoever had it: it opens nothing, what
\* stays open stays accounted for, and what nobody has registered it neither
\* registers nor closes.
KeepsOwners ==
  \A r \in Resource :
    /\ res'[r] = "open" => res[r] = "open" /\ (Accounted(r) => Accounted(r)')
    /\ ~Accounted(r) => ~Accounted(r)' /\ res'[r] = res[r]

\* A step that opens at most what is not open, and takes or registers nothing.
LEMMA OpenOnce ==
  ASSUME ClosedOnce, UNCHANGED <<closers, toClose>>,
         \A r \in Resource : res[r] = "open" => res'[r] = "open"
  PROVE  /\ ClosedOnce'
         /\ \A r \in Resource : Accounted(r)' <=> Accounted(r)
<1>1. \A r : Registered(r)' <=> Registered(r)
  BY DEF Registered
<1>2. \A r : \A t \in Thread : InHand(t, r)' <=> InHand(t, r)
  BY DEF InHand
<1>3. QED
  BY <1>1, <1>2 DEF ClosedOnce, Accounted

\* A thread takes what is open and in no other place in hand, to close it.
LEMMA TakeOnce ==
  ASSUME SessionTypeOK, ClosedOnce, NEW t \in Thread, NEW s \in Seq(Resource),
         IsInjective(s), toClose[t] = <<>>, toClose' = [toClose EXCEPT ![t] = s],
         UNCHANGED <<closers, res>>,
         \A r \in ToSet(s) : res[r] = "open" /\ ~Accounted(r)
  PROVE  /\ toClose' \in [Thread -> Seq(Resource)]
         /\ ClosedOnce'
         /\ \A r \in Resource : Accounted(r)' <=> Accounted(r) \/ r \in ToSet(s)
<1>1. /\ toClose' \in [Thread -> Seq(Resource)]
      /\ toClose'[t] = s
      /\ \A u \in Thread \ {t} : toClose'[u] = toClose[u]
  BY DEF SessionTypeOK
<1>2. \A r : Registered(r)' <=> Registered(r)
  BY DEF Registered
<1>3. \A r : \A u \in Thread \ {t} : InHand(u, r)' <=> InHand(u, r)
  BY <1>1 DEF InHand
<1>4. \A r : ~InHand(t, r) /\ (InHand(t, r)' <=> r \in ToSet(s))
  BY <1>1 DEF InHand, ToSet
<1>5. \A u \in Thread : IsInjective(toClose'[u])
  BY <1>1 DEF ClosedOnce
<1>6. \A r \in Resource : InHand(t, r)' => res[r] = "open" /\ ~Accounted(r)
  BY <1>4
<1>7. ClosedOnce'
  <2>1. ASSUME NEW r \in Resource, NEW u \in Thread, InHand(u, r)'
        PROVE  /\ res'[r] = "open"
               /\ ~Registered(r)'
               /\ \A v \in Thread \ {u} : ~InHand(v, r)'
    <3>1. CASE u = t
      BY <1>2, <1>3, <1>6, <2>1, <3>1 DEF Accounted
    <3>2. CASE u # t
      BY <1>2, <1>3, <1>6, <2>1, <3>2 DEF ClosedOnce, Accounted
    <3>3. QED
      BY <3>1, <3>2
  <2>2. QED
    BY <1>2, <1>5, <2>1 DEF ClosedOnce
<1>8. QED
  BY <1>1, <1>2, <1>3, <1>4, <1>7 DEF Accounted

\* addCloser gives what it is given one place.
LEMMA AddCloserOnce ==
  ASSUME SessionTypeOK, ClosedOnce, NEW t \in Thread, NEW r \in Resource,
         toClose[t] = <<>>, AddCloser(t, r), res[r] = "open", ~Accounted(r), UNCHANGED res
  PROVE  /\ ClosedOnce'
         /\ \A q \in Resource : Accounted(q)' <=> Accounted(q) \/ q = r
<1>1. CASE closed
  <2>1. /\ toClose' = [toClose EXCEPT ![t] = <<r>>] /\ closers' = closers
        /\ <<r>> \in Seq(Resource) /\ DOMAIN <<r>> = {1} /\ <<r>>[1] = r
        /\ ToSet(<<r>>) = {r}
    BY <1>1 DEF AddCloser, ToSet
  <2>2. IsInjective(<<r>>)
    BY <2>1 DEF IsInjective
  <2>3. QED
    BY <2>1, <2>2, TakeOnce
<1>2. CASE ~closed
  <2>1. /\ closers' = Append(closers, r) /\ toClose' = toClose
        /\ closers \in Seq(Resource)
    BY <1>2 DEF AddCloser, SessionTypeOK
  <2>2. /\ DOMAIN closers' = DOMAIN closers \cup {Len(closers) + 1}
        /\ Len(closers) + 1 \notin DOMAIN closers
        /\ closers'[Len(closers) + 1] = r
        /\ \A i \in DOMAIN closers : closers'[i] = closers[i]
    BY <2>1
  <2>3. \A q : Registered(q)' <=> Registered(q) \/ q = r
    BY <2>2 DEF Registered
  <2>4. \A q : \A u \in Thread : InHand(u, q)' <=> InHand(u, q)
    BY <2>1 DEF InHand
  <2>5. IsInjective(closers')
    BY <2>2 DEF IsInjective, ClosedOnce, Accounted, Registered
  <2>6. QED
    BY <2>1, <2>3, <2>4, <2>5 DEF ClosedOnce, Accounted
<1>3. QED
  BY <1>1, <1>2

\* A step of session.go closes what it closes once, and shutdown passes the
\* list on to one thread.
LEMMA SessionStepOnce ==
  ASSUME NEW L, CoreInv(L), ClosedOnce, NEW t \in Thread, SessionStep(t) \/ Stop(t)
  PROVE  ClosedOnce' /\ KeepsOwners
<1>1. ASSUME NEW r \in Resource, res'[r] = "open"
      PROVE  res[r] = "open" /\ (Accounted(r) => Accounted(r)')
  BY <1>1, SessionStepAccounts
<1>2. CASE UNCHANGED <<res, closers, toClose>>
  BY <1>1, <1>2, OpenOnce DEF KeepsOwners
<1>3. CASE CloseNext(t)
  <2>1. /\ toClose[t] \in Seq(Resource) /\ toClose[t] # <<>> /\ IsInjective(toClose[t])
        /\ toClose'[t] = Tail(toClose[t])
        /\ \A u \in Thread \ {t} : toClose'[u] = toClose[u]
        /\ closers' = closers
        /\ \A r \in Resource : r # Head(toClose[t]) => res'[r] = res[r]
    BY <1>3 DEF CloseNext, CoreInv, SessionTypeOK, ClosedOnce
  <2>2. /\ IsInjective(Tail(toClose[t]))
        /\ InHand(t, Head(toClose[t]))
        /\ \A r : InHand(t, r)' => InHand(t, r) /\ r # Head(toClose[t])
    BY <2>1, TailLacksHead DEF InHand
  <2>3. \A r : Registered(r)' <=> Registered(r)
    BY <2>1 DEF Registered
  <2>4. \A r : \A u \in Thread \ {t} : InHand(u, r)' <=> InHand(u, r)
    BY <2>1 DEF InHand
  <2>5. Head(toClose[t]) \in Resource
    BY <2>1
  <2>6. ClosedOnce'
    <3>1. \A u \in Thread : IsInjective(toClose'[u])
      BY <2>1, <2>2 DEF ClosedOnce
    <3>2. \A r \in Resource : Registered(r) => r # Head(toClose[t]) /\ res[r] = "open"
      BY <2>2, <2>5 DEF ClosedOnce
    <3>3. ASSUME NEW r \in Resource, NEW u \in Thread, InHand(u, r)'
          PROVE  r # Head(toClose[t]) /\ InHand(u, r)
      BY <2>2, <2>4, <2>5, <3>3 DEF ClosedOnce
    <3>4. QED
      BY <2>1, <2>3, <3>1, <3>2, <3>3 DEF ClosedOnce
  <2>7. QED
    BY <1>1, <2>1, <2>2, <2>3, <2>4, <2>6 DEF KeepsOwners, Accounted
<1>4. CASE TakeClosers(t)
  <2>1. CASE closed
    BY <1>2, <1>4, <2>1 DEF TakeClosers
  <2>2. CASE ~closed
    <3>1. /\ toClose[t] = <<>> /\ closers' = <<>> /\ res' = res
          /\ closers \in Seq(Resource)
          /\ toClose'[t] = Reverse(closers)
          /\ \A u \in Thread \ {t} : toClose'[u] = toClose[u]
      BY <1>4, <2>2 DEF TakeClosers, At, CoreInv, SessionTypeOK
    <3>2. /\ IsInjective(toClose'[t])
          /\ \A r : InHand(t, r)' <=> Registered(r)
      BY <3>1, ReverseSeq DEF InHand, Registered, ClosedOnce
    <3>3. \A r : ~Registered(r)' /\ ~InHand(t, r)
      BY <3>1 DEF Registered, InHand
    <3>4. \A r : \A u \in Thread \ {t} : InHand(u, r)' <=> InHand(u, r)
      BY <3>1 DEF InHand
    <3>5. ClosedOnce'
      <4>1. IsInjective(closers') /\ \A u \in Thread : IsInjective(toClose'[u])
        BY <3>1, <3>2 DEF ClosedOnce, IsInjective
      <4>2. ASSUME NEW r \in Resource, NEW u \in Thread, InHand(u, r)'
            PROVE  /\ res'[r] = "open"
                   /\ ~Registered(r)'
                   /\ \A v \in Thread \ {u} : ~InHand(v, r)'
        <5>1. CASE u = t
          BY <3>1, <3>2, <3>3, <3>4, <4>2, <5>1 DEF ClosedOnce
        <5>2. CASE u # t
          BY <3>1, <3>2, <3>3, <3>4, <4>2, <5>2 DEF ClosedOnce
        <5>3. QED
          BY <5>1, <5>2
      <4>3. QED
        BY <3>3, <4>1, <4>2 DEF ClosedOnce
    <3>6. QED
      BY <1>1, <3>1, <3>2, <3>3, <3>4, <3>5 DEF KeepsOwners, Accounted
  <2>3. QED
    BY <2>1, <2>2
<1>5. QED
  BY <1>2, <1>3, <1>4
  DEF SessionStep, PushEvent, EmitError, EnterFailed, Cancel, Finish, Stop

-----------------------------------------------------------------------------
(* The end is reported once.                                               *)

\* The end of an ended session is one event, with the state it ended in: it is
\* still to be pushed by one thread, or it has been pushed.
EndInv ==
  /\ \A t \in Thread : pend[t] \in Ended => pend[t] = state
  /\ \A i \in DOMAIN told : told[i] \in Ended => told[i] = state
  /\ \A t, u \in Thread : pend[t] \in Ended /\ pend[u] \in Ended => t = u
  /\ \A i, j \in DOMAIN told : told[i] \in Ended /\ told[j] \in Ended => i = j
  /\ \A t \in Thread, i \in DOMAIN told : ~(pend[t] \in Ended /\ told[i] \in Ended)
  /\ state \in Ended => \/ \E t \in Thread : pend[t] \in Ended
                        \/ \E i \in DOMAIN told : told[i] \in Ended

\* setState of a thread that has nothing else to push.
LEMMA SetStateReports ==
  ASSUME SessionTypeOK, EndInv, NEW t \in Thread, NEW st \in State,
         SetState(t, st), pend[t] = "none", UNCHANGED told
  PROVE  EndInv'
<1>1. CASE state \in Ended
  BY <1>1 DEF SetState, EndInv
<1>2. CASE state \notin Ended
  <2>1. /\ state' = st
        /\ pend'[t] = st
        /\ \A u \in Thread \ {t} : pend'[u] = pend[u]
    BY <1>2 DEF SetState, SessionTypeOK
  <2>2. /\ \A u \in Thread : pend[u] \notin Ended
        /\ \A i \in DOMAIN told : told[i] \notin Ended
    BY <1>2 DEF EndInv
  <2>3. QED
    BY <2>1, <2>2 DEF EndInv
<1>3. QED
  BY <1>1, <1>2

\* A step that reports no state: it pushes nothing, and at most builds an event
\* of another kind.
LEMMA OtherReports ==
  ASSUME SessionTypeOK, EndInv, UNCHANGED <<state, told>>,
         \/ UNCHANGED pend
         \/ \E t \in Thread, e \in {"token", "error"} :
              pend[t] = "none" /\ pend' = [pend EXCEPT ![t] = e]
  PROVE  EndInv'
<1>1. \A u \in Thread : pend'[u] \in Ended \/ pend[u] \in Ended => pend'[u] = pend[u]
  BY DEF SessionTypeOK, Ended
<1>2. QED
  BY <1>1 DEF EndInv

\* A step of session.go: the event of the end is built with the state, under the
\* lock, and pushed after it by the thread that built it.
LEMMA SessionStepReports ==
  ASSUME SessionTypeOK, EndInv, NEW t \in Thread, SessionStep(t) \/ Stop(t)
  PROVE  EndInv'
<1>1. ASSUME NEW st \in Ended, Finish(t, st), pend[t] = "none"
      PROVE  EndInv'
  BY <1>1, SetStateReports DEF Finish, State
<1>2. CASE PushEvent(t)
  <2>1. /\ state' = state
        /\ DOMAIN told' = DOMAIN told \cup {Len(told) + 1}
        /\ Len(told) + 1 \notin DOMAIN told
        /\ told'[Len(told) + 1] = pend[t]
        /\ \A i \in DOMAIN told : told'[i] = told[i]
        /\ pend'[t] = "none"
        /\ \A u \in Thread \ {t} : pend'[u] = pend[u]
    BY <1>2 DEF PushEvent, SessionTypeOK
  <2>2. pend'[t] \notin Ended
    BY <2>1 DEF Ended
  <2>3. QED
    BY <2>1, <2>2 DEF EndInv
<1>3. CASE EmitError(t)
  <2>1. /\ state' = state /\ pend' = pend
        /\ DOMAIN told' = DOMAIN told \cup {Len(told) + 1}
        /\ told'[Len(told) + 1] \notin Ended
        /\ \A i \in DOMAIN told : told'[i] = told[i]
    BY <1>3 DEF EmitError, SessionTypeOK, Ended
  <2>2. QED
    BY <2>1 DEF EndInv
<1>4. CASE CloseNext(t) \/ Cancel(t) \/ TakeClosers(t)
  BY <1>4, OtherReports DEF CloseNext, Cancel, TakeClosers
<1>5. QED
  BY <1>1, <1>2, <1>3, <1>4 DEF SessionStep, EnterFailed, Stop, At, Ended

\* What the invariant says of a session at rest, and at any time.
LEMMA EndReported ==
  ASSUME EndInv
  PROVE  EndReportedOnce
<1>1. state \in Ended /\ AllQuiet => \E i \in DOMAIN told : told[i] \in Ended
  BY DEF EndInv, AllQuiet, Quiet, Ended
<1>2. QED
  BY <1>1 DEF EndInv, EndReportedOnce

-----------------------------------------------------------------------------
\* A new session: nothing is registered, nothing in hand, nothing reported.
LEMMA NewSession ==
  ASSUME SessionInit, res \in [Resource -> {"absent", "open", "closed"}]
  PROVE  /\ SessionTypeOK
         /\ ClosedIsFinal
         /\ ClosedOnce
         /\ \A r \in Resource : ~Accounted(r)
         /\ EndInv
<1>1. closed \in BOOLEAN /\ cancelled \in BOOLEAN
  <2>1. closed = FALSE /\ cancelled = FALSE
    BY DEF SessionInit
  <2>2. QED
    BY <2>1
<1>2. SessionTypeOK
  BY <1>1 DEF SessionInit, SessionTypeOK, State, EventName
<1>3. ClosedIsFinal
  BY DEF SessionInit, ClosedIsFinal
<1>4. \A r : ~Registered(r) /\ \A t \in Thread : ~InHand(t, r)
  BY DEF SessionInit, Registered, InHand
<1>5. /\ IsInjective(closers)
      /\ \A t \in Thread : IsInjective(toClose[t])
  <2>1. IsInjective(<<>>)
    BY DEF IsInjective
  <2>2. QED
    BY <2>1 DEF SessionInit
<1>6. ClosedOnce /\ \A r \in Resource : ~Accounted(r)
  BY <1>4, <1>5 DEF ClosedOnce, Accounted
<1>7. EndInv
  BY DEF SessionInit, EndInv, Ended
<1>8. QED
  BY <1>2, <1>3, <1>6, <1>7

\* What a quiet, closed session has left: nothing registered, nothing in hand.
LEMMA QuietAccounts ==
  ASSUME NEW L, CoreInv(L), closed, AllQuiet, NEW r \in Resource
  PROVE  ~Accounted(r)
  BY DEF CoreInv, ClosedIsFinal, AllQuiet, Quiet, Accounted, Registered, InHand

-----------------------------------------------------------------------------
\* The steps that setState, stop, fail and shutdown take are steps or stutters
\* of the lifecycle.
LEMMA SessionStepRefines ==
  ASSUME NEW L, CoreInv(L), NEW t \in Thread, SessionStep(t) \/ Stop(t)
  PROVE  Life!Next \/ UNCHANGED Life!vars
<1>1. ASSUME NEW st \in Ended, Finish(t, st)
      PROVE  Life!Next \/ UNCHANGED Life!vars
  BY <1>1 DEF Finish, SetState, Ended, Life!Next, Life!End, Life!Ended, Life!vars
<1>2. CASE TakeClosers(t)
  <2>1. state \in Ended /\ state' = state
    BY <1>2 DEF TakeClosers, At, CoreInv, ShutdownOrder
  <2>2. CASE closed
    BY <1>2, <2>1, <2>2 DEF TakeClosers, Life!vars
  <2>3. CASE ~closed
    BY <1>2, <2>1, <2>3 DEF TakeClosers, Ended, Life!Next, Life!Dispose, Life!Ended
  <2>4. QED
    BY <2>2, <2>3
<1>3. QED
  BY <1>1, <1>2 DEF SessionStep, PushEvent, CloseNext, EmitError, EnterFailed,
                    Cancel, Stop, Ended, Life!vars
=============================================================================
