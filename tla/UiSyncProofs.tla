---------------------------- MODULE UiSyncProofs ----------------------------
(***************************************************************************)
(* Proofs about UiSync, for any number of sessions, a queue of any size    *)
(* and any number of restarts of the app: when nothing is on its way, the  *)
(* screen shows the core's state and the poll has slowed down.             *)
(***************************************************************************)
EXTENDS UiSync, TLAPS

\* The session has come to state s.
Reached(id, s) ==
  /\ core[id] # None
  /\ s = "starting" => worker[id] \notin {"none", "starting"}
  /\ s = "running" => worker[id] = "halt"
  /\ s = "ended" => core[id].state = "ended"

\* What was told of a session, or is going to be, it has come to.
CoreInv ==
  \A id \in Id :
    /\ worker[id] = "none" <=> core[id] = None
    /\ last[id] # None => Reached(id, last[id])
    /\ \A t \in {"worker", "stop"} :
         pending[t][id] # None =>
           /\ core[id] # None
           /\ pending[t][id].id = id
           /\ pending[t][id].type = "session_state" => Reached(id, pending[t][id].state)

\* The entry of the session, or the row it is going to get, has the core's state;
\* no rows come when list_sessions has failed.
Shown(id) ==
  IF ui[id] # None THEN ui[id].state = core[id].state
  ELSE \/ seed \in {"none", "called", "failed"}
       \/ /\ seed \in {"answered", "returned"}
          /\ rows[id] # None
          /\ rows[id].state = core[id].state

\* The newest event of q for the session, when there is one, tells state x.
Newest(q, id, x) == \A i : LastTells(q, id, i) => q[i].state = x

\* The newest event on its way tells what was told last; when there is none, the
\* poll and the screen have the news.
NewsInv ==
  \A id \in Id :
    /\ Newest(queue, id, last[id])
    /\ Silent(queue, id) =>
         /\ Newest(stream, id, last[id])
         /\ id \in active => last[id] \notin {None, "ended"}
         /\ Silent(stream, id) /\ InOrder(id) /\ id \notin removed => Shown(id)

\* Nothing comes to the screen before it listens, and the timer follows _active.
AppInv ==
  /\ seed = "none" => stream = <<>> /\ \A id \in Id : ui[id] = None
  /\ timer = IF active = {} THEN "idle" ELSE "active"

UInv == TypeOK /\ CoreInv /\ AppInv /\ (~lossy => NewsInv)

-----------------------------------------------------------------------------
(* Events and sequences of events.                                         *)

LEMMA EventFacts ==
  /\ \A e \in Event : /\ e.id \in Id /\ e.type \in {"session_state", "token_ready"}
                      /\ e.type = "session_state" => e.state \in States
                      /\ e # None
  /\ \A id \in Id, s \in States :
       /\ StateEvent(id, s) \in Event /\ StateEvent(id, s).id = id
       /\ StateEvent(id, s).type = "session_state" /\ StateEvent(id, s).state = s
  /\ \A id \in Id :
       /\ TokenEvent(id) \in Event /\ TokenEvent(id).id = id
       /\ TokenEvent(id).type = "token_ready"
<1>1. \A id \in Id, s \in States :
        /\ StateEvent(id, s) \in Event /\ StateEvent(id, s).id = id
        /\ StateEvent(id, s).type = "session_state" /\ StateEvent(id, s).state = s
  <2>1. \A id \in Id, s \in States : StateEvent(id, s) \in Event
    BY DEF Event
  <2>. QED  BY <2>1 DEF StateEvent
<1>2. \A id \in Id :
        /\ TokenEvent(id) \in Event /\ TokenEvent(id).id = id
        /\ TokenEvent(id).type = "token_ready"
  <2>1. \A id \in Id : TokenEvent(id) \in Event
    BY DEF Event
  <2>. QED  BY <2>1 DEF TokenEvent
<1>3. ASSUME NEW e \in Event
      PROVE  /\ e.id \in Id /\ e.type \in {"session_state", "token_ready"}
             /\ e.type = "session_state" => e.state \in States
             /\ e # None
  <2>1. CASE \E id \in Id, s \in States : e = StateEvent(id, s)
    <3>1. PICK id \in Id, s \in States : e = StateEvent(id, s)
      BY <2>1
    <3>. QED  BY <1>1, <3>1, NoneIsNothing
  <2>2. CASE \E id \in Id : e = TokenEvent(id)
    <3>1. PICK id \in Id : e = TokenEvent(id)
      BY <2>2
    <3>. QED  BY <1>2, <3>1, NoneIsNothing
  <2>. QED  BY <2>1, <2>2 DEF Event
<1>. QED  BY <1>1, <1>2, <1>3

\* What a list of events tells when one more is behind it.
LEMMA AppendTells ==
  ASSUME NEW q \in Seq(Event), NEW e \in Event, NEW id \in Id, NEW r, r = Append(q, e)
  PROVE  /\ Tells(e, id) => ~Silent(r, id) /\ Newest(r, id, e.state)
         /\ ~Tells(e, id) => /\ Silent(r, id) => Silent(q, id)
                             /\ \A x : Newest(q, id, x) => Newest(r, id, x)
<1>1. /\ Len(q) \in Nat /\ DOMAIN q = 1..Len(q)
      /\ Len(r) = Len(q) + 1 /\ DOMAIN r = 1..Len(q) + 1
      /\ r[Len(q) + 1] = e
      /\ \A i \in 1..Len(q) : r[i] = q[i]
  OBVIOUS
<1>2. \A i \in DOMAIN r : i \in DOMAIN q \/ i = Len(q) + 1
  BY <1>1
<1>3. DOMAIN q \subseteq DOMAIN r /\ Len(q) + 1 \in DOMAIN r
  BY <1>1
<1>4. ASSUME Tells(e, id)
      PROVE  ~Silent(r, id) /\ \A i : LastTells(r, id, i) => r[i] = e
  <2>1. ~Silent(r, id)
    BY <1>1, <1>3, <1>4 DEF Silent
  <2>2. ASSUME NEW i, LastTells(r, id, i), i # Len(q) + 1
        PROVE  FALSE
    <3>1. i \in 1..Len(q)
      BY <1>1, <1>2, <2>2 DEF LastTells
    <3>2. Len(q) + 1 \in i + 1 .. Len(r)
      BY <1>1, <3>1
    <3>. QED  BY <1>1, <1>4, <2>2, <3>2 DEF LastTells
  <2>. QED  BY <1>1, <2>1, <2>2
<1>5. ASSUME ~Tells(e, id)
      PROVE  /\ Silent(r, id) => Silent(q, id)
             /\ \A i : LastTells(r, id, i) => LastTells(q, id, i) /\ r[i] = q[i]
  <2>1. Silent(r, id) => Silent(q, id)
    BY <1>1, <1>3 DEF Silent
  <2>2. ASSUME NEW i, LastTells(r, id, i)
        PROVE  LastTells(q, id, i) /\ r[i] = q[i]
    <3>1. i \in 1..Len(q)
      BY <1>1, <1>2, <1>5, <2>2 DEF LastTells
    <3>2. \A j \in i + 1 .. Len(q) : j \in i + 1 .. Len(r) /\ j \in 1..Len(q)
      BY <1>1, <3>1
    <3>. QED  BY <1>1, <2>2, <3>1, <3>2 DEF LastTells
  <2>. QED  BY <2>1, <2>2
<1>6. Tells(e, id) => Newest(r, id, e.state)
  BY <1>4 DEF Newest
<1>7. ASSUME ~Tells(e, id), NEW x, Newest(q, id, x)
      PROVE  Newest(r, id, x)
  BY <1>5, <1>7 DEF Newest
<1>. QED  BY <1>4, <1>5, <1>6, <1>7

\* What two lists of events tell one behind the other.
LEMMA ConcatTells ==
  ASSUME NEW s \in Seq(Event), NEW q \in Seq(Event), NEW id \in Id, NEW r, r = s \o q
  PROVE  /\ Silent(r, id) => Silent(s, id) /\ Silent(q, id)
         /\ \A x : Newest(q, id, x) /\ (Silent(q, id) => Newest(s, id, x)) => Newest(r, id, x)
<1>. DEFINE n == Len(s)
<1>1. /\ n \in Nat /\ DOMAIN s = 1..n /\ Len(q) \in Nat /\ DOMAIN q = 1..Len(q)
      /\ Len(r) = n + Len(q) /\ DOMAIN r = 1..n + Len(q)
      /\ \A i \in 1..n : r[i] = s[i]
  OBVIOUS
<1>2. \A j \in 1..Len(q) : r[n + j] = q[j] /\ n + j \in DOMAIN r
  OBVIOUS
<1>. HIDE DEF n
<1>3. Silent(r, id) => Silent(s, id) /\ Silent(q, id)
  <2>1. 1..n \subseteq 1..n + Len(q)
    BY <1>1
  <2>. QED  BY <1>1, <1>2, <2>1 DEF Silent
<1>4. ASSUME NEW i, LastTells(r, id, i)
      PROVE  \/ \E j : LastTells(q, id, j) /\ r[i] = q[j]
             \/ Silent(q, id) /\ LastTells(s, id, i) /\ r[i] = s[i]
  <2>1. i \in 1..n + Len(q) /\ Tells(r[i], id) /\ \A j \in i + 1 .. n + Len(q) : ~Tells(r[j], id)
    BY <1>1, <1>4 DEF LastTells
  <2>2. CASE i > n
    <3>. DEFINE j == i - n
    <3>1. j \in 1..Len(q) /\ r[i] = q[j]
      BY <1>1, <1>2, <2>1, <2>2
    <3>2. \A k \in j + 1 .. Len(q) : k \in 1..Len(q) /\ n + k \in i + 1 .. n + Len(q)
      BY <1>1, <2>1, <2>2
    <3>3. LastTells(q, id, j)
      BY <1>1, <1>2, <2>1, <3>1, <3>2 DEF LastTells
    <3>. QED  BY <3>1, <3>3
  <2>3. CASE ~(i > n)
    <3>1. i \in 1..n
      BY <1>1, <2>1, <2>3
    <3>2. \A k \in 1..Len(q) : n + k \in i + 1 .. n + Len(q)
      BY <1>1, <3>1
    <3>3. \A k \in i + 1 .. n : k \in 1..n /\ k \in i + 1 .. n + Len(q)
      BY <1>1, <3>1
    <3>4. Silent(q, id)
      BY <1>1, <1>2, <2>1, <3>2 DEF Silent
    <3>5. LastTells(s, id, i)
      BY <1>1, <2>1, <3>1, <3>3 DEF LastTells, n
    <3>. QED  BY <1>1, <3>1, <3>4, <3>5
  <2>. QED  BY <2>2, <2>3
<1>5. ASSUME NEW x, Newest(q, id, x), Silent(q, id) => Newest(s, id, x)
      PROVE  Newest(r, id, x)
  BY <1>4, <1>5 DEF Newest
<1>. QED  BY <1>3, <1>5

\* What is left of a list of events when the first one is delivered.
LEMMA TailTells ==
  ASSUME NEW s \in Seq(Event), s # <<>>, NEW id \in Id, NEW r, r = Tail(s)
  PROVE  /\ \A x : Newest(s, id, x) => Newest(r, id, x)
         /\ \A x : Silent(r, id) /\ Tells(Head(s), id) /\ Newest(s, id, x) => Head(s).state = x
         /\ Silent(r, id) /\ ~Tells(Head(s), id) => Silent(s, id)
<1>. DEFINE n == Len(r)
<1>1. /\ n \in Nat /\ DOMAIN r = 1..n /\ Len(s) = n + 1 /\ DOMAIN s = 1..n + 1
      /\ Head(s) = s[1]
      /\ \A i \in 1..n : r[i] = s[i + 1]
  OBVIOUS
<1>. HIDE DEF n
<1>2. \A i \in 1..n + 1 : i = 1 \/ (i - 1 \in 1..n /\ (i - 1) + 1 = i)
  BY <1>1
<1>3. ASSUME NEW i, LastTells(r, id, i)
      PROVE  LastTells(s, id, i + 1) /\ r[i] = s[i + 1]
  <2>1. i \in 1..n /\ Tells(r[i], id) /\ \A j \in i + 1 .. n : ~Tells(r[j], id)
    BY <1>1, <1>3 DEF LastTells, n
  <2>2. \A k \in (i + 1) + 1 .. n + 1 : k - 1 \in i + 1 .. n /\ k - 1 \in 1..n /\ (k - 1) + 1 = k
    BY <1>1, <2>1
  <2>3. i + 1 \in 1..n + 1
    BY <1>1, <2>1
  <2>. QED  BY <1>1, <2>1, <2>2, <2>3 DEF LastTells
<1>4. ASSUME Silent(r, id)
      PROVE  \A k \in 2..n + 1 : ~Tells(s[k], id)
  <2>1. \A k \in 2..n + 1 : k - 1 \in 1..n /\ (k - 1) + 1 = k
    BY <1>1
  <2>. QED  BY <1>1, <1>4, <2>1 DEF Silent
<1>5. 1 \in 1..n + 1 /\ \A k \in 1..n + 1 : k = 1 \/ k \in 2..n + 1
  BY <1>1
<1>6. Silent(r, id) /\ Tells(Head(s), id) => LastTells(s, id, 1) /\ s[1] = Head(s)
  <2>1. SUFFICES ASSUME Silent(r, id), Tells(s[1], id)
                 PROVE  LastTells(s, id, 1)
    BY <1>1
  <2>2. Len(s) = n + 1 /\ DOMAIN s = 1..n + 1 /\ 1 + 1 = 2
    BY <1>1
  <2>. QED  BY <1>4, <1>5, <2>1, <2>2 DEF LastTells
<1>7. Silent(r, id) /\ ~Tells(Head(s), id) => Silent(s, id)
  <2>1. SUFFICES ASSUME Silent(r, id), ~Tells(s[1], id), NEW k \in DOMAIN s
                 PROVE  ~Tells(s[k], id)
    BY <1>1 DEF Silent
  <2>. QED  BY <1>1, <1>4, <1>5, <2>1
<1>8. ASSUME NEW x, Newest(s, id, x)
      PROVE  Newest(r, id, x) /\ (Silent(r, id) /\ Tells(Head(s), id) => Head(s).state = x)
  BY <1>3, <1>6, <1>8 DEF Newest
<1>. QED  BY <1>7, <1>8

-----------------------------------------------------------------------------
(* Types.                                                                  *)

LEMMA EntryFacts ==
  /\ \A r \in Entry : r.state \in States /\ r.token \in BOOLEAN /\ r # None
  /\ \A s \in States, b \in BOOLEAN : [state |-> s, token |-> b] \in Entry
BY NoneIsNothing DEF Entry

\* What setState does, by whomever.
LEMMA SetStateEffect ==
  ASSUME TypeOK, CoreInv, NEW t \in {"worker", "stop"}, NEW id \in Id, NEW s \in States,
         core[id] # None, SetState(t, id, s)
  PROVE  /\ core' \in [Id -> Entry \cup {None}]
         /\ pending' \in [{"worker", "stop"} -> [Id -> Event \cup {None}]]
         /\ UNCHANGED <<last, queue, lossy>>
         /\ \/ UNCHANGED <<core, pending>> /\ core[id].state = "ended"
            \/ /\ core[id].state # "ended"
               /\ core'[id] # None /\ core'[id].state = s
               /\ \A d \in Id : d # id => core'[d] = core[d]
               /\ pending'[t][id] = StateEvent(id, s)
               /\ \A u \in {"worker", "stop"}, d \in Id :
                    <<u, d>> # <<t, id>> => pending'[u][d] = pending[u][d]
<1>1. core \in [Id -> Entry \cup {None}] /\ core[id] \in Entry
  BY DEF TypeOK
<1>2. pending \in [{"worker", "stop"} -> [Id -> Event \cup {None}]]
  BY DEF TypeOK
<1>3. CASE core[id].state = "ended"
  BY <1>1, <1>2, <1>3 DEF SetState
<1>4. CASE core[id].state # "ended"
  <2>1. /\ core' = [core EXCEPT ![id] = [state |-> s, token |-> core[id].token]]
        /\ pending' = [pending EXCEPT ![t][id] = StateEvent(id, s)]
        /\ UNCHANGED <<last, queue, lossy>>
    BY <1>4 DEF SetState
  <2>2. [state |-> s, token |-> core[id].token] \in Entry
    BY <1>1, EntryFacts
  <2>3. /\ core' \in [Id -> Entry \cup {None}]
        /\ core'[id] = [state |-> s, token |-> core[id].token]
        /\ \A d \in Id : d # id => core'[d] = core[d]
    BY <1>1, <2>1, <2>2
  <2>4. StateEvent(id, s) \in Event
    BY EventFacts
  <2>5. /\ pending' \in [{"worker", "stop"} -> [Id -> Event \cup {None}]]
        /\ pending'[t][id] = StateEvent(id, s)
        /\ \A u \in {"worker", "stop"}, d \in Id :
             <<u, d>> # <<t, id>> => pending'[u][d] = pending[u][d]
    BY <1>2, <2>1, <2>4
  <2>6. core'[id] # None /\ core'[id].state = s
    BY <2>2, <2>3, EntryFacts
  <2>. QED  BY <1>4, <2>1, <2>3, <2>5, <2>6
<1>. QED  BY <1>3, <1>4

-----------------------------------------------------------------------------
(* The steps of the core.                                                  *)

\* A step that pushes nothing and leaves the app alone keeps the news, unless it
\* puts a session in order with what was told of it.
LEMMA NewsStays ==
  ASSUME NewsInv, UNCHANGED <<last, queue, uiVars>>,
         \A id \in Id : InOrder(id)' => InOrder(id) /\ core'[id].state = core[id].state
  PROVE  NewsInv'
<1>1. UNCHANGED <<stream, active, seed, rows, ui, removed>>
  BY DEF uiVars
<1>2. \A id \in Id : InOrder(id)' /\ Shown(id) => Shown(id)'
  BY <1>1 DEF Shown
<1>3. \A id \in Id : /\ Silent(queue, id)' <=> Silent(queue, id)
                     /\ Silent(stream, id)' <=> Silent(stream, id)
                     /\ Newest(queue, id, last[id])' <=> Newest(queue, id, last[id])
                     /\ Newest(stream, id, last[id])' <=> Newest(stream, id, last[id])
  BY <1>1 DEF Silent, Newest, LastTells, Tells
<1>. QED  BY <1>1, <1>2, <1>3 DEF NewsInv

\* setState by a worker that goes on, or by a stop.
LEMMA StateStepKeeps ==
  ASSUME UInv, NEW t \in {"worker", "stop"}, NEW id \in Id, NEW s \in States,
         core[id] # None, SetState(t, id, s), UNCHANGED uiVars,
         worker' \in [Id -> {"none", "starting", "start", "running", "halt"}],
         \A d \in Id : d # id => worker'[d] = worker[d],
         worker'[id] # "none",
         worker[id] # "starting" => worker'[id] # "starting",
         worker[id] = "halt" => worker'[id] = "halt",
         s = "starting" => worker[id] = "starting" /\ worker'[id] # "starting",
         s = "running" => worker[id] # "halt" /\ worker'[id] = "halt"
  PROVE  UInv'
<1>1. TypeOK /\ CoreInv /\ AppInv
  BY DEF UInv
<1>2. /\ core' \in [Id -> Entry \cup {None}]
      /\ pending' \in [{"worker", "stop"} -> [Id -> Event \cup {None}]]
      /\ UNCHANGED <<last, queue, lossy>>
      /\ \/ UNCHANGED <<core, pending>> /\ core[id].state = "ended"
         \/ /\ core[id].state # "ended"
            /\ core'[id] # None /\ core'[id].state = s
            /\ \A d \in Id : d # id => core'[d] = core[d]
            /\ pending'[t][id] = StateEvent(id, s)
            /\ \A u \in {"worker", "stop"}, d \in Id :
                 <<u, d>> # <<t, id>> => pending'[u][d] = pending[u][d]
  BY <1>1, SetStateEffect
<1>3. TypeOK'
  BY <1>1, <1>2 DEF TypeOK, uiVars
<1>4. ASSUME NEW r, Reached(id, r)
      PROVE  Reached(id, r)'
  BY <1>1, <1>2, <1>4 DEF Reached
<1>5. ASSUME NEW d \in Id, d # id, NEW r
      PROVE  Reached(d, r)' <=> Reached(d, r)
  BY <1>2, <1>5 DEF Reached
<1>6. core[id].state # "ended" => Reached(id, s)' /\ last[id] # s
  <2>1. ASSUME core[id].state # "ended"
        PROVE  Reached(id, s)'
    BY <1>2, <2>1 DEF Reached
  <2>2. ASSUME core[id].state # "ended", last[id] = s
        PROVE  FALSE
    <3>1. last[id] # None
      BY <2>2, NoneIsNothing
    <3>2. Reached(id, s)
      BY <1>1, <2>2, <3>1 DEF CoreInv
    <3>. QED  BY <2>2, <3>2 DEF Reached, States
  <2>. QED  BY <2>1, <2>2
<1>7. CoreInv'
  <2>1. SUFFICES ASSUME NEW d \in Id
                 PROVE  /\ worker'[d] = "none" <=> core'[d] = None
                        /\ last'[d] # None => Reached(d, last[d])'
                        /\ \A u \in {"worker", "stop"} :
                             pending'[u][d] # None =>
                               /\ core'[d] # None
                               /\ pending'[u][d].id = d
                               /\ pending'[u][d].type = "session_state"
                                    => Reached(d, pending[u][d].state)'
    BY DEF CoreInv
  <2>2. worker'[d] = "none" <=> core'[d] = None
    BY <1>1, <1>2 DEF CoreInv
  <2>3. last'[d] # None => Reached(d, last[d])'
    <3>1. last'[d] = last[d]
      BY <1>2
    <3>2. last[d] # None => Reached(d, last[d])
      BY <1>1 DEF CoreInv
    <3>3. CASE d = id
      BY <1>4, <3>1, <3>2, <3>3, <1>2 DEF Reached
    <3>4. CASE d # id
      BY <1>5, <3>1, <3>2, <3>4, <1>2 DEF Reached
    <3>. QED  BY <3>3, <3>4
  <2>4. ASSUME NEW u \in {"worker", "stop"}, pending'[u][d] # None
        PROVE  /\ core'[d] # None
               /\ pending'[u][d].id = d
               /\ pending'[u][d].type = "session_state" => Reached(d, pending[u][d].state)'
    <3>1. CASE pending'[u][d] = pending[u][d]
      <4>1. /\ core[d] # None
            /\ pending[u][d].id = d
            /\ pending[u][d].type = "session_state" => Reached(d, pending[u][d].state)
        BY <1>1, <2>4, <3>1 DEF CoreInv
      <4>2. core'[d] # None
        BY <1>2, <4>1
      <4>3. CASE d = id
        BY <1>4, <3>1, <4>1, <4>2, <4>3, <1>2 DEF Reached
      <4>4. CASE d # id
        BY <1>5, <3>1, <4>1, <4>2, <4>4, <1>2 DEF Reached
      <4>. QED  BY <4>3, <4>4
    <3>2. CASE pending'[u][d] # pending[u][d]
      <4>1. /\ u = t /\ d = id /\ pending'[u][d] = StateEvent(id, s)
            /\ core[id].state # "ended" /\ core'[d] # None
        BY <1>2, <3>2
      <4>. QED  BY <1>6, <4>1, EventFacts DEF Reached
    <3>. QED  BY <3>1, <3>2
  <2>. QED  BY <2>2, <2>3, <2>4
<1>8. AppInv'
  BY <1>1 DEF AppInv, uiVars
<1>9. ASSUME ~lossy', NEW d \in Id, InOrder(d)'
      PROVE  InOrder(d) /\ core'[d].state = core[d].state
  BY <1>2, <1>6, <1>9 DEF InOrder
<1>10. ~lossy' => NewsInv'
  BY <1>2, <1>9, NewsStays DEF UInv
<1>. QED  BY <1>3, <1>7, <1>8, <1>10 DEF UInv

LEMMA WorkerKeeps ==
  ASSUME UInv, NEW id \in Id, WorkerStarting(id) \/ WorkerFails(id) \/ WorkerRunning(id)
  PROVE  UInv'
<1>1. TypeOK /\ CoreInv
  BY DEF UInv
<1>2. worker \in [Id -> {"none", "starting", "start", "running", "halt"}]
  BY <1>1 DEF TypeOK
<1>3. worker[id] # "none" => core[id] # None
  BY <1>1 DEF CoreInv
<1>4. CASE WorkerStarting(id)
  <2>1. /\ worker[id] = "starting" /\ worker' = [worker EXCEPT ![id] = "start"]
        /\ SetState("worker", id, "starting") /\ UNCHANGED uiVars
    BY <1>4 DEF WorkerStarting, Work
  <2>2. /\ worker' \in [Id -> {"none", "starting", "start", "running", "halt"}]
        /\ \A d \in Id : d # id => worker'[d] = worker[d]
        /\ worker'[id] = "start"
    BY <1>2, <2>1
  <2>. QED  BY <1>3, <2>1, <2>2, StateStepKeeps DEF States
<1>5. CASE WorkerFails(id)
  <2>1. /\ worker[id] = "start" /\ worker' = [worker EXCEPT ![id] = "halt"]
        /\ SetState("worker", id, "ended") /\ UNCHANGED uiVars
    BY <1>5 DEF WorkerFails, Work
  <2>2. /\ worker' \in [Id -> {"none", "starting", "start", "running", "halt"}]
        /\ \A d \in Id : d # id => worker'[d] = worker[d]
        /\ worker'[id] = "halt"
    BY <1>2, <2>1
  <2>. QED  BY <1>3, <2>1, <2>2, StateStepKeeps DEF States
<1>6. CASE WorkerRunning(id)
  <2>1. /\ worker[id] = "running" /\ worker' = [worker EXCEPT ![id] = "halt"]
        /\ SetState("worker", id, "running") /\ UNCHANGED uiVars
    BY <1>6 DEF WorkerRunning, Work
  <2>2. /\ worker' \in [Id -> {"none", "starting", "start", "running", "halt"}]
        /\ \A d \in Id : d # id => worker'[d] = worker[d]
        /\ worker'[id] = "halt"
    BY <1>2, <2>1
  <2>. QED  BY <1>3, <2>1, <2>2, StateStepKeeps DEF States
<1>. QED  BY <1>4, <1>5, <1>6

LEMMA StopKeeps ==
  ASSUME UInv, NEW id \in Id, Stop(id)
  PROVE  UInv'
<1>1. /\ core[id] # None /\ SetState("stop", id, "ended") /\ worker' = worker
      /\ UNCHANGED uiVars
  BY DEF Stop
<1>2. /\ worker \in [Id -> {"none", "starting", "start", "running", "halt"}]
      /\ worker[id] # "none"
  BY <1>1 DEF UInv, TypeOK, CoreInv
<1>. QED  BY <1>1, <1>2, StateStepKeeps DEF States

\* A session that is new was told nothing of.
LEMMA NewSessionKeeps ==
  ASSUME UInv, NEW id \in Id, NewSession(id)
  PROVE  UInv'
<1>1. TypeOK /\ CoreInv /\ AppInv
  BY DEF UInv
<1>2. /\ core[id] = None
      /\ core' = [core EXCEPT ![id] = [state |-> "starting", token |-> FALSE]]
      /\ worker' = [worker EXCEPT ![id] = "starting"]
      /\ UNCHANGED <<pending, last, queue, lossy, uiVars>>
  BY DEF NewSession
<1>. DEFINE e == [state |-> "starting", token |-> FALSE]
<1>3. e \in Entry /\ e # None /\ e.state = "starting"
  BY EntryFacts DEF States
<1>. HIDE DEF e
<1>4. /\ core' \in [Id -> Entry \cup {None}] /\ core'[id] = e
      /\ \A d \in Id : d # id => core'[d] = core[d]
      /\ worker' \in [Id -> {"none", "starting", "start", "running", "halt"}]
      /\ worker'[id] = "starting"
      /\ \A d \in Id : d # id => worker'[d] = worker[d]
  BY <1>1, <1>2, <1>3 DEF TypeOK, e
<1>5. /\ last[id] = None
      /\ \A t \in {"worker", "stop"} : pending[t][id] = None
  BY <1>1, <1>2 DEF CoreInv, Reached
<1>6. TypeOK'
  BY <1>1, <1>2, <1>4 DEF TypeOK, uiVars
<1>7. CoreInv'
  <2>1. \A d \in Id : worker'[d] = "none" <=> core'[d] = None
    BY <1>1, <1>3, <1>4 DEF CoreInv
  <2>2. \A d \in Id : \A r : d # id => (Reached(d, r)' <=> Reached(d, r))
    BY <1>4 DEF Reached
  <2>3. ASSUME NEW d \in Id, last'[d] # None
        PROVE  Reached(d, last[d])'
    <3>1. d # id /\ last'[d] = last[d] /\ Reached(d, last[d])
      BY <1>1, <1>2, <1>5, <2>3 DEF CoreInv
    <3>. QED  BY <2>2, <3>1 DEF Reached
  <2>4. ASSUME NEW t \in {"worker", "stop"}, NEW d \in Id, pending'[t][d] # None
        PROVE  /\ core'[d] # None
               /\ pending'[t][d].id = d
               /\ pending'[t][d].type = "session_state" => Reached(d, pending[t][d].state)'
    <3>1. d # id /\ pending'[t][d] = pending[t][d]
      BY <1>2, <1>5, <2>4
    <3>2. /\ core[d] # None
          /\ pending[t][d].id = d
          /\ pending[t][d].type = "session_state" => Reached(d, pending[t][d].state)
      BY <1>1, <2>4, <3>1 DEF CoreInv
    <3>. QED  BY <1>4, <2>2, <3>1, <3>2 DEF Reached
  <2>. QED  BY <2>1, <2>3, <2>4 DEF CoreInv
<1>8. AppInv'
  BY <1>1, <1>2 DEF AppInv, uiVars
<1>9. \A d \in Id : InOrder(d)' => InOrder(d) /\ core'[d].state = core[d].state
  BY <1>2, <1>3, <1>4, <1>5, NoneIsNothing DEF InOrder, States
<1>10. ~lossy' => NewsInv'
  BY <1>2, <1>9, NewsStays DEF UInv
<1>. QED  BY <1>6, <1>7, <1>8, <1>10 DEF UInv

LEMMA WorkerTokenKeeps ==
  ASSUME UInv, NEW id \in Id, WorkerToken(id)
  PROVE  UInv'
<1>1. TypeOK /\ CoreInv /\ AppInv
  BY DEF UInv
<1>2. /\ worker[id] = "start" /\ worker' = [worker EXCEPT ![id] = "running"]
      /\ core' = [core EXCEPT ![id] = [state |-> core[id].state, token |-> TRUE]]
      /\ pending' = [pending EXCEPT !["worker"][id] = TokenEvent(id)]
      /\ UNCHANGED <<last, queue, lossy, uiVars>>
  BY <1>1 DEF WorkerToken, Work, TypeOK
<1>. DEFINE e == [state |-> core[id].state, token |-> TRUE]
<1>3. core[id] # None /\ core[id] \in Entry
  BY <1>1, <1>2 DEF CoreInv, TypeOK
<1>4. e \in Entry /\ e # None /\ e.state = core[id].state
  BY <1>3, EntryFacts
<1>. HIDE DEF e
<1>5. TokenEvent(id) \in Event
  BY EventFacts
<1>6. /\ core' \in [Id -> Entry \cup {None}] /\ core'[id] = e
      /\ \A d \in Id : d # id => core'[d] = core[d]
      /\ worker' \in [Id -> {"none", "starting", "start", "running", "halt"}]
      /\ worker'[id] = "running"
      /\ \A d \in Id : d # id => worker'[d] = worker[d]
  BY <1>1, <1>2, <1>4 DEF TypeOK, e
<1>7. /\ pending' \in [{"worker", "stop"} -> [Id -> Event \cup {None}]]
      /\ pending'["worker"][id] = TokenEvent(id)
      /\ \A t \in {"worker", "stop"}, d \in Id :
           <<t, d>> # <<"worker", id>> => pending'[t][d] = pending[t][d]
  BY <1>1, <1>2, <1>5 DEF TypeOK
<1>8. TypeOK'
  BY <1>1, <1>2, <1>6, <1>7 DEF TypeOK, uiVars
<1>9. \A d \in Id : (core'[d] = None <=> core[d] = None)
                    /\ (core[d] # None => core'[d].state = core[d].state)
  BY <1>3, <1>4, <1>6
<1>10. \A d \in Id : \A r : Reached(d, r) => Reached(d, r)'
  BY <1>2, <1>6, <1>9 DEF Reached
<1>11. CoreInv'
  <2>1. \A d \in Id : worker'[d] = "none" <=> core'[d] = None
    BY <1>1, <1>2, <1>6, <1>9 DEF CoreInv
  <2>2. \A d \in Id : last'[d] # None => Reached(d, last[d])'
    BY <1>1, <1>2, <1>10 DEF CoreInv, Reached
  <2>3. ASSUME NEW t \in {"worker", "stop"}, NEW d \in Id, pending'[t][d] # None
        PROVE  /\ core'[d] # None
               /\ pending'[t][d].id = d
               /\ pending'[t][d].type = "session_state" => Reached(d, pending[t][d].state)'
    <3>1. CASE <<t, d>> = <<"worker", id>>
      BY <1>3, <1>7, <1>9, <3>1, EventFacts
    <3>2. CASE <<t, d>> # <<"worker", id>>
      <4>1. pending'[t][d] = pending[t][d]
        BY <1>7, <3>2
      <4>2. /\ core[d] # None
            /\ pending[t][d].id = d
            /\ pending[t][d].type = "session_state" => Reached(d, pending[t][d].state)
        BY <1>1, <2>3, <4>1 DEF CoreInv
      <4>. QED  BY <1>9, <1>10, <4>1, <4>2 DEF Reached
    <3>. QED  BY <3>1, <3>2
  <2>. QED  BY <2>1, <2>2, <2>3 DEF CoreInv
<1>12. AppInv'
  BY <1>1, <1>2 DEF AppInv, uiVars
<1>13. \A d \in Id : InOrder(d)' => InOrder(d) /\ core'[d].state = core[d].state
  BY <1>2, <1>9 DEF InOrder
<1>14. ~lossy' => NewsInv'
  BY <1>2, <1>13, NewsStays DEF UInv
<1>. QED  BY <1>8, <1>11, <1>12, <1>14 DEF UInv

\* A push: the new event is the newest, and tells what was told last.
LEMMA PushKeeps ==
  ASSUME UInv, NEW t \in {"worker", "stop"}, NEW id \in Id, Push(t, id)
  PROVE  UInv'
<1>1. TypeOK /\ CoreInv /\ AppInv
  BY DEF UInv
<1>. DEFINE e == pending[t][id]
            full == Len(queue) >= MaxQueue
            kept == IF full THEN SubSeq(queue, Len(queue) \div 2 + 1, Len(queue)) ELSE queue
<1>2. /\ e # None
      /\ queue' = Append(kept, e)
      /\ lossy' = (lossy \/ full)
      /\ last' = IF e.type = "session_state" THEN [last EXCEPT ![id] = e.state] ELSE last
      /\ pending' = [pending EXCEPT ![t][id] = None]
      /\ UNCHANGED <<core, worker, uiVars>>
  BY DEF Push
<1>3. /\ e \in Event /\ e.id = id
      /\ e.type = "session_state" => e.state \in States /\ Reached(id, e.state)
  <2>1. pending[t][id] \in Event \cup {None}
    BY <1>1 DEF TypeOK
  <2>. QED  BY <1>1, <1>2, <2>1, EventFacts DEF CoreInv
<1>4. kept \in Seq(Event) /\ Len(kept) < MaxQueue
  <2>1. queue \in Seq(Event) /\ Len(queue) <= MaxQueue /\ Len(queue) \in Nat
    BY <1>1 DEF TypeOK
  <2>2. MaxQueue \in Nat /\ MaxQueue >= 2
    BY MaxQueueAssumption
  <2>3. CASE full
    <3>. DEFINE h == Len(queue) \div 2
    <3>1. h \in 1..Len(queue) /\ h + 1 \in Nat
      BY <2>1, <2>2, <2>3
    <3>. HIDE DEF h
    <3>2. SubSeq(queue, h + 1, Len(queue)) \in Seq(Event)
      BY <2>1, <3>1
    <3>3. Len(SubSeq(queue, h + 1, Len(queue))) = Len(queue) - h
      BY <2>1, <3>1
    <3>4. Len(queue) - h < MaxQueue
      BY <2>1, <2>2, <3>1
    <3>. QED  BY <2>3, <3>2, <3>3, <3>4 DEF h
  <2>4. CASE ~full
    BY <2>1, <2>2, <2>4
  <2>. QED  BY <2>3, <2>4
<1>5. pending' \in [{"worker", "stop"} -> [Id -> Event \cup {None}]]
  BY <1>1, <1>2 DEF TypeOK
<1>6. /\ pending'[t][id] = None
      /\ \A u \in {"worker", "stop"}, d \in Id :
           pending'[u][d] = pending[u][d] \/ pending'[u][d] = None
  BY <1>1, <1>2 DEF TypeOK
<1>7. /\ last' \in [Id -> States \cup {None}]
      /\ \A d \in Id : d # id => last'[d] = last[d]
      /\ last'[id] = IF e.type = "session_state" THEN e.state ELSE last[id]
  BY <1>1, <1>2, <1>3 DEF TypeOK
<1>. HIDE DEF kept, e, full
<1>8. queue' \in Seq(Event) /\ Len(queue') <= MaxQueue
  BY <1>2, <1>3, <1>4, MaxQueueAssumption
<1>9. TypeOK'
  <2>1. (lossy \in BOOLEAN)'
    BY <1>1, <1>2 DEF TypeOK, full
  <2>. QED  BY <1>1, <1>2, <1>5, <1>7, <1>8, <2>1 DEF TypeOK, uiVars
<1>10. \A d \in Id : \A r : Reached(d, r)' <=> Reached(d, r)
  BY <1>2 DEF Reached
<1>11. CoreInv'
  <2>1. \A d \in Id : worker'[d] = "none" <=> core'[d] = None
    BY <1>1, <1>2 DEF CoreInv
  <2>2. ASSUME NEW d \in Id, last'[d] # None
        PROVE  Reached(d, last[d])'
    <3>1. Reached(d, last'[d])
      BY <1>1, <1>3, <1>7, <2>2 DEF CoreInv
    <3>. QED  BY <1>10, <3>1 DEF Reached
  <2>3. ASSUME NEW u \in {"worker", "stop"}, NEW d \in Id, pending'[u][d] # None
        PROVE  /\ core'[d] # None
               /\ pending'[u][d].id = d
               /\ pending'[u][d].type = "session_state" => Reached(d, pending[u][d].state)'
    <3>1. pending'[u][d] = pending[u][d]
      BY <1>6, <2>3
    <3>2. /\ core[d] # None
          /\ pending[u][d].id = d
          /\ pending[u][d].type = "session_state" => Reached(d, pending[u][d].state)
      BY <1>1, <2>3, <3>1 DEF CoreInv
    <3>. QED  BY <1>2, <1>10, <3>1, <3>2 DEF Reached
  <2>. QED  BY <2>1, <2>2, <2>3 DEF CoreInv
<1>12. AppInv'
  BY <1>1, <1>2 DEF AppInv, uiVars
<1>13. ASSUME ~lossy'
       PROVE  NewsInv'
  <2>1. queue' = Append(queue, e) /\ queue \in Seq(Event) /\ NewsInv
    BY <1>1, <1>2, <1>13 DEF full, kept, UInv, TypeOK
  <2>2. UNCHANGED <<core, stream, active, seed, rows, ui, removed>>
    BY <1>2 DEF uiVars
  <2>3. ASSUME NEW d \in Id, Tells(e, d)
        PROVE  ~Silent(queue', d) /\ Newest(queue', d, last'[d])
    <3>1. d = id /\ last'[d] = e.state
      BY <1>3, <1>7, <2>3 DEF Tells
    <3>2. ~Silent(queue', d) /\ Newest(queue', d, e.state)
      BY <1>3, <2>1, <2>3, AppendTells
    <3>. QED  BY <3>1, <3>2
  <2>4. ASSUME NEW d \in Id, ~Tells(e, d)
        PROVE  /\ Silent(queue', d) => Silent(queue, d)
               /\ Newest(queue, d, last[d]) => Newest(queue', d, last[d])
               /\ last'[d] = last[d]
    <3>1. /\ Silent(queue', d) => Silent(queue, d)
          /\ Newest(queue, d, last[d]) => Newest(queue', d, last[d])
      BY <1>3, <2>1, <2>4, AppendTells
    <3>2. last'[d] = last[d]
      BY <1>3, <1>7, <2>4 DEF Tells
    <3>. QED  BY <3>1, <3>2
  <2>5. \A d \in Id : Shown(d)' <=> Shown(d)
    BY <2>2 DEF Shown
  <2>6. \A d \in Id : last'[d] = last[d] => (InOrder(d)' <=> InOrder(d))
    BY <2>2 DEF InOrder
  <2>7. SUFFICES ASSUME NEW d \in Id
                 PROVE  /\ Newest(queue', d, last'[d])
                        /\ Silent(queue', d) =>
                             /\ Newest(stream, d, last'[d])
                             /\ d \in active => last'[d] \notin {None, "ended"}
                             /\ Silent(stream, d) /\ InOrder(d)' /\ d \notin removed => Shown(d)'
    BY <2>2 DEF NewsInv, Newest, Silent, LastTells, Tells
  <2>8. CASE Tells(e, d)
    BY <2>3, <2>8
  <2>9. CASE ~Tells(e, d)
    <3>1. /\ Newest(queue, d, last[d])
          /\ Silent(queue, d) =>
               /\ Newest(stream, d, last[d])
               /\ d \in active => last[d] \notin {None, "ended"}
               /\ Silent(stream, d) /\ InOrder(d) /\ d \notin removed => Shown(d)
      BY <2>1 DEF NewsInv
    <3>. QED  BY <2>4, <2>5, <2>6, <2>9, <3>1
  <2>. QED  BY <2>8, <2>9
<1>. QED  BY <1>9, <1>11, <1>12, <1>13 DEF UInv

-----------------------------------------------------------------------------
(* The steps of the app.                                                   *)

\* A step that leaves the core alone.
LEMMA CoreInvStays ==
  ASSUME CoreInv, UNCHANGED <<core, worker, pending, last>>
  PROVE  CoreInv'
<1>1. \A d \in Id : \A r : Reached(d, r)' <=> Reached(d, r)
  BY DEF Reached
<1>. QED  BY <1>1 DEF CoreInv, Reached

\* Nothing is told by no events.
LEMMA NoEvents ==
  \A id \in Id : \A x : Silent(<<>>, id) /\ Newest(<<>>, id, x)
BY DEF Silent, Newest, LastTells

\* pump: the app has read everything, and polls fast for what is active.
LEMMA DrainKeeps ==
  ASSUME UInv, Drain, UNCHANGED <<core, worker, pending, last, lossy, rows, ui, removed, restarts>>,
         seed' = seed \/ (seed = "answered" /\ seed' = "returned")
  PROVE  UInv'
<1>1. TypeOK /\ CoreInv /\ AppInv
  BY DEF UInv
<1>2. /\ active' = ActiveAfter(queue)
      /\ stream' = IF seed = "none" THEN stream ELSE stream \o queue
      /\ queue' = <<>>
      /\ timer' = IF active' = {} THEN "idle" ELSE "active"
  BY DEF Drain, Schedule
<1>3. queue \in Seq(Event) /\ stream \in Seq(Event)
  BY <1>1 DEF TypeOK
<1>4. stream' \in Seq(Event) /\ queue' \in Seq(Event) /\ Len(queue') <= MaxQueue
  <2>1. Len(<<>>) = 0 /\ 0 <= MaxQueue /\ <<>> \in Seq(Event)
    BY MaxQueueAssumption
  <2>. QED  BY <1>2, <1>3, <2>1
<1>5. active' \subseteq Id
  BY <1>2 DEF ActiveAfter
<1>6. TypeOK'
  BY <1>1, <1>2, <1>4, <1>5 DEF TypeOK
<1>7. CoreInv'
  BY <1>1, CoreInvStays
<1>8. AppInv'
  <2>1. seed' = "none" => seed = "none"
    OBVIOUS
  <2>2. seed' = "none" => stream' = <<>> /\ \A d \in Id : ui'[d] = None
    BY <1>1, <1>2, <2>1 DEF AppInv
  <2>. QED  BY <1>2, <2>2 DEF AppInv
<1>9. ASSUME ~lossy', NEW d \in Id
      PROVE  /\ Newest(stream', d, last[d])
             /\ d \in active' => last[d] \notin {None, "ended"}
             /\ Silent(stream', d) /\ InOrder(d) /\ d \notin removed => Shown(d)'
  <2>1. /\ Newest(queue, d, last[d])
        /\ Silent(queue, d) =>
             /\ Newest(stream, d, last[d])
             /\ d \in active => last[d] \notin {None, "ended"}
             /\ Silent(stream, d) /\ InOrder(d) /\ d \notin removed => Shown(d)
    BY <1>9 DEF UInv, NewsInv
  <2>2. ASSUME d \in active'
        PROVE  last[d] \notin {None, "ended"}
    <3>1. CASE Silent(queue, d) /\ d \in active
      BY <2>1, <3>1
    <3>2. CASE \E i \in DOMAIN queue : LastTells(queue, d, i) /\ queue[i].state # "ended"
      <4>1. PICK i \in DOMAIN queue : LastTells(queue, d, i) /\ queue[i].state # "ended"
        BY <3>2
      <4>2. queue[i].state = last[d]
        BY <2>1, <4>1 DEF Newest
      <4>3. queue[i] \in Event /\ queue[i].type = "session_state"
        BY <1>3, <4>1 DEF LastTells, Tells
      <4>4. queue[i].state \in States
        BY <4>3, EventFacts
      <4>. QED  BY <4>1, <4>2, <4>4, NoneIsNothing
    <3>. QED  BY <1>2, <2>2, <3>1, <3>2 DEF ActiveAfter
  <2>3. CASE seed = "none"
    <3>1. stream' = <<>> /\ ui'[d] = None /\ seed' = "none"
      BY <1>1, <1>2, <2>3 DEF AppInv
    <3>2. Shown(d)'
      BY <3>1 DEF Shown
    <3>. QED  BY <2>2, <3>1, <3>2, NoEvents
  <2>4. CASE seed # "none"
    <3>1. stream' = stream \o queue
      BY <1>2, <2>4
    <3>2. /\ Silent(stream', d) => Silent(stream, d) /\ Silent(queue, d)
          /\ Newest(stream', d, last[d])
      BY <1>3, <2>1, <3>1, ConcatTells
    <3>3. Shown(d) => Shown(d)'
      BY DEF Shown
    <3>. QED  BY <2>1, <2>2, <3>2, <3>3
  <2>. QED  BY <2>3, <2>4
<1>10. ASSUME ~lossy'
       PROVE  NewsInv'
  <2>1. \A d \in Id : Silent(queue', d) /\ Newest(queue', d, last[d])
    BY <1>2, NoEvents
  <2>2. \A d \in Id : InOrder(d)' <=> InOrder(d)
    BY DEF InOrder
  <2>. QED  BY <1>9, <1>10, <2>1, <2>2 DEF NewsInv, Newest, Silent, LastTells, Tells
<1>. QED  BY <1>6, <1>7, <1>8, <1>10 DEF UInv

\* A step of _seed, or of the user's, over the events that are there.
LEMMA ScreenStepKeeps ==
  ASSUME UInv, UNCHANGED <<coreVars, stream, active, timer, restarts>>,
         TypeOK', seed' # "none", removed \subseteq removed',
         \A id \in Id \ removed' : InOrder(id) /\ Shown(id) => Shown(id)'
  PROVE  UInv'
<1>1. UNCHANGED <<core, worker, pending, last, queue, lossy>>
  BY DEF coreVars
<1>2. CoreInv'
  BY <1>1, CoreInvStays DEF UInv
<1>3. AppInv'
  BY DEF UInv, AppInv
<1>4. ASSUME ~lossy'
      PROVE  NewsInv'
  <2>1. NewsInv
    BY <1>1, <1>4 DEF UInv
  <2>2. \A d \in Id : InOrder(d)' <=> InOrder(d)
    BY <1>1 DEF InOrder
  <2>3. \A d \in Id : /\ Silent(queue, d)' <=> Silent(queue, d)
                      /\ Silent(stream, d)' <=> Silent(stream, d)
                      /\ Newest(queue, d, last[d])' <=> Newest(queue, d, last[d])
                      /\ Newest(stream, d, last[d])' <=> Newest(stream, d, last[d])
    BY <1>1 DEF Silent, Newest, LastTells, Tells
  <2>. QED  BY <1>1, <2>1, <2>2, <2>3 DEF NewsInv
<1>. QED  BY <1>2, <1>3, <1>4 DEF UInv

\* _seed: the rows it asks for are the core's.
LEMMA SeedKeeps ==
  ASSUME UInv, Listen \/ SeedAnswer \/ SeedFails \/ SeedMerge
  PROVE  UInv'
<1>1. TypeOK
  BY DEF UInv
<1>2. CASE Listen
  <2>1. /\ seed = "none" /\ seed' = "called"
        /\ UNCHANGED <<coreVars, stream, active, timer, rows, ui, removed, restarts>>
    BY <1>2 DEF Listen
  <2>2. TypeOK'
    BY <1>1, <2>1 DEF TypeOK, coreVars
  <2>3. \A id \in Id : Shown(id) => Shown(id)'
    BY <2>1 DEF Shown, coreVars
  <2>. QED  BY <2>1, <2>2, <2>3, ScreenStepKeeps
<1>3. CASE SeedAnswer
  <2>1. /\ seed = "called" /\ seed' = "answered" /\ rows' = core
        /\ UNCHANGED <<coreVars, stream, active, timer, ui, removed, restarts>>
    BY <1>3 DEF SeedAnswer
  <2>2. TypeOK'
    BY <1>1, <2>1 DEF TypeOK, coreVars
  <2>3. \A id \in Id : InOrder(id) /\ Shown(id) => Shown(id)'
    BY <2>1 DEF Shown, InOrder, coreVars
  <2>. QED  BY <2>1, <2>2, <2>3, ScreenStepKeeps
<1>4. CASE SeedMerge
  <2>1. /\ seed = "returned" /\ seed' = "done"
        /\ ui' = [id \in Id |-> IF ui[id] # None THEN ui[id] ELSE rows[id]]
        /\ rows' = [id \in Id |-> None]
        /\ UNCHANGED <<coreVars, stream, active, timer, removed, restarts>>
    BY <1>4 DEF SeedMerge
  <2>2. TypeOK'
    BY <1>1, <2>1 DEF TypeOK, coreVars
  <2>3. \A id \in Id : Shown(id) => Shown(id)'
    BY <2>1 DEF Shown, coreVars
  <2>. QED  BY <2>1, <2>2, <2>3, ScreenStepKeeps
<1>5. CASE SeedFails
  <2>1. /\ seed' = "failed"
        /\ UNCHANGED <<coreVars, stream, active, timer, rows, ui, removed, restarts>>
    BY <1>5 DEF SeedFails
  <2>2. TypeOK'
    BY <1>1, <2>1 DEF TypeOK, coreVars
  <2>3. \A id \in Id : Shown(id) => Shown(id)'
    BY <2>1 DEF Shown, coreVars
  <2>. QED  BY <2>1, <2>2, <2>3, ScreenStepKeeps
<1>. QED  BY <1>2, <1>3, <1>4, <1>5

\* The user takes a session off the list.
LEMMA RemoveKeeps ==
  ASSUME UInv, NEW id \in Id, Remove(id)
  PROVE  UInv'
<1>1. /\ ui[id] # None
      /\ ui' = [ui EXCEPT ![id] = None]
      /\ removed' = removed \cup {id}
      /\ UNCHANGED <<coreVars, stream, active, timer, seed, rows, restarts>>
  BY DEF Remove
<1>2. TypeOK /\ AppInv
  BY DEF UInv
<1>3. TypeOK'
  BY <1>1, <1>2 DEF TypeOK, coreVars
<1>4. seed' # "none"
  BY <1>1, <1>2 DEF AppInv
<1>5. \A d \in Id \ removed' : Shown(d) => Shown(d)'
  BY <1>1, <1>2 DEF Shown, TypeOK, coreVars
<1>. QED  BY <1>1, <1>3, <1>4, <1>5, ScreenStepKeeps

\* An event comes to the list: its state is the newest the list has heard of.
LEMMA DeliverKeeps ==
  ASSUME UInv, Deliver
  PROVE  UInv'
<1>1. TypeOK /\ CoreInv /\ AppInv
  BY DEF UInv
<1>. DEFINE e == Head(stream)
<1>2. /\ stream # <<>> /\ stream' = Tail(stream)
      /\ ui' = [ui EXCEPT ![e.id] = Reduced(ui[e.id], e)]
      /\ UNCHANGED <<coreVars, active, timer, seed, rows, removed, restarts>>
  BY DEF Deliver
<1>3. UNCHANGED <<core, worker, pending, last, queue, lossy>>
  BY <1>2 DEF coreVars
<1>4. stream \in Seq(Event) /\ stream' \in Seq(Event) /\ e \in Event
  BY <1>1, <1>2 DEF TypeOK
<1>. HIDE DEF e
<1>5. /\ e.id \in Id
      /\ e.type = "session_state" => e.state \in States
      /\ ui \in [Id -> Entry \cup {None}]
  BY <1>1, <1>4, EventFacts DEF TypeOK
<1>6. /\ Reduced(ui[e.id], e) \in Entry \cup {None}
      /\ e.type = "session_state" =>
           Reduced(ui[e.id], e) # None /\ Reduced(ui[e.id], e).state = e.state
      /\ e.type # "session_state" =>
           IF ui[e.id] = None THEN Reduced(ui[e.id], e) = None
           ELSE Reduced(ui[e.id], e) # None /\ Reduced(ui[e.id], e).state = ui[e.id].state
  <2>1. CASE e.type = "session_state"
    <3>. DEFINE b == ui[e.id] # None /\ ui[e.id].token
    <3>1. Reduced(ui[e.id], e) = [state |-> e.state, token |-> b]
      BY <2>1 DEF Reduced
    <3>2. b \in BOOLEAN
      OBVIOUS
    <3>. HIDE DEF b
    <3>3. [state |-> e.state, token |-> b] \in Entry
      BY <1>5, <2>1, <3>2, EntryFacts
    <3>. QED  BY <2>1, <3>1, <3>3, EntryFacts
  <2>2. CASE e.type # "session_state" /\ ui[e.id] = None
    BY <2>2 DEF Reduced
  <2>3. CASE e.type # "session_state" /\ ui[e.id] # None
    <3>. DEFINE r == [state |-> ui[e.id].state, token |-> TRUE]
    <3>1. Reduced(ui[e.id], e) = r
      BY <2>3 DEF Reduced
    <3>2. ui[e.id] \in Entry
      BY <1>5, <2>3
    <3>3. r \in Entry /\ r # None /\ r.state = ui[e.id].state
      BY <3>2, EntryFacts
    <3>. HIDE DEF r
    <3>. QED  BY <2>3, <3>1, <3>3
  <2>. QED  BY <2>1, <2>2, <2>3
<1>7. /\ ui' \in [Id -> Entry \cup {None}]
      /\ ui'[e.id] = Reduced(ui[e.id], e)
      /\ \A d \in Id : d # e.id => ui'[d] = ui[d]
  BY <1>2, <1>5, <1>6
<1>8. TypeOK'
  BY <1>1, <1>2, <1>3, <1>4, <1>7 DEF TypeOK
<1>9. CoreInv'
  BY <1>1, <1>3, CoreInvStays
<1>10. AppInv'
  BY <1>1, <1>2 DEF AppInv
<1>11. ASSUME ~lossy'
       PROVE  NewsInv'
  <2>1. SUFFICES ASSUME NEW d \in Id, Silent(queue, d)
                 PROVE  /\ Newest(stream', d, last[d])
                        /\ Silent(stream', d) /\ InOrder(d) /\ d \notin removed => Shown(d)'
    BY <1>2, <1>3, <1>11 DEF UInv, NewsInv, Newest, Silent, LastTells, Tells, InOrder
  <2>2. /\ Newest(stream, d, last[d])
        /\ Silent(stream, d) /\ InOrder(d) /\ d \notin removed => Shown(d)
    BY <1>3, <1>11, <2>1 DEF UInv, NewsInv
  <2>3. /\ Newest(stream', d, last[d])
        /\ Silent(stream', d) /\ Tells(e, d) => e.state = last[d]
        /\ Silent(stream', d) /\ ~Tells(e, d) => Silent(stream, d)
    BY <1>2, <1>4, <2>2, TailTells DEF e
  <2>4. CASE Tells(e, d)
    <3>1. /\ d = e.id /\ ui'[d] # None /\ ui'[d].state = e.state
      BY <1>6, <1>7, <2>4 DEF Tells
    <3>2. Silent(stream', d) /\ InOrder(d) => ui'[d].state = core'[d].state
      BY <1>3, <2>3, <2>4, <3>1 DEF InOrder
    <3>. QED  BY <2>3, <3>1, <3>2 DEF Shown
  <2>5. CASE ~Tells(e, d)
    <3>1. /\ ui'[d] = None <=> ui[d] = None
          /\ ui[d] # None => ui'[d].state = ui[d].state
      BY <1>5, <1>6, <1>7, <2>5 DEF Tells
    <3>2. Shown(d) => Shown(d)'
      BY <1>2, <1>3, <3>1 DEF Shown
    <3>. QED  BY <2>2, <2>3, <2>5, <3>2
  <2>. QED  BY <2>4, <2>5
<1>. QED  BY <1>8, <1>9, <1>10, <1>11 DEF UInv

\* main() again: nothing is shown, nothing is heard, and _seed is to come.
LEMMA RestartKeeps ==
  ASSUME UInv, Restart
  PROVE  UInv'
<1>1. TypeOK /\ CoreInv
  BY DEF UInv
<1>2. /\ restarts < MaxRestart /\ restarts' = restarts + 1
      /\ stream' = <<>> /\ active' = {} /\ timer' = "idle" /\ seed' = "none"
      /\ rows' = [id \in Id |-> None] /\ ui' = [id \in Id |-> None] /\ removed' = {}
      /\ UNCHANGED <<core, worker, pending, last, queue, lossy>>
  BY DEF Restart, coreVars
<1>3. TypeOK'
  <2>1. restarts' \in 0 .. MaxRestart
    BY <1>1, <1>2, MaxRestartAssumption DEF TypeOK
  <2>. QED  BY <1>1, <1>2, <2>1 DEF TypeOK
<1>4. CoreInv'
  BY <1>1, <1>2, CoreInvStays
<1>5. AppInv'
  BY <1>2 DEF AppInv
<1>6. ASSUME ~lossy'
      PROVE  NewsInv'
  <2>1. \A d \in Id : Shown(d)'
    BY <1>2 DEF Shown
  <2>2. \A d \in Id : Newest(stream', d, last[d])
    BY <1>2, NoEvents
  <2>3. \A d \in Id : Newest(queue, d, last[d])
    BY <1>2, <1>6 DEF UInv, NewsInv
  <2>. QED  BY <1>2, <2>1, <2>2, <2>3 DEF NewsInv, Newest, LastTells, Tells
<1>. QED  BY <1>3, <1>4, <1>5, <1>6 DEF UInv

-----------------------------------------------------------------------------
(* The theorems.                                                           *)

\* The types, what the core has told, and where the news of each session is:
\* in every state of the program.
THEOREM UiInvariant == Spec => []UInv
<1>1. Init => UInv
  <2>1. SUFFICES ASSUME Init
                 PROVE  UInv
    OBVIOUS
  <2>2. Len(<<>>) = 0 /\ 0 <= MaxQueue /\ <<>> \in Seq(Event) /\ 0 \in 0 .. MaxRestart
    BY MaxQueueAssumption, MaxRestartAssumption
  <2>3. TypeOK
    BY <2>1, <2>2 DEF Init, TypeOK
  <2>4. CoreInv
    BY <2>1 DEF Init, CoreInv
  <2>5. AppInv
    BY <2>1 DEF Init, AppInv
  <2>6. \A d \in Id : Shown(d) /\ Newest(queue, d, last[d]) /\ Newest(stream, d, last[d])
    BY <2>1, NoEvents DEF Init, Shown
  <2>7. NewsInv
    BY <2>1, <2>6 DEF Init, NewsInv
  <2>. QED  BY <2>3, <2>4, <2>5, <2>7 DEF UInv
<1>2. UInv /\ [Next]_vars => UInv'
  <2>1. SUFFICES ASSUME UInv, [Next]_vars
                 PROVE  UInv'
    OBVIOUS
  <2>2. ASSUME NEW id \in Id, NewSession(id) \/ Stop(id) \/ CoreStep(id) \/ Remove(id)
        PROVE  UInv'
    <3>1. CASE NewSession(id)
      BY <2>1, <3>1, NewSessionKeeps
    <3>2. CASE Stop(id)
      BY <2>1, <3>2, StopKeeps
    <3>3. CASE WorkerStarting(id) \/ WorkerFails(id) \/ WorkerRunning(id)
      BY <2>1, <3>3, WorkerKeeps
    <3>4. CASE WorkerToken(id)
      BY <2>1, <3>4, WorkerTokenKeeps
    <3>5. ASSUME NEW t \in {"worker", "stop"}, Push(t, id)
          PROVE  UInv'
      BY <2>1, <3>5, PushKeeps
    <3>6. CASE Remove(id)
      BY <2>1, <3>6, RemoveKeeps
    <3>. QED  BY <2>2, <3>1, <3>2, <3>3, <3>4, <3>5, <3>6 DEF CoreStep
  <2>3. CASE Pump
    BY <2>1, <2>3, DrainKeeps DEF Pump
  <2>4. CASE SeedReturn
    BY <2>1, <2>4, DrainKeeps DEF SeedReturn
  <2>5. CASE Listen \/ SeedAnswer \/ SeedFails \/ SeedMerge
    BY <2>1, <2>5, SeedKeeps
  <2>6. CASE Deliver
    BY <2>1, <2>6, DeliverKeeps
  <2>7. CASE Restart
    BY <2>1, <2>7, RestartKeeps
  <2>8. CASE UNCHANGED vars
    <3>1. UNCHANGED <<core, worker, pending, last, queue, lossy, uiVars>>
      BY <2>8 DEF vars, coreVars
    <3>2. UNCHANGED <<stream, active, timer, seed, rows, ui, removed, restarts>>
      BY <3>1 DEF uiVars
    <3>3. TypeOK' /\ AppInv'
      BY <2>1, <3>1, <3>2 DEF UInv, TypeOK, AppInv
    <3>4. CoreInv'
      BY <2>1, <3>1, CoreInvStays DEF UInv
    <3>5. \A d \in Id : InOrder(d)' => InOrder(d) /\ core'[d].state = core[d].state
      BY <3>1 DEF InOrder
    <3>6. ~lossy' => NewsInv'
      BY <2>1, <3>1, <3>5, NewsStays DEF UInv
    <3>. QED  BY <3>3, <3>4, <3>6 DEF UInv
  <2>. QED  BY <2>1, <2>2, <2>3, <2>4, <2>5, <2>6, <2>7, <2>8 DEF Next, UiStep, Idle
<1>. QED  BY <1>1, <1>2, PTL DEF Spec

\* Every variable keeps its type; among them, the queue never holds more than
\* its bound (EventQueue.Push).
THEOREM UiTypes == Spec => []TypeOK
<1>1. UInv => TypeOK
  BY DEF UInv
<1>. QED  BY <1>1, UiInvariant, PTL

\* When nothing is on its way, every session that the user has not removed is
\* shown with the core's state (SessionsNotifier._seed and _onEvent).
THEOREM UiShowsTheCore == Spec => []ShowsTheCore
<1>1. UInv => ShowsTheCore
  <2>1. SUFFICES ASSUME UInv, Quiet, ~lossy, NEW id \in Id \ removed, InOrder(id)
                 PROVE  ui[id] # None /\ ui[id].state = core[id].state
    BY DEF ShowsTheCore
  <2>2. Silent(queue, id) /\ Silent(stream, id) /\ seed = "done"
    BY <2>1, NoEvents DEF Quiet
  <2>3. Shown(id)
    BY <2>1, <2>2 DEF UInv, NewsInv
  <2>. QED  BY <2>2, <2>3 DEF Shown
<1>. QED  BY <1>1, UiInvariant, PTL

\* When nothing is on its way and every session has ended, the poll of the event
\* queue is slow again (Engine._schedule).
THEOREM UiPollSlowsDown == Spec => []PollSlowsDown
<1>1. UInv => PollSlowsDown
  <2>1. SUFFICES ASSUME UInv, Quiet, ~lossy,
                        \A id \in Id : core[id] # None => InOrder(id) /\ core[id].state = "ended"
                 PROVE  timer = "idle"
    BY DEF PollSlowsDown
  <2>2. ASSUME NEW id \in active
        PROVE  FALSE
    <3>1. id \in Id
      BY <2>1 DEF UInv, TypeOK
    <3>2. Silent(queue, id)
      BY <2>1, <3>1, NoEvents DEF Quiet
    <3>3. last[id] \notin {None, "ended"}
      BY <2>1, <2>2, <3>1, <3>2 DEF UInv, NewsInv
    <3>4. core[id] # None
      BY <2>1, <3>1, <3>3 DEF UInv, CoreInv, Reached
    <3>. QED  BY <2>1, <3>1, <3>3, <3>4 DEF InOrder
  <2>3. active = {}
    BY <2>2
  <2>. QED  BY <2>1, <2>3 DEF UInv, AppInv
<1>. QED  BY <1>1, UiInvariant, PTL
=============================================================================
