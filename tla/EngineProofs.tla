----------------------------- MODULE EngineProofs -----------------------------
(***************************************************************************)
(* Proofs about Engine and the event queue it owns, EventQueue, for any    *)
(* number of calling threads and of engines and a queue of any size: no    *)
(* session is orphaned when an engine is taken away under calls that still *)
(* use it; the queue keeps its bound, overflow loses the oldest events     *)
(* only, and the poller sees a feed.                                       *)
(***************************************************************************)
EXTENDS Engine, EventQueue, Integers, TLAPS

-----------------------------------------------------------------------------
(* The engines.                                                            *)

\* The types the argument needs.
Types ==
  /\ made \in 0..MaxEngines
  /\ eng \in 0..made
  /\ closed \in [Engines -> BOOLEAN]
  /\ sessions \in [Engines -> Seq({"live", "ended"})]
  /\ pc \in [Caller -> {"idle", "call", "stop", "close", "closing"}]
  /\ held \in [Caller -> 0..made]
  /\ todo \in [Caller -> SUBSET Nat]

\* A caller in a command or in Close holds an engine; one in Close holds an
\* engine that is no longer current, and has closed it before it stops sessions.
HeldInv ==
  \A c \in Caller :
    /\ pc[c] # "idle" => held[c] # Nil
    /\ pc[c] \in {"close", "closing"} => held[c] # eng
    /\ pc[c] = "closing" => closed[held[c]]

\* An engine that was not made yet has no sessions; one that was made is open as
\* long as it is current, and one that is open otherwise is about to be closed.
OpenInv ==
  \A g \in Engines :
    /\ g > made => sessions[g] = <<>>
    /\ g = eng => ~closed[g]
    /\ g <= made /\ g # eng /\ ~closed[g] =>
         \E c \in Caller : pc[c] = "close" /\ held[c] = g
    /\ closed[g] => g <= made

EInv == Types /\ HeldInv /\ OpenInv /\ NoOrphanSession
-----------------------------------------------------------------------------
\* Replacing one element of a sequence changes neither its type nor its length,
\* nor the other elements.
LEMMA ReplaceInSeq ==
  ASSUME NEW S, NEW s \in Seq(S), NEW i, NEW x \in S
  PROVE  LET r == [s EXCEPT ![i] = x]
         IN /\ r \in Seq(S)
            /\ DOMAIN r = DOMAIN s
            /\ \A j \in DOMAIN s : r[j] = IF j = i THEN x ELSE s[j]
<1>1. s \in [1..Len(s) -> S] /\ DOMAIN s = 1..Len(s) /\ Len(s) \in Nat
  OBVIOUS
<1>2. [s EXCEPT ![i] = x] \in [1..Len(s) -> S]
  BY <1>1
<1>3. [s EXCEPT ![i] = x] \in Seq(S)
  BY <1>1, <1>2
<1>4. QED
  BY <1>1, <1>2, <1>3

\* A caller in a call has an engine that was made.
LEMMA HeldEngine ==
  ASSUME EInv, NEW c \in Caller, pc[c] # "idle"
  PROVE  held[c] \in Engines /\ held[c] <= made
<1>1. held[c] \in 0..made /\ held[c] # Nil /\ made \in 0..MaxEngines
  BY DEF EInv, HeldInv, Types
<1>2. QED
  BY <1>1, BoundsNat DEF Engines, Nil

\* The app has initialised the one engine there is.
LEMMA InitEInv == Init => EInv
<1> SUFFICES ASSUME Init PROVE EInv
  OBVIOUS
<1>1. Types
  BY BoundsNat DEF Init, Types, Engines, Nil
<1>2. HeldInv
  BY DEF Init, HeldInv
<1>3. OpenInv
  BY BoundsNat DEF Init, OpenInv, Engines
<1>4. NoOrphanSession
  BY DEF Init, NoOrphanSession
<1>5. QED
  BY <1>1, <1>2, <1>3, <1>4 DEF EInv

\* tc_init and currentEngine: a new engine is made only when there is none.
LEMMA BridgeEInv ==
  ASSUME EInv, NEW c \in Caller, TcInit(c) \/ CurrentEngine(c)
  PROVE  EInv'
<1>1. /\ pc[c] = "idle"
      /\ UNCHANGED <<closed, sessions, todo>>
      /\ \/ eng # Nil /\ eng' = eng /\ made' = made
         \/ eng = Nil /\ made < MaxEngines /\ made' = made + 1 /\ eng' = made + 1
      /\ \/ pc' = pc /\ held' = held
         \/ pc' = [pc EXCEPT ![c] = "call"] /\ held' = [held EXCEPT ![c] = eng']
  BY DEF TcInit, CurrentEngine, Make, Go, bridgeVars, engineVars, callVars
<1>2. Types
  BY DEF EInv
<1>3. made' \in 0..MaxEngines /\ eng' \in 1..made' /\ made <= made'
  BY <1>1, <1>2, BoundsNat DEF Types, Nil
<1>4. Types'
  <2>1. held' \in [Caller -> 0..made']
    <3>1. \A n \in 0..made : n \in 0..made'
      BY <1>2, <1>3 DEF Types
    <3>2. held \in [Caller -> 0..made']
      BY <1>2, <3>1 DEF Types
    <3>3. QED
      BY <1>1, <1>3, <3>2
  <2>2. pc' \in [Caller -> {"idle", "call", "stop", "close", "closing"}]
    BY <1>1, <1>2 DEF Types
  <2>3. QED
    BY <1>1, <1>2, <1>3, <2>1, <2>2 DEF Types
<1>5. \A d \in Caller :
        /\ d # c => pc'[d] = pc[d] /\ held'[d] = held[d]
        /\ (pc'[d] = pc[d] /\ held'[d] = held[d]) \/ (pc'[d] = "call" /\ held'[d] = eng')
  BY <1>1, <1>2 DEF Types
<1>6. HeldInv'
  <2>1. ASSUME NEW d \in Caller
        PROVE  /\ pc'[d] # "idle" => held'[d] # Nil
               /\ pc'[d] \in {"close", "closing"} => held'[d] # eng'
               /\ pc'[d] = "closing" => closed'[held'[d]]
    <3>1. pc'[d] # "idle" => held'[d] # Nil
      BY <1>2, <1>3, <1>5 DEF EInv, HeldInv, Types, Nil
    <3>2. pc'[d] \in {"close", "closing"} => held'[d] # eng'
      BY <1>1, <1>2, <1>3, <1>5, BoundsNat DEF EInv, HeldInv, Types, Nil
    <3>3. pc'[d] = "closing" => closed'[held'[d]]
      BY <1>1, <1>5 DEF EInv, HeldInv
    <3>4. QED
      BY <3>1, <3>2, <3>3
  <2>2. QED
    BY <2>1 DEF HeldInv
<1>7. OpenInv'
  <2>1. ASSUME NEW g \in Engines
        PROVE  /\ g > made' => sessions'[g] = <<>>
               /\ g = eng' => ~closed'[g]
               /\ g <= made' /\ g # eng' /\ ~closed'[g] =>
                    \E d \in Caller : pc'[d] = "close" /\ held'[d] = g
               /\ closed'[g] => g <= made'
    <3>1. /\ g > made => sessions[g] = <<>> /\ ~closed[g]
          /\ g = eng => ~closed[g]
          /\ g <= made /\ g # eng /\ ~closed[g] =>
               \E d \in Caller : pc[d] = "close" /\ held[d] = g
          /\ closed[g] => g <= made
      BY <1>2, BoundsNat DEF EInv, OpenInv, Types, Engines
    <3>2. g \in Nat /\ g # Nil /\ made \in Nat
      BY <1>2, BoundsNat DEF Engines, Nil, Types
    <3>3. (\E d \in Caller : pc[d] = "close" /\ held[d] = g)
            => \E d \in Caller : pc'[d] = "close" /\ held'[d] = g
      BY <1>1, <1>5
    <3>4. QED
      BY <1>1, <3>1, <3>2, <3>3
  <2>2. QED
    BY <2>1 DEF OpenInv
<1>8. NoOrphanSession'
  <2>1. ASSUME NEW g \in Engines, NEW i \in DOMAIN sessions[g], sessions[g][i] = "live"
        PROVE  \/ g = eng'
               \/ \E d \in Caller :
                    /\ held'[d] = g
                    /\ pc'[d] = "close" \/ (pc'[d] = "closing" /\ i \in todo'[d])
    <3>1. \/ g = eng
          \/ \E d \in Caller :
               /\ held[d] = g
               /\ pc[d] = "close" \/ (pc[d] = "closing" /\ i \in todo[d])
      BY <2>1 DEF EInv, NoOrphanSession
    <3>2. g # Nil
      BY BoundsNat DEF Engines, Nil
    <3>3. QED
      BY <1>1, <1>5, <3>1, <3>2
  <2>2. QED
    BY <1>1, <2>1 DEF NoOrphanSession
<1>9. QED
  BY <1>4, <1>6, <1>7, <1>8 DEF EInv
\* tc_shutdown: whoever takes the engine away answers for it from now on.
LEMMA ShutdownEInv ==
  ASSUME EInv, NEW c \in Caller, TcShutdown(c)
  PROVE  EInv'
<1>1. /\ pc[c] = "idle" /\ eng' = Nil
      /\ held' = [held EXCEPT ![c] = eng]
      /\ pc' = [pc EXCEPT ![c] = IF eng = Nil THEN "idle" ELSE "close"]
      /\ UNCHANGED <<made, closed, sessions, todo>>
  BY DEF TcShutdown, Go, engineVars
<1>2. Types
  BY DEF EInv
<1>3. /\ \A d \in Caller : d # c => pc'[d] = pc[d] /\ held'[d] = held[d]
      /\ held'[c] = eng
      /\ pc'[c] = IF eng = Nil THEN "idle" ELSE "close"
  BY <1>1, <1>2 DEF Types
<1>4. Types'
  BY <1>1, <1>2 DEF Types, Nil
<1>5. HeldInv'
  BY <1>1, <1>3 DEF EInv, HeldInv
<1>6. OpenInv'
  <2>1. ASSUME NEW g \in Engines, g <= made, ~closed[g]
        PROVE  \E d \in Caller : pc'[d] = "close" /\ held'[d] = g
    <3>1. g # Nil
      BY BoundsNat DEF Engines, Nil
    <3>2. CASE g = eng
      BY <1>3, <3>1, <3>2
    <3>3. CASE g # eng
      <4>1. PICK d \in Caller : pc[d] = "close" /\ held[d] = g
        BY <2>1, <3>3 DEF EInv, OpenInv
      <4>2. QED
        BY <1>1, <1>3, <4>1
    <3>4. QED
      BY <3>2, <3>3
  <2>2. \A g \in Engines : g # Nil
    BY BoundsNat DEF Engines, Nil
  <2>3. QED
    BY <1>1, <2>1, <2>2 DEF EInv, OpenInv
<1>7. NoOrphanSession'
  <2>1. ASSUME NEW g \in Engines, NEW i \in DOMAIN sessions[g], sessions[g][i] = "live"
        PROVE  \E d \in Caller :
                 /\ held'[d] = g
                 /\ pc'[d] = "close" \/ (pc'[d] = "closing" /\ i \in todo'[d])
    <3>1. \/ g = eng
          \/ \E d \in Caller :
               /\ held[d] = g
               /\ pc[d] = "close" \/ (pc[d] = "closing" /\ i \in todo[d])
      BY <2>1 DEF EInv, NoOrphanSession
    <3>2. g # Nil
      BY BoundsNat DEF Engines, Nil
    <3>3. QED
      BY <1>1, <1>3, <3>1, <3>2
  <2>2. QED
    BY <1>1, <2>1 DEF NoOrphanSession
<1>8. QED
  BY <1>4, <1>5, <1>6, <1>7 DEF EInv

\* newSession: an engine that is not closed is current, or its Close is still
\* to copy the sessions.
LEMMA NewSessionEInv ==
  ASSUME EInv, NEW c \in Caller, NewSession(c)
  PROVE  EInv'
<1> DEFINE h == held[c]
<1>1. /\ pc[c] = "call" /\ ~closed[h]
      /\ sessions' = [sessions EXCEPT ![h] = Append(@, "live")]
      /\ pc' = [pc EXCEPT ![c] = "idle"]
      /\ held' = [held EXCEPT ![c] = Nil]
      /\ UNCHANGED <<eng, made, closed, todo>>
  BY DEF NewSession, Return, Go, bridgeVars
<1>2. Types
  BY DEF EInv
<1>3. h \in Engines /\ h <= made
  BY <1>1, HeldEngine
<1>4. /\ \A d \in Caller : d # c => pc'[d] = pc[d] /\ held'[d] = held[d]
      /\ pc'[c] = "idle"
  BY <1>1, <1>2 DEF Types
<1>5. Types'
  <2>1. sessions' \in [Engines -> Seq({"live", "ended"})]
    BY <1>1, <1>2, <1>3 DEF Types
  <2>2. held' \in [Caller -> 0..made]
    BY <1>1, <1>2 DEF Types, Nil
  <2>3. QED
    BY <1>1, <1>2, <2>1, <2>2 DEF Types
<1>6. HeldInv'
  BY <1>1, <1>4 DEF EInv, HeldInv
<1>7. \A g \in Engines : g # h => sessions'[g] = sessions[g]
  BY <1>1, <1>2 DEF Types
<1>8. OpenInv'
  <2>1. \A g \in Engines : g > made => sessions'[g] = <<>>
    <3>1. made \in Int /\ \A g \in Engines : g \in Int
      BY <1>2, BoundsNat DEF Types, Engines
    <3>2. \A g \in Engines : g > made => g # h
      BY <1>3, <3>1
    <3>3. QED
      BY <1>7, <3>2 DEF EInv, OpenInv
  <2>2. \A g \in Engines :
          (\E d \in Caller : pc[d] = "close" /\ held[d] = g)
            => \E d \in Caller : pc'[d] = "close" /\ held'[d] = g
    BY <1>1, <1>4
  <2>3. QED
    BY <1>1, <2>1, <2>2 DEF EInv, OpenInv
<1>9. NoOrphanSession'
  <2>1. ASSUME NEW g \in Engines, NEW i \in DOMAIN sessions'[g], sessions'[g][i] = "live"
        PROVE  \/ g = eng
               \/ \E d \in Caller :
                    /\ held'[d] = g
                    /\ pc'[d] = "close" \/ (pc'[d] = "closing" /\ i \in todo'[d])
    <3>1. CASE g = h
      BY <1>1, <1>3, <1>4, <3>1 DEF EInv, OpenInv
    <3>2. CASE g # h
      <4>1. \/ g = eng
            \/ \E d \in Caller :
                 /\ held[d] = g
                 /\ pc[d] = "close" \/ (pc[d] = "closing" /\ i \in todo[d])
        BY <1>7, <2>1, <3>2 DEF EInv, NoOrphanSession
      <4>2. QED
        BY <1>1, <1>4, <4>1
    <3>3. QED
      BY <3>1, <3>2
  <2>2. QED
    BY <1>1, <2>1 DEF NoOrphanSession
<1>10. QED
  BY <1>5, <1>6, <1>8, <1>9 DEF EInv
\* A command that returns, or a stop that has found its session.
LEMMA CommandEInv ==
  ASSUME EInv, NEW c \in Caller,
         CallReturns(c) \/ Lookup(c) \/ StopReturns(c)
  PROVE  EInv'
<1>1. /\ pc[c] \in {"call", "stop"}
      /\ UNCHANGED <<eng, made, closed, sessions>>
      /\ \/ /\ pc' = [pc EXCEPT ![c] = "idle"]
            /\ held' = [held EXCEPT ![c] = Nil]
            /\ todo' = todo
         \/ /\ pc[c] = "call" /\ pc' = [pc EXCEPT ![c] = "stop"]
            /\ held' = held
            /\ \E i \in DOMAIN sessions[held[c]] : todo' = [todo EXCEPT ![c] = {i}]
  BY DEF CallReturns, Lookup, StopReturns, Return, Go, bridgeVars, engineVars
<1>2. Types
  BY DEF EInv
<1>3. /\ \A d \in Caller : d # c => pc'[d] = pc[d] /\ held'[d] = held[d] /\ todo'[d] = todo[d]
      /\ pc'[c] = "idle" \/ (pc'[c] = "stop" /\ held'[c] = held[c] /\ pc[c] = "call")
  BY <1>1, <1>2 DEF Types
<1>4. todo' \in [Caller -> SUBSET Nat]
  <2>1. ASSUME NEW i \in DOMAIN sessions[held[c]], todo' = [todo EXCEPT ![c] = {i}],
               pc[c] = "call"
        PROVE  todo' \in [Caller -> SUBSET Nat]
    <3>1. held[c] \in Engines
      BY <2>1, HeldEngine
    <3>2. i \in Nat
      BY <1>2, <2>1, <3>1 DEF Types
    <3>3. QED
      BY <1>2, <2>1, <3>2 DEF Types
  <2>2. QED
    BY <1>1, <1>2, <2>1 DEF Types
<1>5. Types'
  <2>1. pc' \in [Caller -> {"idle", "call", "stop", "close", "closing"}]
    BY <1>1, <1>2 DEF Types
  <2>2. held' \in [Caller -> 0..made]
    BY <1>1, <1>2 DEF Types, Nil
  <2>3. QED
    BY <1>1, <1>2, <1>4, <2>1, <2>2 DEF Types
<1>6. HeldInv'
  BY <1>1, <1>3 DEF EInv, HeldInv
<1>7. OpenInv'
  BY <1>1, <1>3 DEF EInv, OpenInv
<1>8. NoOrphanSession'
  BY <1>1, <1>3 DEF EInv, NoOrphanSession
<1>9. QED
  BY <1>5, <1>6, <1>7, <1>8 DEF EInv

\* A session that ends, by itself or by a stop.
LEMMA EndOneEInv ==
  ASSUME EInv, NEW h \in Engines, NEW i,
         sessions' = [sessions EXCEPT ![h][i] = "ended"],
         UNCHANGED <<eng, made, closed, pc, held>>,
         todo' \in [Caller -> SUBSET Nat],
         \A c \in Caller : \A j \in todo[c] : j \in todo'[c] \/ (held[c] = h /\ j = i)
  PROVE  EInv'
<1>1. Types
  BY DEF EInv
<1>2. /\ sessions'[h] = [sessions[h] EXCEPT ![i] = "ended"]
      /\ \A g \in Engines : g # h => sessions'[g] = sessions[g]
      /\ DOMAIN sessions' = Engines
  BY <1>1 DEF Types
<1>3. /\ sessions'[h] \in Seq({"live", "ended"})
      /\ DOMAIN sessions'[h] = DOMAIN sessions[h]
      /\ \A j \in DOMAIN sessions[h] :
           sessions'[h][j] = IF j = i THEN "ended" ELSE sessions[h][j]
  BY <1>1, <1>2, ReplaceInSeq DEF Types
<1>4. Types'
  <2>1. sessions' \in [Engines -> Seq({"live", "ended"})]
    BY <1>1, <1>2, <1>3 DEF Types
  <2>2. QED
    BY <1>1, <2>1 DEF Types
<1>5. HeldInv'
  BY DEF EInv, HeldInv
<1>6. OpenInv'
  <2>1. \A g \in Engines : sessions[g] = <<>> => sessions'[g] = <<>>
    BY <1>2, <1>3
  <2>2. QED
    BY <2>1 DEF EInv, OpenInv
<1>7. NoOrphanSession'
  <2>1. ASSUME NEW g \in Engines, NEW j \in DOMAIN sessions'[g], sessions'[g][j] = "live"
        PROVE  \/ g = eng
               \/ \E d \in Caller :
                    /\ held[d] = g
                    /\ pc[d] = "close" \/ (pc[d] = "closing" /\ j \in todo'[d])
    <3>1. j \in DOMAIN sessions[g] /\ sessions[g][j] = "live" /\ ~(g = h /\ j = i)
      BY <1>2, <1>3, <2>1
    <3>2. QED
      BY <3>1 DEF EInv, NoOrphanSession
  <2>2. QED
    BY <2>1 DEF NoOrphanSession
<1>8. QED
  BY <1>4, <1>5, <1>6, <1>7 DEF EInv

\* Close under the engine's lock: from now on no session is added, and all there
\* are get stopped.
LEMMA CloseEInv ==
  ASSUME EInv, NEW c \in Caller, Close(c)
  PROVE  EInv'
<1> DEFINE h == held[c]
<1>1. /\ pc[c] = "close"
      /\ closed' = [closed EXCEPT ![h] = TRUE]
      /\ todo' = [todo EXCEPT ![c] = DOMAIN sessions[h]]
      /\ pc' = [pc EXCEPT ![c] = "closing"]
      /\ UNCHANGED <<eng, made, sessions, held>>
  BY DEF Close, Go, bridgeVars
<1>2. Types
  BY DEF EInv
<1>3. h \in Engines /\ h <= made /\ h # eng
  BY <1>1, HeldEngine DEF EInv, HeldInv
<1>4. DOMAIN sessions[h] \in SUBSET Nat
  BY <1>2, <1>3 DEF Types
<1>5. Types'
  BY <1>1, <1>2, <1>4 DEF Types
<1>6. /\ \A d \in Caller : d # c => pc'[d] = pc[d] /\ todo'[d] = todo[d]
      /\ pc'[c] = "closing" /\ todo'[c] = DOMAIN sessions[h]
      /\ \A g \in Engines : closed'[g] = (closed[g] \/ g = h)
  BY <1>1, <1>2 DEF Types
<1>7. HeldInv'
  <2>1. \A d \in Caller : pc'[d] \in {"close", "closing"} => held[d] \in Engines
    BY <1>1, <1>6, HeldEngine
  <2>2. QED
    BY <1>1, <1>3, <1>6, <2>1 DEF EInv, HeldInv
<1>8. OpenInv'
  <2>1. ASSUME NEW g \in Engines, ~closed'[g], g <= made, g # eng
        PROVE  \E d \in Caller : pc'[d] = "close" /\ held[d] = g
    <3>1. g # h /\ ~closed[g]
      BY <1>6, <2>1
    <3>2. PICK d \in Caller : pc[d] = "close" /\ held[d] = g
      BY <2>1, <3>1 DEF EInv, OpenInv
    <3>3. QED
      BY <1>6, <3>1, <3>2
  <2>2. QED
    BY <1>1, <1>3, <1>6, <2>1 DEF EInv, OpenInv
<1>9. NoOrphanSession'
  BY <1>1, <1>6 DEF EInv, NoOrphanSession
<1>10. QED
  BY <1>5, <1>7, <1>8, <1>9 DEF EInv

\* Close returns when every session it copied has been stopped.
LEMMA CloseReturnsEInv ==
  ASSUME EInv, NEW c \in Caller, CloseReturns(c)
  PROVE  EInv'
<1>1. /\ pc[c] = "closing" /\ todo[c] = {}
      /\ pc' = [pc EXCEPT ![c] = "idle"]
      /\ held' = [held EXCEPT ![c] = Nil]
      /\ UNCHANGED <<eng, made, closed, sessions, todo>>
  BY DEF CloseReturns, Return, Go, bridgeVars
<1>2. Types
  BY DEF EInv
<1>3. /\ \A d \in Caller : d # c => pc'[d] = pc[d] /\ held'[d] = held[d]
      /\ pc'[c] = "idle"
  BY <1>1, <1>2 DEF Types
<1>4. Types'
  BY <1>1, <1>2 DEF Types, Nil
<1>5. HeldInv'
  BY <1>1, <1>3 DEF EInv, HeldInv
<1>6. OpenInv'
  BY <1>1, <1>3 DEF EInv, OpenInv
<1>7. NoOrphanSession'
  BY <1>1, <1>3 DEF EInv, NoOrphanSession
<1>8. QED
  BY <1>4, <1>5, <1>6, <1>7 DEF EInv

-----------------------------------------------------------------------------
\* Every step of the process keeps the invariant.
LEMMA NextEInv ==
  ASSUME EInv, [Next]_vars
  PROVE  EInv'
<1>1. Types
  BY DEF EInv
<1>2. ASSUME NEW c \in Caller, StopOne(c)
      PROVE  EInv'
  <2>1. PICK i \in todo[c] :
          /\ sessions' = [sessions EXCEPT ![held[c]][i] = "ended"]
          /\ todo' = [todo EXCEPT ![c] = @ \ {i}]
          /\ pc[c] # "idle"
          /\ UNCHANGED <<eng, made, closed, pc, held>>
    BY <1>2 DEF StopOne, bridgeVars
  <2>2. held[c] \in Engines
    BY <2>1, HeldEngine
  <2>3. /\ todo' \in [Caller -> SUBSET Nat]
        /\ \A d \in Caller : \A j \in todo[d] : j \in todo'[d] \/ (held[d] = held[c] /\ j = i)
    BY <1>1, <2>1 DEF Types
  <2>4. QED
    BY <2>1, <2>2, <2>3, EndOneEInv
<1>3. ASSUME NEW g \in Engines, NEW i \in DOMAIN sessions[g], SessionEnds(g, i)
      PROVE  EInv'
  <2>1. /\ sessions' = [sessions EXCEPT ![g][i] = "ended"]
        /\ UNCHANGED <<eng, made, closed, pc, held, todo>>
    BY <1>3 DEF SessionEnds, bridgeVars, callVars
  <2>2. todo' \in [Caller -> SUBSET Nat]
    BY <1>1, <2>1 DEF Types
  <2>3. QED
    BY <2>1, <2>2, EndOneEInv
<1>4. ASSUME UNCHANGED vars \/ \E c \in Caller : ClosersReturn(c)
      PROVE  EInv'
  <2>1. UNCHANGED <<eng, made, closed, sessions, pc, held, todo>>
    BY <1>4 DEF ClosersReturn, vars, bridgeVars, engineVars, callVars
  <2>2. QED
    BY <2>1 DEF EInv, Types, HeldInv, OpenInv, NoOrphanSession
<1>5. QED
  BY <1>2, <1>3, <1>4, BridgeEInv, ShutdownEInv, NewSessionEInv, CommandEInv, CloseEInv,
     CloseReturnsEInv
  DEF Next, CallStep, EndStep

\* The inductive invariant of the process, for any number of threads and engines.
THEOREM EngineInvariant == Spec => []EInv
  BY InitEInv, NextEInv, PTL DEF Spec

\* No live session escapes: the current engine has it or a tc_shutdown that has
\* not returned stops it, however calls and shutdowns interleave.
THEOREM EngineNoOrphanSession == Spec => []NoOrphanSession
<1>1. EInv => NoOrphanSession
  BY DEF EInv
<1>2. QED
  BY <1>1, EngineInvariant, PTL
-----------------------------------------------------------------------------
(* The full type invariant.                                                *)

\* Only Close and a stop that has found its session have something to stop, and
\* that was taken from the sessions of the engine they hold; the context of an
\* engine is cancelled by the Close that has closed it.
StopInv ==
  /\ waits \in [Caller -> BOOLEAN]
  /\ cancelled \in [Engines -> BOOLEAN]
  /\ \A g \in Engines : cancelled[g] => closed[g]
  /\ \A c \in Caller :
       todo[c] # {} =>
         pc[c] \in {"stop", "closing"} /\ todo[c] \subseteq DOMAIN sessions[held[c]]

\* Sessions are added to an engine and ended, never taken out of it.
LEMMA SessionsStay ==
  ASSUME EInv, Next, NEW g \in Engines
  PROVE  DOMAIN sessions[g] \subseteq DOMAIN sessions'[g]
<1>1. Types
  BY DEF EInv
<1>2. sessions[g] \in Seq({"live", "ended"})
  BY <1>1 DEF Types
<1>3. ASSUME NEW h \in Engines, NEW i, sessions' = [sessions EXCEPT ![h][i] = "ended"]
      PROVE  DOMAIN sessions[g] = DOMAIN sessions'[g]
  <2>1. sessions'[g] = IF g = h THEN [sessions[g] EXCEPT ![i] = "ended"] ELSE sessions[g]
    BY <1>1, <1>3 DEF Types
  <2>2. QED
    BY <1>2, <2>1, ReplaceInSeq
<1>4. ASSUME NEW h \in Engines, sessions' = [sessions EXCEPT ![h] = Append(@, "live")]
      PROVE  DOMAIN sessions[g] \subseteq DOMAIN sessions'[g]
  <2>1. sessions'[g] = IF g = h THEN Append(sessions[g], "live") ELSE sessions[g]
    BY <1>1, <1>4 DEF Types
  <2>2. DOMAIN sessions[g] = 1..Len(sessions[g]) /\ Len(sessions[g]) \in Nat
    BY <1>2
  <2>3. DOMAIN Append(sessions[g], "live") = 1..Len(sessions[g]) + 1
    BY <1>2
  <2>4. QED
    BY <2>1, <2>2, <2>3
<1>5. ASSUME NEW c \in Caller, NewSession(c)
      PROVE  DOMAIN sessions[g] \subseteq DOMAIN sessions'[g]
  BY <1>4, <1>5, HeldEngine DEF NewSession
<1>6. ASSUME NEW c \in Caller, StopOne(c)
      PROVE  DOMAIN sessions[g] \subseteq DOMAIN sessions'[g]
  BY <1>3, <1>6, HeldEngine DEF StopOne
<1>7. ASSUME NEW h \in Engines, NEW i \in DOMAIN sessions[h], SessionEnds(h, i)
      PROVE  DOMAIN sessions[g] \subseteq DOMAIN sessions'[g]
  BY <1>3, <1>7 DEF SessionEnds
<1>8. CASE sessions' = sessions
  BY <1>8
<1>9. QED
  BY <1>5, <1>6, <1>7, <1>8
  DEF Next, CallStep, EndStep, TcInit, CurrentEngine, TcShutdown, CallReturns, Lookup,
      StopReturns, Close, CloseReturns, ClosersReturn, engineVars

\* What a step does to the callers: the one that takes it has nothing left to
\* stop, goes on with less of what it had, or has just looked it up.
LEMMA CallersStop ==
  ASSUME EInv, StopInv, Next, NEW c \in Caller, todo'[c] # {}
  PROVE  /\ pc'[c] \in {"stop", "closing"}
         /\ held'[c] = held[c] /\ held[c] \in Engines
         /\ todo'[c] \subseteq DOMAIN sessions[held[c]]
<1>1. Types
  BY DEF EInv
<1>2. ASSUME NEW d \in Caller, CallStep(d) \/ EndStep(d) \/ ClosersReturn(d), d # c
      PROVE  pc'[c] = pc[c] /\ held'[c] = held[c] /\ todo'[c] = todo[c]
  BY <1>1, <1>2
  DEF Types, CallStep, EndStep, TcInit, CurrentEngine, TcShutdown, CallReturns, NewSession,
      Lookup, StopOne, StopReturns, Close, CloseReturns, ClosersReturn, Return, Go, callVars
<1>3. ASSUME pc'[c] = pc[c], held'[c] = held[c], todo'[c] \subseteq todo[c]
      PROVE  /\ pc'[c] \in {"stop", "closing"}
             /\ held'[c] = held[c] /\ held[c] \in Engines
             /\ todo'[c] \subseteq DOMAIN sessions[held[c]]
  BY <1>3, HeldEngine DEF StopInv
<1>4. CASE TcInit(c) \/ CurrentEngine(c) \/ TcShutdown(c) \/ CallReturns(c) \/ NewSession(c)
           \/ StopReturns(c) \/ CloseReturns(c)
  <2>1. todo[c] = {} /\ todo' = todo
    BY <1>4 DEF StopInv, TcInit, CurrentEngine, TcShutdown, CallReturns, NewSession,
                StopReturns, CloseReturns, callVars
  <2>2. QED
    BY <2>1
<1>5. CASE Lookup(c)
  <2>1. PICK i \in DOMAIN sessions[held[c]] : todo' = [todo EXCEPT ![c] = {i}]
    BY <1>5 DEF Lookup
  <2>2. todo'[c] = {i} /\ pc'[c] = "stop" /\ held' = held /\ pc[c] = "call"
    BY <1>1, <1>5, <2>1 DEF Lookup, Go, Types
  <2>3. QED
    BY <2>1, <2>2, HeldEngine
<1>6. CASE StopOne(c)
  <2>1. todo'[c] \subseteq todo[c] /\ pc' = pc /\ held' = held
    BY <1>1, <1>6 DEF StopOne, Types
  <2>2. QED
    BY <1>3, <2>1
<1>7. CASE Close(c)
  <2>1. /\ todo'[c] = DOMAIN sessions[held[c]] /\ pc'[c] = "closing"
        /\ held' = held /\ pc[c] = "close"
    BY <1>1, <1>7 DEF Close, Go, Types
  <2>2. QED
    BY <2>1, HeldEngine
<1>8. ASSUME NEW g \in Engines, NEW i \in DOMAIN sessions[g], SessionEnds(g, i)
      PROVE  pc'[c] = pc[c] /\ held'[c] = held[c] /\ todo'[c] = todo[c]
  BY <1>8 DEF SessionEnds, callVars
<1>9. CASE ClosersReturn(c)
  BY <1>3, <1>9 DEF ClosersReturn
<1>10. QED
  BY <1>2, <1>3, <1>4, <1>5, <1>6, <1>7, <1>8, <1>9 DEF Next, CallStep, EndStep

\* A caller waits for closers or it does not.
LEMMA NextWaits ==
  ASSUME waits \in [Caller -> BOOLEAN], Next
  PROVE  waits' \in [Caller -> BOOLEAN]
<1>1. waits' = waits \/ \E c \in Caller : \E w \in BOOLEAN : waits' = [waits EXCEPT ![c] = w]
  BY DEF Next, CallStep, EndStep, TcInit, CurrentEngine, TcShutdown, CallReturns,
         NewSession, Lookup, StopOne, StopReturns, Close, CloseReturns, ClosersReturn,
         SessionEnds, callVars
<1>2. QED
  BY <1>1

\* Contexts are cancelled by a Close that is past its first step.
LEMMA NextCancelled ==
  ASSUME EInv, StopInv, Next
  PROVE  /\ cancelled' \in [Engines -> BOOLEAN]
         /\ \A g \in Engines : cancelled'[g] => closed'[g]
<1>1. Types
  BY DEF EInv
<1>2. /\ cancelled \in [Engines -> BOOLEAN]
      /\ \A g \in Engines : cancelled[g] => closed[g]
  BY DEF StopInv
<1>3. ASSUME NEW c \in Caller, Close(c)
      PROVE  /\ cancelled' = cancelled
             /\ \A g \in Engines : closed[g] => closed'[g]
  BY <1>1, <1>3 DEF Close, Types
<1>4. ASSUME NEW c \in Caller, CloseReturns(c)
      PROVE  /\ closed' = closed /\ closed[held[c]] /\ held[c] \in Engines
             /\ cancelled' = [cancelled EXCEPT ![held[c]] = TRUE]
  BY <1>4, HeldEngine DEF CloseReturns, EInv, HeldInv
<1>5. CASE UNCHANGED <<closed, cancelled>>
  BY <1>2, <1>5
<1>6. ASSUME NEW c \in Caller, CloseReturns(c)
      PROVE  /\ cancelled' \in [Engines -> BOOLEAN]
             /\ \A g \in Engines : cancelled'[g] => closed'[g]
  BY <1>2, <1>4, <1>6
<1>7. ASSUME NEW c \in Caller, Close(c)
      PROVE  /\ cancelled' \in [Engines -> BOOLEAN]
             /\ \A g \in Engines : cancelled'[g] => closed'[g]
  BY <1>2, <1>3, <1>7
<1>8. QED
  BY <1>5, <1>6, <1>7
  DEF Next, CallStep, EndStep, TcInit, CurrentEngine, TcShutdown, CallReturns, NewSession,
      Lookup, StopOne, StopReturns, ClosersReturn, SessionEnds, engineVars

LEMMA NextStopInv ==
  ASSUME EInv, StopInv, [Next]_vars
  PROVE  StopInv'
<1>1. CASE Next
  <2>1. ASSUME NEW c \in Caller, todo'[c] # {}
        PROVE  pc'[c] \in {"stop", "closing"} /\ todo'[c] \subseteq DOMAIN sessions'[held'[c]]
    BY <1>1, <2>1, CallersStop, SessionsStay
  <2>2. QED
    BY <1>1, <2>1, NextCancelled, NextWaits DEF StopInv
<1>2. CASE UNCHANGED vars
  BY <1>2 DEF vars, bridgeVars, engineVars, callVars, StopInv
<1>3. QED
  BY <1>1, <1>2

\* The type invariant of the process: a caller stops only sessions of the engine
\* it holds, and an engine whose context is cancelled is closed.
THEOREM EngineTypes == Spec => []TypeOK
<1>1. Init => StopInv
  BY DEF Init, StopInv
<1>2. EInv /\ EInv' /\ StopInv /\ [Next]_vars => StopInv'
  BY NextStopInv
<1>3. EInv /\ StopInv => TypeOK
  BY DEF EInv, Types, StopInv, TypeOK
<1>4. QED
  BY <1>1, <1>2, <1>3, EngineInvariant, PTL DEF Spec

-----------------------------------------------------------------------------
(* The event queue.                                                        *)

\* The queue keeps its bound and is an unbroken run.
QInv == QueueTypeOK /\ NewestKept

\* What is left of the queue when an overflow drops its oldest n events.
LEMMA DropOldestKeeps ==
  ASSUME QueueTypeOK, NEW n \in 0..Len(events)
  PROVE  /\ DropOldest(n) \in Seq(Nat)
         /\ Len(DropOldest(n)) = Len(events) - n
         /\ \A i \in 1..(Len(events) - n) : DropOldest(n)[i] = events[n + i]
  BY DEF QueueTypeOK, DropOldest

\* Sequences over a set can be concatenated.
LEMMA ConcatType ==
  ASSUME NEW S, NEW s1 \in Seq(S), NEW s2 \in Seq(S)
  PROVE  s1 \o s2 \in Seq(S)
  OBVIOUS

\* What Push does to the queue: it drops nothing while there is room, else half
\* of the queue, and room for the new event is left.
LEMMA PushEffect ==
  ASSUME QueueTypeOK, Push
  PROVE  \E n \in 0..Len(events) :
           /\ n = 0 \/ Len(events) >= MaxQueued
           /\ Len(events) - n < MaxQueued
           /\ dropped' = dropped + n
           /\ events' = Append(DropOldest(n), pushes')
           /\ pushes' = pushes + 1
           /\ batch' = batch
<1>1. Len(events) \in Nat /\ Len(events) <= MaxQueued /\ MaxQueued \in Nat /\ MaxQueued >= 2
  BY MaxQueuedAtLeast2 DEF QueueTypeOK
<1>2. CASE Len(events) >= MaxQueued
  <2>1. Len(events) \div 2 \in 1..Len(events)
    BY <1>1, <1>2
  <2>2. QED
    BY <1>1, <1>2, <2>1 DEF Push
<1>3. CASE ~(Len(events) >= MaxQueued)
  BY <1>1, <1>3 DEF Push
<1>4. QED
  BY <1>2, <1>3

-----------------------------------------------------------------------------
\* A push keeps the bound, and the queue remains a run that ends with the newest.
LEMMA PushQInv ==
  ASSUME QInv, Push
  PROVE  QInv'
<1>1. PICK n \in 0..Len(events) :
        /\ Len(events) - n < MaxQueued
        /\ dropped' = dropped + n
        /\ events' = Append(DropOldest(n), pushes')
        /\ pushes' = pushes + 1
        /\ batch' = batch
  BY PushEffect DEF QInv
<1>2. /\ DropOldest(n) \in Seq(Nat)
      /\ Len(DropOldest(n)) = Len(events) - n
      /\ \A i \in 1..(Len(events) - n) : DropOldest(n)[i] = events[n + i]
  BY DropOldestKeeps DEF QInv
<1>3. Len(events) \in Nat /\ dropped \in Nat /\ pushes \in Nat /\ MaxQueued \in Nat
  BY MaxQueuedAtLeast2 DEF QInv, QueueTypeOK
<1>4. /\ events' \in Seq(Nat)
      /\ Len(events') = Len(events) - n + 1
      /\ events'[Len(events) - n + 1] = pushes + 1
      /\ \A i \in 1..(Len(events) - n) : events'[i] = events[n + i]
  BY <1>1, <1>2, <1>3
<1>0. n \in Nat /\ n <= Len(events)
  BY <1>3
<1>5. QueueTypeOK'
  <2>1. Len(events') \in Nat /\ Len(events') <= MaxQueued /\ Len(events') > 0
    <3>1. Len(events) - n < MaxQueued
      BY <1>1
    <3>2. Len(events') = Len(events) - n + 1
      BY <1>4
    <3>3. QED
      BY <1>0, <1>3, <3>1, <3>2
  <2>4. events' # <<>>
    BY <2>1
  <2>2. dropped' \in Nat /\ pushes' \in Nat
    BY <1>1, <1>3, <1>0
  <2>3. QED
    BY <1>1, <1>4, <2>1, <2>2, <2>4 DEF QInv, QueueTypeOK
<1>6. ASSUME NEW i \in DOMAIN events'
      PROVE  events'[i] = pushes' - Len(events') + i
  <2>1. i \in 1..(Len(events) - n + 1)
    BY <1>4, <1>6
  <2>2. CASE i = Len(events) - n + 1
    BY <1>1, <1>3, <1>4, <2>2
  <2>3. CASE i \in 1..(Len(events) - n)
    <3>1. n + i \in DOMAIN events
      BY <1>3, <2>3 DEF QInv, QueueTypeOK
    <3>2. events[n + i] = pushes - Len(events) + (n + i)
      BY <3>1 DEF QInv, NewestKept
    <3>3. pushes' - Len(events') + i = pushes - Len(events) + (n + i)
      <4>1. pushes' = pushes + 1 /\ Len(events') = Len(events) - n + 1 /\ i \in Nat
        BY <1>1, <1>4, <2>3
      <4>2. QED
        BY <1>0, <1>3, <4>1
    <3>4. QED
      BY <1>4, <2>3, <3>2, <3>3
  <2>4. QED
    BY <1>3, <2>1, <2>2, <2>3
<1>7. QED
  BY <1>5, <1>6 DEF QInv, NewestKept

\* A drain empties the queue and settles the account of what was dropped.
LEMMA DrainQInv ==
  ASSUME QInv, Drain, NoticeIsNoEvent
  PROVE  QInv'
<1>1. CASE events = <<>>
  BY <1>1 DEF QInv, Drain, QueueTypeOK, NewestKept
<1>2. CASE events # <<>>
  <2>1. batch' \in Seq(Nat \cup {Notice})
    <3>1. events \in Seq(Nat \cup {Notice}) /\ <<Notice>> \in Seq(Nat \cup {Notice})
      BY DEF QInv, QueueTypeOK
    <3>2. batch' = events \/ batch' = <<Notice>> \o events
      BY <1>2, <3>1 DEF Drain
    <3>3. <<Notice>> \o events \in Seq(Nat \cup {Notice})
      BY <3>1, ConcatType
    <3>4. QED
      BY <3>1, <3>2, <3>3
  <2>2. events' = <<>> /\ dropped' = 0 /\ pushes' = pushes
    BY <1>2 DEF Drain
  <2>3. QED
    BY <2>1, <2>2, MaxQueuedAtLeast2 DEF QInv, QueueTypeOK, NewestKept
<1>3. QED
  BY <1>1, <1>2

\* The queue's inductive invariant.
THEOREM QueueInvariant == QueueSpec => []QInv
<1>1. QueueInit => QInv
  BY MaxQueuedAtLeast2 DEF QueueInit, QInv, QueueTypeOK, NewestKept
<1>2. QInv /\ [QueueNext]_queueVars => QInv'
  <2>1. CASE UNCHANGED queueVars
    BY <2>1 DEF QInv, queueVars, QueueTypeOK, NewestKept
  <2>2. QED
    BY <2>1, PushQInv, DrainQInv, NoticeIsNoEvent DEF QueueNext
<1>3. QED
  BY <1>1, <1>2, PTL DEF QueueSpec

\* The queue never holds more than MaxQueued events, and as long as a loss is
\* not announced there is an event to announce it with.
THEOREM QueueTypes == QueueSpec => []QueueTypeOK
<1>1. QInv => QueueTypeOK
  BY DEF QInv
<1>2. QED
  BY <1>1, QueueInvariant, PTL

\* Overflow never costs the newest events, whatever the size of the queue.
THEOREM QueueNewestKept == QueueSpec => []NewestKept
<1>1. QInv => NewestKept
  BY DEF QInv
<1>2. QED
  BY <1>1, QueueInvariant, PTL

-----------------------------------------------------------------------------
\* A queue of any size is a feed: events come in order, at most once, and no
\* loss is silent.
THEOREM QueueImplementsFeed == QueueSpec => ImplementsFeed
<1>1. QueueInit => Feed!Init
  <2> SUFFICES ASSUME QueueInit PROVE Feed!Init
    OBVIOUS
  <2>1. pushes = 0 /\ Len(events) = 0 /\ batch = <<>>
    BY DEF QueueInit
  <2>2. (dropped > 0) = FALSE
    BY DEF QueueInit
  <2>3. QED
    BY <2>1, <2>2 DEF Feed!Init
<1>2. ASSUME QInv, QInv', [QueueNext]_queueVars
      PROVE  [Feed!Next]_(Feed!vars)
  <2>1. Len(events) \in Nat /\ dropped \in Nat /\ pushes \in Nat
    BY <1>2 DEF QInv, QueueTypeOK
  <2>2. CASE Push
    <3>1. PICK n \in 0..Len(events) :
            /\ dropped' = dropped + n
            /\ events' = Append(DropOldest(n), pushes')
            /\ pushes' = pushes + 1
            /\ batch' = batch
      BY <1>2, <2>2, PushEffect DEF QInv
    <3>2. Len(events') = Len(events) - n + 1
      <4>1. DropOldest(n) \in Seq(Nat) /\ Len(DropOldest(n)) = Len(events) - n
        BY <1>2, DropOldestKeeps DEF QInv
      <4>2. pushes' \in Nat
        BY <2>1, <3>1
      <4>3. Len(Append(DropOldest(n), pushes')) = Len(DropOldest(n)) + 1
        BY <4>1, <4>2
      <4>4. QED
        BY <3>1, <4>1, <4>3
    <3>3. pushes' - Len(events') = pushes - Len(events) + n
      BY <2>1, <3>1, <3>2
    <3>4. Feed!Send
      BY <2>1, <3>1, <3>3 DEF Feed!Send
    <3>5. QED
      BY <3>4 DEF Feed!Next
  <2>3. CASE Drain
    <3>1. CASE events = <<>>
      BY <2>1, <2>3, <3>1 DEF Drain, Feed!Next, Feed!ReceiveNothing
    <3>2. CASE events # <<>>
      <4>1. /\ events' = <<>> /\ dropped' = 0 /\ pushes' = pushes
            /\ batch' = (IF dropped > 0 THEN <<Notice>> ELSE <<>>) \o events
        BY <2>3, <3>2 DEF Drain
      <4>2. events = Feed!Run(pushes - Len(events) + 1, pushes)
        <5>1. pushes - (pushes - Len(events) + 1) + 1 = Len(events)
          BY <2>1
        <5>2. \A i \in 1..Len(events) : events[i] = (pushes - Len(events) + 1) + i - 1
          BY <1>2, <2>1 DEF QInv, NewestKept, QueueTypeOK
        <5>3. events = [i \in 1..Len(events) |-> (pushes - Len(events) + 1) + i - 1]
          BY <1>2, <5>2 DEF QInv, QueueTypeOK
        <5>4. QED
          BY <5>1, <5>3 DEF Feed!Run
      <4>3. Len(events) > 0
        BY <1>2, <3>2 DEF QInv, QueueTypeOK
      <4>4. Feed!Receive
        BY <2>1, <4>1, <4>2, <4>3 DEF Feed!Receive
      <4>5. QED
        BY <4>4 DEF Feed!Next
    <3>3. QED
      BY <3>1, <3>2
  <2>4. CASE UNCHANGED queueVars
    BY <2>4 DEF queueVars, Feed!vars
  <2>5. QED
    BY <1>2, <2>2, <2>3, <2>4 DEF QueueNext
<1>3. QED
  BY <1>1, <1>2, QueueInvariant, PTL DEF QueueSpec, ImplementsFeed, Feed!Spec
=============================================================================
