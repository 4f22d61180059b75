---------------------------- MODULE ConnectProofs ----------------------------
(***************************************************************************)
(* Proofs about Connect and the offer it starts from, for any set of       *)
(* requests, any number of picked paths and any names they have: the       *)
(* search of uniqueName ends and each path gets a name of its own; what    *)
(* the probe finds out is served; every picked path is reached under its   *)
(* name; a download that reports itself done has all of them.  And about   *)
(* Recent, for a list of any size: the recent peers forget nobody.         *)
(***************************************************************************)
EXTENDS Connect, FiniteSetTheorems, WellFoundedInduction, TLAPS

-----------------------------------------------------------------------------
(* uniqueName.                                                             *)

LEMMA NumberedNamesDiffer ==
  ASSUME NEW name \in Seq(Nat), NEW i \in Nat, NEW j \in Nat,
         Append(name, i) = Append(name, j)
  PROVE  i = j
<1>1. Append(name, i)[Len(name) + 1] = i /\ Append(name, j)[Len(name) + 1] = j
  OBVIOUS
<1>. QED  BY <1>1

\* There are more numbers in the range than names taken.
LEMMA SomeNumberIsFree ==
  ASSUME NEW taken, IsFiniteSet(taken), NEW name \in Seq(Nat)
  PROVE  \E i \in 2..Cardinality(taken) + 2 : Append(name, i) \notin taken
<1>. DEFINE R == 2..Cardinality(taken) + 2
            f == [i \in R |-> Append(name, i)]
<1>1. Cardinality(taken) \in Nat
  BY FS_CardinalityType
<1>2. IsFiniteSet(R) /\ Cardinality(R) = Cardinality(taken) + 1
  <2>1. 2 \in Int /\ Cardinality(taken) + 2 \in Int
    BY <1>1
  <2>2. /\ IsFiniteSet(R)
        /\ Cardinality(R) = IF 2 > Cardinality(taken) + 2 THEN 0
                            ELSE (Cardinality(taken) + 2) - 2 + 1
    BY <2>1, FS_Interval
  <2>. QED  BY <1>1, <2>2
<1>3. SUFFICES ASSUME \A i \in R : Append(name, i) \in taken PROVE FALSE
  OBVIOUS
<1>4. f \in [R -> taken]
  BY <1>3
<1>5. Cardinality(taken) < Cardinality(R)
  BY <1>1, <1>2
<1>6. \E x, y \in R : x # y /\ f[x] = f[y]
  <2>. HIDE DEF R, f
  <2>. QED  BY <1>2, <1>4, <1>5, FS_PigeonHole
<1>7. PICK x \in R, y \in R : x # y /\ Append(name, x) = Append(name, y)
  BY <1>6
<1>8. x \in Nat /\ y \in Nat
  BY <1>1
<1>. QED  BY <1>7, <1>8, NumberedNamesDiffer

\* So one of them is the first, which the loop stops at.
LEMMA FirstFreeNumber ==
  ASSUME NEW taken, IsFiniteSet(taken), NEW name \in Seq(Nat)
  PROVE  \E i \in 2..Cardinality(taken) + 2 :
           /\ Append(name, i) \notin taken
           /\ \A j \in 2..i - 1 : Append(name, j) \in taken
<1>. DEFINE T == {i \in 2..Cardinality(taken) + 2 : Append(name, i) \notin taken}
<1>1. Cardinality(taken) \in Nat
  BY FS_CardinalityType
<1>2. T \subseteq Nat /\ T # {}
  BY <1>1, SomeNumberIsFree
<1>3. PICK i \in T : \A j \in T : <<j, i>> \notin OpToRel(<, Nat)
  <2>. HIDE DEF T
  <2>. QED  BY <1>2, NatLessThanWellFounded, WFMin
<1>4. \A j \in T : ~(j < i)
  BY <1>2, <1>3 DEF OpToRel
<1>5. \A j \in 2..i - 1 : Append(name, j) \in taken
  BY <1>1, <1>4
<1>. QED  BY <1>5

\* uniqueName gives a name that is not taken.
LEMMA UniqueNameIsNew ==
  ASSUME NEW taken, IsFiniteSet(taken), NEW name \in Seq(Nat)
  PROVE  UniqueName(taken, name) \notin taken
<1>1. CASE name \notin taken
  BY <1>1 DEF UniqueName
<1>2. CASE name \in taken
  <2>. DEFINE P(i) == /\ Append(name, i) \notin taken
                      /\ \A j \in 2..i - 1 : ~(Append(name, j) \notin taken)
              i0 == CHOOSE i \in 2..Cardinality(taken) + 2 : P(i)
  <2>1. \E i \in 2..Cardinality(taken) + 2 : P(i)
    BY FirstFreeNumber
  <2>2. P(i0)
    BY <2>1
  <2>3. UniqueName(taken, name) = Append(name, i0)
    BY <1>2 DEF UniqueName
  <2>. QED  BY <2>2, <2>3
<1>. QED  BY <1>1, <1>2

-----------------------------------------------------------------------------
(* The names of the picked paths.                                          *)

\* byName is one to one between the names and the paths the loop has come past.
NamesInv ==
  /\ arg \in Arg
  /\ phase \in {"new", "picking", "serving", "refused", "failed"}
  /\ next \in Nat \ {0}
  /\ phase = "new" => DOMAIN byName = {}
  /\ phase = "serving" /\ DOMAIN byName # {} => next > Len(Picks)
  /\ IsFiniteSet(DOMAIN byName)
  /\ \A n \in DOMAIN byName : byName[n] \in 1..next - 1
  /\ \A i \in 1..next - 1 : \E n \in DOMAIN byName : byName[n] = i
  /\ \A m, n \in DOMAIN byName : byName[m] = byName[n] => m = n
  /\ roots \subseteq DOMAIN byName
  /\ phase # "failed" =>
       \A n \in DOMAIN byName : n \in roots <=> arg.picks[byName[n]].dir
  /\ phase = "failed" => roots = {}

LEMMA OfferInitNames == OfferInit => NamesInv
BY FS_EmptySet DEF OfferInit, NamesInv

LEMMA NamesResolve == NamesInv => PicksResolve
<1>. SUFFICES ASSUME NamesInv PROVE PicksResolve
  OBVIOUS
<1>1. ASSUME NEW i \in 1..next - 1
      PROVE  \E n \in DOMAIN byName :
               /\ byName[n] = i
               /\ \A m \in DOMAIN byName : byName[m] = i => m = n
               /\ phase # "failed" => (n \in roots <=> arg.picks[i].dir)
  <2>1. PICK n \in DOMAIN byName : byName[n] = i
    BY DEF NamesInv
  <2>2. \A m \in DOMAIN byName : byName[m] = i => m = n
    BY <2>1 DEF NamesInv
  <2>3. phase # "failed" => (n \in roots <=> arg.picks[i].dir)
    BY <2>1 DEF NamesInv
  <2>. QED  BY <2>1, <2>2, <2>3
<1>. QED  BY <1>1 DEF PicksResolve, NamesInv

\* Any step keeps the names one to one.
LEMMA OfferStepNames ==
  ASSUME NamesInv, OfferNext
  PROVE  NamesInv'
<1>. USE DEF NamesInv
<1>1. CASE StartServer
  BY <1>1 DEF StartServer, Picks, Port22
<1>2. CASE PickOne
  <2>. DEFINE name == UniqueName(DOMAIN byName, Picks[next].base)
  <2>1. Picks = arg.picks /\ next \in 1..Len(arg.picks)
    BY <1>2 DEF PickOne, Picks
  <2>2. Picks[next].base \in Seq(Nat)
    <3>. DEFINE Pick == [base : Seq(Nat), dir : BOOLEAN]
    <3>1. \A p \in Pick : p.base \in Seq(Nat)
      OBVIOUS
    <3>2. arg.picks \in Seq(Pick)
      BY Requests
    <3>. HIDE DEF Pick
    <3>3. arg.picks[next] \in Pick
      BY <2>1, <3>2
    <3>. QED  BY <2>1, <3>1, <3>3
  <2>3. name \notin DOMAIN byName
    BY <2>2, UniqueNameIsNew DEF NamesInv
  <2>4. /\ arg' = arg /\ phase' = phase /\ phase = "picking" /\ next' = next + 1
        /\ byName' = [n \in DOMAIN byName \cup {name} |-> IF n = name THEN next ELSE byName[n]]
        /\ roots' = IF Picks[next].dir THEN roots \cup {name} ELSE roots
    BY <1>2 DEF PickOne
  <2>. HIDE DEF name
  <2>5. /\ DOMAIN byName' = DOMAIN byName \cup {name}
        /\ byName'[name] = next
        /\ \A n \in DOMAIN byName : byName'[n] = byName[n]
    BY <2>3, <2>4
  <2>6. IsFiniteSet(DOMAIN byName')
    BY <2>5, FS_AddElement
  <2>7. \A n \in DOMAIN byName' : byName'[n] \in 1..next' - 1
    BY <2>4, <2>5
  <2>8. \A i \in 1..next' - 1 : \E n \in DOMAIN byName' : byName'[n] = i
    <3>1. \A i \in 1..next' - 1 : i \in 1..next - 1 \/ i = next
      BY <2>4
    <3>. QED  BY <2>5, <3>1
  <2>9. \A m, n \in DOMAIN byName' : byName'[m] = byName'[n] => m = n
    BY <2>5
  <2>10. \A n \in DOMAIN byName' : n \in roots' <=> arg'.picks[byName'[n]].dir
    BY <2>1, <2>3, <2>4, <2>5
  <2>11. roots' \subseteq DOMAIN byName'
    BY <2>4, <2>5
  <2>12. /\ (arg \in Arg)'
         /\ phase' = "picking"
         /\ next' \in Nat \ {0}
    BY <2>4
  <2>. QED  BY <2>6, <2>7, <2>8, <2>9, <2>10, <2>11, <2>12
<1>3. CASE ShareFails
  BY <1>3 DEF ShareFails
<1>4. CASE Listening
  BY <1>4 DEF Listening, Picks, Port22
<1>. QED  BY <1>1, <1>2, <1>3, <1>4 DEF OfferNext

-----------------------------------------------------------------------------
(* What the probe has found out, step by step.                             *)

Early == {"idle", "warm", "dialManifest", "readManifest", "fallback", "error"}

\* Once the probe has begun the offer does not change any more; until the probe
\* is past the handshake it has found nothing, and after it only what is there.
ProbeInv ==
  /\ pc \in Early \cup {"handshake", "list", "shell", "answered"}
  /\ pc # "idle" => phase = "serving"
  /\ pc \in Early => res = [manifest |-> NoManifest, cli |-> FALSE, sftp |-> FALSE,
                         list |-> FALSE, shell |-> FALSE]
  /\ pc \in {"fallback", "handshake", "list", "shell"} => (Announces => fault)
  /\ pc = "handshake" => res = Fallback(FALSE, FALSE, FALSE)
  /\ pc = "list" => res = Fallback(TRUE, FALSE, FALSE) /\ Answers(sftpPort) \in {"share", "shell"}
  /\ pc = "shell" =>
       /\ Answers(sftpPort) \in {"share", "shell"}
       /\ \/ res = Fallback(TRUE, TRUE, FALSE) /\ Lists
          \/ res = Fallback(TRUE, FALSE, FALSE) /\ (Lists => fault)
  /\ fault \in BOOLEAN
  /\ arg \in Arg

PInv == ProbeInv /\ OffersAreServed /\ ProbeIsExact

\* What is asked for is let through and answered.
LEMMA PortsServed ==
  ASSUME NEW p \in arg.ports
  PROVE  Answers(p) # "none"
BY DEF Answers, LetThrough, OnTCP, Port22, manifestPort, sftpPort

\* A shared directory, picked paths or a shell are behind port 22.
LEMMA Port22Served ==
  /\ Port22 \in {"share", "shell", "none"}
  /\ Port22 # "none" => Answers(sftpPort) = Port22
  /\ Answers(sftpPort) = "share" => Port22 = "share"
  /\ Answers(sftpPort) = "shell" => Port22 = "shell"
  /\ Port22 = "shell" <=> arg.ssh
  /\ ShareMode # "none" => Port22 # "none"
BY DEF Answers, LetThrough, OnTCP, Port22, ShareMode, manifestPort, sftpPort

LEMMA PortsStay ==
  ASSUME arg' = arg
  PROVE  /\ \A p : Answers(p)' = Answers(p)
         /\ Lists' = Lists
         /\ Takes' = Takes
         /\ Announces' = Announces
         /\ ShareMode' = ShareMode
BY DEF Answers, LetThrough, OnTCP, Port22, Lists, Takes, ShareMode, Announces

\* A step that leaves the offer and the probe alone.
LEMMA ProbeStutters ==
  ASSUME PInv, UNCHANGED <<arg, phase, byName>>, UNCHANGED probeVars
  PROVE  PInv'
<1>1. ProbeInv'
  BY PortsStay DEF PInv, ProbeInv, probeVars, Early, Fallback, sftpPort, NoManifest
<1>2. OffersAreServed'
  BY PortsStay DEF PInv, OffersAreServed, probeVars, offeredItems, canBrowse, canSsh, knownPorts
<1>3. ProbeIsExact'
  BY PortsStay DEF PInv, ProbeIsExact, probeVars, canBrowse, canSsh, canSendFiles,
                   offeredItems, knownPorts
<1>. QED  BY <1>1, <1>2, <1>3 DEF PInv

\* A manifest tells what is there.
LEMMA ManifestServed ==
  ASSUME arg \in Arg, UNCHANGED offerVars, pc' = "answered", Announces,
         res' = FromManifest(Manifest)
  PROVE  OffersAreServed' /\ ProbeIsExact'
<1>1. /\ ShareMode \in {"none", "ro", "rw", "wo"}
      /\ arg.ssh => ShareMode = arg.files
  BY Requests DEF ShareMode, Port22
<1>2. /\ offeredItems' = DOMAIN byName
      /\ knownPorts' = arg.ports
      /\ canSsh' <=> arg.ssh
      /\ canBrowse' <=> ShareMode \notin {"none", "wo"}
      /\ canSendFiles' <=> ShareMode \notin {"none", "ro"}
  BY <1>1 DEF FromManifest, Manifest, offeredItems, knownPorts, canSsh, canBrowse, canSendFiles
<1>3. /\ Lists <=> Answers(sftpPort) \in {"share", "shell"} /\ ShareMode # "wo"
      /\ ShareMode \in {"rw", "wo"} /\ Answers(sftpPort) \in {"share", "shell"} => Takes
  BY DEF Lists, Takes
<1>4. OffersAreServed'
  BY <1>2, <1>3, PortsStay, PortsServed, Port22Served DEF OffersAreServed, offerVars
<1>5. ShareMode # "none" => Answers(sftpPort) \in {"share", "shell"}
  BY Port22Served
<1>6. ProbeIsExact'
  BY <1>1, <1>2, <1>3, <1>5, PortsStay, Port22Served DEF ProbeIsExact, offerVars
<1>. QED  BY <1>4, <1>6

\* The fallback that returns with what it has found.
LEMMA FallbackServed ==
  ASSUME arg \in Arg, UNCHANGED offerVars, pc' = "answered",
         NEW sftp \in BOOLEAN, NEW list \in BOOLEAN, NEW shell \in BOOLEAN,
         res' = Fallback(sftp, list, shell),
         list => Lists,
         shell => Answers(sftpPort) = "shell",
         Announces => fault',
         ~fault' => /\ sftp <=> Answers(sftpPort) \in {"share", "shell"}
                    /\ sftp => (list <=> Lists)
                    /\ shell <=> Answers(sftpPort) = "shell"
  PROVE  OffersAreServed' /\ ProbeIsExact'
<1>1. /\ offeredItems' = {}
      /\ knownPorts' = {}
      /\ canSsh' = shell
      /\ canBrowse' = (sftp /\ list)
      /\ canSendFiles' = (sftp /\ ~list)
  BY DEF Fallback, NoManifest, offeredItems, knownPorts, canSsh, canBrowse, canSendFiles
<1>2. OffersAreServed'
  BY <1>1, PortsStay DEF OffersAreServed, offerVars
<1>3. /\ Lists <=> Answers(sftpPort) \in {"share", "shell"} /\ ShareMode # "wo"
      /\ ShareMode = "wo" => Answers(sftpPort) \in {"share", "shell"} /\ Takes
  BY Port22Served DEF Lists, Takes
<1>4. ASSUME ~fault'
      PROVE  /\ canSsh' <=> Answers(sftpPort) = "shell"
             /\ canBrowse' <=> Lists
             /\ canSendFiles' <=> ShareMode = "wo"
             /\ ~Announces
  BY <1>1, <1>3, <1>4
<1>5. ProbeIsExact'
  BY <1>1, <1>3, <1>4, PortsStay DEF ProbeIsExact, offerVars
<1>. QED  BY <1>2, <1>5

LEMMA ProbeStepKeeps ==
  ASSUME PInv, UNCHANGED offerVars, Probe \/ ProbeStep
  PROVE  PInv'
<1>. USE DEF PInv
<1>0. arg' = arg /\ phase' = phase /\ arg \in Arg /\ fault' \in BOOLEAN
  <2>1. arg' = arg /\ phase' = phase /\ arg \in Arg
    BY DEF offerVars, ProbeInv
  <2>2. fault' \in BOOLEAN
    BY DEF ProbeInv, Probe, ProbeStep, Warm, DialManifest, ReadManifest, DialShare, SshHandshake,
           TryList, TryShell, Fails
  <2>. QED  BY <2>1, <2>2
<1>1. CASE pc' # "answered"
  <2>1. OffersAreServed' /\ ProbeIsExact'
    BY <1>1 DEF OffersAreServed, ProbeIsExact
  <2>2. CASE Probe
    BY <1>0, <2>1, <2>2 DEF Probe, ProbeInv, Early
  <2>3. CASE Warm
    BY <1>0, <2>1, <2>3 DEF Warm, ProbeInv, Early
  <2>4. CASE DialManifest
    BY <1>0, <2>1, <2>4, PortsStay DEF DialManifest, ProbeInv, Early, Announces, Fails
  <2>5. CASE ReadManifest
    BY <1>0, <1>1, <2>1, <2>5, PortsStay DEF ReadManifest, ProbeInv, Early, Announces, Fails
  <2>6. CASE DialShare
    BY <1>0, <1>1, <2>1, <2>6, PortsStay DEF DialShare, ProbeInv, Early, Fallback
  <2>7. CASE SshHandshake
    BY <1>0, <1>1, <2>1, <2>7, PortsStay DEF SshHandshake, ProbeInv, Early, Fallback
  <2>8. CASE TryList
    BY <1>0, <1>1, <2>1, <2>8, PortsStay DEF TryList, ProbeInv, Early, Fallback, Fails
  <2>9. CASE TryShell
    BY <1>1, <2>9 DEF TryShell
  <2>. QED  BY <2>2, <2>3, <2>4, <2>5, <2>6, <2>7, <2>8, <2>9 DEF ProbeStep
<1>2. CASE pc' = "answered"
  <2>1. ProbeInv'
    BY <1>0, <1>2 DEF ProbeInv, Early, Probe, ProbeStep, Warm, DialManifest, ReadManifest, DialShare, SshHandshake, TryList, TryShell
  <2>2. CASE ReadManifest
    BY <1>0, <1>2, <2>1, <2>2, ManifestServed DEF ReadManifest, Announces
  <2>3. CASE DialShare
    <3>1. /\ res' = Fallback(FALSE, FALSE, FALSE)
          /\ fault' = (fault \/ Answers(sftpPort) # "none")
          /\ Announces => fault
      BY <1>2, <2>3 DEF DialShare, ProbeInv, Early, Fallback, Fails
    <3>. QED  BY <1>0, <1>2, <2>1, <3>1, FallbackServed
  <2>4. CASE SshHandshake
    <3>1. /\ res' = Fallback(FALSE, FALSE, FALSE)
          /\ fault' = (fault \/ Answers(sftpPort) \in {"share", "shell"})
          /\ Announces => fault
      BY <1>2, <2>4 DEF SshHandshake, ProbeInv, Early, Fallback, Fails
    <3>. QED  BY <1>0, <1>2, <2>1, <3>1, FallbackServed
  <2>5. CASE TryShell
    <3>1. PICK list \in BOOLEAN :
            res = Fallback(TRUE, list, FALSE) /\ (list => Lists) /\ (Lists => list \/ fault)
      BY <2>5 DEF TryShell, ProbeInv, Early
    <3>2. PICK shell \in BOOLEAN :
            /\ res' = Fallback(TRUE, list, shell)
            /\ shell => Answers(sftpPort) = "shell" /\ fault' = fault
            /\ ~shell => fault' = (fault \/ Answers(sftpPort) = "shell")
      BY <2>5, <3>1 DEF TryShell, Fallback, Fails
    <3>3. Answers(sftpPort) \in {"share", "shell"} /\ (Announces => fault)
      BY <2>5 DEF TryShell, ProbeInv, Early
    <3>. QED  BY <1>0, <1>2, <2>1, <3>1, <3>2, <3>3, FallbackServed
  <2>6. ~Probe /\ ~Warm /\ ~DialManifest /\ ~TryList
    BY <1>2 DEF Probe, Warm, DialManifest, TryList
  <2>. QED  BY <2>2, <2>3, <2>4, <2>5, <2>6 DEF ProbeStep
<1>. QED  BY <1>1, <1>2

LEMMA OfferStepKeeps ==
  ASSUME PInv, OfferNext, UNCHANGED probeVars
  PROVE  PInv'
<1>1. pc = "idle" /\ pc' = "idle"
  BY DEF PInv, ProbeInv, probeVars, OfferNext, StartServer, PickOne, ShareFails, Listening
<1>2. arg' = arg
  BY DEF OfferNext, StartServer, PickOne, ShareFails, Listening
<1>. QED  BY <1>1, <1>2 DEF PInv, ProbeInv, Early, OffersAreServed, ProbeIsExact, probeVars

\* The probe's invariant holds: what it has found so far is there.
THEOREM ProbeInvariant == Spec => []PInv
<1>1. Init => PInv
  BY DEF Init, OfferInit, ProbeInit, PInv, ProbeInv, Early, Fallback, OffersAreServed, ProbeIsExact
<1>2. PInv /\ [Next]_vars => PInv'
  <2> SUFFICES ASSUME PInv, [Next]_vars PROVE PInv'
    OBVIOUS
  <2>1. CASE OfferNext /\ UNCHANGED probeVars
    BY <2>1, OfferStepKeeps
  <2>2. CASE (Probe \/ ProbeStep) /\ UNCHANGED offerVars
    BY <2>2, ProbeStepKeeps
  <2>3. CASE UNCHANGED offerVars /\ UNCHANGED probeVars
    BY <2>3, ProbeStutters DEF offerVars
  <2>. QED
    BY <2>1, <2>2, <2>3 DEF Next, vars, RecordPeer, ShowPeer, ShowError, Receive, ReceiveAll,
         ListRoot, Fetch, FetchFails, AllFetched, Vanish, Idle
<1>. QED  BY <1>1, <1>2, PTL DEF Spec

\* What the peer screen offers is served, for any requests and whatever step of
\* the probe fails.
THEOREM ConnectOffersAreServed == Spec => []OffersAreServed
BY ProbeInvariant, PTL DEF PInv

\* What a probe finds out, of a server with and of one without a manifest, if
\* nothing is lost on the way: for any requests.
THEOREM ConnectProbeIsExact == Spec => []ProbeIsExact
BY ProbeInvariant, PTL DEF PInv

-----------------------------------------------------------------------------
(* The names of the picked paths, and what a download makes of them.       *)

LEMMA NamesStay ==
  ASSUME NamesInv, UNCHANGED offerVars
  PROVE  NamesInv'
BY DEF NamesInv, offerVars, Picks, Port22

\* A picked path the download has not missed at the listing is still to be
\* fetched or is there, and what is there is under the name the share has for it.
Moving ==
  \A i \in 1..Len(Picks) \ unlisted :
    \/ \E n \in todo : byName[n] = i
    \/ \E n \in DOMAIN local : local[n] = i

ReceiveInv ==
  /\ screen \in {"touched", "peer"} => pc = "answered"
  /\ job # "none" => screen = "peer" /\ next > Len(Picks)
  /\ todo \subseteq DOMAIN byName
  /\ \A n \in DOMAIN local : n \in DOMAIN byName /\ local[n] = byName[n]
  /\ job \in {"none", "listing"} => DOMAIN local = {} /\ todo = {}
  /\ job \in {"moving", "done"} => Moving
  /\ job = "done" => todo = {}

ConnectInv == PInv /\ NamesInv /\ ReceiveInv

\* The steps of the offer end when the probe begins.
LEMMA OfferStepReceives ==
  ASSUME ConnectInv, OfferNext, UNCHANGED <<probeVars, recentVars, connectVars>>
  PROVE  ReceiveInv'
<1>1. pc = "idle"
  BY DEF ConnectInv, PInv, ProbeInv, OfferNext, StartServer, PickOne, ShareFails, Listening
<1>2. /\ job = "none" /\ screen \notin {"touched", "peer"}
      /\ DOMAIN local = {} /\ todo = {}
  BY <1>1 DEF ConnectInv, ReceiveInv
<1>. QED  BY <1>1, <1>2 DEF ReceiveInv, probeVars, connectVars

\* The steps of the probe, of the list of peers and of the screen.
LEMMA ScreenStepReceives ==
  ASSUME ConnectInv, UNCHANGED offerVars, UNCHANGED <<job, todo, local, unlisted>>,
         \/ (Probe \/ ProbeStep) /\ UNCHANGED connectVars
         \/ UNCHANGED probeVars /\ UNCHANGED screen
         \/ RecordPeer \/ ShowPeer \/ ShowError
  PROVE  ReceiveInv'
<1>1. (screen \in {"touched", "peer"} => pc = "answered")'
  <2>1. CASE (Probe \/ ProbeStep) /\ UNCHANGED connectVars
    BY <2>1 DEF ConnectInv, ReceiveInv, connectVars, Probe, ProbeStep, Warm, DialManifest,
          ReadManifest, DialShare, SshHandshake, TryList, TryShell
  <2>2. CASE UNCHANGED probeVars /\ UNCHANGED screen
    BY <2>2 DEF ConnectInv, ReceiveInv, probeVars
  <2>3. CASE RecordPeer \/ ShowPeer \/ ShowError
    BY <2>3 DEF ConnectInv, ReceiveInv, RecordPeer, ShowPeer, ShowError, probeVars
  <2>. QED  BY <2>1, <2>2, <2>3
<1>2. job # "none" => screen = "peer" /\ screen' = "peer"
  BY DEF ConnectInv, ReceiveInv, connectVars, RecordPeer, ShowPeer, ShowError
<1>3. Picks' = Picks
  BY DEF offerVars, Picks, Port22
<1>. QED  BY <1>1, <1>2, <1>3 DEF ConnectInv, ReceiveInv, Moving, offerVars

\* The listing has every path that is not gone.
LEMMA ListRootReceives ==
  ASSUME ConnectInv, ListRoot
  PROVE  ReceiveInv'
<1>1. Picks' = Picks /\ byName' = byName /\ next' = next
  BY DEF ListRoot, offerVars, Picks, Port22
<1>2. ASSUME job' = "moving"
      PROVE  Moving'
  <2>1. SUFFICES ASSUME NEW i \in 1..Len(Picks) \ vanished
                 PROVE  \E n \in Listed : byName[n] = i
    BY <1>1, <1>2 DEF ListRoot, Moving
  <2>2. i \in 1..next - 1
    BY DEF ConnectInv, ReceiveInv, NamesInv, ListRoot, Picks
  <2>3. PICK n \in DOMAIN byName : byName[n] = i
    BY <2>2 DEF ConnectInv, NamesInv
  <2>. QED  BY <2>3 DEF Listed
<1>. QED  BY <1>1, <1>2 DEF ListRoot, ConnectInv, ReceiveInv, Listed, probeVars

\* A path that is fetched moves from the one side to the other.
LEMMA FetchReceives ==
  ASSUME ConnectInv, NEW n \in todo, Fetch(n)
  PROVE  ReceiveInv'
<1>1. Picks' = Picks /\ byName' = byName /\ next' = next
  BY DEF Fetch, offerVars, Picks, Port22
<1>2. /\ n \in DOMAIN byName
      /\ job = "moving" /\ job' = job /\ todo' = todo \ {n} /\ unlisted' = unlisted
      /\ DOMAIN local' = DOMAIN local \cup {n}
      /\ local'[n] = byName[n]
      /\ \A m \in DOMAIN local : local'[m] = byName[m] /\ local[m] = byName[m]
  BY DEF Fetch, ConnectInv, ReceiveInv
<1>3. Moving'
  BY <1>1, <1>2 DEF Moving, ConnectInv, ReceiveInv
<1>. QED  BY <1>1, <1>2, <1>3 DEF Fetch, ConnectInv, ReceiveInv, probeVars

LEMMA ReceiveStepReceives ==
  ASSUME ConnectInv, Receive
  PROVE  ReceiveInv'
<1>1. CASE ReceiveAll
  <2>1. next > Len(Picks)
    <3>1. pc = "answered" /\ phase = "serving" /\ offeredItems # {}
      BY <1>1 DEF ReceiveAll, ConnectInv, ReceiveInv, PInv, ProbeInv
    <3>2. DOMAIN byName # {}
      BY <3>1 DEF ConnectInv, PInv, OffersAreServed
    <3>. QED  BY <3>1, <3>2 DEF ConnectInv, NamesInv
  <2>2. Picks' = Picks
    BY <1>1 DEF ReceiveAll, offerVars, Picks, Port22
  <2>. QED  BY <1>1, <2>1, <2>2 DEF ReceiveAll, ConnectInv, ReceiveInv, offerVars, probeVars
<1>2. CASE ListRoot
  BY <1>2, ListRootReceives
<1>3. CASE \E n \in todo : Fetch(n)
  BY <1>3, FetchReceives
<1>4. CASE AllFetched \/ \E n \in todo : FetchFails(n)
  <2>1. Picks' = Picks
    BY <1>4 DEF AllFetched, FetchFails, offerVars, Picks, Port22
  <2>. QED  BY <1>4, <2>1 DEF AllFetched, FetchFails, ConnectInv, ReceiveInv, Moving, offerVars, probeVars
<1>. QED  BY <1>1, <1>2, <1>3, <1>4 DEF Receive

\* The inductive invariant of a connection: the probe, the names, the download.
THEOREM ConnectInvariant == Spec => []ConnectInv
<1>1. Init => NamesInv /\ ReceiveInv
  BY OfferInitNames DEF Init, ReceiveInv, OfferInit, ProbeInit
<1>2. ConnectInv /\ [Next]_vars => NamesInv' /\ ReceiveInv'
  <2> SUFFICES ASSUME ConnectInv, [Next]_vars PROVE NamesInv' /\ ReceiveInv'
    OBVIOUS
  <2>1. CASE OfferNext /\ UNCHANGED <<probeVars, recentVars, connectVars>>
    BY <2>1, OfferStepNames, OfferStepReceives DEF ConnectInv
  <2>2. CASE Receive
    <3>1. UNCHANGED offerVars
      BY <2>2 DEF Receive, ReceiveAll, ListRoot, AllFetched, Fetch, FetchFails
    <3>. QED  BY <2>2, <3>1, NamesStay, ReceiveStepReceives DEF ConnectInv
  <2>3. CASE ~Receive /\ ~(OfferNext /\ UNCHANGED <<probeVars, recentVars, connectVars>>)
    <3>1. UNCHANGED offerVars /\ UNCHANGED <<job, todo, local, unlisted>>
      BY <2>3 DEF Next, vars, connectVars, RecordPeer, ShowPeer, ShowError, Vanish, Idle
    <3>2. \/ (Probe \/ ProbeStep) /\ UNCHANGED connectVars
          \/ UNCHANGED probeVars /\ UNCHANGED screen
          \/ RecordPeer \/ ShowPeer \/ ShowError
      BY <2>3 DEF Next, vars, connectVars, Vanish, Idle
    <3>. QED  BY <3>1, <3>2, NamesStay, ScreenStepReceives DEF ConnectInv
  <2>. QED  BY <2>1, <2>2, <2>3
<1>. QED  BY <1>1, <1>2, ProbeInvariant, PTL DEF Spec, ConnectInv

\* Picked paths are told apart, however many they are and whatever their names.
THEOREM ConnectPicksResolve == Spec => []PicksResolve
BY ConnectInvariant, NamesResolve, PTL DEF ConnectInv

\* A download that is done has every picked path that was listed.
THEOREM ConnectReceivesAll == Spec => []ReceivesAll
<1>1. ConnectInv => ReceivesAll
  BY DEF ConnectInv, ReceiveInv, Moving, ReceivesAll
<1>. QED  BY <1>1, ConnectInvariant, PTL

-----------------------------------------------------------------------------
(* The list of recent peers.                                               *)

LEMMA EveryNumber ==
  ASSUME NEW S, 0 \in S, \A n \in Nat : n \in S => n + 1 \in S
  PROVE  Nat \subseteq S
<1>. DEFINE Out == Nat \ S
<1>1. SUFFICES ASSUME Out # {} PROVE FALSE
  OBVIOUS
<1>2. PICK n \in Out : \A m \in Out : <<m, n>> \notin OpToRel(<, Nat)
  <2>1. Out \subseteq Nat
    OBVIOUS
  <2>. HIDE DEF Out
  <2>. QED  BY <1>1, <2>1, NatLessThanWellFounded, WFMin
<1>3. n \in Nat /\ n # 0 /\ \A m \in Out : ~(m < n)
  BY <1>2 DEF OpToRel
<1>4. n - 1 \in Nat /\ n - 1 \in S /\ (n - 1) + 1 = n
  BY <1>3
<1>. QED  BY <1>3, <1>4

\* The recursion of Without has a solution.
LEMMA WithoutUnfolds ==
  ASSUME NEW ps \in Seq(Peer), NEW t
  PROVE  \E kept : /\ kept[0] = <<>>
                   /\ \A i \in 1..Len(ps) :
                        kept[i] = IF ps[i].token = t THEN kept[i - 1]
                                  ELSE Append(kept[i - 1], ps[i])
                   /\ Without(ps, t) = kept[Len(ps)]
<1>. DEFINE Next1(f, i) == IF ps[i].token = t THEN f[i - 1] ELSE Append(f[i - 1], ps[i])
            Kept1(n, f) == f = [i \in 0..n |-> IF i = 0 THEN <<>> ELSE Next1(f, i)]
            D == {n \in Nat : \E f : Kept1(n, f)}
<1>1. 0 \in D
  <2>1. Kept1(0, [i \in 0..0 |-> <<>>])
    OBVIOUS
  <2>. QED  BY <2>1
<1>2. ASSUME NEW n \in Nat, n \in D
      PROVE  n + 1 \in D
  <2>1. PICK g : Kept1(n, g)
    BY <1>2
  <2>. DEFINE f == [i \in 0..n + 1 |-> IF i = n + 1 THEN Next1(g, i) ELSE g[i]]
  <2>2. \A i \in 0..n : f[i] = g[i]
    OBVIOUS
  <2>3. \A i \in 0..n : g[i] = IF i = 0 THEN <<>> ELSE Next1(g, i)
    BY <2>1
  <2>4. \A i \in 1..n + 1 : Next1(f, i) = Next1(g, i)
    <3>1. \A i \in 1..n + 1 : i - 1 \in 0..n
      OBVIOUS
    <3>. QED  BY <2>2, <3>1
  <2>5. \A i \in 0..n + 1 : f[i] = IF i = 0 THEN <<>> ELSE Next1(f, i)
    <3>1. \A i \in 0..n + 1 : i \in 0..n \/ i = n + 1
      OBVIOUS
    <3>2. \A i \in 0..n + 1 : i = 0 \/ i \in 1..n + 1
      OBVIOUS
    <3>3. f[n + 1] = Next1(g, n + 1) /\ n + 1 # 0
      OBVIOUS
    <3>. HIDE DEF f, Next1
    <3>. QED  BY <2>2, <2>3, <2>4, <3>1, <3>2, <3>3
  <2>6. Kept1(n + 1, f)
    <3>1. f = [i \in 0..n + 1 |-> f[i]]
      OBVIOUS
    <3>. HIDE DEF f, Next1
    <3>. QED  BY <2>5, <3>1
  <2>. HIDE DEF f, Kept1
  <2>. QED  BY <2>6
<1>3. Len(ps) \in D
  <2>1. Len(ps) \in Nat
    OBVIOUS
  <2>. HIDE DEF D
  <2>. QED  BY <1>1, <1>2, <2>1, EveryNumber
<1>. DEFINE k == CHOOSE f : Kept1(Len(ps), f)
<1>4. Kept1(Len(ps), k)
  <2>1. \E f : Kept1(Len(ps), f)
    BY <1>3
  <2>. HIDE DEF Kept1
  <2>. QED  BY <2>1
<1>5. Without(ps, t) = k[Len(ps)]
  BY DEF Without
<1>6. k[0] = <<>> /\ \A i \in 1..Len(ps) : k[i] = Next1(k, i)
  <2>1. k = [i \in 0..Len(ps) |-> IF i = 0 THEN <<>> ELSE Next1(k, i)]
    BY <1>4
  <2>2. 0 \in 0..Len(ps) /\ \A i \in 1..Len(ps) : i \in 0..Len(ps) /\ i # 0
    OBVIOUS
  <2>. HIDE DEF k, Next1
  <2>. QED  BY <2>1, <2>2
<1>. HIDE DEF k
<1>. QED  BY <1>5, <1>6

\* Without takes the peers of the token out of the list and no other.
LEMMA WithoutFacts ==
  ASSUME NEW ps \in Seq(Peer), NEW t
  PROVE  /\ Without(ps, t) \in Seq(Peer)
         /\ Len(Without(ps, t)) <= Len(ps)
         /\ \A p : p \in ToSet(Without(ps, t)) <=> p \in ToSet(ps) /\ p.token # t
         /\ NoDuplicate(ps) => NoDuplicate(Without(ps, t))
<1>1. PICK kept : /\ kept[0] = <<>>
                  /\ \A i \in 1..Len(ps) :
                       kept[i] = IF ps[i].token = t THEN kept[i - 1]
                                 ELSE Append(kept[i - 1], ps[i])
                  /\ Without(ps, t) = kept[Len(ps)]
  BY WithoutUnfolds
<1>. DEFINE Good(n) == /\ kept[n] \in Seq(Peer)
                       /\ Len(kept[n]) <= n
                       /\ \A p : p \in ToSet(kept[n])
                                   <=> \E i \in 1..n : p = ps[i] /\ ps[i].token # t
                       /\ NoDuplicate(ps) => NoDuplicate(kept[n])
            G == {n \in Nat : n <= Len(ps) => Good(n)}
<1>2. 0 \in G
  <2>1. /\ <<>> \in Seq(Peer) /\ Len(<<>>) <= 0
        /\ ToSet(<<>>) = {} /\ NoDuplicate(<<>>)
    BY DEF ToSet, NoDuplicate
  <2>2. 1..0 = {}
    OBVIOUS
  <2>3. Good(0)
    BY <1>1, <2>1, <2>2
  <2>. HIDE DEF Good
  <2>. QED  BY <2>3
<1>3. ASSUME NEW n \in Nat, n \in G, n + 1 <= Len(ps)
      PROVE  Good(n + 1)
  <2>0. n + 1 \in 1..Len(ps) /\ (n + 1) - 1 = n
    BY <1>3
  <2>1. Good(n)
    BY <1>3
  <2>2. ps[n + 1] \in Peer
    BY <1>3
  <2>3. CASE ps[n + 1].token = t
    <3>1. kept[n + 1] = kept[n]
      BY <1>1, <2>0, <2>3
    <3>2. \A i \in 1..n + 1 : i \in 1..n \/ i = n + 1
      OBVIOUS
    <3>3. Len(kept[n + 1]) <= n + 1
      BY <2>1, <3>1
    <3>. QED  BY <2>1, <2>3, <3>1, <3>2, <3>3
  <2>4. CASE ps[n + 1].token # t
    <3>1. kept[n + 1] = Append(kept[n], ps[n + 1])
      BY <1>1, <2>0, <2>4
    <3>2. /\ kept[n + 1] \in Seq(Peer)
          /\ Len(kept[n + 1]) = Len(kept[n]) + 1
          /\ Len(kept[n]) \in Nat
          /\ \A i \in 1..Len(kept[n]) : kept[n + 1][i] = kept[n][i]
          /\ kept[n + 1][Len(kept[n]) + 1] = ps[n + 1]
      BY <2>1, <2>2, <3>1
    <3>3. DOMAIN kept[n] = 1..Len(kept[n]) /\ DOMAIN kept[n + 1] = 1..Len(kept[n]) + 1
      BY <2>1, <3>2
    <3>4. \A p : p \in ToSet(kept[n + 1]) <=> p \in ToSet(kept[n]) \/ p = ps[n + 1]
      <4>1. \A i \in 1..Len(kept[n]) + 1 : i \in 1..Len(kept[n]) \/ i = Len(kept[n]) + 1
        BY <3>2
      <4>2. 1..Len(kept[n]) \subseteq 1..Len(kept[n]) + 1 /\ Len(kept[n]) + 1 \in 1..Len(kept[n]) + 1
        BY <3>2
      <4>. QED  BY <3>2, <3>3, <4>1, <4>2 DEF ToSet
    <3>5. \A p : p \in ToSet(kept[n + 1]) <=> \E i \in 1..n + 1 : p = ps[i] /\ ps[i].token # t
      <4>1. \A i \in 1..n + 1 : i \in 1..n \/ i = n + 1
        OBVIOUS
      <4>. QED  BY <2>1, <2>4, <3>4, <4>1
    <3>6. ASSUME NoDuplicate(ps)
          PROVE  NoDuplicate(kept[n + 1])
      <4>1. \A i \in 1..n : ps[i].token # ps[n + 1].token
        BY <1>3, <3>6 DEF NoDuplicate
      <4>2. \A i \in 1..Len(kept[n]) : kept[n][i].token # ps[n + 1].token
        BY <2>1, <3>3, <4>1 DEF ToSet
      <4>3. \A i \in DOMAIN kept[n + 1] : i \in DOMAIN kept[n] \/ i = Len(kept[n]) + 1
        BY <3>2, <3>3
      <4>. QED  BY <2>1, <3>2, <3>3, <3>6, <4>2, <4>3 DEF NoDuplicate
    <3>7. Len(kept[n + 1]) <= n + 1
      BY <2>1, <3>2
    <3>. QED  BY <3>2, <3>5, <3>6, <3>7
  <2>. QED  BY <2>3, <2>4
<1>4. Len(ps) \in G
  <2>1. \A n \in Nat : n \in G => n + 1 \in G
    <3>1. \A n \in Nat : n \in G /\ n + 1 <= Len(ps) => Good(n + 1)
      BY <1>3
    <3>. HIDE DEF Good
    <3>. QED  BY <3>1
  <2>2. Len(ps) \in Nat
    OBVIOUS
  <2>. HIDE DEF G
  <2>. QED  BY <1>2, <2>1, <2>2, EveryNumber
<1>5. Good(Len(ps))
  BY <1>4
<1>6. \A p : p \in ToSet(ps) <=> \E i \in 1..Len(ps) : p = ps[i]
  BY DEF ToSet
<1>. QED  BY <1>1, <1>5, <1>6

\* The peers of a list that are in another one, or that the user has removed.
Remembered(ps, qs) ==
  \A p \in ToSet(ps) :
    p.token \in gone \/ \E q \in ToSet(qs) : q.token = p.token /\ (p.alias => q.alias)

\* A list as touch leaves it.
Tidy(ps) == ps \in Seq(Peer) /\ Len(ps) <= maxItems /\ NoDuplicate(ps)

\* Before the load nothing is changed that NothingForgotten speaks about; from
\* then on what was stored is in the list or gone, and no save is outstanding
\* only if the list is the saved one.
RecentInv ==
  /\ Tidy(peers) /\ Tidy(stored)
  /\ saves \in Nat
  /\ edits \in 0..MaxEdits
  /\ loading /\ ~early => saves = 0 /\ before = stored /\ peers = <<>>
  /\ ~loading /\ ~early /\ ~failed =>
       Remembered(before, peers) /\ (saves = 0 => stored = peers)

LEMMA FirstFacts ==
  ASSUME NEW ps \in Seq(Peer), NoDuplicate(ps)
  PROVE  Tidy(First(ps)) /\ \A q \in ToSet(First(ps)) : q \in ToSet(ps)
<1>. DEFINE m == IF Len(ps) < maxItems THEN Len(ps) ELSE maxItems
<1>1. m \in Nat /\ m <= Len(ps) /\ m <= maxItems
  BY RecentBounds
<1>. HIDE DEF m
<1>2. First(ps) = SubSeq(ps, 1, m)
  BY DEF First, m
<1>3. /\ First(ps) \in Seq(Peer) /\ Len(First(ps)) = m
      /\ DOMAIN First(ps) = 1..m
      /\ \A i \in 1..m : First(ps)[i] = ps[i] /\ i \in DOMAIN ps
  BY <1>1, <1>2
<1>4. NoDuplicate(First(ps))
  BY <1>3 DEF NoDuplicate
<1>5. \A q \in ToSet(First(ps)) : q \in ToSet(ps)
  BY <1>3 DEF ToSet
<1>. QED  BY <1>1, <1>3, <1>4, <1>5 DEF Tidy

\* touch puts the peer first, with the alias it had, and nobody else is changed.
LEMMA TouchedFacts ==
  ASSUME Tidy(peers), NEW t \in Token
  PROVE  /\ Tidy(Touched(t))
         /\ \A q \in ToSet(Touched(t)) :
              \/ q \in ToSet(peers) /\ q.token # t
              \/ q = [token |-> t, alias |-> \E p \in ToSet(peers) : p.token = t /\ p.alias]
<1>. DEFINE first == [token |-> t, alias |-> \E p \in ToSet(peers) : p.token = t /\ p.alias]
            rest == Without(peers, t)
            all == <<first>> \o rest
<1>1. first \in Peer /\ first.token = t
  BY DEF Peer
<1>2. /\ rest \in Seq(Peer) /\ NoDuplicate(rest)
      /\ \A q : q \in ToSet(rest) <=> q \in ToSet(peers) /\ q.token # t
  BY WithoutFacts DEF Tidy
<1>3. Touched(t) = First(all)
  BY DEF Touched
<1>. HIDE DEF first, rest
<1>4. /\ all \in Seq(Peer)
      /\ DOMAIN all = 1..Len(rest) + 1 /\ Len(rest) \in Nat /\ DOMAIN rest = 1..Len(rest)
      /\ all[1] = first
      /\ \A i \in 1..Len(rest) + 1 : i # 1 => i - 1 \in 1..Len(rest) /\ all[i] = rest[i - 1]
  BY <1>1, <1>2
<1>. HIDE DEF all
<1>5. \A i \in 1..Len(rest) : rest[i].token # t
  BY <1>2, <1>4 DEF ToSet
<1>6. NoDuplicate(all)
  <2>1. SUFFICES ASSUME NEW i \in 1..Len(rest) + 1, NEW j \in 1..Len(rest) + 1,
                        all[i].token = all[j].token
                 PROVE  i = j
    BY <1>4 DEF NoDuplicate
  <2>2. CASE i = 1 \/ j = 1
    BY <1>1, <1>4, <1>5, <2>1, <2>2
  <2>3. CASE i # 1 /\ j # 1
    <3>1. i - 1 = j - 1
      BY <1>2, <1>4, <2>1, <2>3 DEF NoDuplicate
    <3>. QED  BY <1>4, <3>1
  <2>. QED  BY <2>2, <2>3
<1>7. \A q \in ToSet(all) : q = first \/ q \in ToSet(rest)
  <2>1. SUFFICES ASSUME NEW i \in 1..Len(rest) + 1, i # 1
                 PROVE  all[i] \in ToSet(rest)
    BY <1>4 DEF ToSet
  <2>2. i - 1 \in DOMAIN rest /\ all[i] = rest[i - 1]
    BY <1>4, <2>1
  <2>. QED  BY <2>2 DEF ToSet
<1>8. /\ Tidy(Touched(t))
      /\ \A q \in ToSet(Touched(t)) : q \in ToSet(all)
  BY <1>3, <1>4, <1>6, FirstFacts
<1>. QED  BY <1>2, <1>7, <1>8 DEF first

\* A change of the list that forgets nobody but those it adds to gone, with a
\* save that is on its way.
LEMMA ChangeKeeps ==
  ASSUME RecentInv, NEW ps, Change(ps), Tidy(ps), edits' \in 0..MaxEdits,
         \A t : t \in gone => t \in gone',
         \A p \in ToSet(peers) :
           p.token \in gone' \/ \E q \in ToSet(ps) : q.token = p.token /\ (p.alias => q.alias)
  PROVE  RecentInv'
<1>1. /\ peers' = ps /\ saves' = saves + 1 /\ early' = (early \/ loading)
      /\ UNCHANGED <<stored, loading, before, failed>>
  BY DEF Change
<1>2. Tidy(peers)' /\ Tidy(stored)' /\ saves' \in Nat /\ saves' # 0
  BY <1>1 DEF RecentInv, Tidy, NoDuplicate
<1>3. ASSUME ~early', ~failed'
      PROVE  Remembered(before, peers)' /\ ~loading
  <2>1. Remembered(before, peers) /\ ~loading
    BY <1>1, <1>3 DEF RecentInv
  <2>2. ASSUME NEW p \in ToSet(before), p.token \notin gone'
        PROVE  \E q \in ToSet(ps) : q.token = p.token /\ (p.alias => q.alias)
    <3>1. PICK r \in ToSet(peers) : r.token = p.token /\ (p.alias => r.alias)
      BY <2>1, <2>2 DEF Remembered
    <3>. QED  BY <2>2, <3>1
  <2>. QED  BY <1>1, <2>1, <2>2 DEF Remembered, ToSet
<1>. QED  BY <1>1, <1>2, <1>3 DEF RecentInv

LEMMA TouchKeeps ==
  ASSUME RecentInv, NEW t \in Token, Touch(t)
  PROVE  RecentInv'
<1>1. /\ Change(Touched(t)) /\ edits' = edits
      /\ gone' = gone \cup (Tokens(peers) \ Tokens(Touched(t)))
  BY DEF Touch
<1>2. Tidy(peers) /\ edits \in 0..MaxEdits
  BY DEF RecentInv
<1>3. ASSUME NEW p \in ToSet(peers), p.token \notin gone'
      PROVE  \E q \in ToSet(Touched(t)) : q.token = p.token /\ (p.alias => q.alias)
  <2>1. PICK q \in ToSet(Touched(t)) : q.token = p.token
    BY <1>1, <1>3 DEF Tokens
  <2>2. CASE q \in ToSet(peers)
    BY <1>2, <1>3, <2>1, <2>2 DEF Tidy, NoDuplicate, ToSet
  <2>3. CASE q = [token |-> t, alias |-> \E r \in ToSet(peers) : r.token = t /\ r.alias]
    BY <1>3, <2>1, <2>3
  <2>. QED  BY <1>2, <2>1, <2>2, <2>3, TouchedFacts
<1>. QED  BY <1>1, <1>2, <1>3, TouchedFacts, ChangeKeeps

LEMMA RenameKeeps ==
  ASSUME RecentInv, NEW t \in Token, Rename(t)
  PROVE  RecentInv'
<1>. DEFINE ps == [i \in DOMAIN peers |->
                     IF peers[i].token = t THEN [token |-> t, alias |-> TRUE] ELSE peers[i]]
<1>1. Change(ps) /\ gone' = gone /\ edits < MaxEdits /\ edits' = edits + 1
  BY DEF Rename, Edit
<1>2. Tidy(peers) /\ edits' \in 0..MaxEdits
  BY <1>1, RecentBounds DEF RecentInv
<1>3. peers \in Seq(Peer) /\ DOMAIN peers = 1..Len(peers) /\ Len(peers) \in Nat
  BY <1>2 DEF Tidy
<1>4. \A i \in 1..Len(peers) : ps[i] \in Peer /\ ps[i].token = peers[i].token /\ (peers[i].alias => ps[i].alias)
  <2>1. SUFFICES ASSUME NEW i \in 1..Len(peers)
                 PROVE  ps[i] \in Peer /\ ps[i].token = peers[i].token /\ (peers[i].alias => ps[i].alias)
    OBVIOUS
  <2>2. peers[i] \in Peer
    BY <1>3
  <2>3. ps[i] = IF peers[i].token = t THEN [token |-> t, alias |-> TRUE] ELSE peers[i]
    BY <1>3
  <2>. HIDE DEF ps
  <2>4. CASE peers[i].token = t
    BY <2>3, <2>4 DEF Peer
  <2>5. CASE peers[i].token # t
    BY <2>2, <2>3, <2>5
  <2>. QED  BY <2>4, <2>5
<1>5. DOMAIN ps = 1..Len(peers) /\ ps = [i \in 1..Len(peers) |-> ps[i]]
  BY <1>3
<1>. HIDE DEF ps
<1>6. ps \in Seq(Peer) /\ Len(ps) = Len(peers)
  <2>1. ps \in [1..Len(peers) -> Peer]
    BY <1>4, <1>5
  <2>. QED  BY <1>3, <2>1
<1>7. Tidy(ps)
  BY <1>2, <1>3, <1>4, <1>5, <1>6 DEF Tidy, NoDuplicate
<1>8. \A p \in ToSet(peers) : \E q \in ToSet(ps) : q.token = p.token /\ (p.alias => q.alias)
  BY <1>3, <1>4, <1>5 DEF ToSet
<1>. QED  BY <1>1, <1>2, <1>7, <1>8, ChangeKeeps

LEMMA RemoveKeeps ==
  ASSUME RecentInv, NEW t \in Token, RemovePeer(t)
  PROVE  RecentInv'
<1>1. /\ Change(Without(peers, t)) /\ gone' = gone \cup {t}
      /\ edits < MaxEdits /\ edits' = edits + 1
  BY DEF RemovePeer, Edit
<1>2. Tidy(peers) /\ edits' \in 0..MaxEdits
  BY <1>1, RecentBounds DEF RecentInv
<1>3. /\ Tidy(Without(peers, t))
      /\ \A p \in ToSet(peers) : p.token # t => p \in ToSet(Without(peers, t))
  <2>1. peers \in Seq(Peer) /\ NoDuplicate(peers) /\ Len(peers) <= maxItems
    BY <1>2 DEF Tidy
  <2>2. /\ Without(peers, t) \in Seq(Peer) /\ NoDuplicate(Without(peers, t))
        /\ Len(Without(peers, t)) <= Len(peers)
        /\ \A p : p \in ToSet(Without(peers, t)) <=> p \in ToSet(peers) /\ p.token # t
    BY <2>1, WithoutFacts
  <2>. QED  BY <2>1, <2>2, RecentBounds DEF Tidy
<1>. QED  BY <1>1, <1>2, <1>3, ChangeKeeps

LEMMA RecentStepKeeps ==
  ASSUME RecentInv,
         RecentNext \/ (\E t \in Token : Touch(t)) \/ UNCHANGED recentVars
  PROVE  RecentInv'
<1>1. CASE Load
  <2>1. /\ loading /\ ~loading'
        /\ \/ peers' = stored /\ failed' = failed
           \/ peers' = peers /\ stored = <<>> /\ failed' = failed
           \/ peers' = peers /\ failed' = TRUE
        /\ UNCHANGED <<stored, saves, edits, before, gone, early>>
    BY <1>1 DEF Load
  <2>2. \A ps : Remembered(ps, ps)
    BY DEF Remembered
  <2>3. Tidy(peers)' /\ Tidy(stored)'
    BY <2>1 DEF RecentInv, Tidy, NoDuplicate
  <2>4. ASSUME ~early', ~failed'
        PROVE  Remembered(before, peers)' /\ stored' = peers'
    <3>1. before = stored /\ peers' = stored
      BY <2>1, <2>4 DEF RecentInv
    <3>. QED  BY <2>1, <2>2, <3>1 DEF Remembered, ToSet
  <2>. QED  BY <2>1, <2>3, <2>4 DEF RecentInv
<1>2. CASE Save
  <2>1. /\ saves > 0 /\ saves' = saves - 1
        /\ \/ stored' = peers /\ failed' = failed
           \/ stored' = stored /\ failed' = TRUE
        /\ UNCHANGED <<peers, loading, edits, before, gone, early>>
    BY <1>2 DEF Save
  <2>2. Tidy(peers)' /\ Tidy(stored)'
    BY <2>1 DEF RecentInv, Tidy, NoDuplicate
  <2>3. saves' \in Nat /\ ~(loading /\ ~early)
    BY <2>1 DEF RecentInv
  <2>4. ASSUME ~loading', ~early', ~failed'
        PROVE  Remembered(before, peers)' /\ stored' = peers'
    BY <2>1, <2>4 DEF RecentInv, Remembered, ToSet
  <2>. QED  BY <2>1, <2>2, <2>3, <2>4 DEF RecentInv
<1>3. CASE UNCHANGED recentVars
  BY <1>3 DEF recentVars, RecentInv, Tidy, NoDuplicate, Remembered, ToSet
<1>. QED  BY <1>1, <1>2, <1>3, TouchKeeps, RenameKeeps, RemoveKeeps DEF RecentNext

\* The invariant of the list of recent peers, for any bound on its length.
THEOREM RecentInvariant == Spec => []RecentInv
<1>1. Init => RecentInv
  <2>. SUFFICES ASSUME Init PROVE RecentInv
    OBVIOUS
  <2>1. /\ stored \in Kept /\ before = stored /\ peers = <<>> /\ loading = TRUE
        /\ saves = 0 /\ edits = 0
    BY DEF Init, RecentInit
  <2>2. Tidy(stored)
    BY <2>1, KeptLists DEF Tidy
  <2>3. Tidy(<<>>)
    BY RecentBounds DEF Tidy, NoDuplicate
  <2>. QED  BY <2>1, <2>2, <2>3, RecentBounds DEF RecentInv
<1>2. RecentInv /\ [Next]_vars => RecentInv'
  <2>1. [Next]_vars => RecentNext \/ (\E t \in Token : Touch(t)) \/ UNCHANGED recentVars
    BY ServerIsToken
    DEF Next, vars, RecordPeer, ShowPeer, ShowError, Receive, ReceiveAll, ListRoot, Fetch,
        FetchFails, AllFetched, Vanish, Idle
  <2>. QED  BY <2>1, RecentStepKeeps
<1>. QED  BY <1>1, <1>2, PTL DEF Spec

\* A peer that was stored is listed, once and with its alias, unless the user
\* removed it or as many others as the list has room for pushed it out.
THEOREM ConnectNothingForgotten == Spec => []NothingForgotten
<1>1. RecentInv => NothingForgotten
  BY DEF RecentInv, Tidy, Remembered, NothingForgotten
<1>. QED  BY <1>1, RecentInvariant, PTL

-----------------------------------------------------------------------------
(* The type invariant.                                                     *)

\* What a manifest may say of this offer.
ManifestType ==
  [files : {"none", "ro", "rw", "wo"}, items : SUBSET DOMAIN byName, ports : {{}, arg.ports},
   all : BOOLEAN, ssh : BOOLEAN]

LEMMA ResultTypes ==
  /\ \A sftp, list, shell \in BOOLEAN :
       Fallback(sftp, list, shell) \in
         [manifest : ManifestType, cli : BOOLEAN, sftp : BOOLEAN, list : BOOLEAN, shell : BOOLEAN]
  /\ arg \in Arg =>
       FromManifest(Manifest) \in
         [manifest : ManifestType, cli : BOOLEAN, sftp : BOOLEAN, list : BOOLEAN, shell : BOOLEAN]
<1>1. NoManifest \in ManifestType
  BY DEF NoManifest, ManifestType
<1>2. ASSUME NEW sftp \in BOOLEAN, NEW list \in BOOLEAN, NEW shell \in BOOLEAN
      PROVE  Fallback(sftp, list, shell) \in
               [manifest : ManifestType, cli : BOOLEAN, sftp : BOOLEAN, list : BOOLEAN, shell : BOOLEAN]
  BY <1>1 DEF Fallback
<1>3. ASSUME arg \in Arg
      PROVE  FromManifest(Manifest) \in
               [manifest : ManifestType, cli : BOOLEAN, sftp : BOOLEAN, list : BOOLEAN, shell : BOOLEAN]
  <2>1. ShareMode \in {"none", "ro", "rw", "wo"} /\ arg.all \in BOOLEAN /\ arg.ssh \in BOOLEAN
    BY <1>3, Requests DEF ShareMode
  <2>2. Manifest \in ManifestType
    BY <2>1 DEF Manifest, ManifestType
  <2>3. (Manifest.files # "none" \/ Manifest.ssh) \in BOOLEAN /\ Manifest.ssh \in BOOLEAN
    BY <2>1 DEF Manifest
  <2>. QED  BY <2>2, <2>3 DEF FromManifest
<1>. QED  BY <1>2, <1>3

\* The part of the type invariant that the others do not give.
TypesInv ==
  /\ next \in 1..Len(arg.picks) + 1
  /\ byName = [n \in DOMAIN byName |-> byName[n]]
  /\ ProbeTypeOK
  /\ screen \in {"connect", "touched", "peer", "error"}
  /\ job \in {"none", "listing", "moving", "done", "failed"}
  /\ local = [n \in DOMAIN local |-> local[n]]
  /\ vanished \subseteq 1..Len(arg.picks)

\* A step that leaves the request alone and takes no name away keeps the type of
\* what the probe has found.
LEMMA ProbeTypesStay ==
  ASSUME ProbeTypeOK, UNCHANGED <<arg, probeVars>>, DOMAIN byName \subseteq DOMAIN byName'
  PROVE  ProbeTypeOK'
<1>1. ManifestType \subseteq ManifestType'
  BY DEF ManifestType
<1>2. /\ pc' = pc /\ fault' = fault /\ res' = res
  BY DEF probeVars
<1>3. res \in [manifest : ManifestType, cli : BOOLEAN, sftp : BOOLEAN, list : BOOLEAN,
               shell : BOOLEAN]
  BY DEF ProbeTypeOK, ManifestType
<1>4. res' \in [manifest : ManifestType', cli : BOOLEAN, sftp : BOOLEAN, list : BOOLEAN,
                shell : BOOLEAN]
  <2>. DEFINE M == ManifestType
              N == ManifestType'
  <2>1. M \subseteq N /\ res \in [manifest : M, cli : BOOLEAN, sftp : BOOLEAN, list : BOOLEAN,
                                  shell : BOOLEAN]
    BY <1>1, <1>3
  <2>. HIDE DEF M, N
  <2>2. res \in [manifest : N, cli : BOOLEAN, sftp : BOOLEAN, list : BOOLEAN, shell : BOOLEAN]
    BY <2>1
  <2>. QED  BY <1>2, <2>2 DEF N
<1>. QED  BY <1>2, <1>4 DEF ProbeTypeOK, ManifestType

LEMMA ProbeStepTypes ==
  ASSUME ProbeTypeOK, arg \in Arg, UNCHANGED offerVars, Probe \/ ProbeStep, fault' \in BOOLEAN
  PROVE  ProbeTypeOK'
<1>1. pc' \in {"idle", "warm", "dialManifest", "readManifest", "fallback", "handshake",
               "list", "shell", "answered", "error"}
  BY DEF ProbeTypeOK, Probe, ProbeStep, Warm, DialManifest, ReadManifest, DialShare,
         SshHandshake, TryList, TryShell
<1>. DEFINE Res == [manifest : ManifestType, cli : BOOLEAN, sftp : BOOLEAN, list : BOOLEAN,
                    shell : BOOLEAN]
<1>2. res \in Res
  BY DEF ProbeTypeOK, ManifestType
<1>3. res.list \in BOOLEAN
  BY <1>2
<1>4. FromManifest(Manifest) \in Res
      /\ \A sftp, list, shell \in BOOLEAN : Fallback(sftp, list, shell) \in Res
  BY ResultTypes
<1>. HIDE DEF Res
<1>5. \/ res' = res
      \/ res' = FromManifest(Manifest)
      \/ \E sftp, list, shell \in BOOLEAN : res' = Fallback(sftp, list, shell)
  BY <1>3 DEF Probe, ProbeStep, Warm, DialManifest, ReadManifest, DialShare,
         SshHandshake, TryList, TryShell
<1>6. res' \in Res
  BY <1>2, <1>4, <1>5
<1>. QED  BY <1>1, <1>6 DEF ProbeTypeOK, ManifestType, Res, offerVars

LEMMA OfferStepTypes ==
  ASSUME ConnectInv, TypesInv, OfferNext, UNCHANGED <<probeVars, recentVars, connectVars>>
  PROVE  TypesInv'
<1>1. /\ arg' = arg /\ arg \in Arg
      /\ next \in 1..Len(arg.picks) + 1 /\ Len(arg.picks) \in Nat
  BY Requests DEF ConnectInv, NamesInv, TypesInv, OfferNext, StartServer, PickOne, ShareFails,
                  Listening
<1>2. /\ next' \in 1..Len(arg.picks) + 1
      /\ byName' = [n \in DOMAIN byName' |-> byName'[n]]
      /\ DOMAIN byName \subseteq DOMAIN byName'
  <2>1. CASE PickOne
    <3>1. next <= Len(Picks) /\ next' = next + 1
      BY <2>1 DEF PickOne
    <3>2. Picks = arg.picks
      BY <1>1, <3>1 DEF Picks
    <3>3. next' \in 1..Len(arg.picks) + 1
      BY <1>1, <3>1, <3>2
    <3>. DEFINE name == UniqueName(DOMAIN byName, Picks[next].base)
    <3>4. byName' = [n \in DOMAIN byName \cup {name} |-> IF n = name THEN next ELSE byName[n]]
      BY <2>1 DEF PickOne
    <3>. HIDE DEF name
    <3>. QED  BY <3>3, <3>4
  <2>2. CASE UNCHANGED <<next, byName>>
    BY <1>1, <2>2 DEF TypesInv
  <2>. QED  BY <2>1, <2>2 DEF OfferNext, StartServer, ShareFails, Listening
<1>3. ProbeTypeOK'
  BY <1>1, <1>2, ProbeTypesStay DEF TypesInv
<1>. QED  BY <1>1, <1>2, <1>3 DEF TypesInv, connectVars

\* The steps that leave the offer alone.
LEMMA OtherStepTypes ==
  ASSUME ConnectInv, TypesInv, [Next]_vars, UNCHANGED offerVars, (fault \in BOOLEAN)'
  PROVE  TypesInv'
<1>1. /\ arg' = arg /\ next' = next /\ byName' = byName /\ arg \in Arg
      /\ next' \in 1..Len(arg.picks) + 1 /\ byName' = [n \in DOMAIN byName' |-> byName'[n]]
  BY DEF offerVars, ConnectInv, NamesInv, TypesInv
<1>2. ProbeTypeOK'
  <2>1. UNCHANGED probeVars \/ Probe \/ ProbeStep
    BY DEF Next, vars, RecordPeer, ShowPeer, ShowError, Receive, ReceiveAll, ListRoot, Fetch,
           FetchFails, AllFetched, Vanish, Idle
  <2>. QED  BY <1>1, <2>1, ProbeTypesStay, ProbeStepTypes DEF TypesInv
<1>3. (screen \in {"connect", "touched", "peer", "error"})'
  BY DEF TypesInv, Next, vars, connectVars, RecordPeer, ShowPeer, ShowError, Receive, ReceiveAll,
         ListRoot, Fetch, FetchFails, AllFetched, Vanish, Idle
<1>4. (job \in {"none", "listing", "moving", "done", "failed"})'
  BY DEF TypesInv, Next, vars, connectVars, RecordPeer, ShowPeer, ShowError, Receive, ReceiveAll,
         ListRoot, Fetch, FetchFails, AllFetched, Vanish, Idle
<1>5. (local = [n \in DOMAIN local |-> local[n]])'
  <2>1. ASSUME NEW n \in todo, Fetch(n)
        PROVE  (local = [m \in DOMAIN local |-> local[m]])'
    BY <2>1 DEF Fetch
  <2>2. CASE local' = local
    BY <2>2 DEF TypesInv
  <2>. QED
    BY <2>1, <2>2 DEF Next, vars, connectVars, RecordPeer, ShowPeer, ShowError, Receive,
         ReceiveAll, ListRoot, FetchFails, AllFetched, Vanish, Idle
<1>6. (vanished \subseteq 1..Len(arg.picks))'
  <2>1. CASE Vanish
    <3>1. \A i \in 1..Len(Picks) : i \in 1..Len(arg.picks)
      BY DEF Picks
    <3>. QED  BY <1>1, <2>1, <3>1 DEF Vanish, TypesInv
  <2>2. CASE vanished' = vanished
    BY <1>1, <2>2 DEF TypesInv
  <2>. QED
    BY <2>1, <2>2 DEF Next, vars, connectVars, RecordPeer, ShowPeer, ShowError, Receive,
         ReceiveAll, ListRoot, Fetch, FetchFails, AllFetched, Idle
<1>. QED  BY <1>1, <1>2, <1>3, <1>4, <1>5, <1>6 DEF TypesInv

\* The type invariant of a connection, of its offer, its probe and its list.
THEOREM ConnectTypes == Spec => []TypeOK
<1>1. Init => TypesInv
  <2>. SUFFICES ASSUME Init PROVE TypesInv
    OBVIOUS
  <2>1. arg \in Arg /\ next = 1 /\ byName = <<>> /\ Len(arg.picks) \in Nat
    BY Requests DEF Init, OfferInit
  <2>2. ProbeTypeOK
    <3>1. res = [manifest |-> NoManifest, cli |-> FALSE, sftp |-> FALSE, list |-> FALSE,
                 shell |-> FALSE]
      BY DEF Init, ProbeInit
    <3>2. NoManifest \in ManifestType
      BY DEF NoManifest, ManifestType
    <3>3. pc = "idle" /\ fault = FALSE
      BY DEF Init, ProbeInit
    <3>4. res \in [manifest : ManifestType, cli : BOOLEAN, sftp : BOOLEAN, list : BOOLEAN,
                   shell : BOOLEAN]
      BY <3>1, <3>2
    <3>. QED  BY <3>3, <3>4 DEF ProbeTypeOK, ManifestType
  <2>3. <<>> = [n \in DOMAIN <<>> |-> <<>>[n]]
    OBVIOUS
  <2>. QED  BY <2>1, <2>2, <2>3 DEF Init, TypesInv
<1>2. ConnectInv /\ ConnectInv' /\ TypesInv /\ [Next]_vars => TypesInv'
  <2>. SUFFICES ASSUME ConnectInv, ConnectInv', TypesInv, [Next]_vars PROVE TypesInv'
    OBVIOUS
  <2>1. (fault \in BOOLEAN)'
    BY DEF ConnectInv, PInv, ProbeInv
  <2>2. \/ OfferNext /\ UNCHANGED <<probeVars, recentVars, connectVars>>
        \/ UNCHANGED offerVars
    BY DEF Next, vars, RecordPeer, ShowPeer, ShowError, Receive, ReceiveAll, ListRoot, Fetch,
           FetchFails, AllFetched, Vanish, Idle
  <2>. QED  BY <2>1, <2>2, OfferStepTypes, OtherStepTypes
<1>3. ConnectInv /\ RecentInv /\ TypesInv => TypeOK
  <2>. SUFFICES ASSUME ConnectInv, RecentInv, TypesInv PROVE TypeOK
    OBVIOUS
  <2>1. arg \in Arg /\ Len(arg.picks) \in Nat
    BY Requests DEF ConnectInv, NamesInv
  <2>2. \A n \in DOMAIN byName : byName[n] \in 1..Len(arg.picks)
    BY <2>1 DEF ConnectInv, NamesInv, TypesInv
  <2>3. OfferTypeOK
    <3>1. byName \in [DOMAIN byName -> 1..Len(arg.picks)]
      BY <2>2 DEF TypesInv
    <3>. QED  BY <3>1 DEF ConnectInv, NamesInv, TypesInv, OfferTypeOK
  <2>4. RecentTypeOK
    BY DEF RecentInv, Tidy, RecentTypeOK
  <2>5. local \in [DOMAIN local -> 1..Len(arg.picks)]
    <3>1. \A n \in DOMAIN local : local[n] \in 1..Len(arg.picks)
      BY <2>2 DEF ConnectInv, ReceiveInv
    <3>. QED  BY <3>1 DEF TypesInv
  <2>. QED  BY <2>3, <2>4, <2>5 DEF TypesInv, ConnectInv, ReceiveInv, TypeOK
<1>. QED  BY <1>1, <1>2, <1>3, ConnectInvariant, RecentInvariant, PTL DEF Spec
=============================================================================
