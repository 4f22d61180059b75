------------------------------ MODULE Connect -------------------------------
(***************************************************************************)
(* A device that connects to an offer: the connect screen probes the token *)
(* and puts it on the list of recent peers (app/lib/screens/               *)
(* connect_screen.dart), the peer screen receives everything that was sent *)
(* (peer_screen.dart and Client.Download of core/engine/fileshare/         *)
(* client.go).  The picked paths are files of the sender, which may go     *)
(* away while they are on offer.                                           *)
(***************************************************************************)
EXTENDS Discovery, Recent

CONSTANT Server   \* the token of the server that is probed

ASSUME ServerIsToken == Server \in Token

VARIABLES
  screen,   \* "connect", "touched" (touch awaits its save), "peer" or "error"
  job,      \* the download: "none", "listing", "moving", "done" or "failed"
  todo,     \* names the download has still to fetch
  local,    \* the pick whose content is under a name in the local directory
  vanished, \* picks that are gone from the sender's disk
  unlisted  \* history: picks that were gone when the share was listed

connectVars == <<screen, job, todo, local, vanished, unlisted>>
vars == <<offerVars, probeVars, recentVars, connectVars>>

Init ==
  /\ OfferInit
  /\ ProbeInit
  /\ RecentInit
  /\ screen = "connect" /\ job = "none"
  /\ todo = {} /\ local = <<>> /\ vanished = {} /\ unlisted = {}

-----------------------------------------------------------------------------
\* _connect: the answer of the probe is recorded before the peer screen opens.
RecordPeer ==
  /\ screen = "connect"
  /\ pc = "answered"
  /\ Touch(Server)
  /\ screen' = "touched"
  /\ UNCHANGED <<offerVars, probeVars, job, todo, local, vanished, unlisted>>

\* The save of touch has come back.
ShowPeer ==
  /\ screen = "touched"
  /\ saves = 0
  /\ screen' = "peer"
  /\ UNCHANGED <<offerVars, probeVars, recentVars, job, todo, local, vanished, unlisted>>

ShowError ==
  /\ screen = "connect"
  /\ pc = "error"
  /\ screen' = "error"
  /\ UNCHANGED <<offerVars, probeVars, recentVars, job, todo, local, vanished, unlisted>>

-----------------------------------------------------------------------------
(* "Receive all": download of the remote path ".".                         *)

ReceiveAll ==
  /\ screen = "peer"
  /\ job = "none"
  /\ offeredItems # {}
  /\ job' = "listing"
  /\ UNCHANGED <<offerVars, probeVars, recentVars, screen, todo, local, vanished, unlisted>>

\* ReadDir of the virtual root: directories, and the files that are there.
Listed == {n \in DOMAIN byName : n \in roots \/ byName[n] \notin vanished}

ListRoot ==
  /\ job = "listing"
  /\ \/ job' = "moving" /\ todo' = Listed
     \/ job' = "failed" /\ UNCHANGED todo
  /\ unlisted' = vanished
  /\ UNCHANGED <<offerVars, probeVars, recentVars, screen, local, vanished>>

\* The server resolves the name (split), the content ends up under it.
Fetch(n) ==
  /\ job = "moving"
  /\ n \in todo
  /\ byName[n] \notin vanished
  /\ local' = [m \in DOMAIN local \cup {n} |-> IF m = n THEN byName[n] ELSE local[m]]
  /\ todo' = todo \ {n}
  /\ UNCHANGED <<offerVars, probeVars, recentVars, screen, job, vanished, unlisted>>

\* A failed item that the loop goes past.
FetchSkips(n) ==
  /\ job = "moving"
  /\ n \in todo
  /\ todo' = todo \ {n}
  /\ UNCHANGED <<offerVars, probeVars, recentVars, screen, job, local, vanished, unlisted>>

\* The first item that fails ends the download: its session fails.
FetchFails(n) ==
  /\ job = "moving"
  /\ n \in todo
  /\ job' = "failed"
  /\ UNCHANGED <<offerVars, probeVars, recentVars, screen, todo, local, vanished, unlisted>>

AllFetched ==
  /\ job = "moving"
  /\ todo = {}
  /\ job' = "done"
  /\ UNCHANGED <<offerVars, probeVars, recentVars, screen, todo, local, vanished, unlisted>>

\* The sender deletes a picked file.  A directory stays open at the server, and
\* what becomes of its files is left out.
Vanish ==
  /\ job # "none"
  /\ \E i \in 1..Len(Picks) : ~Picks[i].dir /\ vanished' = vanished \cup {i}
  /\ UNCHANGED <<offerVars, probeVars, recentVars, screen, job, todo, local, unlisted>>

Receive == ReceiveAll \/ ListRoot \/ AllFetched \/ \E n \in todo : Fetch(n) \/ FetchFails(n)

-----------------------------------------------------------------------------
\* Nothing is on its way: the request was refused, or the user has seen an
\* error or does nothing on the peer screen.
Idle ==
  /\ phase \in {"refused", "failed"} \/ screen \in {"peer", "error"}
  /\ UNCHANGED vars

Next ==
  \/ OfferNext /\ UNCHANGED <<probeVars, recentVars, connectVars>>
  \/ (Probe \/ ProbeStep) /\ UNCHANGED <<offerVars, recentVars, connectVars>>
  \/ RecentNext /\ UNCHANGED <<offerVars, probeVars, connectVars>>
  \/ RecordPeer \/ ShowPeer \/ ShowError
  \/ Receive
  \/ Vanish
  \/ Idle

Spec == Init /\ [][Next]_vars

-----------------------------------------------------------------------------
TypeOK ==
  /\ OfferTypeOK
  /\ ProbeTypeOK
  /\ RecentTypeOK
  /\ screen \in {"connect", "touched", "peer", "error"}
  /\ job \in {"none", "listing", "moving", "done", "failed"}
  /\ todo \subseteq DOMAIN byName
  /\ local \in [DOMAIN local -> 1..Len(arg.picks)]
  /\ vanished \subseteq 1..Len(arg.picks)

\* A download that reports itself done has every picked path that was still
\* there when it listed the share, each under a name of its own: two files of
\* the same name do not end up as one.
ReceivesAll ==
  job = "done" =>
    \A i \in 1..Len(Picks) \ unlisted : \E n \in DOMAIN local : local[n] = i
=============================================================================
