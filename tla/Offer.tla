-------------------------------- MODULE Offer --------------------------------
(***************************************************************************)
(* What a server session offers: the checks of start_server, the names of  *)
(* the picked paths and the table of ports (core/engine/server.go,         *)
(* fileshare/backend.go).  How the server starts and stops is module       *)
(* Serve, what a share lets its clients do is module FileShare.            *)
(*                                                                         *)
(* A request is a record: files (the mode of a shared directory or "none"),*)
(* picks (the sequence of picked paths), ssh, ports, all, and gui.  With   *)
(* gui = FALSE the server is the tailcat command line, which offers the    *)
(* same services but no picked paths and no manifest.  The exit node does  *)
(* not touch the ports and is left out.                                    *)
(*                                                                         *)
(* A file name is a sequence <<n, i, j>>: "base (i) (j).ext", where n      *)
(* stands for base and ext.                                                *)
(***************************************************************************)
EXTENDS Naturals, Sequences, FiniteSets

CONSTANTS
  Arg,        \* the requests
  SshServer   \* sshShellSupported: the platform has the shell server

manifestPort == 1
sftpPort == 22

ASSUME SshServerBoolean == SshServer \in BOOLEAN
ASSUME Requests ==
  \A a \in Arg : /\ a.files \in {"none", "ro", "rw", "wo"}
                 /\ a.picks \in Seq([base : Seq(Nat), dir : BOOLEAN])
                 /\ a.ssh \in BOOLEAN /\ a.all \in BOOLEAN /\ a.gui \in BOOLEAN

VARIABLES
  arg,      \* the request
  phase,    \* "new", "picking", then "serving", "refused" or "failed"
  next,     \* the picked path the loop has come to
  byName,   \* b.byName: the pick a name stands for
  roots     \* b.roots: the names of the directories that are open

offerVars == <<arg, phase, next, byName, roots>>

OfferInit ==
  /\ arg \in Arg
  /\ phase = "new"
  /\ next = 1
  /\ byName = <<>>
  /\ roots = {}

-----------------------------------------------------------------------------
(* start_server.                                                           *)

NothingToServe ==
  arg.ports = {} /\ ~arg.all /\ arg.files = "none" /\ ~arg.ssh /\ arg.picks = <<>>

Rejected ==
  \/ NothingToServe
  \/ arg.files # "none" /\ arg.picks # <<>>
  \/ \E p \in arg.ports : p \notin 1..65535
  \/ arg.ssh /\ ~SshServer

\* The switch over what port 22 is for: the shell comes first.
Port22 ==
  IF arg.ssh THEN "shell"
  ELSE IF arg.picks # <<>> \/ arg.files # "none" THEN "share" ELSE "none"

\* The checks.  A path that has gone is refused here as well.
StartServer ==
  /\ phase = "new"
  /\ \/ phase' = "refused" /\ arg.gui /\ (Rejected \/ arg.picks # <<>> \/ arg.files # "none")
     \/ phase' = "picking" /\ arg.gui /\ ~Rejected
     \/ phase' = "serving" /\ ~arg.gui
  /\ UNCHANGED <<arg, next, byName, roots>>

Picks == IF Port22 = "share" THEN arg.picks ELSE <<>>

\* uniqueName without the search: the first number, taken or not.
UniqueNameOnce(taken, name) == IF name \in taken THEN Append(name, 2) ELSE name

\* uniqueName: the first number that makes the name a new one.
UniqueName(taken, name) ==
  LET Free(i) == Append(name, i) \notin taken
  IN  IF name \notin taken THEN name
      ELSE Append(name, CHOOSE i \in 2..Cardinality(taken) + 2 :
                          Free(i) /\ \A j \in 2..i - 1 : ~Free(j))

\* One turn of newPathsBackend.
PickOne ==
  /\ phase = "picking"
  /\ next <= Len(Picks)
  /\ LET name == UniqueName(DOMAIN byName, Picks[next].base)
     IN  /\ byName' = [n \in DOMAIN byName \cup {name} |->
                        IF n = name THEN next ELSE byName[n]]
         /\ roots' = IF Picks[next].dir THEN roots \cup {name} ELSE roots
  /\ next' = next + 1
  /\ UNCHANGED <<arg, phase>>

\* newPathsBackend that returns its error and closes nothing.
ShareFailsOpen ==
  /\ phase = "picking"
  /\ Port22 = "share"
  /\ phase' = "failed"
  /\ UNCHANGED <<arg, next, byName, roots>>

\* A path or the directory cannot be opened, or there is no host key: the
\* backend is closed and the session fails.
ShareFails ==
  /\ phase = "picking"
  /\ Port22 = "share"
  /\ phase' = "failed"
  /\ roots' = {}
  /\ UNCHANGED <<arg, next, byName>>

\* The port handlers are in place and the server comes up.
Listening ==
  /\ phase = "picking"
  /\ next > Len(Picks)
  /\ phase' = "serving"
  /\ UNCHANGED <<arg, next, byName, roots>>

OfferNext == StartServer \/ PickOne \/ ShareFails \/ Listening

-----------------------------------------------------------------------------
(* What the server answers once it is serving.                             *)

\* srv.OnTCP.
OnTCP(p) ==
  IF p = manifestPort /\ p \notin arg.ports /\ arg.gui THEN "manifest"
  ELSE IF p = sftpPort /\ Port22 # "none" THEN Port22
  ELSE IF arg.all \/ p \in arg.ports THEN "forward" ELSE "none"

\* srv.ServedTCPPorts: the filter in front of OnTCP.
LetThrough(p) ==
  \/ arg.all
  \/ p \in arg.ports \cup {manifestPort} \cup (IF Port22 # "none" THEN {sftpPort} ELSE {})

Answers(p) == IF LetThrough(p) THEN OnTCP(p) ELSE "none"

\* mfFiles.Mode, where "none" stands for nil.
ShareMode == IF Port22 = "share" /\ arg.picks # <<>> THEN "ro" ELSE arg.files

\* The body of the manifest.
Manifest ==
  [files |-> ShareMode, items |-> DOMAIN byName, ports |-> arg.ports,
   all |-> arg.all, ssh |-> arg.ssh]

\* What a client that comes to port 22 may do.  The shell's own SFTP shows what
\* the user of the shell can see, unless a directory is shared.
Lists == Answers(sftpPort) \in {"share", "shell"} /\ ShareMode # "wo"

Takes ==
  \/ Answers(sftpPort) \in {"share", "shell"} /\ ShareMode \in {"rw", "wo"}
  \/ Answers(sftpPort) = "shell" /\ ShareMode = "none"

-----------------------------------------------------------------------------
OfferTypeOK ==
  /\ arg \in Arg
  /\ phase \in {"new", "picking", "serving", "refused", "failed"}
  /\ next \in 1..Len(arg.picks) + 1
  /\ byName \in [DOMAIN byName -> 1..Len(arg.picks)]
  /\ roots \subseteq DOMAIN byName

\* Every path the loop has come past is reached under exactly one name, and a
\* directory under that name has its root (newPathsBackend, uniqueName, split):
\* paths with the same base name are told apart however the numbers collide.
\* A share that could not be opened keeps no directory open.
PicksResolve ==
  /\ \A i \in 1..next - 1 :
       \E n \in DOMAIN byName :
         /\ byName[n] = i
         /\ \A m \in DOMAIN byName : byName[m] = i => m = n
         /\ phase # "failed" => (n \in roots <=> arg.picks[i].dir)
  /\ phase = "failed" => roots = {}

\* "share_paths" and the share screen promise that the picked paths are on
\* offer: a server that serves has every one of them.
PickedIsOffered ==
  phase = "serving" /\ arg.picks # <<>> => Cardinality(DOMAIN byName) = Len(arg.picks)
=============================================================================
