----------------------------- MODULE Discovery ------------------------------
(***************************************************************************)
(* What the other side finds out about an offer: Engine.probe              *)
(* (core/engine/probe.go), readManifest, and the getters of ProbeResult    *)
(* (app/lib/core/probe.dart), which decide what the peer screen offers.    *)
(*                                                                         *)
(* Every step of the probe may fail for a reason of its own: a timeout, a  *)
(* lost connection.  fault remembers that this happened to a step the      *)
(* server would have answered.  The SSH steps have no timer.               *)
(***************************************************************************)
EXTENDS Offer

VARIABLES
  pc,       \* where the probe is; "answered" or "error" when it has returned
  fault,    \* a step failed that the server would have answered
  res       \* the ProbeResult so far

probeVars == <<pc, fault, res>>

NoManifest == [files |-> "none", items |-> {}, ports |-> {}, all |-> FALSE, ssh |-> FALSE]

ProbeInit ==
  /\ pc = "idle"
  /\ fault = FALSE
  /\ res = [manifest |-> NoManifest, cli |-> FALSE, sftp |-> FALSE, list |-> FALSE, shell |-> FALSE]

\* A step that fails although the server answers is a fault.
Fails(answers) == fault' = (fault \/ answers)

-----------------------------------------------------------------------------
Probe ==
  /\ pc = "idle"
  /\ phase = "serving"
  /\ pc' = "warm"
  /\ UNCHANGED <<fault, res>>

\* warmClient and DiscoPing.
Warm ==
  /\ pc = "warm"
  /\ \/ pc' = "dialManifest" /\ UNCHANGED fault
     \/ pc' = "error" /\ Fails(TRUE)
  /\ UNCHANGED res

DialManifest ==
  /\ pc = "dialManifest"
  /\ \/ /\ Answers(manifestPort) # "none"
        /\ pc' = "readManifest"
        /\ UNCHANGED fault
     \/ pc' = "fallback" /\ Fails(Answers(manifestPort) # "none")
  /\ UNCHANGED res

\* The result without the look at the mode.
FromManifestListed(m) ==
  [manifest |-> m, cli |-> FALSE, sftp |-> m.files # "none" \/ m.ssh,
   list |-> m.files # "none", shell |-> m.ssh]

\* The result that is read off a manifest.
FromManifest(m) ==
  [manifest |-> m, cli |-> FALSE, sftp |-> m.files # "none" \/ m.ssh,
   list |-> m.files \notin {"none", "wo"}, shell |-> m.ssh]

\* readManifest: whatever else sits on port 1 does not speak our JSON.
ReadManifest ==
  /\ pc = "readManifest"
  /\ \/ /\ Answers(manifestPort) = "manifest"
        /\ res' = FromManifest(Manifest)
        /\ pc' = "answered"
        /\ UNCHANGED fault
     \/ /\ pc' = "fallback"
        /\ Fails(Answers(manifestPort) = "manifest")
        /\ UNCHANGED res

-----------------------------------------------------------------------------
(* No manifest: see what port 22 is.                                       *)

\* The result on the way of the fallback.
Fallback(sftp, list, shell) ==
  [manifest |-> NoManifest, cli |-> TRUE, sftp |-> sftp, list |-> list, shell |-> shell]

DialShare ==
  /\ pc = "fallback"
  /\ res' = Fallback(FALSE, FALSE, FALSE)
  /\ \/ /\ Answers(sftpPort) # "none"
        /\ pc' = "handshake"
        /\ UNCHANGED fault
     \/ pc' = "answered" /\ Fails(Answers(sftpPort) # "none")

\* The SSH handshake, which a service behind a forwarded port does not survive:
\* it does not let the user tailcat in without a password.
SshHandshake ==
  /\ pc = "handshake"
  /\ \/ /\ Answers(sftpPort) \in {"share", "shell"}
        /\ res' = Fallback(TRUE, FALSE, FALSE)
        /\ pc' = "list"
        /\ UNCHANGED fault
     \/ pc' = "answered" /\ Fails(Answers(sftpPort) \in {"share", "shell"}) /\ UNCHANGED res

\* The sftp subsystem and ReadDir, then sf.Close.
TryList ==
  /\ pc = "list"
  /\ pc' = "shell"
  /\ \/ Lists /\ res' = Fallback(TRUE, TRUE, FALSE) /\ UNCHANGED fault
     \/ Fails(Lists) /\ UNCHANGED res

TryShell ==
  /\ pc = "shell"
  /\ pc' = "answered"
  /\ \/ Answers(sftpPort) = "shell" /\ res' = Fallback(TRUE, res.list, TRUE) /\ UNCHANGED fault
     \/ Fails(Answers(sftpPort) = "shell") /\ UNCHANGED res

ProbeStep ==
  \/ Warm \/ DialManifest \/ ReadManifest \/ DialShare \/ SshHandshake \/ TryList \/ TryShell

-----------------------------------------------------------------------------
(* The getters of ProbeResult.                                             *)

offeredItems == res.manifest.items
canBrowse == res.sftp /\ res.list

\* The getter that takes every SFTP server of a command line for a drop box.
canSendFilesAlways ==
  IF res.manifest.files # "none" THEN res.manifest.files # "ro"
  ELSE res.cli /\ res.sftp

canSendFiles ==
  IF res.manifest.files # "none" THEN res.manifest.files # "ro"
  ELSE res.cli /\ res.sftp /\ ~res.list
knownPorts == res.manifest.ports
canSsh == res.shell

-----------------------------------------------------------------------------
ProbeTypeOK ==
  /\ pc \in {"idle", "warm", "dialManifest", "readManifest", "fallback", "handshake",
             "list", "shell", "answered", "error"}
  /\ fault \in BOOLEAN
  /\ res \in [manifest : [files : {"none", "ro", "rw", "wo"}, items : SUBSET DOMAIN byName,
                          ports : {{}, arg.ports}, all : BOOLEAN, ssh : BOOLEAN],
              cli : BOOLEAN, sftp : BOOLEAN, list : BOOLEAN, shell : BOOLEAN]

\* What the peer screen offers is there: the offered items are served, browsing
\* lists, the terminal gets a shell, a listed port is let through to a handler.
\* That holds on both paths of the probe and whatever failed on the way; a port
\* 22 that is listed beside files or a shell leads to those.
OffersAreServed ==
  pc = "answered" =>
    /\ offeredItems \subseteq DOMAIN byName
    /\ canBrowse => Lists
    /\ canSsh => Answers(sftpPort) = "shell"
    /\ \A p \in knownPorts : Answers(p) # "none"

\* The server hands out a manifest.
Announces == Answers(manifestPort) = "manifest"

\* What a probe finds out about a server when nothing is lost on the way.  A shell
\* and a drop box are offered either way, and an upload only where one is taken.
\* Without a manifest there are no items and no ports, and a share that can be
\* listed is not offered for upload even if it takes one; with a manifest a shell
\* that shares no directory is not offered for browsing.
ProbeIsExact ==
  pc = "answered" /\ ~fault =>
    /\ canSsh <=> Answers(sftpPort) = "shell"
    /\ canBrowse <=> Lists /\ (Announces => ShareMode # "none")
    /\ canSendFiles <=> ShareMode = "wo" \/ (ShareMode = "rw" /\ Announces)
    /\ canSendFiles => Takes
    /\ offeredItems = IF Announces THEN DOMAIN byName ELSE {}
    /\ knownPorts = IF Announces THEN arg.ports ELSE {}
=============================================================================
