------------------------------ MODULE FileShare ------------------------------
(***************************************************************************)
(* The SFTP server that a server session runs on port 22:                  *)
(* core/engine/fileshare/server.go, handlers.go and backend.go.            *)
(*                                                                         *)
(* A Conn is one connection: its handler goroutine registers it, runs the  *)
(* SSH handshake and waits for channels; the sftp channel is served by a   *)
(* goroutine of its own, which the handler does not wait for and which may *)
(* go on with the requests it has received after the connection is closed. *)
(* A Closer is one call of Server.Close.  Bounds: one sftp channel and one *)
(* open file for each connection.                                          *)
(***************************************************************************)
EXTENDS Naturals, FiniteSets

CONSTANTS
  Conn,     \* connections
  Closer,   \* calls of Close
  Name,     \* names below the root
  File,     \* files and directories that may exist
  None      \* no file

Handles == [file : File, read : BOOLEAN, write : BOOLEAN]

ASSUME ThreadsDistinct == Conn \cap Closer = {}
ASSUME NoneIsNoFile == None \notin File /\ None \notin Handles

VARIABLES
  mode,      \* s.mode: "ro", "rw" or "wo"
  backend,   \* s.fs: one directory, or picked paths
  done,      \* s.done
  conns,     \* s.conns
  rootOpen,  \* s.fs has not been closed
  pc,        \* where each handler goroutine and each Close is
  toClose,   \* the connections a Close has still to close
  sock,      \* the state of each net.Conn
  sftp,      \* the channel's goroutine: "none", "serving" or "over"
  handle,    \* the file its client has open, with its rights, or None
  tree,      \* the file that is under each name, or None
  content,   \* "old", "new" (written by a client) or "dir"
  learned    \* what clients got to see: "names" and "content"

serverVars == <<done, conns, rootOpen, pc, toClose, sock>>
fileVars == <<tree, content>>
vars == <<mode, backend, serverVars, sftp, handle, fileVars, learned>>

Init ==
  /\ \/ mode \in {"ro", "rw", "wo"} /\ backend = "dir"
     \/ mode = "ro" /\ backend = "paths"
  /\ done = FALSE
  /\ conns = {}
  /\ rootOpen = TRUE
  /\ pc = [t \in Conn \cup Closer |-> IF t \in Conn THEN "idle" ELSE "close"]
  /\ toClose = [k \in Closer |-> {}]
  /\ sock = [c \in Conn |-> "absent"]
  /\ sftp = [c \in Conn |-> "none"]
  /\ handle = [c \in Conn |-> None]
  /\ \E n \in Name, f \in File : tree = [m \in Name |-> IF m = n THEN f ELSE None]
  /\ content = [f \in File |-> "old"]
  /\ learned = {}

Go(t, l) == pc' = [pc EXCEPT ![t] = l]
CloseSock(c) == sock' = [sock EXCEPT ![c] = "closed"]

-----------------------------------------------------------------------------
(* server.go: Handler, track, untrack.                                     *)

\* The tunnel hands over a connection.
Incoming(c) ==
  /\ pc[c] = "idle"
  /\ sock' = [sock EXCEPT ![c] = "open"]
  /\ Go(c, "track")
  /\ UNCHANGED <<mode, backend, done, conns, rootOpen, toClose, sftp, handle, fileVars, learned>>

\* track that does not look at s.done.
TrackAlways(c) ==
  /\ pc[c] = "track"
  /\ conns' = conns \cup {c}
  /\ Go(c, "handshake")
  /\ UNCHANGED <<mode, backend, done, rootOpen, toClose, sock, sftp, handle, fileVars, learned>>

\* track: a closed server refuses, otherwise the connection is registered.
Track(c) ==
  /\ pc[c] = "track"
  /\ conns' = IF done THEN conns ELSE conns \cup {c}
  /\ Go(c, IF done THEN "refused" ELSE "handshake")
  /\ UNCHANGED <<mode, backend, done, rootOpen, toClose, sock, sftp, handle, fileVars, learned>>

Refuse(c) ==
  /\ pc[c] = "refused"
  /\ CloseSock(c)
  /\ Go(c, "halt")
  /\ UNCHANGED <<mode, backend, done, conns, rootOpen, toClose, sftp, handle, fileVars, learned>>

\* NewServerConn.  Nothing bounds it but the peer and Close.
Handshake(c) ==
  /\ pc[c] = "handshake"
  /\ \/ sock[c] = "open" /\ Go(c, "serve")
     \/ Go(c, "leave")
  /\ UNCHANGED <<mode, backend, done, conns, rootOpen, toClose, sock, sftp, handle, fileVars, learned>>

\* A session channel, and on it the request for the sftp subsystem.
OpenChannel(c) ==
  /\ pc[c] = "serve"
  /\ sock[c] = "open"
  /\ sftp[c] = "none"
  /\ sftp' = [sftp EXCEPT ![c] = "serving"]
  /\ UNCHANGED <<mode, backend, serverVars, handle, fileVars, learned>>

PeerHangsUp(c) ==
  /\ pc[c] \in {"handshake", "serve"}
  /\ sock[c] = "open"
  /\ CloseSock(c)
  /\ UNCHANGED <<mode, backend, done, conns, rootOpen, pc, toClose, sftp, handle, fileVars, learned>>

\* The channel of channels ends with the connection.
LastChannel(c) ==
  /\ pc[c] = "serve"
  /\ sock[c] = "closed"
  /\ Go(c, "leave")
  /\ UNCHANGED <<mode, backend, done, conns, rootOpen, toClose, sock, sftp, handle, fileVars, learned>>

\* The deferred calls: close the connection, ...
Leave(c) ==
  /\ pc[c] = "leave"
  /\ CloseSock(c)
  /\ Go(c, "untrack")
  /\ UNCHANGED <<mode, backend, done, conns, rootOpen, toClose, sftp, handle, fileVars, learned>>

\* A handler that returns without untrack.
StayTracked(c) ==
  /\ pc[c] = "untrack"
  /\ Go(c, "halt")
  /\ UNCHANGED <<mode, backend, done, conns, rootOpen, toClose, sock, sftp, handle, fileVars, learned>>

\* ... then untrack.
Untrack(c) ==
  /\ pc[c] = "untrack"
  /\ conns' = conns \ {c}
  /\ Go(c, "halt")
  /\ UNCHANGED <<mode, backend, done, rootOpen, toClose, sock, sftp, handle, fileVars, learned>>

\* A channel that ends and leaves the file of its client open.
ChannelKeepsFile(c) ==
  /\ sftp[c] = "serving"
  /\ sftp' = [sftp EXCEPT ![c] = "over"]
  /\ UNCHANGED <<mode, backend, serverVars, handle, fileVars, learned>>

\* serveSession returns: its client or the connection is gone.  The request
\* server closes what the client left open.
ChannelEnds(c) ==
  /\ sftp[c] = "serving"
  /\ sftp' = [sftp EXCEPT ![c] = "over"]
  /\ handle' = [handle EXCEPT ![c] = None]
  /\ UNCHANGED <<mode, backend, serverVars, fileVars, learned>>

-----------------------------------------------------------------------------
(* server.go: Close.                                                       *)

\* Only the first Close does anything: it sets done and copies the connections
\* under one lock, ...
Close(k) ==
  /\ pc[k] = "close"
  /\ done' = TRUE
  /\ toClose' = [toClose EXCEPT ![k] = IF done THEN {} ELSE conns]
  /\ Go(k, IF done THEN "halt" ELSE "closing")
  /\ UNCHANGED <<mode, backend, conns, rootOpen, sock, sftp, handle, fileVars, learned>>

\* ... closes each, ...
CloseConn(k) ==
  /\ pc[k] = "closing"
  /\ \E c \in toClose[k] :
       /\ CloseSock(c)
       /\ toClose' = [toClose EXCEPT ![k] = @ \ {c}]
  /\ UNCHANGED <<mode, backend, done, conns, rootOpen, pc, sftp, handle, fileVars, learned>>

\* ... and then the root.
CloseRoot(k) ==
  /\ pc[k] = "closing"
  /\ toClose[k] = {}
  /\ rootOpen' = FALSE
  /\ Go(k, "halt")
  /\ UNCHANGED <<mode, backend, done, conns, toClose, sock, sftp, handle, fileVars, learned>>

-----------------------------------------------------------------------------
(* handlers.go: one request each.                                          *)

canRead == mode # "wo"
canWrite == mode # "ro"

\* The backend can be asked.  A closed os.Root refuses everything; a picked
\* file is opened by its own path, which works after Close as well.
Reachable == rootOpen \/ backend = "paths"

\* The backend changes something when asked: picked paths never do.
Changeable == rootOpen /\ backend = "dir"

\* A request of c, and its answer.
Request(c) == sftp[c] = "serving"

Opened(c, f, r, w) ==
  /\ handle[c] = None
  /\ handle' = [handle EXCEPT ![c] = [file |-> f, read |-> r, write |-> w]]

\* A file that is neither in the tree nor open.
Fresh(f) ==
  /\ f \notin {tree[n] : n \in Name}
  /\ \A c \in Conn : handle[c] # None => handle[c].file # f

Fileread(c) ==
  /\ Request(c) /\ canRead /\ Reachable
  /\ \E n \in Name :
       /\ tree[n] # None
       /\ content[tree[n]] # "dir"
       /\ Opened(c, tree[n], TRUE, FALSE)
  /\ UNCHANGED <<mode, backend, serverVars, sftp, fileVars, learned>>

\* OpenFile of the os with the client's flags: a file that is there, unless the
\* flags say it must not be, is emptied if they say so; one that is not there
\* is made if they say so.
OpenExisting(c, n, r, trunc) ==
  /\ tree[n] # None
  /\ content[tree[n]] # "dir"
  /\ Opened(c, tree[n], r, TRUE)
  /\ content' = IF trunc THEN [content EXCEPT ![tree[n]] = "new"] ELSE content
  /\ UNCHANGED tree

Create(c, n, r) ==
  /\ tree[n] = None
  /\ \E f \in File :
       /\ Fresh(f)
       /\ Opened(c, f, r, TRUE)
       /\ tree' = [tree EXCEPT ![n] = f]
       /\ content' = [content EXCEPT ![f] = "new"]

OpenForWriting(c, r) ==
  /\ \E n \in Name :
       \/ \E trunc \in BOOLEAN : OpenExisting(c, n, r, trunc)
       \/ Create(c, n, r)
  /\ UNCHANGED <<mode, backend, serverVars, sftp, learned>>

\* Filewrite without the permission check.
FilewriteAlways(c) == Request(c) /\ Changeable /\ OpenForWriting(c, FALSE)

Filewrite(c) == Request(c) /\ canWrite /\ Changeable /\ OpenForWriting(c, FALSE)

\* OpenFile that checks one of the two permissions only.
OpenFileUnchecked(c) == Request(c) /\ canWrite /\ Changeable /\ OpenForWriting(c, TRUE)

\* OpenFile, for a client that opens to read and write.
OpenFile(c) == Request(c) /\ canWrite /\ canRead /\ Changeable /\ OpenForWriting(c, TRUE)

\* ReadAt and WriteAt of an open file: no permission is checked again.
ReadAt(c) ==
  /\ Request(c)
  /\ handle[c] # None
  /\ handle[c].read
  /\ learned' = learned \cup {"content"}
  /\ UNCHANGED <<mode, backend, serverVars, sftp, handle, fileVars>>

WriteAt(c) ==
  /\ Request(c)
  /\ handle[c] # None
  /\ handle[c].write
  /\ content' = [content EXCEPT ![handle[c].file] = "new"]
  /\ UNCHANGED <<mode, backend, serverVars, sftp, handle, tree, learned>>

CloseFile(c) ==
  /\ Request(c)
  /\ handle[c] # None
  /\ handle' = [handle EXCEPT ![c] = None]
  /\ UNCHANGED <<mode, backend, serverVars, sftp, fileVars, learned>>

\* Filecmd, methods a drop box serves too.
Mkdir(c) ==
  /\ Request(c) /\ canWrite /\ Changeable
  /\ \E n \in Name, f \in File :
       /\ tree[n] = None
       /\ Fresh(f)
       /\ tree' = [tree EXCEPT ![n] = f]
       /\ content' = [content EXCEPT ![f] = "dir"]
  /\ UNCHANGED <<mode, backend, serverVars, sftp, handle, learned>>

\* Setstat: times and permission bits, which the model leaves out, in every
\* writable mode; the size not in a drop box.
SetSize(c) ==
  /\ Request(c) /\ canWrite /\ mode # "wo" /\ Changeable
  /\ \E n \in Name :
       /\ tree[n] # None
       /\ content[tree[n]] # "dir"
       /\ content' = [content EXCEPT ![tree[n]] = "new"]
  /\ UNCHANGED <<mode, backend, serverVars, sftp, handle, tree, learned>>

\* Remove, Rmdir, Rename, Link: what becomes of the names.  A symlink is an
\* entry that leads to the same file; one that dangles is left out.
Rearranged ==
  \/ \E n \in Name : tree[n] # None /\ tree' = [tree EXCEPT ![n] = None]
  \/ \E n, m \in Name :
       n # m /\ tree[n] # None /\ tree' = [tree EXCEPT ![m] = tree[n], ![n] = None]
  \/ \E n, m \in Name :
       tree[n] # None /\ tree[m] = None /\ tree' = [tree EXCEPT ![m] = tree[n]]

\* Filecmd without the second check, the one for the drop box.
RearrangeInDropBox(c) ==
  /\ Request(c) /\ canWrite /\ Changeable
  /\ Rearranged
  /\ UNCHANGED <<mode, backend, serverVars, sftp, handle, content, learned>>

\* Filecmd, the other methods.
Rearrange(c) ==
  /\ Request(c) /\ canWrite /\ mode # "wo" /\ Changeable
  /\ Rearranged
  /\ UNCHANGED <<mode, backend, serverVars, sftp, handle, content, learned>>

\* Filelist: List and Readlink.  Stat and Lstat, which every mode serves, tell
\* a client about a name it knows already.
Filelist(c) ==
  /\ Request(c) /\ canRead /\ Reachable
  /\ learned' = learned \cup {"names"}
  /\ UNCHANGED <<mode, backend, serverVars, sftp, handle, fileVars>>

-----------------------------------------------------------------------------
HandlerStep(c) ==
  \/ Track(c) \/ Refuse(c) \/ Handshake(c) \/ LastChannel(c) \/ Leave(c) \/ Untrack(c)

CloserStep(k) == Close(k) \/ CloseConn(k) \/ CloseRoot(k)

Command(c) ==
  \/ Fileread(c) \/ Filewrite(c) \/ OpenFile(c) \/ ReadAt(c) \/ WriteAt(c) \/ CloseFile(c)
  \/ Mkdir(c) \/ SetSize(c) \/ Rearrange(c) \/ Filelist(c)

\* The share is closed and everyone has returned.
Idle ==
  /\ \A c \in Conn : pc[c] = "halt" /\ sftp[c] # "serving"
  /\ \A k \in Closer : pc[k] = "halt"
  /\ UNCHANGED vars

Next ==
  \/ \E c \in Conn :
       Incoming(c) \/ HandlerStep(c) \/ OpenChannel(c) \/ PeerHangsUp(c) \/ ChannelEnds(c) \/ Command(c)
  \/ \E k \in Closer : CloserStep(k)
  \/ Idle

\* Handlers run; the calls they wait in return once the connection is closed,
\* and so does the request server, after the requests it has received.  A Close
\* that has begun goes on.  No peer has to answer, to ask or to hang up.
Fairness ==
  /\ \A c \in Conn :
       /\ WF_vars(Track(c) \/ Refuse(c) \/ LastChannel(c) \/ Leave(c) \/ Untrack(c))
       /\ WF_vars(sock[c] = "closed" /\ Handshake(c))
       /\ WF_vars(sock[c] = "closed" /\ ChannelEnds(c))
  /\ \A k \in Closer : WF_vars(CloseConn(k) \/ CloseRoot(k))

Spec == Init /\ [][Next]_vars /\ Fairness

-----------------------------------------------------------------------------
TypeOK ==
  /\ mode \in {"ro", "rw", "wo"}
  /\ backend \in {"dir", "paths"}
  /\ done \in BOOLEAN
  /\ conns \subseteq Conn
  /\ rootOpen \in BOOLEAN
  /\ pc \in [Conn \cup Closer -> {"idle", "track", "refused", "handshake", "serve", "leave",
                                   "untrack", "halt", "close", "closing"}]
  /\ toClose \in [Closer -> SUBSET Conn]
  /\ sock \in [Conn -> {"absent", "open", "closed"}]
  /\ sftp \in [Conn -> {"none", "serving", "over"}]
  /\ handle \in [Conn -> Handles \cup {None}]
  /\ tree \in [Name -> File \cup {None}]
  /\ content \in [File -> {"old", "new", "dir"}]
  /\ learned \subseteq {"names", "content"}
  /\ \A c \in Conn : handle[c] # None => sftp[c] = "serving"

\* The registry is exact: it holds the connections whose handler is between
\* track and untrack, so it neither forgets one nor grows with those that are
\* gone (server.go, track and untrack).
RegistryExact ==
  conns = {c \in Conn : pc[c] \in {"handshake", "serve", "leave", "untrack"}}

\* When Close has come to the root no connection is being served any more: one
\* that arrived while it ran was refused or is among those it closed.
ClosedServesNobody ==
  ~rootOpen => \A c \in conns : sock[c] = "closed"

\* "ReadOnly lets clients list, stat and download; nothing may change": no
\* sequence of requests of several clients changes a file or a name.
ReadOnlyKeeps == [][mode = "ro" => UNCHANGED fileVars]_vars

\* "clients can upload and mkdir but neither list nor read anything back":
\* whatever the clients of a drop box ask for and in whatever order, they get to
\* see neither names nor content.
DropBoxTellsNothing == mode = "wo" => learned = {}

\* "A drop box must not let clients rename/remove what is there": what is under
\* a name in a drop box stays there.
DropBoxKeepsNames ==
  [][mode = "wo" => \A n \in Name : tree[n] # None => tree'[n] = tree[n]]_vars

\* A closed share goes quiet for good: every handler has left the registry, no
\* request is served and no file stays open.
CloseEnds ==
  done ~> [](conns = {} /\ \A c \in Conn : sftp[c] # "serving" /\ handle[c] = None)
=============================================================================
