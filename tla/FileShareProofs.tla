--------------------------- MODULE FileShareProofs ---------------------------
(***************************************************************************)
(* Proofs about FileShare, for any number of connections, names and files  *)
(* and of calls of Close, and about ShareProgress, for any number of       *)
(* workers and files of any size.                                          *)
(*                                                                         *)
(* The server's own steps and the requests change different variables, so  *)
(* the invariant of the share comes in two halves.  ShareProgress is a     *)
(* FileShare whose open files count, so that invariant is reused; CountInv *)
(* is what the counting adds to it.                                        *)
(***************************************************************************)
EXTENDS ShareProgress, TLAPS

Label ==
  {"idle", "track", "refused", "handshake", "serve", "leave", "untrack", "halt", "close", "closing"}

\* The first half: the registry and Close.
ServerTypes ==
  /\ done \in BOOLEAN
  /\ conns \subseteq Conn
  /\ rootOpen \in BOOLEAN
  /\ pc \in [Conn \cup Closer -> Label]
  /\ toClose \in [Closer -> SUBSET Conn]
  /\ sock \in [Conn -> {"absent", "open", "closed"}]

\* Handlers and Closes keep to their own labels, and a handler has a connection.
OwnLabels ==
  /\ \A c \in Conn : pc[c] \notin {"close", "closing"}
  /\ \A c \in Conn : pc[c] # "idle" => sock[c] # "absent"
  /\ \A k \in Closer : pc[k] \in {"close", "closing", "halt"}

\* Only the Close that set done works on the connections, and the root is
\* closed when it has finished.
OneCloser ==
  /\ ~done => rootOpen /\ \A k \in Closer : pc[k] = "close"
  /\ \A k1, k2 \in Closer : pc[k1] = "closing" /\ pc[k2] = "closing" => k1 = k2
  /\ ~rootOpen => \A k \in Closer : pc[k] # "closing"

\* Once done is set, a registered connection that is still open is one the
\* Close has still to close.
Covered ==
  done => \A c \in conns :
            sock[c] = "open" => \E k \in Closer : pc[k] = "closing" /\ c \in toClose[k]

ServerInv == ServerTypes /\ RegistryExact /\ OwnLabels /\ OneCloser /\ Covered

\* The second half: the files.
FileTypes ==
  /\ mode \in {"ro", "rw", "wo"}
  /\ backend \in {"dir", "paths"}
  /\ sftp \in [Conn -> {"none", "serving", "over"}]
  /\ handle \in [Conn -> Handles \cup {None}]
  /\ tree \in [Name -> File \cup {None}]
  /\ content \in [File -> {"old", "new", "dir"}]
  /\ learned \subseteq {"names", "content"}
  /\ \A c \in Conn : handle[c] # None => sftp[c] = "serving"

\* An open file gives no more rights than the mode: ReadAt and WriteAt do not
\* look at the mode again.
Rights ==
  \A c \in Conn : handle[c] # None => /\ handle[c].read => canRead
                                      /\ handle[c].write => canWrite

FileInv == FileTypes /\ Rights /\ DropBoxTellsNothing

SInv == ServerInv /\ FileInv
-----------------------------------------------------------------------------
LEMMA InitSInv == Init => SInv
<1> SUFFICES ASSUME Init PROVE SInv
  OBVIOUS
<1>1. ServerInv
  BY ThreadsDistinct DEF Init, ServerInv, ServerTypes, RegistryExact, OwnLabels, OneCloser, Covered, Label
<1>2. FileInv
  BY DEF Init, FileInv, FileTypes, Rights, DropBoxTellsNothing
<1>3. QED
  BY <1>1, <1>2 DEF SInv

\* A step of a handler moves its own label, and registers itself only while the
\* server is not done.
LEMMA HandlerServerInv ==
  ASSUME ServerInv, NEW c \in Conn, Incoming(c) \/ HandlerStep(c) \/ PeerHangsUp(c)
  PROVE  ServerInv'
<1> USE DEF ServerInv
<1>1. /\ UNCHANGED <<done, rootOpen, toClose>>
      /\ \A k \in Closer : pc'[k] = pc[k]
      /\ \A d \in Conn \ {c} : pc'[d] = pc[d] /\ sock'[d] = sock[d] /\ (d \in conns' <=> d \in conns)
  BY ThreadsDistinct DEF Incoming, HandlerStep, PeerHangsUp, Track, Refuse, Handshake, LastChannel, Leave,
     Untrack, Go, CloseSock, ServerTypes
<1>2. /\ pc' \in [Conn \cup Closer -> Label]
      /\ sock' \in [Conn -> {"absent", "open", "closed"}]
      /\ conns' \subseteq Conn
  BY DEF Incoming, HandlerStep, PeerHangsUp, Track, Refuse, Handshake, LastChannel, Leave,
     Untrack, Go, CloseSock, ServerTypes, Label
<1>3. /\ c \in conns' <=> pc'[c] \in {"handshake", "serve", "leave", "untrack"}
      /\ pc'[c] \notin {"idle", "close", "closing"}
      /\ sock'[c] # "absent"
  BY DEF Incoming, HandlerStep, PeerHangsUp, Track, Refuse, Handshake, LastChannel, Leave,
     Untrack, Go, CloseSock, ServerTypes, Label, OwnLabels, RegistryExact
<1>4. done /\ c \in conns' /\ sock'[c] = "open" => c \in conns /\ sock[c] = "open"
  BY DEF Incoming, HandlerStep, PeerHangsUp, Track, Refuse, Handshake, LastChannel, Leave,
     Untrack, Go, CloseSock, ServerTypes, RegistryExact
<1>5. ServerTypes'
  BY <1>1, <1>2 DEF ServerTypes
<1>6. RegistryExact'
  BY <1>1, <1>2, <1>3 DEF RegistryExact
<1>7. OwnLabels'
  BY <1>1, <1>3 DEF OwnLabels
<1>8. OneCloser'
  BY <1>1 DEF OneCloser
<1>9. Covered'
  BY <1>1, <1>2, <1>4 DEF Covered
<1>10. QED
  BY <1>5, <1>6, <1>7, <1>8, <1>9

\* The steps of Close.
LEMMA CloserServerInv ==
  ASSUME ServerInv, NEW k \in Closer, CloserStep(k)
  PROVE  ServerInv'
<1> USE DEF ServerInv
<1>1. /\ conns' = conns
      /\ \A c \in Conn : pc'[c] = pc[c]
      /\ \A j \in Closer \ {k} : pc'[j] = pc[j] /\ toClose'[j] = toClose[j]
  BY ThreadsDistinct DEF CloserStep, Close, CloseConn, CloseRoot, Go, ServerTypes
<1>2. /\ pc' \in [Conn \cup Closer -> Label]
      /\ pc'[k] \in {"closing", "halt"}
  BY DEF CloserStep, Close, CloseConn, CloseRoot, Go, ServerTypes, Label
<1>3. /\ sock' \in [Conn -> {"absent", "open", "closed"}]
      /\ \A c \in Conn : sock'[c] = sock[c] \/ sock'[c] = "closed"
  BY DEF CloserStep, Close, CloseConn, CloseRoot, CloseSock, ServerTypes
<1>4. ServerTypes'
  BY <1>1, <1>2, <1>3 DEF CloserStep, Close, CloseConn, CloseRoot, ServerTypes
<1>5. RegistryExact'
  BY <1>1 DEF RegistryExact
<1>6. OwnLabels'
  BY <1>1, <1>2, <1>3 DEF OwnLabels
<1>7. OneCloser' /\ Covered'
  <2>1. CASE Close(k) /\ done
    <3>1. pc'[k] = "halt" /\ pc[k] = "close" /\ UNCHANGED <<done, rootOpen, sock>>
      BY <2>1 DEF Close, Go, ServerTypes
    <3>2. \A j \in Closer : pc[j] = "closing" => j # k
      BY <3>1
    <3>3. QED
      BY <1>1, <2>1, <3>1, <3>2 DEF OneCloser, Covered
  <2>2. CASE Close(k) /\ ~done
    <3>1. /\ pc'[k] = "closing" /\ toClose'[k] = conns /\ done' /\ UNCHANGED <<rootOpen, sock>>
          /\ \A j \in Closer \ {k} : pc'[j] = "close"
          /\ rootOpen
      BY <1>1, <2>2 DEF Close, Go, ServerTypes, OneCloser
    <3>2. QED
      BY <1>1, <3>1 DEF OneCloser, Covered
  <2>3. CASE CloseConn(k)
    <3>1. PICK c \in toClose[k] : /\ sock' = [sock EXCEPT ![c] = "closed"]
                                  /\ toClose' = [toClose EXCEPT ![k] = @ \ {c}]
      BY <2>3 DEF CloseConn, CloseSock
    <3>2. /\ sock'[c] = "closed" /\ c \in Conn
          /\ \A d \in Conn \ {c} : sock'[d] = sock[d]
          /\ \A j \in Closer : \A d \in Conn \ {c} : d \in toClose[j] => d \in toClose'[j]
      BY <3>1 DEF ServerTypes
    <3>3. UNCHANGED <<done, conns, rootOpen, pc>>
      BY <2>3 DEF CloseConn
    <3>4. OneCloser'
      BY <3>3 DEF OneCloser
    <3>5. Covered'
      BY <3>2, <3>3 DEF Covered, ServerTypes
    <3>6. QED
      BY <3>4, <3>5
  <2>4. CASE CloseRoot(k)
    <3>1. /\ pc[k] = "closing" /\ pc'[k] = "halt" /\ toClose[k] = {}
          /\ ~rootOpen' /\ UNCHANGED <<done, sock, toClose>>
      BY <2>4 DEF CloseRoot, Go, ServerTypes
    <3>2. done /\ \A j \in Closer \ {k} : pc[j] # "closing"
      BY <3>1 DEF OneCloser, ServerTypes
    <3>3. \A c \in conns : sock[c] # "open"
      BY <3>1, <3>2 DEF Covered
    <3>4. QED
      BY <1>1, <3>1, <3>2, <3>3 DEF OneCloser, Covered
  <2>5. QED
    BY <2>1, <2>2, <2>3, <2>4 DEF CloserStep
<1>8. QED
  BY <1>4, <1>5, <1>6, <1>7

\* What leaves the server's variables alone keeps its half of the invariant.
LEMMA SameServerInv ==
  ASSUME ServerInv, UNCHANGED serverVars
  PROVE  ServerInv'
BY DEF ServerInv, ServerTypes, RegistryExact, OwnLabels, OneCloser, Covered, serverVars

-----------------------------------------------------------------------------
\* An open with a right the mode gives keeps the half about files.
LEMMA OpenFileInv ==
  ASSUME FileInv, NEW c \in Conn, sftp[c] = "serving", handle[c] = None,
         NEW f \in File, NEW r \in BOOLEAN, NEW w \in BOOLEAN,
         r => canRead, w => canWrite,
         handle' = [handle EXCEPT ![c] = [file |-> f, read |-> r, write |-> w]],
         tree' \in [Name -> File \cup {None}],
         content' \in [File -> {"old", "new", "dir"}],
         UNCHANGED <<mode, backend, sftp, learned>>
  PROVE  FileInv'
<1>1. [file |-> f, read |-> r, write |-> w] \in Handles
  BY DEF Handles
<1>2. FileTypes'
  BY <1>1 DEF FileInv, FileTypes
<1>3. Rights'
  BY DEF FileInv, FileTypes, Rights, canRead, canWrite
<1>4. DropBoxTellsNothing'
  BY DEF FileInv, DropBoxTellsNothing
<1>5. QED
  BY <1>2, <1>3, <1>4 DEF FileInv

\* So does a request that leaves open files and what was learned as they are.
LEMMA ChangeFileInv ==
  ASSUME FileInv,
         tree' \in [Name -> File \cup {None}],
         content' \in [File -> {"old", "new", "dir"}],
         UNCHANGED <<mode, backend, sftp, handle, learned>>
  PROVE  FileInv'
BY DEF FileInv, FileTypes, Rights, DropBoxTellsNothing, canRead, canWrite

LEMMA OpenForWritingInv ==
  ASSUME FileInv, NEW c \in Conn, Request(c), NEW r \in BOOLEAN, r => canRead, canWrite,
         OpenForWriting(c, r)
  PROVE  FileInv'
<1>1. PICK n \in Name : (\E trunc \in BOOLEAN : OpenExisting(c, n, r, trunc)) \/ Create(c, n, r)
  BY DEF OpenForWriting
<1>2. CASE \E trunc \in BOOLEAN : OpenExisting(c, n, r, trunc)
  <2>1. /\ tree[n] \in File
        /\ handle[c] = None
        /\ handle' = [handle EXCEPT ![c] = [file |-> tree[n], read |-> r, write |-> TRUE]]
        /\ tree' \in [Name -> File \cup {None}]
        /\ content' \in [File -> {"old", "new", "dir"}]
    BY <1>2 DEF OpenExisting, Opened, FileInv, FileTypes
  <2>2. QED
    BY <2>1, OpenFileInv DEF OpenForWriting, Request
<1>3. CASE Create(c, n, r)
  <2>1. PICK f \in File : /\ handle[c] = None
                          /\ handle' = [handle EXCEPT ![c] = [file |-> f, read |-> r, write |-> TRUE]]
                          /\ tree' = [tree EXCEPT ![n] = f]
                          /\ content' = [content EXCEPT ![f] = "new"]
    BY <1>3 DEF Create, Opened
  <2>2. /\ tree' \in [Name -> File \cup {None}]
        /\ content' \in [File -> {"old", "new", "dir"}]
    BY <2>1 DEF FileInv, FileTypes
  <2>3. QED
    BY <2>1, <2>2, OpenFileInv DEF OpenForWriting, Request
<1>4. QED
  BY <1>1, <1>2, <1>3

\* Every request keeps the half about files, one case for each request.
LEMMA CommandFileInv ==
  ASSUME FileInv, NEW c \in Conn, Command(c)
  PROVE  FileInv'
<1>1. CASE Fileread(c)
  <2>1. PICK n \in Name : tree[n] # None /\ Opened(c, tree[n], TRUE, FALSE)
    BY <1>1 DEF Fileread
  <2>2. tree[n] \in File
    BY <2>1 DEF FileInv, FileTypes
  <2>3. /\ UNCHANGED <<mode, backend, sftp, tree, content, learned>>
        /\ canRead /\ sftp[c] = "serving"
    BY <1>1 DEF Fileread, Request, fileVars
  <2>4. tree' \in [Name -> File \cup {None}] /\ content' \in [File -> {"old", "new", "dir"}]
    BY <2>3 DEF FileInv, FileTypes
  <2>5. QED
    BY <2>1, <2>2, <2>3, <2>4, OpenFileInv DEF Opened
<1>2. CASE Filewrite(c)
  BY <1>2, OpenForWritingInv DEF Filewrite
<1>3. CASE OpenFile(c)
  BY <1>3, OpenForWritingInv DEF OpenFile
<1>4. CASE ReadAt(c)
  <2>1. canRead
    BY <1>4 DEF ReadAt, FileInv, Rights
  <2>2. QED
    BY <1>4, <2>1 DEF ReadAt, FileInv, FileTypes, Rights, DropBoxTellsNothing, canRead, canWrite, fileVars
<1>5. CASE WriteAt(c)
  <2>1. content' \in [File -> {"old", "new", "dir"}] /\ tree' \in [Name -> File \cup {None}]
    BY <1>5 DEF WriteAt, FileInv, FileTypes
  <2>2. QED
    BY <1>5, <2>1, ChangeFileInv DEF WriteAt
<1>6. CASE CloseFile(c)
  BY <1>6 DEF CloseFile, FileInv, FileTypes, Rights, DropBoxTellsNothing, canRead, canWrite, fileVars
<1>7. CASE Mkdir(c)
  <2>1. content' \in [File -> {"old", "new", "dir"}] /\ tree' \in [Name -> File \cup {None}]
    BY <1>7 DEF Mkdir, FileInv, FileTypes
  <2>2. QED
    BY <1>7, <2>1, ChangeFileInv DEF Mkdir
<1>8. CASE SetSize(c)
  <2>1. content' \in [File -> {"old", "new", "dir"}] /\ tree' \in [Name -> File \cup {None}]
    BY <1>8 DEF SetSize, FileInv, FileTypes
  <2>2. QED
    BY <1>8, <2>1, ChangeFileInv DEF SetSize
<1>9. CASE Rearrange(c)
  <2>1. content' \in [File -> {"old", "new", "dir"}] /\ tree' \in [Name -> File \cup {None}]
    BY <1>9 DEF Rearrange, Rearranged, FileInv, FileTypes
  <2>2. QED
    BY <1>9, <2>1, ChangeFileInv DEF Rearrange
<1>10. CASE Filelist(c)
  BY <1>10 DEF Filelist, FileInv, FileTypes, Rights, DropBoxTellsNothing, canRead, canWrite, fileVars
<1>11. QED
  BY <1>1, <1>2, <1>3, <1>4, <1>5, <1>6, <1>7, <1>8, <1>9, <1>10 DEF Command

\* A channel starts without an open file and ends without one.
LEMMA ChannelFileInv ==
  ASSUME FileInv, NEW c \in Conn, OpenChannel(c) \/ ChannelEnds(c)
  PROVE  FileInv'
BY DEF OpenChannel, ChannelEnds, FileInv, FileTypes, Rights, DropBoxTellsNothing, canRead, canWrite, fileVars

LEMMA SameFileInv ==
  ASSUME FileInv, UNCHANGED <<mode, backend, sftp, handle, fileVars, learned>>
  PROVE  FileInv'
BY DEF FileInv, FileTypes, Rights, DropBoxTellsNothing, canRead, canWrite, fileVars

\* Each step works on one half and leaves the other alone.
LEMMA ServerOrFile ==
  ASSUME Next
  PROVE  \/ /\ UNCHANGED <<mode, backend, sftp, handle, fileVars, learned>>
            /\ \/ \E c \in Conn : Incoming(c) \/ HandlerStep(c) \/ PeerHangsUp(c)
               \/ \E k \in Closer : CloserStep(k)
         \/ /\ UNCHANGED <<mode, backend, serverVars>>
            /\ \E c \in Conn : OpenChannel(c) \/ ChannelEnds(c) \/ Command(c)
         \/ UNCHANGED vars
<1>1. ASSUME NEW c \in Conn, Incoming(c) \/ HandlerStep(c) \/ PeerHangsUp(c)
      PROVE  UNCHANGED <<mode, backend, sftp, handle, fileVars, learned>>
  BY <1>1 DEF Incoming, HandlerStep, PeerHangsUp, Track, Refuse, Handshake, LastChannel, Leave, Untrack
<1>2. ASSUME NEW k \in Closer, CloserStep(k)
      PROVE  UNCHANGED <<mode, backend, sftp, handle, fileVars, learned>>
  BY <1>2 DEF CloserStep, Close, CloseConn, CloseRoot
<1>3. ASSUME NEW c \in Conn, OpenChannel(c) \/ ChannelEnds(c) \/ Command(c)
      PROVE  UNCHANGED <<mode, backend, serverVars>>
  BY <1>3 DEF OpenChannel, ChannelEnds, Command, Fileread, Filewrite, OpenFile, OpenForWriting, ReadAt,
     WriteAt, CloseFile, Mkdir, SetSize, Rearrange, Filelist
<1>4. QED
  BY <1>1, <1>2, <1>3 DEF Next, Idle

LEMMA NextSInv == SInv /\ [Next]_vars => SInv'
<1> SUFFICES ASSUME SInv, [Next]_vars PROVE SInv'
  OBVIOUS
<1>1. CASE UNCHANGED vars
  BY <1>1, SameServerInv, SameFileInv DEF SInv, vars
<1>2. CASE Next
  <2>1. CASE /\ UNCHANGED <<mode, backend, sftp, handle, fileVars, learned>>
             /\ \/ \E c \in Conn : Incoming(c) \/ HandlerStep(c) \/ PeerHangsUp(c)
                \/ \E k \in Closer : CloserStep(k)
    BY <2>1, SameFileInv, HandlerServerInv, CloserServerInv DEF SInv
  <2>2. CASE /\ UNCHANGED <<mode, backend, serverVars>>
             /\ \E c \in Conn : OpenChannel(c) \/ ChannelEnds(c) \/ Command(c)
    BY <2>2, SameServerInv, CommandFileInv, ChannelFileInv DEF SInv
  <2>3. QED
    BY <1>1, <1>2, <2>1, <2>2, ServerOrFile
<1>3. QED
  BY <1>1, <1>2

-----------------------------------------------------------------------------
\* The invariant of the share: the registry and Close on one side, the rights of
\* open files on the other.
THEOREM ShareInvariant == Spec => []SInv
BY InitSInv, NextSInv, PTL DEF Spec

\* Types, and that no file stays open when the channel it was opened on is over
\* (server.go, serveSession).
THEOREM ShareTypes == Spec => []TypeOK
<1>1. SInv => TypeOK
  BY DEF SInv, ServerInv, ServerTypes, FileInv, FileTypes, TypeOK, Label
<1>2. QED
  BY <1>1, ShareInvariant, PTL

\* The registry holds the connections being served, no more and no fewer
\* (server.go, track and untrack).
THEOREM ShareRegistryExact == Spec => []RegistryExact
<1>1. SInv => RegistryExact
  BY DEF SInv, ServerInv
<1>2. QED
  BY <1>1, ShareInvariant, PTL

\* When the root is closed every registered connection is closed, whichever of
\* them raced with Close (server.go, Close against track).
THEOREM ShareClosedServesNobody == Spec => []ClosedServesNobody
<1>1. SInv => ClosedServesNobody
  <2> SUFFICES ASSUME SInv, ~rootOpen, NEW c \in conns PROVE sock[c] = "closed"
    BY DEF ClosedServesNobody
  <2>1. ServerInv
    BY DEF SInv
  <2>2. done /\ \A k \in Closer : pc[k] # "closing"
    BY <2>1 DEF ServerInv, OneCloser, ServerTypes
  <2>3. sock[c] # "open"
    BY <2>1, <2>2 DEF ServerInv, Covered
  <2>4. c \in Conn /\ pc[c] # "idle"
    BY <2>1 DEF ServerInv, RegistryExact
  <2>5. QED
    BY <2>1, <2>3, <2>4 DEF ServerInv, ServerTypes, OwnLabels
<1>2. QED
  BY <1>1, ShareInvariant, PTL

\* No request, and no sequence of requests, gives a client of a drop box a name
\* or a byte (handlers.go, the checks of canRead).
THEOREM ShareDropBoxTellsNothing == Spec => []DropBoxTellsNothing
<1>1. SInv => DropBoxTellsNothing
  BY DEF SInv, FileInv
<1>2. QED
  BY <1>1, ShareInvariant, PTL

\* Nothing in a read-only share ever changes (handlers.go, the checks of
\* canWrite).  WriteAt makes no check, so this rests on the rights of open files.
THEOREM ShareReadOnlyKeeps == Spec => ReadOnlyKeeps
<1>1. SInv /\ [Next]_vars => [mode = "ro" => UNCHANGED fileVars]_vars
  <2> SUFFICES ASSUME SInv, Next, mode = "ro" PROVE UNCHANGED fileVars
    BY DEF vars
  <2>1. ~canWrite
    BY DEF canWrite
  <2>2. ASSUME NEW c \in Conn, Command(c) PROVE UNCHANGED fileVars
    <3>1. ~WriteAt(c)
      BY <2>1 DEF WriteAt, SInv, FileInv, Rights
    <3>2. QED
      BY <2>1, <2>2, <3>1 DEF Command, Fileread, Filewrite, OpenFile, ReadAt, CloseFile, Mkdir, SetSize,
         Rearrange, Filelist
  <2>3. QED
    BY <2>2, ServerOrFile DEF OpenChannel, ChannelEnds, vars
<1>2. QED
  BY <1>1, ShareInvariant, PTL DEF Spec, ReadOnlyKeeps

\* What is under a name in a drop box stays there: clients can only add names
\* (handlers.go, Filecmd).
THEOREM ShareDropBoxKeepsNames == Spec => DropBoxKeepsNames
<1>1. SInv /\ [Next]_vars
        => [mode = "wo" => \A n \in Name : tree[n] # None => tree'[n] = tree[n]]_vars
  <2> SUFFICES ASSUME SInv, Next, mode = "wo", NEW n \in Name, tree[n] # None PROVE tree'[n] = tree[n]
    BY DEF vars
  <2>1. tree \in [Name -> File \cup {None}]
    BY DEF SInv, FileInv, FileTypes
  <2>2. ASSUME NEW c \in Conn, Command(c) PROVE tree'[n] = tree[n]
    <3>1. ASSUME NEW r \in BOOLEAN, OpenForWriting(c, r) PROVE tree'[n] = tree[n]
      <4>1. PICK m \in Name : (\E trunc \in BOOLEAN : OpenExisting(c, m, r, trunc)) \/ Create(c, m, r)
        BY <3>1 DEF OpenForWriting
      <4>2. CASE \E trunc \in BOOLEAN : OpenExisting(c, m, r, trunc)
        BY <4>2 DEF OpenExisting
      <4>3. CASE Create(c, m, r)
        BY <2>1, <4>3 DEF Create
      <4>4. QED
        BY <4>1, <4>2, <4>3
    <3>2. Mkdir(c) => tree'[n] = tree[n]
      BY <2>1 DEF Mkdir
    <3>3. QED
      BY <2>2, <3>1, <3>2 DEF Command, Fileread, Filewrite, OpenFile, ReadAt, WriteAt, CloseFile, SetSize,
         Rearrange, Filelist, fileVars
  <2>3. QED
    BY <2>2, ServerOrFile DEF OpenChannel, ChannelEnds, vars, fileVars
<1>2. QED
  BY <1>1, ShareInvariant, PTL DEF Spec, DropBoxKeepsNames

-----------------------------------------------------------------------------
(* The progress of the transfers.                                         *)

Total == Nat \cup {Unknown}

CountTypes ==
  /\ counts \in [Conn -> BOOLEAN]
  /\ total \in [Conn -> Total]
  /\ bytes \in [Conn -> Nat]
  /\ report \in [Conn -> [Worker -> Nat \cup {-1}]]
  /\ shown \in [Conn -> [bytes : Nat, total : Total, done : BOOLEAN]]

\* A file that counts is open, and only such a file has something to report: the
\* chunks of a file that is closed are through before the next one is opened.
\* Neither the high-water mark nor a report that is late is beyond the total.
Counting(c) ==
  /\ counts[c] => handle[c] # None
  /\ ~counts[c] => NothingToReport(c)
  /\ total[c] # Unknown => bytes[c] <= total[c]
  /\ \A w \in Worker : report[c][w] <= bytes[c]
  /\ shown[c].total # Unknown => shown[c].bytes <= shown[c].total
  /\ ~counts[c] /\ shown[c] # Nothing => shown[c].done /\ shown[c].bytes = bytes[c]

CountInv == CountTypes /\ \A c \in Conn : Counting(c)

-----------------------------------------------------------------------------
(* The share goes on as in FileShare.                                      *)

\* Every step is a step of the share, or leaves it alone.
LEMMA ShareStep ==
  ASSUME [ProgressNext]_allVars
  PROVE  [Next]_vars
<1>1. CASE UNCHANGED allVars
  BY <1>1 DEF allVars
<1>2. CASE ProgressNext
  <2>1. ASSUME NEW c \in Conn, Requested(c)
        PROVE  Command(c)
    BY <2>1 DEF Requested, Open, CloseCounted, Chunk, Command
  <2>2. ASSUME NEW c \in Conn, LastRequest(c) \/ \E w \in Worker : Report(c, w)
        PROVE  UNCHANGED vars
    BY <2>2 DEF LastRequest, Report
  <2>. QED  BY <1>2, <2>1, <2>2 DEF ProgressNext, EndCounted, Handled, Next
<1>. QED  BY <1>1, <1>2

\* A share that counts implements the share that does not: whatever is proved of
\* the safety of FileShare holds of it.
THEOREM ProgressImplementsShare == ProgressSpec => Init /\ [][Next]_vars
<1>1. ProgressInit => Init
  BY DEF ProgressInit
<1>. QED  BY <1>1, ShareStep, PTL DEF ProgressSpec

-----------------------------------------------------------------------------
(* What each step does to the counting of its own connection.              *)

\* The steps of c leave what the others count alone.
LEMMA OthersKeep ==
  ASSUME CountInv, NEW c \in Conn, CountTypes', Counting(c)',
         \A d \in Conn \ {c} :
           /\ handle'[d] = handle[d] /\ counts'[d] = counts[d] /\ total'[d] = total[d]
           /\ bytes'[d] = bytes[d] /\ report'[d] = report[d] /\ shown'[d] = shown[d]
  PROVE  CountInv'
BY DEF CountInv, Counting, NothingToReport

LEMMA OpenCounts ==
  ASSUME SInv, CountInv, NEW c \in Conn, Open(c)
  PROVE  CountInv'
<1>. USE DEF CountInv, CountTypes
<1>1. /\ handle[c] = None /\ handle'[c] # None
      /\ \A d \in Conn \ {c} : handle'[d] = handle[d]
  <2>1. PICK f \in File, r \in BOOLEAN, w \in BOOLEAN : Opened(c, f, r, w)
    <3>1. \A n \in Name : tree[n] # None => tree[n] \in File
      BY DEF SInv, FileInv, FileTypes
    <3>2. CASE Fileread(c)
      BY <3>1, <3>2 DEF Fileread
    <3>3. ASSUME NEW r \in BOOLEAN, OpenForWriting(c, r)
          PROVE  \E f \in File, w \in BOOLEAN : Opened(c, f, r, w)
      BY <3>1, <3>3 DEF OpenForWriting, OpenExisting, Create
    <3>. QED  BY <3>2, <3>3 DEF Open, Filewrite, OpenFile
  <2>2. [file |-> f, read |-> r, write |-> w] # None
    BY NoneIsNoFile DEF Handles
  <2>. QED  BY <2>1, <2>2 DEF Opened, SInv, FileInv, FileTypes
<1>2. ~counts[c]
  BY <1>1 DEF Counting
<1>3. CASE UNCHANGED progressVars
  <2>1. Counting(c)'
    BY <1>1, <1>2, <1>3 DEF Counting, NothingToReport, progressVars
  <2>. QED  BY <1>1, <1>3, <2>1, OthersKeep DEF progressVars
<1>4. ASSUME NEW t \in Total, Counted(c, t)
      PROVE  CountInv'
  <2>1. CountTypes'
    BY <1>4 DEF Counted
  <2>2. Counting(c)'
    BY <1>1, <1>2, <1>4 DEF Counted, Counting, NothingToReport, Total, Unknown
  <2>. QED  BY <1>1, <1>4, <2>1, <2>2, OthersKeep DEF Counted
<1>5. Size \in Total /\ Unknown \in Total
  BY ProgressBounds DEF Total
<1>. QED  BY <1>3, <1>4, <1>5 DEF Open

LEMMA ChunkCounts ==
  ASSUME SInv, CountInv, NEW c \in Conn, NEW w \in Worker, Chunk(c, w)
  PROVE  CountInv'
<1>. USE DEF CountInv, CountTypes
<1>1. handle' = handle
  BY DEF Chunk, ReadAt, WriteAt
<1>2. CASE ~counts[c]
  <2>1. UNCHANGED progressVars
    BY <1>2 DEF Chunk, progressVars
  <2>. QED  BY <1>1, <2>1 DEF progressVars, Counting, NothingToReport
<1>3. CASE counts[c]
  <2>1. PICK end \in 1..MaxEnd : Advance(c, w, end)
    BY <1>3 DEF Chunk
  <2>2. PICK high \in Nat :
          /\ bytes' = [bytes EXCEPT ![c] = high]
          /\ report' = [report EXCEPT ![c][w] = high]
          /\ bytes[c] <= high
          /\ total[c] # Unknown => high <= total[c]
    <3>. DEFINE upto == IF total[c] # Unknown /\ end > total[c] THEN total[c] ELSE end
                high == IF upto > bytes[c] THEN upto ELSE bytes[c]
    <3>1. /\ bytes' = [bytes EXCEPT ![c] = high]
          /\ report' = [report EXCEPT ![c][w] = high]
      BY <2>1 DEF Advance
    <3>2. end \in Nat /\ bytes[c] \in Nat /\ total[c] \in Nat \cup {-1}
      BY ProgressBounds DEF Total, Unknown
    <3>3. total[c] # Unknown => bytes[c] <= total[c]
      BY DEF Counting
    <3>4. upto \in Nat /\ (total[c] # Unknown => upto <= total[c])
      BY <3>2 DEF Unknown
    <3>. HIDE DEF upto
    <3>5. /\ high \in Nat /\ bytes[c] <= high
          /\ total[c] # Unknown => high <= total[c]
      BY <3>2, <3>3, <3>4
    <3>. HIDE DEF high
    <3>. QED  BY <3>1, <3>5
  <2>3. UNCHANGED <<counts, total, drained, shown>>
    BY DEF Chunk
  <2>4. CountTypes'
    BY <2>2, <2>3
  <2>5. Counting(c)'
    <3>1. /\ bytes'[c] = high /\ bytes[c] \in Nat
          /\ \A v \in Worker : report'[c][v] = IF v = w THEN high ELSE report[c][v]
      BY <2>2
    <3>2. \A v \in Worker : report[c][v] \in Nat \cup {-1}
      OBVIOUS
    <3>. QED  BY <1>1, <1>3, <2>2, <2>3, <3>1, <3>2 DEF Counting
  <2>. QED  BY <1>1, <2>2, <2>3, <2>4, <2>5, OthersKeep
<1>. QED  BY <1>2, <1>3

\* A report is of a file that counts, so it does not follow a last event.
LEMMA ReportCounts ==
  ASSUME CountInv, NEW c \in Conn, NEW w \in Worker, Report(c, w)
  PROVE  CountInv'
<1>. USE DEF CountInv, CountTypes
<1>1. counts[c] /\ report[c][w] \in Nat /\ report[c][w] <= bytes[c] /\ bytes[c] \in Nat
  BY DEF Report, Counting, NothingToReport
<1>2. UNCHANGED <<handle, counts, total, bytes>>
  BY DEF Report, vars
<1>3. /\ \A v \in Worker : report'[c][v] = IF v = w THEN -1 ELSE report[c][v]
      /\ \A d \in Conn \ {c} : report'[d] = report[d] /\ shown'[d] = shown[d]
  BY DEF Report
<1>4. shown'[c] = shown[c] \/ shown'[c] = [bytes |-> report[c][w], total |-> total[c], done |-> FALSE]
  BY DEF Report
<1>5. CountTypes'
  <2>1. shown' \in [Conn -> [bytes : Nat, total : Total, done : BOOLEAN]]
    <3>1. [bytes |-> report[c][w], total |-> total[c], done |-> FALSE]
            \in [bytes : Nat, total : Total, done : BOOLEAN]
      BY <1>1
    <3>. QED  BY <3>1 DEF Report
  <2>2. report' \in [Conn -> [Worker -> Nat \cup {-1}]]
    BY DEF Report
  <2>. QED  BY <1>2, <2>1, <2>2
<1>6. Counting(c)'
  <2>1. \A v \in Worker : report'[c][v] <= bytes'[c]
    BY <1>1, <1>2, <1>3 DEF Counting
  <2>2. shown'[c].total # Unknown => shown'[c].bytes <= shown'[c].total
    BY <1>1, <1>4 DEF Counting, Total, Unknown
  <2>. QED  BY <1>1, <1>2, <2>1, <2>2 DEF Counting
<1>. QED  BY <1>2, <1>3, <1>5, <1>6, OthersKeep

\* The last event has everything, since nothing is left to report.
LEMMA FinishCounts ==
  ASSUME SInv, CountInv, NEW c \in Conn, NothingToReport(c), Finish(c),
         CloseFile(c) \/ ChannelEnds(c)
  PROVE  CountInv'
<1>. USE DEF CountInv, CountTypes
<1>1. \A d \in Conn \ {c} : handle'[d] = handle[d]
  BY DEF CloseFile, ChannelEnds, SInv, FileInv, FileTypes
<1>2. /\ UNCHANGED <<total, bytes, report>>
      /\ counts'[c] = FALSE
      /\ \A d \in Conn \ {c} : counts'[d] = counts[d] /\ shown'[d] = shown[d]
  BY DEF Finish
<1>3. \/ ~counts[c] /\ shown' = shown
      \/ shown'[c] = [bytes |-> bytes[c], total |-> IF total[c] = Unknown THEN bytes[c] ELSE total[c],
                      done |-> TRUE]
  BY DEF Finish
<1>4. CountTypes'
  <2>1. shown' \in [Conn -> [bytes : Nat, total : Total, done : BOOLEAN]]
    <3>. DEFINE last == [bytes |-> bytes[c],
                         total |-> IF total[c] = Unknown THEN bytes[c] ELSE total[c], done |-> TRUE]
    <3>1. last \in [bytes : Nat, total : Total, done : BOOLEAN]
      BY DEF Total
    <3>2. shown' = shown \/ shown' = [shown EXCEPT ![c] = last]
      BY DEF Finish
    <3>. HIDE DEF last
    <3>. QED  BY <3>1, <3>2
  <2>2. counts' \in [Conn -> BOOLEAN]
    BY DEF Finish
  <2>. QED  BY <1>2, <2>1, <2>2
<1>5. Counting(c)'
  BY <1>2, <1>3 DEF Counting, NothingToReport, Total, Unknown
<1>. QED  BY <1>1, <1>2, <1>4, <1>5, OthersKeep

\* Everything else leaves the counting and the open files alone.
LEMMA SameCounts ==
  ASSUME CountInv, UNCHANGED <<counts, total, bytes, report, shown>>, UNCHANGED handle
  PROVE  CountInv'
<1>1. CountTypes'
  BY DEF CountInv, CountTypes
<1>2. \A c \in Conn : Counting(c)'
  BY DEF CountInv, Counting, NothingToReport, Nothing, Unknown
<1>. QED  BY <1>1, <1>2 DEF CountInv

-----------------------------------------------------------------------------
LEMMA CountStep ==
  ASSUME SInv, CountInv, [ProgressNext]_allVars
  PROVE  CountInv'
<1>1. CASE UNCHANGED allVars
  BY <1>1, SameCounts DEF allVars, progressVars, vars
<1>2. ASSUME NEW c \in Conn, Requested(c)
      PROVE  CountInv'
  <2>1. CASE (Mkdir(c) \/ SetSize(c) \/ Rearrange(c) \/ Filelist(c)) /\ UNCHANGED progressVars
    BY <2>1, SameCounts DEF Mkdir, SetSize, Rearrange, Filelist, progressVars
  <2>. QED
    BY <1>2, <2>1, OpenCounts, ChunkCounts, FinishCounts DEF Requested, CloseCounted
<1>3. ASSUME NEW c \in Conn, LastRequest(c)
      PROVE  CountInv'
  BY <1>3, SameCounts DEF LastRequest, vars
<1>4. ASSUME NEW c \in Conn, EndCounted(c)
      PROVE  CountInv'
  BY <1>4, FinishCounts DEF EndCounted
<1>5. ASSUME NEW c \in Conn, Handled(c), UNCHANGED progressVars
      PROVE  CountInv'
  BY <1>5, SameCounts DEF Handled, Incoming, HandlerStep, OpenChannel, PeerHangsUp, Track, Refuse,
     Handshake, LastChannel, Leave, Untrack, progressVars
<1>6. ASSUME Idle \/ \E k \in Closer : CloserStep(k), UNCHANGED progressVars
      PROVE  CountInv'
  BY <1>6, SameCounts DEF Idle, CloserStep, Close, CloseConn, CloseRoot, progressVars, vars
<1>. QED
  BY <1>1, <1>2, <1>3, <1>4, <1>5, <1>6, ReportCounts DEF ProgressNext

\* The inductive invariant of the counting: late reports stay within what was
\* counted, and nothing is reported of a file that is closed.
THEOREM ProgressInvariant == ProgressSpec => [](SInv /\ CountInv)
<1>1. ProgressInit => SInv /\ CountInv
  <2>1. SUFFICES ASSUME ProgressInit PROVE CountInv
    BY InitSInv DEF ProgressInit
  <2>2. CountTypes
    BY <2>1 DEF ProgressInit, CountTypes, Total, Nothing
  <2>3. \A c \in Conn : Counting(c)
    BY <2>1 DEF ProgressInit, Counting, NothingToReport, Nothing, Unknown
  <2>. QED  BY <2>2, <2>3 DEF CountInv
<1>2. SInv /\ CountInv /\ [ProgressNext]_allVars => SInv' /\ CountInv'
  BY ShareStep, NextSInv, CountStep
<1>. QED  BY <1>1, <1>2, PTL DEF ProgressSpec

\* Progress never runs past the end (countingFile.advance).
THEOREM ProgressWithinTotal == ProgressSpec => []WithinTotal
<1>1. CountInv => WithinTotal
  BY DEF CountInv, Counting, WithinTotal
<1>. QED  BY <1>1, ProgressInvariant, PTL

\* The last event of a file that was closed is the one that is done, with
\* everything that was counted (countingFile.Close).
THEOREM ProgressEndedIsDone == ProgressSpec => []EndedIsDone
<1>1. CountInv => EndedIsDone
  BY DEF CountInv, Counting, EndedIsDone
<1>. QED  BY <1>1, ProgressInvariant, PTL
=============================================================================
