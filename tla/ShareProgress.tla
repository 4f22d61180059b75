---------------------------- MODULE ShareProgress ----------------------------
(***************************************************************************)
(* The progress of the transfers a file share serves: countingFile         *)
(* (core/engine/fileshare/handlers.go), progressEmitter (core/engine/      *)
(* files.go) and the transfers the UI keeps (app/lib/core/providers.dart). *)
(*                                                                         *)
(* Chunks of one file are read and written by several workers of the       *)
(* request server.  Each counts under the lock of the file and reports     *)
(* after the unlock, so reports may overtake each other.  The request      *)
(* server answers a close, and closes what is left of a channel that ends, *)
(* once the reads and writes before it have returned.                      *)
(***************************************************************************)
EXTENDS FileShare, Integers

CONSTANTS
  Worker,   \* the workers that serve chunks of one file at a time
  Size,     \* the size of a file when it is opened for reading
  MaxEnd    \* bound: how far a chunk reaches

ASSUME ProgressBounds == Size \in Nat /\ MaxEnd \in Nat

Unknown == -1
Nothing == [bytes |-> 0, total |-> Unknown, done |-> FALSE]   \* nothing reported

VARIABLES
  counts,   \* the open file is a countingFile
  total,    \* its total, Unknown for an upload
  bytes,    \* its high-water mark
  drained,  \* the request server has taken up the last request of the channel
  report,   \* what each worker has counted and not reported, or -1
  shown     \* the transfer the UI shows for the connection: the last event

progressVars == <<counts, total, bytes, drained, report, shown>>
allVars == <<vars, progressVars>>

ProgressInit ==
  /\ Init
  /\ counts = [c \in Conn |-> FALSE]
  /\ total = [c \in Conn |-> Unknown]
  /\ bytes = [c \in Conn |-> 0]
  /\ drained = [c \in Conn |-> FALSE]
  /\ report = [c \in Conn |-> [w \in Worker |-> -1]]
  /\ shown = [c \in Conn |-> Nothing]

NothingToReport(c) == \A w \in Worker : report[c][w] = -1

-----------------------------------------------------------------------------
\* A file is opened: with the size it has for a download, without one for an
\* upload.  One that is opened to read and write is not counted.
Counted(c, t) ==
  /\ counts' = [counts EXCEPT ![c] = TRUE]
  /\ total' = [total EXCEPT ![c] = t]
  /\ bytes' = [bytes EXCEPT ![c] = 0]
  /\ UNCHANGED <<drained, report, shown>>

Open(c) ==
  \/ Fileread(c) /\ Counted(c, Size)
  \/ Filewrite(c) /\ Counted(c, Unknown)
  \/ OpenFile(c) /\ UNCHANGED progressVars

\* advance without the look at the total.
AdvancePastEnd(c, w, end) ==
  LET high == IF end > bytes[c] THEN end ELSE bytes[c]
  IN  /\ bytes' = [bytes EXCEPT ![c] = high]
      /\ report' = [report EXCEPT ![c][w] = high]

\* advance: a chunk that ends at end, which for a probe past the end of the file
\* is beyond its total.
Advance(c, w, end) ==
  LET upto == IF total[c] # Unknown /\ end > total[c] THEN total[c] ELSE end
      high == IF upto > bytes[c] THEN upto ELSE bytes[c]
  IN  /\ bytes' = [bytes EXCEPT ![c] = high]
      /\ report' = [report EXCEPT ![c][w] = high]

Chunk(c, w) ==
  /\ ReadAt(c) \/ WriteAt(c)
  /\ report[c][w] = -1
  /\ IF counts[c] THEN \E end \in 1..MaxEnd : Advance(c, w, end) ELSE UNCHANGED <<bytes, report>>
  /\ UNCHANGED <<counts, total, drained, shown>>

\* The report of a chunk: an event, unless the file has had one within 100ms.
Report(c, w) ==
  /\ report[c][w] # -1
  /\ \/ shown' = [shown EXCEPT ![c] = [bytes |-> report[c][w], total |-> total[c], done |-> FALSE]]
     \/ UNCHANGED shown
  /\ report' = [report EXCEPT ![c][w] = -1]
  /\ UNCHANGED <<vars, counts, total, bytes, drained>>

\* countingFile.Close when the throttle takes its event for one of many.
FinishThrottled(c) ==
  /\ IF counts[c]
     THEN shown' \in {shown, [shown EXCEPT ![c] =
            [bytes |-> bytes[c], total |-> IF total[c] = Unknown THEN bytes[c] ELSE total[c], done |-> TRUE]]}
     ELSE UNCHANGED shown
  /\ counts' = [counts EXCEPT ![c] = FALSE]
  /\ UNCHANGED <<total, bytes, drained, report>>

\* countingFile.Close: the last event, which no throttle holds back.
Finish(c) ==
  /\ IF counts[c]
     THEN shown' = [shown EXCEPT ![c] =
            [bytes |-> bytes[c], total |-> IF total[c] = Unknown THEN bytes[c] ELSE total[c], done |-> TRUE]]
     ELSE UNCHANGED shown
  /\ counts' = [counts EXCEPT ![c] = FALSE]
  /\ UNCHANGED <<total, bytes, drained, report>>

CloseCounted(c) == CloseFile(c) /\ NothingToReport(c) /\ Finish(c)

\* Nothing more comes: the client has closed the channel, or the connection is
\* gone and what it had sent is taken up.
LastRequest(c) ==
  /\ Request(c)
  /\ drained' = [drained EXCEPT ![c] = TRUE]
  /\ UNCHANGED <<vars, counts, total, bytes, report, shown>>

\* The channel ends with the file open, or without one.
EndCounted(c) == drained[c] /\ ChannelEnds(c) /\ NothingToReport(c) /\ Finish(c)

Requested(c) ==
  /\ ~drained[c]
  /\ \/ Open(c) \/ CloseCounted(c) \/ \E w \in Worker : Chunk(c, w)
     \/ (Mkdir(c) \/ SetSize(c) \/ Rearrange(c) \/ Filelist(c)) /\ UNCHANGED progressVars

Handled(c) == Incoming(c) \/ HandlerStep(c) \/ OpenChannel(c) \/ PeerHangsUp(c)

-----------------------------------------------------------------------------
ProgressNext ==
  \/ \E c \in Conn :
       \/ Requested(c) \/ LastRequest(c) \/ EndCounted(c)
       \/ \E w \in Worker : Report(c, w)
       \/ Handled(c) /\ UNCHANGED progressVars
  \/ (Idle \/ \E k \in Closer : CloserStep(k)) /\ UNCHANGED progressVars

\* As in FileShare; a worker that has counted goes on to report.
ProgressFairness ==
  /\ \A c \in Conn :
       /\ WF_allVars((Track(c) \/ Refuse(c) \/ LastChannel(c) \/ Leave(c) \/ Untrack(c))
                     /\ UNCHANGED progressVars)
       /\ WF_allVars(sock[c] = "closed" /\ Handshake(c) /\ UNCHANGED progressVars)
       /\ WF_allVars(sock[c] = "closed" /\ LastRequest(c))
       /\ WF_allVars(EndCounted(c))
       /\ WF_allVars(\E w \in Worker : Report(c, w))
  /\ \A k \in Closer : WF_allVars((CloseConn(k) \/ CloseRoot(k)) /\ UNCHANGED progressVars)

ProgressSpec == ProgressInit /\ [][ProgressNext]_allVars /\ ProgressFairness

-----------------------------------------------------------------------------
\* Progress never runs past the end: neither for a probe past the end of the
\* file nor for reports that overtake each other (countingFile.advance).
WithinTotal ==
  \A c \in Conn : shown[c].total # Unknown => shown[c].bytes <= shown[c].total

\* A transfer the UI shows is one that is going on: when its file is closed, by
\* its client or because the client, the connection or the share went away, the
\* last event is the one that is done, with everything that was counted.
EndedIsDone ==
  \A c \in Conn :
    ~counts[c] /\ shown[c] # Nothing => shown[c].done /\ shown[c].bytes = bytes[c]
=============================================================================
