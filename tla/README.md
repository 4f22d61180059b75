# tailcat_gui: verification project

TLA+ models of the Go core of tailcat_gui (`src/core`) and of the Dart code that
reduces its events. TLC checks the models on small instances; TLAPS
proves every invariant those runs check, and the refinements without their
liveness, for every value of the constants.

## 1. The system

tailcat_gui is a Flutter app over a Go core. The core runs *sessions*: a
server, a local port forward, a SOCKS proxy, an SSH forward, an upload, a
download. The app sends JSON commands through a C bridge and polls a queue of
events.

    Flutter screens -> SessionsNotifier -> Engine (Dart) -> FFI isolates
                                                              |
              tc_init / tc_call / tc_poll / tc_shutdown  (bridge/main.go)
                                                              |
                      Engine (Go): sessions, EventQueue   (engine.go)
                         |                |
         Session (session.go)         Push / Drain (events.go)
         |        |         |
      forward   server   transfer -> fileshare client
      socks       |                        :  (tunnel, tailcat library)
               fileshare server <..........:

| component | state | operations | interacts through | hard part | what makes it correct |
|---|---|---|---|---|---|
| session (`session.go`) | state, context, closers, closed, token | setState, addCloser, setToken, fail, stop, shutdown, waitReady | closers; events to the queue; context to every goroutine | stop, fail and completion race with goroutines that still open things | ends once, reports its end once, leaks nothing, closes nothing twice |
| forward, SOCKS, SSH (`forward.go`, `socks.go`, `connect.go`, `path.go`) | listener, client, ready | start, accept, dial with retries, warm-up, probe | session; tailcat client | connections before the handshake, listener errors, retries, timers | no dial before ready; connections end with the session; no deaf forward |
| server (`server.go`, `path.go`) | tailcat server, share, token | start, register, token, forward | session; local ports; share | `srv.Start` is slow and not cancellable | a server that comes up late is closed; the end is reported once |
| file sessions (`files.go`, `fileshare/client.go`) | client, file client, progress | send, download, list | session; the peer's share | openShare holds what the session does not know; silent peers; partial failure | done means moved; a stop ends the transfer |
| event queue (`events.go`) | events, dropped | Push, Drain | every goroutine; tc_poll | overflow | bounded, in order, newest kept, loss announced |
| engine, bridge (`engine.go`, `commands.go`, `bridge/main.go`) | current engine, sessions, closed | init, call, poll, shutdown; newSession, stop, list, Close | app threads; sessions | calls that outlive the engine they took | no session started behind a shutdown; Close completes |
| file share server (`fileshare/server.go`, `handlers.go`, `backend.go`) | connections, done, mode, root | track, untrack, Close, SFTP requests | server session; hooks to the queue | close against new connections; concurrent reads | every connection closed; modes respected |
| offer, probe, manifest (`server.go`, `backend.go`, `probe.go`, `manifest.go`, `core/probe.dart`) | names of the picked paths, port table | start_server's checks, probe, the getters of the result | the peer | names that collide; failures at any step of the probe | what is asked for is offered; what the screen offers is served |
| UI reduction (`app/lib/core`) | sessions, transfers, log, timer | pump, reduce, seed, stop | engine; widgets | answers and events out of order; use after dispose | shows the newest state |
| recent peers (`app/lib/core/recent.dart`) | list, stored copy | load, touch, rename, remove | SharedPreferences | asynchronous load and saves overlap | nobody is forgotten |
| screens (`connect_screen.dart`, `peer_screen.dart`) | where the user is | connect, receive all | probe, recent peers, download | the sender's files change in between | done means everything arrived |
| other screens, widgets, platform glue | | | | | not modelled |

`PROJECT.json` lists the components with their status, and under `hazards` what
in this code is hard to test, each at its line.

## 2. Modules

| module | models | kind |
|---|---|---|
| `Lifecycle` | what a session promises: it runs, ends once, is disposed of once and only after its end | abstract |
| `Session` | `session.go`; extended by the three kinds of session | component |
| `Forward`, `MCForward` | start_forward, start_ssh, start_socks | composes Session |
| `Serve` | start_server | composes Session |
| `Transfer` | send_files, download, list_remote | composes Session |
| `EventFeed` | what the poller is promised: events in order, at most one gap before a batch, announced | abstract |
| `EventQueue` | `events.go` | component |
| `Engine` | `bridge/main.go`, `engine.go`, the effects of `commands.go` | component |
| `FileShare`, `MCFileShare` | `fileshare/server.go`, `handlers.go`, what they need of `backend.go` | component |
| `ShareProgress` | the counting of bytes, `progressEmitter` of `files.go`, TransfersNotifier | extends FileShare |
| `Offer` | what start_server checks and serves, the names of picked paths, the manifest | component |
| `Discovery` | `probe.go`, `readManifest`, the getters of `core/probe.dart` | extends Offer |
| `Recent` | `core/recent.dart` | component |
| `Connect`, `MCConnect` | the connect screen, receive-all of the peer screen, `Client.Download` of everything | composes Discovery and Recent |
| `UiSync` | `app/lib/core/engine.dart`, `providers.dart` (SessionsNotifier), `Session.fromJson` of `models.dart`, a restart of `main.dart` | component |
| `SessionProofs` | what every kind of session shares | proofs |
| `ForwardProofs`, `ServeProofs`, `TransferProofs` | proofs about each kind, which cite `SessionProofs` | proofs |
| `EngineProofs` | proofs about Engine and EventQueue | proofs |
| `FileShareProofs` | proofs about FileShare, and about ShareProgress from them | proofs |
| `ConnectProofs` | proofs about the names of an offer, the probe, the download and the recent peers | proofs |
| `UiSyncProofs` | proofs about UiSync | proofs |

### Session and its three kinds

The variables of `Session` are the fields of the struct: `state`, `cancelled`
(its context), `closed`, `closers`. Beside them `res` says of each resource
whether it is absent, open or closed, and `told` is the sequence of the
session's events in the order they entered the queue.

Goroutines are *threads*: the caller (the `tc_call`), the worker it spawns, an
accept loop, one handler for each connection, and one stopper for each
`Session.stop`. `pc` is where a thread is. Each action is what a goroutine does
within one hold of `s.mu`, or one call outside it. Two things happen after the
unlock in the code, and so here: the event a state change leaves to push
(`pend`), and the closers a thread has still to close (`toClose`). `ClosedOnce`
relates the two sides of a close: a resource that is registered is open and
registered once, one that is in a thread's hands is in those of one thread, once,
and not registered any more. `At(t, l)`
lets a thread go on only when it has done both. So two state changes may push
their events in the other order, and a stop may come between any two statements
of a start: those are the interleavings the properties are about.

The calls of another component are nondeterministic over what it may answer: a
warm-up returns success only on an open client with a live context, an error at
any time, because it has a timer. `select` in `waitReady` picks any
ready case. `detail` strings, `info` fields, log and path events are left out.
The early return of `setState` for an unchanged state and detail is covered by
its check for ended states, because a live state is never set twice alike
("starting" is set once with a detail, "running" once).

`Forward` describes SOCKS with the same actions: its accept loop logs the error
where the forward's fails the session. A SOCKS connection first tells
`socks5.Server` what to dial (`Negotiate`), which reads from the local program
without a deadline; its dialer then waits for the tunnel like a forward's, and
has one attempt under the context of `socks5.Server`, which neither the session
nor a timer ends. `Transfer` has two kinds: "job" (send_files and download, the same
code but for the direction) and "list" (list_remote, which runs in the call and
closes what it opened by its deferred calls). A thread that closes the file
client is inside `fileshare.Client.Close` (`ClosesFiles`), which calls
`sftp.Client.Close` first: that one ends the stream to the peer and waits until
the peer has ended its own (`pkg/sftp` is not in the repository), and the SSH
client and the connection are closed only after it. The tailcat client is the
closer after the file client. So nothing obliges that step to happen, and while it
does not, the resource counts as open.

### EventQueue and EventFeed

Events are the numbers 1, 2, 3, ... in the order of their pushes, so "in order"
and "without a gap" are statements about sequences of numbers. `Push` drops the
oldest half when the queue is full and `Drain` puts the notice in front of its
batch when something was dropped. The feed knows neither the bound nor the
halves: it sends, and delivers a contiguous run of what was sent, after a gap if
it announces one.

### Engine

The global of the bridge is `eng`; engines are numbered in the order they are
made. A call takes the engine under the bridge's lock (`held`) and works on it
afterwards. `Close` sets closed and copies the sessions in one step, then stops
them one by one, then cancels the context. Whoever stops a session may be kept by
its closers (`waits`) until they return (`ClosersReturn`), which nothing obliges
them to do, because those of a transfer wait for a peer. Of a session only "live"
or "ended" is kept; `Session` has the rest. The initial state is the one after
the app's first `tc_init` (`main.dart` starts the engine before anything else).
The config of `tc_init` and what `list_sessions` returns have no part in the
properties and are left out.

### FileShare

A connection has two goroutines. Its handler (`pc[c]`) registers it, runs the
SSH handshake, takes channels and, by its deferred calls, closes and unregisters
the connection. The goroutine of the sftp channel (`sftp[c]`) is not waited for
by the handler, so it may go on with requests after the connection is closed.
`Close` sets `done` and copies the registry under one lock, closes the copied
connections one by one and the root last; a second `Close` returns at once.

Each request is an action whose guard is the permission check of its handler:
`Fileread`, `Filewrite`, `OpenFile`, `Filelist`, and `Filecmd` split along its
early return for drop boxes into `Mkdir` and `SetSize` before it and `Rearrange`
(Remove, Rename, Link, Symlink) after it. `ReadAt` and `WriteAt` look only at how
the file was opened (`handle`). `tree` is what is under each name, `content`
whether a client has written a file, `learned` what clients were shown. The mode
and the backend are chosen in `Init`: picked paths are always read-only. A
closed root refuses every request, but a picked file is opened by its own path
and so still opens (`Reachable`).

### ShareProgress

Extends `FileShare`: the steps that open, use and close a file also do what
`countingFile` does. A worker of the request server counts a chunk (`bytes`,
under the lock) and has a `report` to make after the unlock, so the reports of
two workers may come in either order. The throttle is a choice: the model has no
clock, so any event but the last may fall within the 100 ms of another.
`pkg/sftp` answers a close, and closes what a channel left open, once the reads
and writes before it have returned (`NothingToReport`); `LastRequest` is the end
of the requests, after which a channel has to end. A file opened to read and
write is not counted by the code and not here. A download's size is taken to be
known: the `Stat` of an open file does not fail. `shown` is what
TransfersNotifier keeps for the connection's file, its last event.

### Offer, Discovery, Recent, Connect

`Offer` is one request to start_server. The checks are one action, each turn of
newPathsBackend is one (a path may have gone by then, which fails the session and
closes the share), and the port table is operators: `LetThrough` is
`ServedTCPPorts`, `OnTCP` the handler a port gets, `Answers` the two together. A
file name is a sequence of numbers, `<<1, 2>>` for "base (2).ext", which is all
that `uniqueName` tells apart. With `gui = FALSE` the server is a tailcat command
line, which has the same services but no manifest and no picked paths.

`Discovery` has one action for each step of `Engine.probe`. A step may fail
although the server would have answered it; `fault` remembers that.
`OffersAreServed` claims its direction always: a probe that lost an answer may
offer less but nothing that is not there. It leaves out `canSendFiles`, because on the fallback
a listing that failed makes a read-only share look like a drop box; the upload is
then refused. `ProbeIsExact` says what the getters come to when nothing was lost,
for a server that hands out a manifest (`Announces`) and for one that does not.
The two paths do not find out the same: items and ports are in the manifest only,
a read-write share is offered for upload by the manifest only, and a shell without
a shared directory is browsable when the fallback finds it and not when a manifest
describes it.

`Recent` is the state and the saved list of the recent peers. `saves` counts the
calls of `_save` on their way, each of which writes the list as it is then. A load
that finds nothing under its key leaves the list alone; `stored` is then the empty
list, as it is when an empty list was saved, so `Load` may do either.
History variables say what the user removed or pushed out (`gone`), whether the
list was changed before it was loaded (`early`), and whether a load or save
failed, which the code ignores.

`Connect` composes them: a probe that answered is recorded, then the peer screen
opens, and its receive-all downloads the root of the share, item by item, while
the sender may delete picked files. The items are fetched in any order.

### UiSync

The core is reduced to what its events tell: each session is a server with a
worker and a stop, which change `core` under the session's lock and push the
event they owe (`pending`) afterwards. `last` remembers the state of the last
event pushed, so that `InOrder` can set aside the one case in which the events
of a session are out of order (see section 3).
The queue drops its oldest half as `EventQueue` does; `lossy` says that it did.
`pump` goes through a batch event by event, adding to and taking from `_active`;
what is left of that is the last event that tells a session's state
(`LastTells`), or what was there before when none does (`Silent`).

On the Dart side everything runs on one isolate, so an action is what happens
between two awaits or microtasks: `Drain` is the body of `pump`, called by the
timer (`Pump`) and behind the answer of every call (`SeedReturn`); `Deliver` is
one event of the broadcast stream, which loses events nobody listens to; `_seed`
is split at its awaits into `Listen`, `SeedAnswer` (the core answers on the
worker isolate) or `SeedFails` (the call fails and `_seed` swallows the error),
`SeedReturn` and `SeedMerge`. `Restart` is `main()` once more
in a process whose core goes on, as when Android destroys the activity: it
resets what Dart keeps and nothing else, since `tc_init` leaves an engine that
exists alone.

## 3. Runs

| run | instance | shows |
|---|---|---|
| `forward` | 1 connection, 2 stops, 2 dial attempts | TypeOK, ClosedIsFinal, NoLeak, ClosedOnce, DialsOnlyWhenReady, ImplementsLifecycle, ConnectionsEnd, NoDeafForward |
| `serve` | 1 connection, 2 stops | TypeOK, EndReportedOnce, EndReleases |
| `transfer` | 2 paths, 2 stops | TypeOK, NoLeak, DoneMeansMoved, StopEndsTransfer |
| `queue` | bound 5, 14 pushes | QueueTypeOK, NewestKept, ImplementsFeed |
| `engine` | 3 callers, 2 engines, 2 sessions each | TypeOK, NoOrphanSession, ShutdownCompletes |
| `share` | 2 connections, 1 Close, 2 names, 2 files, all modes and backends | TypeOK, RegistryExact, ClosedServesNobody, DropBoxTellsNothing, ReadOnlyKeeps, DropBoxKeepsNames |
| `share_progress` | 1 connection, 2 calls of Close, 2 workers, files of size 1, chunks up to 2 | WithinTotal, EndedIsDone, CloseEnds |
| `ui` | 1 session, queue of 2, 2 restarts | TypeOK, ShowsTheCore, PollSlowsDown, EndShown |
| `offer` | 105 requests, 3 picked paths, 3 peers, a list of 2, 1 rename or removal | TypeOK, PicksResolve, OffersAreServed, ProbeIsExact, ReceivesAll, NothingForgotten |
| `transfer_stop` | as `transfer` | EndReleases is violated |
| `ui_token` | 1 session, queue of 3, 1 restart | TokenShown is violated |
| `offer_ssh` | as `offer` | PickedIsOffered is violated |

**Why the bounds are enough.** Two stops and the session's own failure or
completion are three racing callers of `shutdown`: the first, a second that
overtakes it between `cancel` and the lock, and one that comes late. Connections
do not act on one another, they only read the session, so one is enough for the
invariants over connections, and the proofs cover any number. `MaxDial` is 3 in
the code; 2 has a first, a retried and a last attempt. The bound of the queue is
5000 in the code; 5 is odd, so the half is rounded, and 14 pushes overflow it
several times, with and without a Drain between. Two engines give one that is
closed and its successor; two sessions in each, one to be stopped by id and one
by Close. Two clients of a share are one that opens a file and one that renames
or removes it; two names and two files give a rename over another file and two
names of one file. A connection has one channel and one open file, because
channels and open files meet only in the files. The entries of the sessions map do not act on one
another, so `ui` has one session; its worker pushes three events and a stop a
fourth, which overflow the queue of 2. The proofs cover any number of sessions,
any bound and any number of restarts. `share` uses the symmetry of connections,
names and files; `share_progress` checks liveness and uses none. Two workers are
enough for reports that overtake each other, and a chunk that ends at 2 in a
file of size 1 is the probe past its end. The requests of `offer` are every
combination of the file modes, the shell and all ports with no ports, a listed
port 22, and a listed port 1 (which takes the place of the manifest), by the app
and by the command line; and picked paths: two of the same name with and without
a shell or port 1, and three in the orders in which a numbered name meets a name
that gets the same number. A list of two peers is full, so a touch of a third
pushes one out, and a list may also be empty at the start; the code's 20 differ
in nothing else.

**Deadlock** is checked in every run. Where the code really waits (a probe that
pings, an accept, a transfer waiting for nothing more) the action `Idle` says
so, and it says it only for those places, so a goroutine stuck anywhere else is
a deadlock TLC would report. In `EventQueue` a poll of an empty queue, and in
`Engine` another call of the app, is always possible as long as the bounds
allow.

**Fairness.** Goroutines run, so each thread's own steps are weakly fair. A
blocking call is fair only where the code bounds it: the warm-up, the dial of a
forward and `waitReady` have timers, `Accept` returns once its listener is closed,
a proxy ends once its tunnel side is closed. Nothing obliges a user to connect,
to hang up or to stop, nor a local program to tell the SOCKS proxy what to dial,
nor a peer to answer. What waits for those has no fairness of its own:

- the negotiation and the dial of a SOCKS connection, so `ConnectionsEnd` leaves
  out a connection that is in the hands of `socks5.Server`;
- the SSH handshake, a listing, the transfer of a path and the closing of the file
  client, so `StopEndsTransfer` asks that the peer does not keep a goroutine in
  the first two or the last for ever, and `EndReleases` fails for `Transfer`. A
  transfer on a closed file client does return, so the stop has to end that one
  itself, which is what the property is about;
- the closers of a session that `Engine` stops, so `ShutdownCompletes` asks that
  none of them waits for ever, whichever caller it keeps.

A `srv.Start` is assumed to return; the tailcat library bounds it by its own
timers. A drain of the queue is fair because the app polls on a timer. The
handlers of the file share run, and the calls they wait in return once the
connection is closed; the request server then returns as well, after the requests
it has received. A `Close` of the share that has begun goes on. `CloseEnds` obliges
no client to hang up. In `UiSync` pushes, the timer, answers (or failures) and
microtasks are fair; nobody has to start, stop or remove a session or to restart
the app.

**What the violated properties say.** Each quotes a comment or test of the code;
the findings in `PROJECT.json` give the lines. A stop does not reach the SSH
handshake of a file session, and once there is a file client it closes that by a
call that waits for the peer before it closes the connection (`transfer_stop`).
When the app starts again over a running core, an event that is reduced before the
answer of `list_sessions` is merged makes an entry without a token, and the row
that has the token is dropped: the screen of that server never shows its token
(`ui_token`). A server asked to share picked files and to accept a shell comes up
with the shell alone (`offer_ssh`).

**Other disagreements** the models contain, for which no run is kept:

- A stop during openShare is reported as a `session_failed` event for a session
  that is stopped (`files.go:89-92`, `:164-168`), though `session.go:146` says
  that fail marks the session failed. `Transfer` reaches it.
- The event that a session is running may enter the queue after the one that it
  is stopped, because `setState` pushes after its unlock (`session.go:128-129`).
  `Serve` reaches it; `UiSync` has it as the case `InOrder` excludes.
- A SOCKS connection whose local program says nothing, or whose dial gets no
  answer, outlives its session: `socks5.Server` reads without a deadline and dials
  under its own context (`socks.go:46-77`). `ConnectionsEnd` leaves it out.
- `Engine.Close` says that it stops all sessions (`engine.go:77`). It stops them
  one after another, so a transfer whose stop waits for a silent peer keeps the
  others running, the context uncancelled and `tc_shutdown` from returning
  (`engine.go:86-89`, `client.go:61`). `ShutdownCompletes` assumes that no peer does
  that for ever.
- The comment of `canSendFiles` names shares that are rw or wo (`probe.dart:116`);
  without a manifest the getter is false for a read-write share, which the screen
  then calls read-only (`probe.dart:120`, `peer_screen.dart:203`). `ProbeIsExact`
  says so.
- A recent peer that is touched before the list has loaded is lost when the load
  completes, or the list of one peer is saved over the stored one
  (`recent.dart:44`). `NothingForgotten` excludes it by `early`.
- The SSH handshake of the probe has no timer either (`probe.go:82`), although
  the command has one of 25 seconds: `ClientConfig.Timeout` is read by
  `ssh.Dial` only.
- Listing port 1 takes the place of the manifest, so the other side finds only
  what the fallback finds and no ports; listing port 22 beside files or a shell
  leads to those and never to the local port.
- An upload the server sees is reported done with what has arrived, also when
  the client broke it off, since its size is not known (`handlers.go:290-294`).

## 4. Proofs

`SessionProofs` has the lemmas about the operators of `Session`, for whatever
program labels a kind of session uses; the kinds' proofs only have to add their
own actions. The theorems:

| theorem | says |
|---|---|
| `ForwardInvariant`, `ServeInvariant`, `TransferInvariant` | the inductive invariants `FInv`, `SrvInv`, `TInv` of the three kinds of session |
| `ForwardTypes`, `ForwardClosedIsFinal`, `ForwardNoLeak`, `ForwardClosedOnce`, `ForwardDialsOnlyWhenReady` | the invariants of the run `forward` |
| `ServeTypes`, `ServeEndReportedOnce` | the invariants of the run `serve` |
| `TransferTypes`, `TransferNoLeak`, `TransferDoneMeansMoved` | the invariants of the run `transfer` |
| `ForwardEndReportedOnce`, `ServeNoLeak`, `ServeClosedOnce`, `TransferClosedOnce`, `TransferEndReportedOnce` | invariants of `Session` for the kinds of session whose run does not check them |
| `ForwardRefinesLifecycle`, `ServeRefinesLifecycle`, `TransferRefinesLifecycle` | each kind of session implements the safety part of `Lifecycle` |
| `QueueInvariant`, `QueueTypes`, `QueueNewestKept` | the invariants of the run `queue` |
| `QueueImplementsFeed` | `EventQueue` implements `EventFeed` |
| `EngineInvariant`, `EngineTypes`, `EngineNoOrphanSession` | the invariants of the run `engine` |
| `ShareInvariant` | the inductive invariant `SInv` |
| `ShareTypes`, `ShareRegistryExact`, `ShareClosedServesNobody`, `ShareDropBoxTellsNothing` | the invariants of the run `share` |
| `ShareReadOnlyKeeps`, `ShareDropBoxKeepsNames` | its action properties |
| `ProgressImplementsShare` | every step of `ShareProgress` is a step of `FileShare` or leaves it alone |
| `ProgressInvariant` | the inductive invariant `SInv /\ CountInv` |
| `ProgressWithinTotal`, `ProgressEndedIsDone` | the invariants of the run `share_progress` |
| `ConnectInvariant`, `RecentInvariant` | the inductive invariants `ConnectInv` and `RecentInv` |
| `ConnectTypes`, `ConnectOffersAreServed`, `ConnectProbeIsExact`, `ConnectPicksResolve`, `ConnectReceivesAll`, `ConnectNothingForgotten` | the invariants of the run `offer`, for any requests |
| `UiInvariant` | the inductive invariant `UInv` |
| `UiTypes`, `UiShowsTheCore`, `UiPollSlowsDown` | the invariants of the run `ui` |

**Assumptions.** Only those of the constants: threads of different sorts are
distinct; `MaxDial` and the number of paths of a transfer are positive; the bound
of an event queue is at least 2, as the halving needs; the other bounds are
natural numbers; connections are not calls of `Close`; "no file" is neither a
file nor an open one, "nothing" no entry, event or state of a session, the notice
of the queue no event; a request has one of the file modes, a list of picks, each
a name and whether it is a directory, and three flags; the screen's server has a
token; a list of recent peers has room for one, and what the preferences may hold
at the start is a list `recent.dart` can have saved: within its size and with each
peer once. Fairness is not used.

**Why the invariants are needed.** `NoLeak` speaks of a session that has gone
quiet and so says nothing of the steps on the way. `FInv` adds `Owned`: every
open resource is *accounted for* - it is registered, or a thread has it in
`toClose`, or a thread is at the label where it is about to register it. The
shutdown order says that a session cannot be closed before it is cancelled and
ended (`CoreInv`), which gives `ClosedIsFinal`; `ReadyInv` and `DialInv` tie the
worker's label and the handlers' labels to `ready`, and `NotYetRunning` the
events already pushed and those still pending. When the session is closed the
list of closers is empty, when all are quiet nobody holds anything, so by `Owned`
nothing is open.

`SrvInv` and `TInv` are built alike. `Held` says at which labels a thread has a
resource in hand that the session knows nothing of yet: a share or a server that
has come up, what openShare has opened so far. `Owned` has `ClosedOnce` as a part,
and the disjointness that goes with it: what a thread holds is open and not on its
way to being closed, which is what keeps a late `addCloser`, or the deferred calls
of a listing, from closing it a second time. `EndInv` ties the events told and
still pending to the state, which gives `EndReportedOnce`. In a job `DoneInv` adds
that the one thread that ends it as done has left its loop with all paths moved,
and that a thread that failed never comes to that place.

`EInv` adds to `NoOrphanSession` who holds an engine: a caller that works on an
engine which is not the current one found it current before, so it is either
closed already or some other caller is between `tc_shutdown` and `Close` on it
(`OpenInv`). Hence `newSession` on an engine that is not closed is covered by
that caller's copy of the sessions, which it takes in the step that closes it.
The type invariant needs `StopInv` beside it: what a `Close` still has to stop are
sessions of the engine it holds, which only grow, and a context is cancelled only
after its engine was closed.

For the queue, `NewestKept` is inductive together with the types, and the
refinement maps the queue to a feed whose `settled` is the last event drained or dropped.

`SInv` has two halves, because the registry's steps and the requests change
different variables. `ClosedServesNobody` speaks of the end of `Close`; on the
way, `Covered` says that a registered connection still open after `done` was set
is one the closing `Close` has in its copy, `OneCloser` that there is only one
such `Close` and that the root outlives its work, and `RegistryExact` that nobody
registers behind it. `DropBoxTellsNothing` needs `Rights`: an open file allows
nothing the mode does not, which is what lets `ReadAt` and `WriteAt` go
unchecked. `Rights` gives `ReadOnlyKeeps` too.

`CountInv` ties a report to the file it is of: only a file that is open counts, a
closed one has nothing left to report, and what is late is at most the
high-water mark. So no report follows the last event of a file, nor reaches the
next one that is opened on the channel. `SInv` comes along, because `ShareProgress`
only adds to the steps of `FileShare`; its types of the open files are needed.

`ConnectInv` has three parts. `ProbeInv` gives, for each step of the probe, what
it has found out so far and that this is there; the offer does not change any
more once it is probed. `NamesInv` says that `byName` is one to one between the
names and the paths the loop has come past. It rests on `UniqueNameIsNew`: the
search of `uniqueName` ends, because one number more than there are names taken
cannot all give taken names, and it ends at a name that is free. `ReceiveInv`
splits the paths that were listed into those still to be fetched and those that
are there under the name the share has for them, so that no fetch replaces what
an earlier one brought.

`RecentInv` says from when on the promise of `NothingForgotten` is due and what
keeps it: before the load nothing has been changed or saved unless `early` says
so, so what is loaded is what was stored; afterwards what was stored is in the list
or `gone`, and the stored list is the one on the screen unless a save is on its
way. That needs both lists to be tidy, each peer once and within the size, and
what `where`, `take` and `map` do to such a list (`WithoutFacts`, `FirstFacts`,
`RenameKeeps`). `Without` is a recursive function and not the library's
`SelectSeq`, whose recursion the provers do not unfold; `EveryNumber` gives the induction
over the length of the list by a least counterexample.

`ShowsTheCore` speaks of the moment when nothing is on its way. `UInv` says for
every moment where the news of a session is (`NewsInv`): in the newest event of
the queue that tells its state; if there is none, in the newest event of the
stream; and if there is none either, on the screen or in the row that `_seed` is
going to merge (`Shown`). In each case that is the state the core told last.
`AppInv` adds that nothing is shown or streamed before the screen listens, which is what a
restart comes back to, and `CoreInv` that a state is told only once the session
has come to it, so that no step of the core makes an old event look like the
newest state. `_active` is among the readers of the queue, hence `PollSlowsDown`.

Only model-checked: the liveness properties (`ConnectionsEnd`, `NoDeafForward`,
`EndReleases`, `StopEndsTransfer`, `ShutdownCompletes`, `CloseEnds`, `EndShown`)
and the fairness part of `ImplementsLifecycle`. Liveness under fairness is out of
the prover's reach. Every invariant, every action property and every refinement's
safety part that a passing run checks is proved.

## 5. Not modelled

The tailcat library, the SSH and SFTP libraries and the OS appear as answers of
calls. Token parsing, JSON, wording and layout are left out. `ping`, `probe`
and `parse_token` have no lasting effect and are calls of `Engine` that return;
what a probe finds out is module `Discovery`.
Panics that `Engine.Call` recovers are errors before an effect.
Of the file share, times and permission bits, symlinks that dangle and the names
below a shared directory are left out. Of the transfers, the walk over a
directory (which skips symlinks and sockets without a word) and the partial file
a failed copy leaves. Of an offer, the exit node, which touches no port. Of the app's core, the `dispose` methods (the
running app never disposes of its engine), path and error events (they set a
field of an entry as a token does), and the log reducer. The
components with status `not_modelled` in `PROJECT.json` carry their reasons.

## 6. Plan

Done, in this order: sessions with their goroutines and stops, the event queue,
the engine and bridge, with proofs; the file share with its proofs; the reduction
of events by the app; what a server offers, what the other side finds out and
receives, the recent peers; the progress of transfers; proofs of every invariant
the runs check; the waits that neither a timer nor the session ends (SOCKS
negotiation, the closing of a file client).

Left:

1. Proofs: the safety half of `StopEndsTransfer` and of `ShutdownCompletes`
   (what is released stays released) from `TInv` and `EInv`.
2. `Transfer` with the walk over a directory and the files a failed copy leaves.
3. The reconnect of the terminal screen and the retry of the peer screen.
