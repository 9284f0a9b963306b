# A TLA+ verification of kmux

kmux is a terminal multiplexer. A frontend talks to a local daemon, `kmuxd`, which owns the
shells (PTYs), runs a terminal emulator for each, streams screen changes to every attached client,
forwards to remote `kmuxd` peers, survives restarts, and can be replaced while its shells run.
What is hard in it is concurrency: tokio tasks and threads that share a pane, connections that
overlap, processes that change places.

This directory models those parts in TLA+, checks the models with TLC on small instances, and
proves safety properties of five of them with TLAPS for every instance. Paths below are relative
to `src/crates/`, documents to `src/docs/`.

| module | models | proofs | run |
|---|---|---|---|
| `Handoff`, `PtyHandover` | the graceful restart: two daemons, their socket, the panes, the checkpoint; and what it promises of a PTY | `HandoffProofs`, `HandoffSafety` | handoff, handoff_live |
| `PaneStream` | a pane's screen on its way to one client | `PaneStreamProofs`, `PaneStreamWhole` | pane_stream, pane_links |
| `Clients` | registrations, channels, shared pane size, input lock, idle shutdown | `ClientsProofs` | clients |
| `FedLink` | a hub's link to one peer: routing of answers, the proxied pane and its lock | | federation |
| `FedPeers` | a hub's peers: opening, closing, relinking, session words | `FedPeersShares`, `FedPeersProofs` | federation |
| `Sessions`, `Layout` | the session store, its files and its split trees | | sessions |
| `SessionView` | what a client makes of the sessions | | sessions |
| `Driver` | the frontend's link to its daemon: reconnects, held input, what is told again | | driver |
| `Engine` | the isolated emulator worker of a pane | | engine |
| `PtyChild` | the processes behind the panes, the reaper, recycled pids | `PtyChildProofs` | daemon |
| `DaemonStart` | start, stop and restart of the daemon and the files they meet at | | daemon, daemon_split |
| `Grid`, `GridCases` | diffs, scrollback, wrapped views and selections, as pure operators | | screen |
| `Screen` | one pane's screen from the emulator to the pixels | | screen |

The `MC*` modules hold scenarios, model values and symmetry sets for TLC. `PROJECT.json` maps every
definition to the source lines it models, and lists the runs, the mutants that show each property
can fail, the components, the hazards at the line where each bites, and the theorems.

To check: `tlc -config MCHandoff.cfg MCHandoff` (and so on for each cfg), `tlapm HandoffProofs.tla`
(and so on for each proof module; 1 to 20 minutes each).

## 1. The system

A **frontend** has a driver (`kmux-app/src/driver`) that keeps one link to the local daemon, a session
manager (`kmux-client`) that mirrors sessions, tabs and panes, and an apply worker that turns frames
into a grid. `kmux-connect` finds or starts the daemon and picks a transport.

The **daemon** (`kmuxd`) accepts channels; each has a handler loop. Sessions, tabs and panes are a map
behind one lock. Every pane has an engine (in process, or a worker process of its own), a relay task
that numbers screen diffs, and one stream task per viewer. A checkpoint loop saves the map; closed
sessions go to a graveyard with its own file. `kmux-pty` forks the shells and reaps them. As a
**hub** a daemon is a client of other daemons and offers their sessions as its own.

On **restart** the daemon spawns its successor, passes it every PTY's descriptor over a socket, and
leaves; on any failure it takes everything back.

Where the modules meet: `Handoff` uses the reader's hold point that `Engine` implements for a worker;
`DaemonStart` takes a handoff as one step that commits or rolls back; `PaneStream` takes cells as
`Grid` makes them; `Screen` takes attach and wire as `PaneStream` has them; `FedLink` assumes of the
peer's lock what `Clients` shows; `SessionView` is composed with `Sessions` through the messages the
store sends. The other interactions are too loose to be worth a product state space, and a run that
holds two modules (federation, daemon, screen) explores them side by side.

## 2. How the models are written

An action is what one task does between two awaits, under one lock, or in one system call; what the
code does without giving up control is one step, trailing saves and broadcasts included. Data is
abstracted to what the properties tell apart: a PTY's output is a count, a screen cell is the number
of the output last drawn there, a line is new each time it is printed, a session is its word.

Three devices recur:

- **Scenarios.** Most modules take a set of records that say how often each optional event may happen
  in one behaviour (`left`, `budget`). A run is the union of scenarios, each chosen so that one group
  of events meets; without them every bound would multiply every other.
- **Windows and stalls.** `PaneStream!Windows` names places where a preemption of the code changes the
  outcome; `Handoff!Stalls` names who may outlast the other side's patience. A run opens those it asks
  about, so that a counterexample names its cause.
- **Lapses.** Where the code is known to lose a race, the step that loses it records a lapse (or slip),
  and a property is stated with that exception. The comment above the property says what each lapse
  excuses, section 6 where the code meets it.

## 3. The modules and the code

### Handoff, PtyHandover

| variables | code |
|---|---|
| `pane`, `reader`, `hold`, `taken`, `grid` | O's sessions, the reader of each PTY and its hold point, bytes read and bytes in the emulator |
| `disk`, `sealed`, `tick` | the checkpoint file, `seal`, a periodic write gathered and not yet written |
| `gate`, `task`, `unsent`, `committed`, `keepAlive` | `handoff/sender.rs`: the creation gate, the step `hand_off` is at, fds still to send, the commit flag, the shells' keep-alive |
| `main`, `sigterm`, `stopAsked`, `cancel`, `busy`, `handedOff`, `alive`, `attempts` | `startup.rs`, `daemon.rs`, `handoff/status.rs` |
| `nPc`, `nWant`, `nFds`, `nGrid` | `handoff/receiver.rs`: the successor's step, the panes advertised, the fds received, its emulators |
| `toN`, `toO`, `oEnd`, `nEnd` | the Unix stream socket: a FIFO each way and whether each end is open |

A timeout is a step that is enabled whenever the awaited thing has not happened *and* the party it
waits for is allowed to be that slow. `Events` names what may happen around a handoff: crashes of
either daemon, a hung successor, panes created, closed or exited, a periodic checkpoint, a signal,
a `stop`. `taken[p]` bytes have left the kernel's buffer; whoever holds the master may take the next.

`PtyHandover` is the abstract specification: a PTY has at most one reader, changes hands only when
nobody reads it and all that was read is shown, and never returns. `Handoff!HandsOverEachPty` is
its specification under the mapping `Holder`, `Shown`.

### PaneStream

One pane, one client, its successive links. A screen maps cells to the number of the output chunk
last drawn there, so that a diff, a snapshot, a replay and a digest are what the code makes of
them, and "the screen as of seqno k" is a value (`asOf`, a history variable).

| variables | code |
|---|---|
| `emu`, `relay` | the emulator and the relay task: feed, diff, number and push, broadcast, reap, digest (`relay.rs`) |
| `lock`, `handler`, `reg` | the session map's lock, the handler of Attach (`dispatch/view.rs`, `app/attach.rs`), the client map's entry |
| `stream`, `stale` | the pane stream (`outbound.rs`): replay, then channel, resync on congestion; what an aborted one still sends |
| `out`, `up`, `link`, `down`, `released`, `racing` | the bounded outbound queue with its control reserve, the requests, the links |
| `sync`, `expected`, `shown`, `blanked` | the client (`kmux-client/src/session_manager/server_handler/stream.rs`) |

The relay does not take the session map, so it can run inside operations that hold it. The windows
are `attach` (the relay between the steps of `compute_replay` and the insert), `reap` (a handler
between the broadcast that found a client dead and its removal), `abort` (an aborted stream before
its next await) and `overlap` (a handler of the old link still at an attach when the new link is
served). Left out: pause and snapshot mode, cursor-only frames, the one-stream-per-pane QUIC writer
(TCP and Unix sockets share the queue modelled here), and messages of an old link read after a swap.

### Clients

| variables | code |
|---|---|
| `chan` | `client_handler/session.rs`: the loop of a channel, its id and generation, what it has pending |
| `conns`, `nextId` | `ServerApp` registrations and generations (`app/mod.rs`) |
| `viewers`, `mode`, `size`, `winsize` | the pane's client map, `InputMode`, the effective size, the kernel's size |
| `idle`, `shutdown` | the published count (that it is 0 is all the watcher looks at) and the watcher |
| `current`, `opening`, `token` | the client: channel in use, channel connecting or probing, resume token |

Registration and the publication of the count are two steps, as are a resize of the pane and the ioctl on
its pty, and the detaching and releasing of a channel that ends: each pair is separated by an unlock in the
code. A channel's loop serves what the client had sent through it even after the client has moved to
another. `removed`, `stray`, `late` and `reaped` are history variables: ids whose view was kicked or reaped,
that took the lock without a view, or whose view an older channel's message took, until they attach again;
and whether a reap has left the size behind. `ClientId` and `ConnectionId` are drawn together, so one number
stands for both. The watcher's debounce is that `IdleFires` waits for publications under way.

### FedLink, FedPeers

`FedLink` is the `PeerConnection` of one peer behind its mutex (`federation/mod.rs`, `routes.rs`,
`feed.rs`, `link.rs`): `conn` (routes by request id, runs kept apart by barrier pings, the proxied
pane's viewers, size and lock), `down` (what the peer sent and the feed loop has not read), `chans`
(the hub's clients, who resume on new channels), and `peer`, the other daemon as the hub may assume it:
it answers one connection's messages in order. Every message carries who it is for, which only the
properties read.

`FedPeers` is the `PeerManager`: `conns` (every `PeerConnection` made, with its link task), `peers` and
`index` (the two maps), `pool` and `local` (the words, shared with local sessions), `guis` (`open_peer`
calls under way), `gate` (the connection `close_peer` takes down under the membership gate), `tunnels`
(SSH tunnels that run), `remote` (the peers). Opening connects (an await), draws a word per session, and
only then decides the winner; `close_peer` aborts the link task, which takes effect only where the task
awaits, so a frame already read is still handled.

### Sessions, Layout, SessionView

`Sessions` is `kmuxd/src/app/{crud,tab_crud,pane_crud,graveyard,restore,persistence}.rs` and the handlers
that call them. `sessions` is the map, `manager` the PTY registry, `pool` the word sampler, `closed` the
graveyard, `disk` the two files; `ops` holds what each connection's task and the checkpoint loop have in
hand between two awaits (the map's write lock makes a change atomic; spawning, killing, writing a file and
telling clients are outside of it). A write of a file may fail, which the code logs and goes on from, and
two may finish in either order; a crash leaves the files, and the next daemon boots from them. `Layout` has
the split tree's operators (`app/layout.rs`): split, remove, swap, ratios with their normalisation to 1000.
It is recursive and stays with TLC.

`SessionView` adds a client: its list, the session, tab and panes on screen, what it is attached to, and
what it has sent. The replies, the daemon's broadcasts and those of the PTY registry reach it in one
stream, each of the three keeping only its own order.

### Driver

`ui` is the UI thread's state (driver, `AppCore`, `SessionManager`): one pump iteration, with the handlers
it calls in the order of the code, is a step, and so is each thing the user does. `links` has, per
bootstrap, its task, its link and the frames on it; `host` is the daemon as a run number with what it
knows of this client; `now` is a clock. Held input has its capacity and age limit. A frontend started with
`--server` opens that peer again on every new link, and an error of the peer it waits for brings up the
disconnected overlay.

### Engine

One pane with an isolated worker: `en.cur` and `en.new` are `WorkerEngine`s (writer, supervisor, socket)
with the worker process behind each (request loop, PTY reader, emulator); `pty` is the kernel's PTY and the
shell, `rec` the respawn task, `ho` a handoff that holds the reader, `input` what clients typed. The worker
has one thread: while a shell writes without a pause `feed_available` reads on and no request is read.
Timers fire only when the worker and the daemon's tasks have done what they could: they are seconds long.

### PtyChild, DaemonStart

`PtyChild`: `kid` is the daemon's handle on each child (`PtyProcess`), `reaper` the one reaper thread with its
watched pids, `proc` and `grp` the kernel's processes and groups. A pid is free once its process was
waited for and its group is empty; a free pid may be taken by a stranger. A pid that was freed a moment
ago is not taken while a spawn or the end of a close is still at work on it (`TooRecent`), which is what
`shutdown.rs` itself relies on: "a group emptied this recently has had no time to see its id recycled".

`DaemonStart`: `dm` is each daemon (main and control-socket task), `pidPath`, `inode`, `sock`, `spawnLock`
the files, `call` the commands that run. Every system call on a shared file is a step of its own.

### Grid, GridCases, Screen

`Grid` has the diff engine and the scrollback mirror (`kmux-vt-core/src/diff_engine`), the client's grid,
scrollback and view (`kmux-client/src/grid`) as operators on sequences. `GridCases` checks the wrapped view,
clicks and selections against a plain definition over every small shape of scrollback. `Screen` is the
system around them: emulator, relay, resume log, wire, session manager, apply worker, the UI's tick and the
renderer's row cache. The VT parser is a library: `Feed` is what it can do to its screen and history.

## 4. The runs

| run | question |
|---|---|
| `handoff` | one pane, two attempts, every stall and every event: OneServer, NoSplitRead, NothingLost, ShellsSurvive, ServingIsWhole |
| `handoff_live` | two panes: is every step one of `PtyHandover` (HandsOverEachPty); HandoffEnds, CommitIsTakenOver under fair scheduling |
| `pane_stream` | every window but `attach`, every event: SyncedIsWhole |
| `pane_links` | a congested queue and lost links: DataLeavesReserve, NoFrameSkipped, CatchesUp |
| `clients` | two clients, three channels, every event: NewestIsRegistered, NoGhosts, AttachedThroughCurrent, SmallestWins |
| `federation` | AnswerReachesAsker, PaneAgrees on one link; WordOwnedOnce, NoTunnelLeak, ListingConverges over two peers |
| `sessions` | SessionsWhole, PtysAreOwned, WordsAreKept, ClosedIsDurable of the store, ClientFollows of a client |
| `driver` | InputIsKept, ViewIsRestored, LinkComesBack |
| `engine` | HeldIsWhole, OneReader, InputKeepsItsOrder, FaultIsMended |
| `daemon` | OneHolds; NoStrangerSignalled, CloseEndsTheGroup |
| `screen` | ScreenFollows, HistoryIsTrue, ViewStays; ViewIsWindow |
| `daemon_split` | a violation: OneDaemon (section 6) |

Each property is stated in words, with its exceptions, above its definition. Every property of a passing
run has a mutant of a mapped definition, a plausible slip in that code, under which its run finds it
violated. A run takes between half a minute and four minutes on two workers.

### Bounds

`Handoff`: panes interact only through counts ("all parked", "all sent"). The handoff run has one pane and
every event, and two attempts let the second meet what the first left; handoff_live has two, so that one
can be early and the other late; the proofs are for any number. One byte of output per pane tells lost,
shown and shown twice apart.

`PaneStream`: `Capacity` 6 is the smallest for which the reserve (a quarter), the resume threshold (half)
and a resync are distinct, as they are at 1024; a channel of one and a buffer of two overflow with two
chunks; the other producers send when the queue is already `OtherFrom` long, so that they meet the reserve;
one chunk that scrolls (`MaxScrolls`) puts a seqno into the stream that the replay buffer does not keep;
`MaxAttaches` 5 in `pane_links` lets every lost link and every lag re-attach, so that CatchesUp is not cut
short by the bound. One cell suffices for TLC, since SyncedIsWhole is cell by cell, and the proof is for any
set of cells.

`Clients`: two users and three channels give one user a channel in use, one ending and one being
opened, or the two users overlapping ones; the sizes (2,3) and (3,2) have a minimum that is neither.
The VIEW drops the size of the kernel's pty, which no guard and no property reads.

`FedLink`: five operations let a lock be asked for, granted, given back, and asked for again while the first
crosses it. `FedPeers`: pools of two to three words make two openings of the same peer compete for them;
two peers let a word move from one to the other. `Sessions`: three words, two tasks and a graveyard of one
make closes, restores and evictions meet; a session has up to four panes. `Driver`: capacity 3 with batches
of 1 and 2 overflows by one and by two; four bootstraps let an old one be heard after a newer. `Engine`:
kernel buffers of one input and one output block both ways; one restart exhausts its budget. `PtyChild`: two
panes and two pids make every freed pid the next one taken. `DaemonStart`: three daemons and two commands.
`Screen`: a mirror of 2, a client's buffer of 3 and a backend of 4 lines evict at different moments.

Symmetry is used only in runs without liveness properties, over cells, users or clients no definition
tells apart. Deadlock is not checked: a bounded run ends when its bounds are spent, and a daemon that
has exited takes no step.

### Fairness

Weak fairness of tasks and threads that are runnable and stay so, and of nothing else. `Handoff!FairSpec`: O's
main loop and handoff task, the successor (not once it hangs), the creation of an admitted pane, feeding
what was read, parking. `PaneStream!FairSpec`: the relay once it has output, a resize's broadcast, each handler
and stream, another producer that has begun to send, the client's receive and reconnect. `Driver`: the pump
with each of the answers it may find, and a daemon that answers in the end. `Engine`: writer, supervisor,
request loop, reader, heartbeat, respawn, the handoff's own steps, and a shell that runs (a sleeping one has
no obligation). `PtyChild`: the kernel delivering signals and the daemon's own steps; nothing is assumed of
shells. Users, networks, crashes and signals owe nothing anywhere.

## 5. What is proved

Eight modules hold theorems; all of them are checked to the last leaf. They hold for every value of the
constants that satisfies the named assumptions (`ConstantsAssumption` of `Handoff`, `PaneStream` and
`Clients`, `FpAssumption`, `KidAssumption`), which state that bounds are numbers, sets are finite and
markers are not members of the sets they are kept apart from; TLC evaluates each in a run. The one with
content is `PaneStream`'s `Capacity \div 2 > Capacity \div 4 + 1`: a resync fits where it is started, as with
the code's 1024.

Every proof has the same shape: an inductive invariant, one lemma per action or group of actions that it is
preserved, and a last step that combines them. The invariants were first checked by TLC on the instances of
the runs.

**Handoff** (any panes, attempts, stalls and events).

- `TypeCorrect`, `OneServerAlways`: two daemons never serve at once. OneServer says nothing of how a successor
  comes to take over, so it is not inductive. `ServerInv` adds: a handoff task that runs has marked the daemon
  busy (so only one successor is awaited); a daemon that has handed off is done; `Released` on the wire means
  the task is done, because it is the last thing O says; a successor still connecting to a live O is
  awaited by it, with its own end not yet open (so a refused connection means O is gone). The successor's
  ways to take over are then two: it read `Released`, or it found O dead.
- `NoSplitReadAlways`, `NothingLostAlways`, `ShellsSurviveAlways`, `ServingIsWholeAlways` follow from one
  invariant in three layers. `ControlInv`: the step O's task is at fixes its gate, seal and keep-alive flag,
  and what the main loop may do. `ReaderInv`: what that says of panes and readers, above all that no reader
  reads and no pane is being created once the fds are being sent for good. `SuccessorInv`: an N that
  acknowledged finds a checkpoint taken with every reader parked and never written again; an N that declined
  never holds a PTY. NothingLost excepts O killed, not stopped, in the middle of a rollback.
- `HandoffRefinesPtyHandover`: with no daemon killed outright, `Spec => HandsOverEachPty`. Initial states map to
  initial states; each action is a read, a byte shown, a start or stop of the old reader, the adoption, or a
  stutter. A kill is excluded because it takes bytes read and not yet shown with it.

**Clients** (any users, channels, sizes and events).

- `TypeCorrect`; `SmallestWinsAlways`. The type invariant is a little more than types: sizes are those of `Sizes`
  and the effective size is well defined. The minimum over the viewers is a `CHOOSE`, which exists by the
  least-number principle (from the well-foundedness of < on naturals; induction over data is out of reach).
- `NewestIsRegisteredAlways`, `NoGhostsAlways`, `AttachedThroughCurrentAlways`, from four layers.
  `ChannelInv`: channels are used in order, each draws at most one id, only an open one attaches. `GenInv`:
  a registration has the generation of its newest channel, which no other shares; every registration is a
  live channel's; an id no longer registered was given back by the newest of its channels. `OwnInv`: the
  channel a client uses has the id it would resume, the one it opens has attached nothing, no two clients
  share an id. `ViewerInv`: a viewer is attached through an open channel of its own id, the lock's holder is
  a viewer unless it is `removed` or `stray`, and the channel a client uses keeps what it attached unless
  its id is `removed` or `late`. An id leaves the sets when the channel in use attaches again.

**PaneStream** (any cells, bounds, capacities and events).

- `TypeCorrect`, with what makes the partial operations defined: a frame is taken only from a queue that has one,
  and the seqno counter counts the frames numbered.
- `DataLeavesReserveAlways`: pane data never takes the control reserve, but for one slot of a stream that
  looked at the room before something else filled it; what filled it was not data (`ReserveInv`).
- `SyncedIsWholeAlways`, for runs with the `attach` window closed. The argument: every message certifies itself. A
  snapshot shows at least what the pane had drawn as of its seqno; an update written over any grid that is
  whole as of the seqno before makes it whole as of its own. So it does not matter which messages are dropped,
  sent again or sent by a stream that was aborted: the client applies a frame only at its seqno. What remains
  is that every seqno read for a snapshot is one the snapshot covers (`Pending`), which for a resync rests on
  reading the seqno first, for a resize on the seqno it was broadcast under, and for an attach on the relay not
  running in between: with the `attach` window open the theorem is false (section 6).

**PtyChild** (any panes, pids and environments).

- `NoStrangerSignalledAlways`: a close or a drop signals no process but the pane's. A pid is signalled on
  one of two grounds. While no exit has been published it is still the pane's, since only the reaper's
  `waitpid` frees the pid of an own child and the same step publishes the exit (`Owns`). After it, during a
  spawn or right after a close's wait, the pid is free and nobody has had the time to take it (`Recent`).
  `Watchers` says that the reaper waits only for pids that panes still wait for.

**FedPeers** (any peers, sessions, words and GUIs).

- `NoTunnelLeakAlways`, `WordOwnedOnceAlways`. A connection is live while it is open, being closed or being
  opened, and the three exclude each other (`Owners`): the task of one being opened has not started, the one
  being closed is no longer in the map. The pool, the local sessions and the live connections share out the
  words (`WordInv`), and the index has the open peers' words and those of the one being closed (`IndexInv`);
  a connection that is not live keeps stale words, which count for nothing, and what its task still handles
  changes neither the pool nor the index unless a live one owns the word. The counting in WordOwnedOnce then
  says that of its three terms exactly one is 1.

**Only model-checked**, and why:

- Liveness (HandoffEnds, CommitIsTakenOver, CatchesUp, LinkComesBack, FaultIsMended, CloseEndsTheGroup): it needs
  ENABLED, which TLAPS does not reason about here.
- NoFrameSkipped: it is about the order of everything on its way, from the buffer through two queues; its
  inductive invariant is a statement about concatenations that the provers do not carry.
- `Sessions`, `SessionView`: their trees are recursive operators, which takes the SMT backend away from
  every module that reaches them. ViewIsWindow and Layout's operators are induction over data besides.
- `FedLink`, `Driver`, `Engine`, `DaemonStart`, `Screen`: their safety properties speak of a state "once
  nothing is on its way", or list exceptions by cause; their inductive invariants would have to say what
  every queue may hold. ListingConverges of `FedPeers` is of the same kind.

## 6. Where the code and its documents part

One run ends in a counterexample, and `PROJECT.json` quotes the line it contradicts. `daemon_split`: the guard
against a second daemon asks only whether the control socket answers (`kmuxd/src/daemon.rs:593`). In a handoff
the outgoing daemon removes its socket and pid file as it exits (`daemon.rs:516`) while the successor has bound
nothing yet; a command that looks in that gap starts a third daemon, and two hold the sessions.

The rest was met while modelling. No run is kept for it; a property that meets it states the exception, or
the model leaves the event out as said.

*Handoff.* A successor that declined waits one step and a grace for `Released`, while O first writes its
final checkpoint with no bound (`handoff/sender.rs:368`): a disk slower than both makes N stand down from a
daemon that then leaves too (`daemon-handoff.md:214`: "if O is still running, it is serving, and N exits").
A `stop` that arrives while the main loop settles a failed handoff wakes nobody and is lost
(`daemon.rs:373`).

*Pane output.* `compute_replay` takes the snapshot and then reads the seqno (`app/attach.rs:76`): a diff
numbered in between counts as covered without being in it; `resync_snapshot` reads them in the other order
and says why (`:183`). With the `reap` or `overlap` window open a client can lose its new channel and
receive nothing until its next attach (`relay.rs:508`, `attach.rs:144`). `broadcast_resize` ignores a full
channel after the client was told to blank its grid (`app/mod.rs:401`). After a transport swap nothing
re-attaches the panes, and the end of the old channel detaches them
(`kmux-client/src/session_manager/connection.rs:239`). The replay buffer keeps no history lines
(`DiffBuffer::push`), so a replay skips their seqnos, and a resize's snapshot can rewind the client: it
re-attaches.

*Connections.* Attach, detach, kick and a channel's end resize the pane and not the pty
(`app/attach.rs:167`). A probe the client gave up on takes the registration with it, and the idle watcher
stops a daemon in use (`kmux-connect/src/supervisor.rs:759`). A reaped viewer keeps its input lock and its
size counts until the next change (`relay.rs:508`). `request_input_lock` does not ask whether the client
views the pane (`app/io.rs:138`): one not attached yet, detached or kicked is granted the lock, and the lock
outlives it. An Attach or a Detach read late from an older channel goes by the client's id and takes the
view of the channel in use. The client's `input_locked` flag is not cleared when a re-attach gives back its
lock. Counts and ioctls may be published in the other order than the changes.

*Federation.* A detach frees the peer's lock silently, and a request may cross it (`app/attach.rs:261`).
`fan_out` drops a viewer it cannot reach and does not reconcile the size; the end of that viewer's channel
finds nothing to release, so the peer keeps the size of a viewer that is gone until the next attach, resize
or detach. PaneAgrees excepts both. A closed peer's link task keeps its words; a frame it already read can
close a session that now has one of them, of another peer (`federation/feed.rs:275`; `link.rs:12` names only
the peer and the user). ListingConverges excepts it.

*Sessions.* A tab that goes away while its pane is spawned leaves a pane no client can reach
(`tab_crud.rs:263`); a spawn that fails keeps its word; a restore may be overtaken by the close still at
work; two writes of `closed.bin` may finish in the other order (`graveyard.rs:8`), and one that fails is
only logged (`graveyard.rs:165`), so that a close kills shells whose snapshot is not on disk. `close_tab`
and `close_pane` release the word of a session they empty though it is in the graveyard too
(`tab_crud.rs:174`, `pane_crud.rs:85`), and an eviction releases the word of a session that a restore has
brought back. The limit on sessions is checked before the spawn; `set_ratios` may go below the minimum
ratio; a layout update may be older than the list it follows. In the client, `focus_pane` and `select_pane`
call each other without end for a pane its tab does not show (`tabs.rs:238`, `session_ops.rs:44`); a pane
waited for and closed meanwhile is waited for for good. What ClientFollows excepts (sessions told of late,
bare panes, a blank screen, stray and reborn words, a skipped focus) is listed above it.

*Frontend.* Keys typed while paused are delivered after an outage though output is withheld
(`kmux-app/src/core/mod.rs:639`); keys typed between a link's death and its detection are lost; a
`Disconnect` does not stop a reconnect that is scheduled; a close whose grace ends in an outage, or a remote
closed in one, is not told to the daemon; a bootstrap that timed out may be heard after a newer one.

*Engine.* `hold_reader` "resolves once the reader is parked, or gone" (`engine/mod.rs:176`), but a worker
whose stream was corrupt may still read. A resize between a recovery's gather and its swap goes to the dead
engine; input in flight at a crash is lost; a pane closed while a handoff holds its worker leaks the process
if the handoff is aborted; a wedged worker whose stdin is full is never declared hung; a respawn that fails
leaves the pane faulted. `feed_available` has no limit (`kmux-vt-worker/src/main.rs:315`): a shell that
writes without a pause keeps pings unanswered, and a healthy worker is killed as hung. A worker that cannot
read a request exits with code 0, which is taken for a clean end, and one that cannot be waited for is not
reported: neither is replaced. A hold between a resize and the next output finds the mirror blank.

*Processes and files.* A close that finds its child exited signals nobody, so jobs left in its group run on
(`shutdown.rs:44` says so). `send_signal` does not ask whether the child has exited; an inherited child's
pid may be recycled before the 500 ms poll looks. A successor's pid file is never locked (`startup.rs:362`);
a daemon may unlink a socket bound since it probed, and a successor that of a third daemon
(`daemon.rs:521`); SIGTERM removes socket and pid file before the final checkpoint is written; a failed bind
leaves a daemon without a socket; a restart answered late is taken for an older daemon's.

*Screen.* After a resize the engine compares with a blank screen although the resize sent the content, so
what is erased before the next diff is not in it (`diff_engine/mod.rs:211`: "so the next diff is
full-grid"), and a cursor that is home, or where the relay last sent it, is not sent
(`diff_engine/mod.rs:237`, `relay.rs:369`). A resize on the alternate screen repeats scrollback
(`compute.rs:80`); history wiped and grown again within one diff, or full, goes unseen (`compute.rs:120`); a
fetch for lines a mirror no longer has is asked for again and again; a selection moves when lines are
evicted; the row cache may take a new grid at an old one's address for the old one.

## 7. Not modelled

The wire encoding (stateless, covered by round trip and golden tests); VT parsing (a C library);
cryptography and certificate pinning (a resume is granted to the machine that registered); listeners and
admission counters; the scoring that picks a transport; background task supervision (the tasks are modelled
as running); graphical frontends, FFI and GPU drawing beyond the rows they are given; key modes, commands
and pickers (sequential UI state with direct unit tests); command line parsing, logs, traces and metrics.
`PROJECT.json` lists each part with what is left out of it. Power loss inside a file's write is not modelled
either: temporary file, fsync, rename and directory fsync are one atomic write. Bounds are those of section
4: a behaviour longer than they allow is covered by the theorems where there is one, and by nothing else.
