------------------------------- MODULE Engine -------------------------------
(***************************************************************************)
(* One pane run by an isolated VT worker (issue #126): the daemon's        *)
(* WorkerEngine with its writer and supervisor tasks, the kmux-vt-worker   *)
(* process with its request loop and PTY reader, the shell behind the      *)
(* PTY, the task that respawns a faulted worker, and the graceful handoff  *)
(* that holds the worker's reader for its final checkpoint (issue #207).   *)
(*                                                                         *)
(* Output is numbered 1, 2, ... in the order the shell writes it, a screen *)
(* is the set of outputs it shows, and client input is numbered in the     *)
(* order it is typed.  The engine a pane uses is `cur`; `new` is the one a *)
(* respawn is building.  Timers (the heartbeat, the hold's timeout) fire   *)
(* only when the worker and the daemon's tasks have done what they could:  *)
(* they are seconds long, those steps are not.                             *)
(***************************************************************************)
EXTENDS Integers, FiniteSets, Sequences

CONSTANTS Scenarios,    \* the cases explored: budgets of what may happen
          InCap,        \* inputs the kernel holds for the shell's stdin
          OutCap,       \* outputs the kernel holds for the PTY's reader
          QueueCap,     \* INPUT_QUEUE_CAPACITY
          MaxRestarts,  \* MAX_RESTARTS and MAX_HANG_RESTARTS
          Deadline,     \* PONG_DEADLINE, in heartbeat checks
          Sizes         \* the sizes a pane may have

ASSUME EngineAssumption ==
    /\ {InCap, OutCap, QueueCap, MaxRestarts, Deadline} \subseteq Nat \ {0}
    /\ Sizes # {}

VARIABLES scenario,     \* the case being explored
          left,         \* what its budgets still allow
          pty,          \* the kernel's PTY and the shell behind it
          pane,         \* the daemon's PaneRelay
          en,           \* its engines: the one in use and the one being built
          rec,          \* the worker-respawn task
          ho,           \* the graceful handoff
          client,       \* the screen of an attached client
          input,        \* client input accepted, and written to the PTY
          lapses        \* the causes that excuse a property

vars == <<scenario, left, pty, pane, en, rec, ho, client, input, lapses>>

Which == {"cur", "new"}

Spend(what) ==
    /\ left[what] > 0
    /\ left' = [left EXCEPT ![what] = @ - 1]

Lapse(what) == lapses' = lapses \cup what

-----------------------------------------------------------------------------
(* The engine.  `proc` is the worker process: "hello" until it has sent    *)
(* Ready, "ready" until it reads Start, "up", a "zombie" once it ended.    *)

\* No engine: none was built, or the worker was reaped and let go.
NoEngine ==
    [proc |-> "none", code |-> "ok", dropped |-> FALSE,
     ctrl |-> <<>>, input |-> <<>>, held |-> FALSE, writer |-> "ended",
     sock |-> <<>>, eof |-> FALSE, busy |-> <<>>, hold |-> 0,
     reader |-> "idle", at |-> 0, wedged |-> FALSE,
     screen |-> {}, size |-> 0, dirty |-> FALSE, fed |-> {}, evs |-> <<>>,
     parked |-> 0, next |-> 1, ping |-> 0, sup |-> "none", end |-> "none",
     mirror |-> {}]

\* WorkerEngine::spawn up to Hello: the process runs, its PTY dup on the way.
Spawning(size) == [NoEngine EXCEPT !.proc = "hello", !.size = size]

\* The hold id of a worker that is gone.
Gone == -1

Alive(e) == e.proc \in {"hello", "ready", "up"}

\* Its one thread reads on in feed_available: the shell writes without a pause.
Feeding(e) == e.proc = "up" /\ ~e.wedged /\ e.reader = "feeding"

Runs(e) == e.proc = "up" /\ ~e.wedged /\ e.reader # "feeding"

Full == Len(pty.stdin) >= InCap

\* What a worker killed, crashed or exited leaves: a process to reap, and
\* the events that had reached its socket.
Ended(e, code, sent) ==
    [e EXCEPT !.proc = "zombie", !.code = code, !.sock = <<>>,
              !.busy = <<>>, !.hold = 0, !.reader = "idle", !.at = 0,
              !.wedged = FALSE, !.screen = {}, !.dirty = FALSE, !.fed = {},
              !.evs = SubSeq(@, 1, sent)]

-----------------------------------------------------------------------------
(* Spawning a worker.                                                      *)

\* The worker checks Hello, adopts the PTY, builds its emulator and answers
\* Ready; it reads nothing yet.
WorkerReady(w) ==
    /\ en[w].proc = "hello"
    /\ en' = [en EXCEPT ![w].proc = "ready"]
    /\ UNCHANGED <<scenario, left, pty, pane, rec, ho, client, input, lapses>>

\* handshake: Ready in time and of this build's version, so Start is sent;
\* WorkerEngine::spawn then starts the writer and the supervisor.
HandshakeOk(w) ==
    /\ en[w].proc = "ready" /\ en[w].sup = "none"
    /\ w = "cur" => rec.phase = "creating"
    /\ en' = [en EXCEPT ![w] =
                  [@ EXCEPT !.sock = <<<<"start">>>>,
                            !.writer = "open", !.sup = "serving"]]
    /\ IF rec.phase = "creating"
       THEN pane' = [pane EXCEPT !.mode = "worker"]
            /\ rec' = [rec EXCEPT !.phase = "idle"]
       ELSE pane' = pane /\ rec' = [rec EXCEPT !.phase = "spawned"]
    /\ UNCHANGED <<scenario, left, pty, ho, client, input, lapses>>

\* The handshake fails: no Ready within READY_TIMEOUT, another version, a
\* worker that died.  The worker is killed and reaped.  A pane being created
\* runs in-process; a faulted one stays faulted.
HandshakeFails(w) ==
    /\ en[w].proc \in {"hello", "ready"} /\ en[w].sup = "none"
    /\ Spend("boot")
    /\ IF rec.phase = "creating"
       THEN /\ pane' = [pane EXCEPT !.mode = "inproc"]
            /\ en' = [en EXCEPT ![w] = [NoEngine EXCEPT !.writer = "open"]]
            /\ UNCHANGED lapses
       ELSE /\ en' = [en EXCEPT ![w] = NoEngine]
            /\ Lapse({"given up"})
            /\ UNCHANGED pane
    /\ rec' = [rec EXCEPT !.phase = "idle"]
    /\ UNCHANGED <<scenario, pty, ho, client, input>>

-----------------------------------------------------------------------------
(* The daemon's side of a running worker.                                  *)

\* PaneEngine::enqueue_input: refused when the queue is full or the writer
\* is gone.
Type ==
    /\ pane.open /\ pane.mode # "none"
    /\ Spend("type")
    /\ LET n == input.typed + 1
           ok == en.cur.writer = "open" /\ Len(en.cur.input) < QueueCap
       IN  /\ en' = IF ok THEN [en EXCEPT !.cur.input = Append(@, n)] ELSE en
           /\ input' = [input EXCEPT !.typed = n,
                            !.accepted = IF ok THEN @ \cup {n} ELSE @]
    /\ UNCHANGED <<scenario, pty, pane, rec, ho, client, lapses>>

\* The worker's end of the socket is closed: a write to it fails.
Broken(e) == ~Alive(e)

WriterStops(e) ==
    [e EXCEPT !.writer = "ended", !.eof = TRUE, !.ctrl = <<>>, !.input = <<>>]

\* write_requests, one turn: control requests first, input only while no
\* hold is on, and the end when the input queue closes or a write fails.
CanWrite(e) ==
    /\ e.writer = "open" /\ e.sup # "none"
    /\ \/ e.ctrl # <<>>
       \/ ~e.held /\ (e.input # <<>> \/ e.dropped)

Written(e) ==
    IF Broken(e) \/ (e.ctrl = <<>> /\ e.input = <<>>) THEN WriterStops(e)
    ELSE IF e.ctrl # <<>>
    THEN [e EXCEPT !.sock = Append(@, Head(e.ctrl)), !.ctrl = Tail(@)]
    ELSE [e EXCEPT !.sock = Append(@, <<"input", Head(e.input)>>),
                   !.input = Tail(@)]

WriteRequest(w) ==
    /\ CanWrite(en[w])
    /\ en' = [en EXCEPT ![w] = Written(@)]
    /\ UNCHANGED <<scenario, left, pty, pane, rec, ho, client, input, lapses>>

-----------------------------------------------------------------------------
(* The worker: one thread, so the request loop and the reader take turns,  *)
(* and a wedged emulator, or a read that does not end, stops both.         *)

CanHandle_NoWait(e) == Runs(e) /\ (e.sock # <<>> \/ e.eof)

CanHandle(e) == Runs(e) /\ e.busy = <<>> /\ (e.sock # <<>> \/ e.eof)

\* request_loop and handle_request: one request, or the end of the stream.
\* An input is written to the PTY by FinishInput, which the loop waits for.
Handled(e) ==
    IF e.sock = <<>> THEN Ended(e, "ok", Len(e.evs))
    ELSE LET r == Head(e.sock)
             d == [e EXCEPT !.sock = Tail(@)]
         IN  CASE r[1] = "input"    -> [d EXCEPT !.busy = <<r[2]>>]
               [] r[1] = "ping"     -> [d EXCEPT !.evs = Append(@, <<"pong">>)]
               [] r[1] = "hold"     -> [d EXCEPT !.hold = r[2]]
               [] r[1] = "release"  -> [d EXCEPT !.hold = 0]
               [] r[1] = "resize"   -> [d EXCEPT !.size = r[2], !.dirty = TRUE]

HandleRequest(w) ==
    /\ CanHandle(en[w])
    /\ en' = [en EXCEPT ![w] = Handled(@)]
    /\ UNCHANGED <<scenario, left, pty, pane, rec, ho, client, input, lapses>>

\* A request cannot be read: the loop is over and the process exits with code 0,
\* its writer aborted with whatever it had not sent.
RequestReadError(w) ==
    /\ CanHandle(en[w]) /\ en[w].sock # <<>>
    /\ Spend("garble")
    /\ \E sent \in 0..Len(en[w].evs) :
          en' = [en EXCEPT ![w] = Ended(@, "ok", sent)]
    /\ UNCHANGED <<scenario, pty, pane, rec, ho, client, input, lapses>>

\* The daemon kept this worker: the steady state begins.
WorkerStarts(w) ==
    /\ en[w].proc = "ready" /\ en[w].sock # <<>>
    /\ en' = [en EXCEPT ![w] = [@ EXCEPT !.proc = "up", !.sock = Tail(@)]]
    /\ UNCHANGED <<scenario, left, pty, pane, rec, ho, client, input, lapses>>

CanFinish(e) == Runs(e) /\ e.busy # <<>> /\ (~Full \/ pty.child = "gone")

\* PtyWriter::write_all done: the shell has room, or is gone and the write
\* fails.
FinishInput(w) ==
    /\ CanFinish(en[w])
    /\ en' = [en EXCEPT ![w].busy = <<>>]
    /\ IF pty.child = "gone"
       THEN Lapse({"shell gone"}) /\ UNCHANGED <<pty, input>>
       ELSE /\ pty' = [pty EXCEPT !.stdin = Append(@, Head(en[w].busy))]
            /\ input' = [input EXCEPT !.written = Append(@, Head(en[w].busy))]
            /\ UNCHANGED lapses
    /\ UNCHANGED <<scenario, left, pane, rec, ho, client>>

Pending == (pty.consumed + 1)..pty.emitted

CanRead(e) ==
    /\ Runs(e) /\ e.reader = "idle" /\ e.hold = 0
    /\ Pending # {} \/ pty.child = "gone"

\* feed_available: what the PTY has ready goes to the emulator.
Fed(e) == [e EXCEPT !.screen = @ \cup Pending, !.fed = @ \cup Pending]

\* emit_diff: what was fed since the last one, or all of a screen that was resized.
EmitDiff(e) ==
    [e EXCEPT !.dirty = FALSE, !.fed = {}, !.reader = "idle",
              !.evs = Append(@, <<"diff", IF e.dirty THEN e.screen ELSE e.fed>>)]

\* pty_read_loop reads: all there is is fed under one lock and one diff
\* emitted; at the end of the PTY the shell's exit is reported and the loop
\* is over.
ReadPty(w) ==
    /\ CanRead(en[w])
    /\ IF Pending # {}
       THEN en' = [en EXCEPT ![w] = EmitDiff(Fed(@))]
       ELSE en' = [en EXCEPT ![w] =
                [@ EXCEPT !.reader = "ended", !.evs = Append(@, <<"exit">>)]]
    /\ pty' = [pty EXCEPT !.consumed = pty.emitted]
    /\ UNCHANGED <<scenario, left, pane, rec, ho, client, input, lapses>>

\* feed_available has no cap: while the shell writes as fast as it is read, the
\* loop goes on, longer than any deadline if need be, and the thread does nothing
\* else.
FloodPty(w) ==
    /\ CanRead(en[w]) /\ Pending # {}
    /\ Spend("flood")
    /\ en' = [en EXCEPT ![w] = [Fed(@) EXCEPT !.reader = "feeding"]]
    /\ pty' = [pty EXCEPT !.consumed = pty.emitted]
    /\ UNCHANGED <<scenario, pane, rec, ho, client, input, lapses>>

FeedMore(w) ==
    /\ Feeding(en[w]) /\ Pending # {}
    /\ en' = [en EXCEPT ![w] = Fed(@)]
    /\ pty' = [pty EXCEPT !.consumed = pty.emitted]
    /\ UNCHANGED <<scenario, left, pane, rec, ho, client, input, lapses>>

\* A read would block at last.
FloodEnds(w) ==
    /\ Feeding(en[w]) /\ Pending = {}
    /\ en' = [en EXCEPT ![w] = EmitDiff(@)]
    /\ UNCHANGED <<scenario, left, pty, pane, rec, ho, client, input, lapses>>

\* The emulator never returns from what it was fed.
WedgeInFeed(w) ==
    /\ CanRead(en[w]) /\ Pending # {}
    /\ Spend("wedge")
    /\ pty' = [pty EXCEPT !.consumed = pty.emitted]
    /\ en' = [en EXCEPT ![w].wedged = TRUE]
    /\ UNCHANGED <<scenario, pane, rec, ho, client, input, lapses>>

CanPark(e) ==
    /\ Runs(e)
    /\ \/ e.reader = "idle" /\ e.hold # 0
       \/ e.reader = "parked" /\ e.hold # e.at

\* park: answer the hold after every event for what was read, and read
\* nothing until it is released or replaced.
Parked(e) ==
    IF e.reader = "idle"
    THEN [e EXCEPT !.reader = "parked", !.at = e.hold,
                   !.evs = Append(@, <<"held", e.hold>>)]
    ELSE [e EXCEPT !.reader = "idle", !.at = 0]

Park(w) ==
    /\ CanPark(en[w])
    /\ en' = [en EXCEPT ![w] = Parked(@)]
    /\ UNCHANGED <<scenario, left, pty, pane, rec, ho, client, input, lapses>>

\* The worker dies: the events not yet on its socket die with it.
Crash(w) ==
    /\ en[w].proc = "up"
    /\ Spend("crash")
    /\ \E sent \in 0..Len(en[w].evs) :
          en' = [en EXCEPT ![w] = Ended(@, "bad", sent)]
    /\ UNCHANGED <<scenario, pty, pane, rec, ho, client, input, lapses>>

-----------------------------------------------------------------------------
(* The supervisor.                                                         *)

CanApply(e) ==
    \/ e.sup = "serving" /\ (e.evs # <<>> \/ e.proc = "zombie")
    \/ e.sup = "ending"

\* apply_events and handle_event: the mirror first, then the clients.
ApplyEvent(w) ==
    /\ en[w].sup = "serving" /\ en[w].evs # <<>>
    /\ LET e == Head(en[w].evs)
           d == [en[w] EXCEPT !.evs = Tail(@)]
       IN  /\ en' = [en EXCEPT ![w] =
                  CASE e[1] = "diff" -> [d EXCEPT !.mirror = @ \cup e[2]]
                    [] e[1] = "pong" -> [d EXCEPT !.ping = 0]
                    [] e[1] = "held" -> [d EXCEPT !.parked = e[2]]
                    [] e[1] = "exit" -> d]
           /\ client' = IF e[1] = "diff" /\ pane.open THEN client \cup e[2]
                        ELSE client
           /\ pane' = IF e[1] = "exit" THEN [pane EXCEPT !.exited = TRUE]
                      ELSE pane
    /\ UNCHANGED <<scenario, left, pty, rec, ho, input, lapses>>

\* The stream is over (closed, corrupt or hung): a hold stops waiting.
StreamOver(e, end) == [e EXCEPT !.sup = "ending", !.end = end, !.parked = Gone]

StreamCloses(w) ==
    /\ en[w].sup = "serving" /\ en[w].proc = "zombie" /\ en[w].evs = <<>>
    /\ en' = [en EXCEPT ![w] = StreamOver(@, "closed")]
    /\ UNCHANGED <<scenario, left, pty, pane, rec, ho, client, input, lapses>>

\* A frame failed to decode: the worker runs on, its stream cannot be
\* trusted.
StreamCorrupt(w) ==
    /\ en[w].sup = "serving" /\ en[w].proc = "up"
    /\ Spend("corrupt")
    /\ en' = [en EXCEPT ![w] = StreamOver(@, "corrupt")]
    /\ UNCHANGED <<scenario, pty, pane, rec, ho, client, input, lapses>>

\* Nothing of the engine's is left to do without the shell, a user or a
\* timer.
Settled(e) ==
    ~CanWrite(e) /\ ~CanHandle(e) /\ ~CanFinish(e) /\ ~CanRead(e)
        /\ ~CanPark(e) /\ ~CanApply(e) /\ e.proc \notin {"ready", "hello"}

\* input_blocked: the PTY takes no more input and its shell is there.
InputBlocked == Full /\ pty.child # "gone"

\* Heartbeat::check: ping when none is waited on; a ping waited on for
\* PONG_DEADLINE, not counting time the shell read no input, is a hang.
HeartbeatCheck(e) ==
    CASE e.ping = 0 ->
             [e EXCEPT !.ping = 1, !.ctrl = Append(@, <<"ping">>)]
      [] e.ping # 0 /\ InputBlocked -> [e EXCEPT !.ping = 1]
      [] e.ping >= Deadline /\ ~InputBlocked -> StreamOver(e, "hung")
      [] OTHER -> [e EXCEPT !.ping = @ + 1]

Heartbeat(w) ==
    /\ en[w].sup = "serving" /\ Settled(en[w])
    /\ en' = [en EXCEPT ![w] = HeartbeatCheck(@)]
    /\ lapses' = IF Feeding(en[w]) /\ en'[w].end = "hung"
                 THEN lapses \cup {"starved"} ELSE lapses
    /\ UNCHANGED <<scenario, left, pty, pane, rec, ho, client, input>>

EndWorker_Unkilled(w) ==
    /\ en[w].sup = "ending"
    /\ LET cause == IF en[w].end = "hung" THEN "hang" ELSE "crash"
       IN  /\ en' = [en EXCEPT ![w].sup = "done"]
           /\ rec' = [rec EXCEPT !.faults = Append(@, cause)]
           /\ lapses' = lapses \cup {"fault"}
    /\ UNCHANGED <<scenario, left, pty, pane, ho, client, input>>

EndWorker_Unreported(w) ==
    /\ en[w].sup = "ending"
    /\ LET faulted == en[w].code = "bad"
       IN  /\ en' = [en EXCEPT ![w] =
                  [Ended(@, "ok", 0) EXCEPT !.proc = "none", !.sup = "done"]]
           /\ rec' = IF faulted
                     THEN [rec EXCEPT !.faults = Append(@, "crash")] ELSE rec
           /\ lapses' = IF faulted THEN lapses \cup {"fault"} ELSE lapses
    /\ UNCHANGED <<scenario, left, pty, pane, ho, client, input>>

\* supervise after apply_events, with end_worker and reap_within: kill what
\* still runs, reap it, and report a fault unless it exited cleanly, or could not
\* be waited for.
EndWorker(w) ==
    /\ en[w].sup = "ending"
    /\ LET died  == Alive(en[w]) \/ en[w].code = "bad"
           cause == IF en[w].end = "hung" THEN "hang" ELSE "crash"
       IN  \/ /\ died
              /\ rec' = [rec EXCEPT !.faults = Append(@, cause)]
              /\ Lapse({"fault"})
              /\ UNCHANGED left
           \/ /\ \/ ~died /\ UNCHANGED left
                 \/ died /\ Spend("reap")
              /\ Lapse({"unreported"})
              /\ UNCHANGED rec
    /\ en' = [en EXCEPT ![w] =
                  [Ended(@, "ok", 0) EXCEPT !.proc = "none", !.sup = "done"]]
    /\ UNCHANGED <<scenario, pty, pane, ho, client, input>>

-----------------------------------------------------------------------------
(* The respawn of a faulted worker (app/recover.rs).                       *)

\* wait_for_pane_admission: while a handoff runs a fault waits, and once one
\* has committed it is let go.
Admitted == ho.phase = "none"

\* RestartLog::allow: each cause against its own budget.
Allowed(cause) == rec.log[cause] < MaxRestarts

\* on_worker_fault and the first half of recover_faulted_worker: the size is
\* gathered under the sessions lock, the worker spawned without it.
TakeFault ==
    /\ rec.phase = "idle" /\ rec.faults # <<>>
    /\ Admitted
    /\ LET cause == Head(rec.faults)
           taken == [rec EXCEPT !.faults = Tail(@)]
       IN  IF ~Allowed(cause)
           THEN /\ rec' = taken /\ en' = en
                /\ Lapse({"given up"})
           ELSE IF ~pane.open
           THEN rec' = [taken EXCEPT !.log[cause] = @ + 1]
                /\ UNCHANGED <<en, lapses>>
           ELSE /\ rec' = [taken EXCEPT !.log[cause] = @ + 1,
                                        !.phase = "spawning"]
                /\ en' = [en EXCEPT !.new = Spawning(pane.size)]
                /\ UNCHANGED lapses
    /\ UNCHANGED <<scenario, left, pty, pane, ho, client, input>>

\* A handoff committed: this daemon is exiting and respawns nothing.
DropFault ==
    /\ rec.phase = "idle" /\ rec.faults # <<>> /\ ho.phase = "committed"
    /\ rec' = [rec EXCEPT !.faults = Tail(@)]
    /\ UNCHANGED <<scenario, left, pty, pane, en, ho, client, input, lapses>>

\* The restart budgets' windows pass.
WindowPasses ==
    /\ Spend("window")
    /\ rec' = [rec EXCEPT !.log = [c \in DOMAIN @ |-> 0]]
    /\ UNCHANGED <<scenario, pty, pane, en, ho, client, input, lapses>>

\* The fresh engine is swapped in, unless the pane was closed meanwhile.
Swap ==
    /\ rec.phase = "spawned"
    /\ IF pane.open
       THEN /\ en' = [cur |-> en.new, new |-> NoEngine]
            /\ rec' = [rec EXCEPT !.phase = "swapped"]
       ELSE /\ en' = [en EXCEPT !.new.dropped = TRUE]
            /\ rec' = [rec EXCEPT !.phase = "idle"]
    /\ UNCHANGED <<scenario, left, pty, pane, ho, client, input, lapses>>

\* force_pane_resync takes the snapshot ...
ResyncSnapshot ==
    /\ rec.phase = "swapped"
    /\ rec' = IF pane.open
              THEN [rec EXCEPT !.phase = "resync", !.snap = en.cur.mirror]
              ELSE [rec EXCEPT !.phase = "idle"]
    /\ UNCHANGED <<scenario, left, pty, pane, en, ho, client, input, lapses>>

\* ... and sends it, with whatever the supervisor fanned out in between
\* already on the client's lane.
ResyncSend ==
    /\ rec.phase = "resync"
    /\ client' = rec.snap
    /\ rec' = [rec EXCEPT !.phase = "idle", !.snap = {}]
    /\ UNCHANGED <<scenario, left, pty, pane, en, ho, input, lapses>>

-----------------------------------------------------------------------------
(* The graceful handoff (app/migrate.rs), as this pane sees it.            *)

\* The sessions lock is free for a writer.
SessionsFree == ho.phase \notin {"asking", "releasing"} /\ rec.phase # "resync"

\* close_pane_creation: once the creations and respawns under way are done.
\* (Module Handoff has the in-process reader's hold.)
HandoffBegins ==
    /\ ho.phase = "none" /\ rec.phase = "idle" /\ pane.mode = "worker"
    /\ Spend("handoff")
    /\ ho' = [ho EXCEPT !.phase = "closed"]
    /\ UNCHANGED <<scenario, pty, pane, en, rec, client, input, lapses>>

\* hold_relays, WorkerEngine::hold_reader: input waits from here on ...
HoldInput ==
    /\ ho.phase = "closed"
    /\ IF pane.open /\ pane.mode = "worker"
       THEN /\ ho' = [phase |-> "asking", id |-> en.cur.next]
            /\ en' = [en EXCEPT !.cur.held = TRUE, !.cur.next = @ + 1]
       ELSE ho' = [ho EXCEPT !.phase = "held"] /\ en' = en
    /\ UNCHANGED <<scenario, left, pty, pane, rec, client, input, lapses>>

Ask(e, r) == IF e.writer = "open" THEN [e EXCEPT !.ctrl = Append(@, r)] ELSE e

\* ... and the worker is asked to park.
HoldAsk ==
    /\ ho.phase = "asking"
    /\ en' = [en EXCEPT !.cur = Ask(@, <<"hold", ho.id>>)]
    /\ ho' = [ho EXCEPT !.phase = "holding"]
    /\ UNCHANGED <<scenario, left, pty, pane, rec, client, input, lapses>>

Resolved_Any == en.cur.parked # 0

\* The hold resolves: parked for this very hold, or gone.
Resolved == en.cur.parked \in {ho.id, Gone}

HoldResolves ==
    /\ ho.phase = "holding" /\ Resolved
    /\ ho' = [ho EXCEPT !.phase = "held"]
    /\ UNCHANGED <<scenario, left, pty, pane, en, rec, client, input, lapses>>

\* The reader has not parked in time.
HoldTimesOut ==
    /\ ho.phase = "holding" /\ ~Resolved /\ Settled(en.cur)
    /\ ho' = [ho EXCEPT !.phase = "failed"]
    /\ UNCHANGED <<scenario, left, pty, pane, en, rec, client, input, lapses>>

\* release_relays, WorkerEngine::release_reader, when the hold timed out or
\* the handoff failed after it: Release first ...
ReleaseAsk ==
    /\ ho.phase \in {"failed", "held"}
    /\ en' = IF pane.open /\ pane.mode = "worker"
             THEN [en EXCEPT !.cur = Ask(@, <<"release">>)] ELSE en
    /\ ho' = [ho EXCEPT !.phase = "releasing"]
    /\ UNCHANGED <<scenario, left, pty, pane, rec, client, input, lapses>>

\* ... and the input after it.
ReleaseInput ==
    /\ ho.phase = "releasing"
    /\ en' = IF pane.open THEN [en EXCEPT !.cur.held = FALSE] ELSE en
    /\ ho' = [phase |-> "none", id |-> 0]
    /\ UNCHANGED <<scenario, left, pty, pane, rec, client, input, lapses>>

\* The handoff commits: quiesce_relays aborts the writer and the supervisor,
\* which closes the socket.  A supervisor that has found its worker's stream
\* bad kills it before it can be aborted.
Quiesced(e) ==
    [WriterStops(IF e.sup = "ending" /\ Alive(e) THEN Ended(e, "bad", 0) ELSE e)
        EXCEPT !.sup = "done"]

HandoffCommits ==
    /\ ho.phase = "held"
    /\ ho' = [ho EXCEPT !.phase = "committed"]
    /\ en' = IF pane.open /\ pane.mode = "worker"
             THEN [en EXCEPT !.cur = Quiesced(@)]
             ELSE en
    /\ UNCHANGED <<scenario, left, pty, pane, rec, client, input, lapses>>

-----------------------------------------------------------------------------
(* Users of the pane.                                                      *)

\* resize_emulator: the mirror is blanked at once, the worker told.
Resize ==
    /\ pane.open /\ pane.mode = "worker" /\ SessionsFree
    /\ Spend("resize")
    /\ \E size \in Sizes \ {pane.size} :
          /\ pane' = [pane EXCEPT !.size = size]
          /\ en' = [en EXCEPT !.cur = Ask([@ EXCEPT !.mirror = {}],
                                          <<"resize", size>>)]
    /\ client' = {}
    /\ UNCHANGED <<scenario, pty, rec, ho, input, lapses>>

\* close_pane: the relay is dropped, and its engine with it.
ClosePane ==
    /\ pane.open /\ pane.mode # "none" /\ SessionsFree
    /\ Spend("close")
    /\ pane' = [pane EXCEPT !.open = FALSE]
    /\ en' = [en EXCEPT !.cur.dropped = TRUE]
    /\ client' = {}
    /\ Lapse({"closed"})
    /\ UNCHANGED <<scenario, pty, rec, ho, input>>

-----------------------------------------------------------------------------
(* The shell, and the in-process engine a failed spawn falls back to.      *)

\* The shell has something to write.
ShellWrites ==
    /\ pty.child = "reads"
    /\ Spend("out")
    /\ pty' = [pty EXCEPT !.child = "writes"]
    /\ UNCHANGED <<scenario, pane, en, rec, ho, client, input, lapses>>

\* It is written once the kernel has room; until then the shell is blocked.
ShellEmits ==
    /\ pty.child = "writes" /\ Cardinality(Pending) < OutCap
    /\ pty' = [pty EXCEPT !.emitted = @ + 1, !.child = "reads"]
    /\ UNCHANGED <<scenario, left, pane, en, rec, ho, client, input, lapses>>

\* The shell reads an input and echoes it.
ShellReads ==
    /\ pty.child = "reads" /\ pty.stdin # <<>>
    /\ pty' = [pty EXCEPT !.stdin = Tail(@), !.child = "writes"]
    /\ UNCHANGED <<scenario, left, pane, en, rec, ho, client, input, lapses>>

\* The shell stops reading its input, for a while or for good.
ShellSleeps ==
    /\ pty.child = "reads"
    /\ Spend("sleep")
    /\ pty' = [pty EXCEPT !.child = "sleeps"]
    /\ UNCHANGED <<scenario, pane, en, rec, ho, client, input, lapses>>

ShellWakes ==
    /\ pty.child = "sleeps"
    /\ pty' = [pty EXCEPT !.child = "reads"]
    /\ UNCHANGED <<scenario, left, pane, en, rec, ho, client, input, lapses>>

\* The shell exits, by itself or because its pane was closed.
ShellExits ==
    /\ pty.child # "gone"
    /\ IF pane.open THEN Spend("exit") ELSE UNCHANGED left
    /\ pty' = [pty EXCEPT !.child = "gone", !.stdin = <<>>]
    /\ UNCHANGED <<scenario, pane, en, rec, ho, client, input, lapses>>

\* session_diff_loop, in the daemon.
InProcessReads ==
    /\ pane.mode = "inproc" /\ pane.open /\ Pending # {}
    /\ en' = [en EXCEPT !.cur.mirror = @ \cup Pending]
    /\ client' = client \cup Pending
    /\ pty' = [pty EXCEPT !.consumed = pty.emitted]
    /\ UNCHANGED <<scenario, left, pane, rec, ho, input, lapses>>

\* pty_input_writer, in the daemon.
InProcessWrites ==
    /\ pane.mode = "inproc" /\ pane.open /\ en.cur.input # <<>>
    /\ ~Full \/ pty.child = "gone"
    /\ en' = [en EXCEPT !.cur.input = Tail(@)]
    /\ IF pty.child = "gone"
       THEN Lapse({"shell gone"}) /\ UNCHANGED <<pty, input>>
       ELSE /\ pty' = [pty EXCEPT !.stdin = Append(@, Head(en.cur.input))]
            /\ input' = [input EXCEPT !.written = Append(@, Head(en.cur.input))]
            /\ UNCHANGED lapses
    /\ UNCHANGED <<scenario, left, pane, rec, ho, client>>

-----------------------------------------------------------------------------

Init ==
    /\ scenario \in Scenarios
    /\ left = scenario.budget
    /\ pty = [emitted |-> 0, consumed |-> 0, stdin |-> <<>>, child |-> "reads"]
    /\ pane = [open |-> TRUE, mode |-> "none", exited |-> FALSE,
               size |-> CHOOSE size \in Sizes : TRUE]
    /\ en = [cur |-> Spawning(pane.size), new |-> NoEngine]
    /\ rec = [phase |-> "creating", faults |-> <<>>, snap |-> {},
              log |-> [crash |-> 0, hang |-> 0]]
    /\ ho = [phase |-> "none", id |-> 0]
    /\ client = {}
    /\ input = [typed |-> 0, accepted |-> {}, written |-> <<>>]
    /\ lapses = {}

\* The tasks of an engine: the worker's start, its two loops, and the
\* daemon's writer and supervisor.
WorkerStart(w) == WorkerReady(w) \/ WorkerStarts(w)
RequestLoop(w) == HandleRequest(w) \/ FinishInput(w)
Reader(w) == ReadPty(w) \/ Park(w) \/ FeedMore(w)
Supervisor(w) == ApplyEvent(w) \/ StreamCloses(w) \/ EndWorker(w)
Flood(w) == FloodPty(w) \/ FloodEnds(w)
Fault(w) == WedgeInFeed(w) \/ Crash(w) \/ StreamCorrupt(w) \/ RequestReadError(w)

Respawn == TakeFault \/ DropFault \/ Swap \/ ResyncSnapshot \/ ResyncSend

HandoffStep ==
    HoldInput \/ HoldAsk \/ HoldResolves \/ HoldTimesOut \/ ReleaseInput

User == Type \/ Resize \/ ClosePane \/ HandoffBegins \/ WindowPasses

Shell == ShellWrites \/ ShellSleeps \/ ShellWakes

Next ==
    \/ \E w \in Which :
          \/ WorkerStart(w) \/ HandshakeOk(w) \/ HandshakeFails(w)
          \/ WriteRequest(w) \/ RequestLoop(w) \/ Reader(w)
          \/ Supervisor(w) \/ Heartbeat(w) \/ Flood(w) \/ Fault(w)
    \/ Respawn
    \/ HandoffStep \/ ReleaseAsk \/ HandoffCommits
    \/ User
    \/ Shell \/ ShellEmits \/ ShellReads \/ ShellExits
    \/ InProcessReads \/ InProcessWrites

\* Every task the runtimes schedule runs on; timers fire; a shell that is
\* not asleep reads and writes, and one whose pane is closed is killed.
Fairness ==
    /\ \A w \in Which :
          /\ WF_vars(WorkerStart(w)) /\ WF_vars(HandshakeOk(w))
          /\ WF_vars(WriteRequest(w)) /\ WF_vars(RequestLoop(w))
          /\ WF_vars(Reader(w)) /\ WF_vars(Supervisor(w))
          /\ WF_vars(Heartbeat(w))
    /\ WF_vars(Respawn)
    /\ WF_vars(HandoffStep) /\ WF_vars(ReleaseAsk \/ HandoffCommits)
    /\ WF_vars(ShellEmits) /\ WF_vars(ShellReads)
    /\ WF_vars(~pane.open /\ ShellExits)
    /\ WF_vars(InProcessReads) /\ WF_vars(InProcessWrites)

Spec == Init /\ [][Next]_vars /\ Fairness

-----------------------------------------------------------------------------

\* The kinds of request on their way to a worker.
OnTheWay(e) ==
    {e.ctrl[i][1] : i \in DOMAIN e.ctrl} \cup {e.sock[i][1] : i \in DOMAIN e.sock}

\* A resize has blanked the mirror and no diff has refilled it yet.
Blank(e) == e.dirty \/ "resize" \in OnTheWay(e)

\* Once a hold has resolved, the mirror the final checkpoint reads shows
\* everything the worker consumed (hold_relays: "the checkpoint holds exactly
\* the output this daemon consumed"); and a worker that fails the handshake has
\* read nothing: the in-process engine the pane falls back to shows all of its
\* output.  The code does not keep the quoted promise in two cases, which are
\* excepted.  A resize blanks the mirror at once, and the worker sends its screen
\* only with the next output: a hold that comes before it finds the mirror without
\* what was there before the resize (Blank), and shows nothing the worker's screen
\* does not.  And a worker that died, or that its supervisor gave up (its stream
\* corrupt, its pings unanswered), resolves its hold too ("a worker on its way out
\* reads nothing more", supervise): what it had read and not sent is lost.
HeldIsWhole ==
    /\ ho.phase = "held" /\ pane.open /\ Alive(en.cur) /\ en.cur.sup = "serving"
       => IF Blank(en.cur) THEN en.cur.mirror \subseteq en.cur.screen
          ELSE en.cur.mirror = en.cur.screen
    /\ pane.mode = "inproc" /\ pane.open => en.cur.mirror = 1..pty.consumed

\* No two workers read the pane's PTY at once: a faulted one is dead and
\* reaped before its successor is spawned.  And the only workers killed as hung are
\* those wedged in their emulator and those whose shell wrote without a pause
\* until the deadline ("starved": feed_available reads on and no ping is answered,
\* healthy as the worker is), never one blocked on a shell that does not read its
\* input.
OneReader ==
    /\ ~(en.cur.proc = "up" /\ en.new.proc = "up")
    /\ \A w \in Which :
          en[w].sup = "ending" /\ en[w].end = "hung" /\ Alive(en[w])
              => en[w].wedged \/ "starved" \in lapses

Waiting(e) ==
    {e.input[i] : i \in DOMAIN e.input} \cup {e.busy[i] : i \in DOMAIN e.busy}
        \cup {e.sock[i][2] : i \in {j \in DOMAIN e.sock : e.sock[j][1] = "input"}}

\* Client input reaches the PTY in the order it was typed, and what was
\* accepted is written or waits, whatever holds and releases come between,
\* until a worker faults, the shell exits or the pane closes.
InputKeepsItsOrder ==
    /\ \A i, j \in DOMAIN input.written :
          i < j => input.written[i] < input.written[j]
    /\ lapses \cap {"fault", "shell gone", "closed"} = {}
           /\ ho.phase # "committed" /\ (pane.mode = "worker" => Alive(en.cur))
       => /\ Waiting(en.cur) \cup {input.written[i] : i \in DOMAIN input.written}
                 = input.accepted
          /\ \A i \in DOMAIN input.written, n \in Waiting(en.cur) :
                input.written[i] < n

\* A pane whose worker died gets another one, until the restart budget is
\* spent or a respawn fails.  Excepted are the two ends that nobody reports
\* ("unreported"): a worker that left because it could not read a request, whose exit
\* with code 0 is taken for a clean one, and one that could not be waited for.
FaultIsMended ==
    (pane.open /\ pane.mode = "worker" /\ ~Alive(en.cur))
        ~> (Alive(en.cur) \/ ~pane.open \/ lapses \cap {"given up", "unreported"} # {}
                \/ ho.phase = "committed")
=============================================================================
