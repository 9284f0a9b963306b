------------------------------- MODULE Screen -------------------------------
(***************************************************************************)
(* One pane's screen, from the emulator to the pixels: the emulator's      *)
(* output cycle and its diffs (kmuxd/src/relay.rs), the frames on their    *)
(* way, the client's handlers (kmux-client/src/session_manager), the apply *)
(* worker that owns the client's copy (grid/apply_worker.rs), the UI       *)
(* thread's tick that takes over what the worker published, and the        *)
(* renderer's row cache (kmux-render/src/geometry.rs).                     *)
(*                                                                         *)
(* The emulator itself is a library: Feed is what it can do to its screen  *)
(* and history.  Every line printed is new (vt.next), so that a line seen  *)
(* twice, lost or brought back can be told.  Attach and the wire are as    *)
(* simple as they can be here (PaneStream.tla has their races): one FIFO   *)
(* to the client, `net`, fed by one FIFO per pane, `dat`, which what the    *)
(* control side sends may pass.                                            *)
(***************************************************************************)
EXTENDS Grid, SequencesExt

CONSTANTS ScScenarios,    \* what may happen, and how often
          LogCap,         \* diffs the daemon keeps for a resume
          DigestEvery,    \* seqnos between two digests
          BackendCap,     \* lines of history the emulator keeps
          MaxFetches      \* fetches a client makes, so that the state is finite

ASSUME ScreenAssumption == {LogCap, DigestEvery, BackendCap, MaxFetches} \subseteq Nat \ {0}

VARIABLES scScenario, scLeft,
          scLapses,       \* known causes of a difference, once they happened
          vt,             \* the emulator
          eng,            \* DiffEngine
          rel,            \* the relay loop: where it is, its seqno, whether the client is attached
          pend,           \* the diff computed and not dispatched yet: <<>> or <<it>>
          dlog,           \* DiffBuffer: the diffs kept for a resume
          dat, net, up,   \* frames: pane channel, wire to the client, wire to the daemon
          sm,             \* the client's session manager: sync state and fetch in flight
          wk,             \* the apply worker
          slot, notes,    \* what it published, what it reported
          ui,             \* the UI thread: loaded content, view, facade order
          cache,          \* SceneCache
          seen            \* history: of the flushes, the wipes, the selection, the resizes

scVars == <<scScenario, scLeft, scLapses, vt, eng, rel, pend, dlog, dat, net, up,
            sm, wk, slot, notes, ui, cache, seen>>

daemonVars == <<vt, eng, rel, pend, dlog, dat>>
clientVars == <<sm, wk, slot, notes, ui, cache>>

ScSpend(what) == scLeft[what] > 0 /\ scLeft' = [scLeft EXCEPT ![what] = @ - 1]

Rows == 2
NewRows == 3 - eng.rows        \* the other size: two rows or one

NoCache == [addr |-> 0, rows |-> <<>>, stamps |-> <<>>]

ScInit ==
    /\ scScenario \in ScScenarios
    /\ scLeft = scScenario.left
    /\ scLapses = {}
    /\ vt = [cells |-> Blanks(Rows), hist |-> <<>>, alt |-> FALSE, under |-> <<>>,
             cur |-> 0, next |-> 1]
    /\ eng = NewEngine(Rows, 1)
    /\ rel = [at |-> "read", seq |-> 1, cur |-> 0, on |-> TRUE]
    /\ pend = <<>>
    /\ dlog = <<>>
    /\ dat = <<>> /\ net = <<>> /\ up = <<>>
    /\ sm = [expect |-> 1, fetch |-> 0, rid |-> 1]
    /\ wk = [jobs |-> <<>>, batch |-> <<>>, content |-> NewContent(Rows, 1), order |-> 0,
             touched |-> FALSE, has |-> TRUE, slot |-> 1]
    /\ slot = NewContent(Rows, 1)
    /\ notes = <<>>
    /\ ui = [has |-> TRUE, slot |-> 1, addr |-> 1,
             loaded |-> NewContent(Rows, 1), view |-> NewView, order |-> 0]
    /\ cache = NoCache
    /\ seen = [hist |-> <<>>, wiped |-> 0, gen |-> 0, held |-> 0, sent |-> <<>>,
            cur |-> NoTotal]

-----------------------------------------------------------------------------
(* The emulator (external) *)

\* The program prints on the row, over and over a new line.
Printed(v, r) == [v EXCEPT !.cells[r] = v.next, !.next = @ + 1]

\* The screen moves up; a line of the main screen goes to the history.
Scrolled(v) ==
    LET n == Len(v.cells)
        all == Append(v.hist, <<v.cells[1]>>)
        new == Append(Tail(v.cells), v.next)
    IN  IF v.alt THEN [v EXCEPT !.cells = new, !.next = @ + 1]
        ELSE [v EXCEPT !.cells = new, !.next = @ + 1,
                       !.hist = SubSeq(all, Most(0, Len(all) - BackendCap) + 1, Len(all))]

Erased(v) == [v EXCEPT !.cells = Blanks(Len(v.cells))]
CursorMoved(v) == [v EXCEPT !.cur = 1 - @]
Wiped(v) == IF v.alt THEN v ELSE [v EXCEPT !.hist = <<>>]
Restarted(v) == [v EXCEPT !.cells = Blanks(Len(v.cells)), !.hist = <<>>, !.alt = FALSE,
                          !.under = <<>>, !.cur = 0]
Flipped(v) == IF v.alt THEN [v EXCEPT !.alt = FALSE, !.cells = v.under, !.under = <<>>]
              ELSE [v EXCEPT !.alt = TRUE, !.under = v.cells, !.cells = Blanks(Len(v.cells))]

Output(v, op) ==
    CASE op = "print" -> Printed(v, 1)
      [] op = "last" -> Printed(v, Len(v.cells))
      [] op = "scroll" -> Scrolled(v)
      [] op = "erase" -> Erased(v)
      [] op = "cursor" -> CursorMoved(v)
      [] op = "wipe" -> Wiped(v)
      [] op = "restart" -> Restarted(v)
      [] op = "flip" -> Flipped(v)

\* A page of the main screen takes another number of rows: a blank last row
\* goes first, then the top row moves to the history; a row more comes back
\* from there.
Reflowed(cells, hist, rows) ==
    CASE rows < Len(cells) /\ Last(cells) = Blank -> [cells |-> Front(cells), hist |-> hist]
      [] rows < Len(cells) /\ Last(cells) # Blank ->
            [cells |-> Tail(cells), hist |-> Append(hist, <<cells[1]>>)]
      [] rows > Len(cells) /\ hist # <<>> -> [cells |-> Last(hist) \o cells, hist |-> Front(hist)]
      [] rows > Len(cells) /\ hist = <<>> -> [cells |-> Append(cells, Blank), hist |-> hist]
      [] rows = Len(cells) -> [cells |-> cells, hist |-> hist]

Resized(v, rows) ==
    LET main == Reflowed(IF v.alt THEN v.under ELSE v.cells, v.hist, rows)
        other == IF rows < Len(v.cells) THEN SubSeq(v.cells, 1, rows)
                 ELSE v.cells \o Blanks(rows - Len(v.cells))
    IN  IF v.alt THEN [v EXCEPT !.cells = other, !.under = main.cells, !.hist = main.hist]
        ELSE [v EXCEPT !.cells = main.cells, !.hist = main.hist]

-----------------------------------------------------------------------------
(* The daemon *)

\* session_diff_loop, feed_capped: one read, with what more is there, goes
\* into the emulator under one lock.
Feed(burst) ==
    /\ rel.at = "read"
    /\ Len(burst) <= scScenario.burst
    /\ scLeft.out >= Len(burst)
    /\ scLeft' = [scLeft EXCEPT !.out = @ - Len(burst)]
    /\ vt' = FoldLeft(Output, vt, burst)
    /\ rel' = [rel EXCEPT !.at = "compute"]
    /\ UNCHANGED <<scScenario, scLapses, eng, pend, dlog, dat, net, up, clientVars, seen>>

\* The emulator's history went another way than growing, and by its size
\* alone the engine cannot tell.
Unseen ==
    /\ ~vt.alt
    /\ ~IsPrefix(seen.hist, vt.hist)
    /\ eng.saved # NoTotal \/ Len(vt.hist) >= eng.hist

\* A cell of the snapshot sent after a resize is blank now: to the engine,
\* which compares with a blank screen then, nothing changed.
ErasedSince ==
    \E i \in 1..Len(seen.sent) : seen.sent[i] # Blank /\ vt.cells[i] = Blank

\* flush_cell_diff, first half: the diff is computed under the lock.
Compute ==
    /\ rel.at = "compute"
    /\ \E r \in {ComputeDiff(eng, vt)} :
        /\ eng' = r.eng
        /\ pend' = <<r>>
        /\ seen' = [seen EXCEPT !.hist = IF vt.alt THEN @ ELSE vt.hist,
                                !.wiped = IF r.diff.reset # NoTotal THEN r.diff.reset ELSE @,
                                !.sent = <<>>]
    /\ rel' = [rel EXCEPT !.at = "dispatch"]
    /\ scLapses' = scLapses \cup (IF Unseen THEN {"unseen"} ELSE {})
                            \cup (IF ErasedSince THEN {"erased"} ELSE {})
    /\ UNCHANGED <<scScenario, scLeft, vt, dlog, dat, net, up, clientVars>>

UpdateFrame(diff, seq) == [kind |-> "diff", seq |-> seq, diff |-> diff]
AppendFrame(diff, lines, seq) ==
    [kind |-> "append", seq |-> seq, first |-> diff.total - Len(lines), lines |-> lines]
CursorFrame(cur, seq) == [kind |-> "cursor", seq |-> seq, cur |-> cur]
DigestFrame(seq) == [kind |-> "digest", seq |-> seq, hash |-> LiveDigest(Snapshot(eng, vt))]
SnapshotFrame(snap, seq) == [kind |-> "snapshot", seq |-> seq, snap |-> snap]

DigestDue(seq) == seq % DigestEvery = 0

\* New lines go out before the screen that lost them; after a wipe the wipe
\* goes first.
CellFrames(r, seq) ==
    LET lines == r.lines # <<>>
        wiped == r.diff.reset # NoTotal
    IN  CASE lines /\ wiped -> <<UpdateFrame(r.diff, seq), AppendFrame(r.diff, r.lines, seq + 1)>>
          [] lines /\ ~wiped -> <<AppendFrame(r.diff, r.lines, seq), UpdateFrame(r.diff, seq + 1)>>
          [] ~lines -> <<UpdateFrame(r.diff, seq)>>

\* The seqno of the update among a diff's frames.
UpdateSeq(frames) == (CHOOSE f \in Range(frames) : f.kind = "diff").seq

Kept(log) == SubSeq(log, Most(0, Len(log) - LogCap) + 1, Len(log))
Broadcast(frames) == dat' = IF rel.on THEN dat \o frames ELSE dat

\* Nothing goes out, and the snapshot sent after a resize has another cursor: the
\* engine compares with a cursor at home then, the relay with the one before.
CursorMissed(r) == seen.cur \notin {NoTotal, r.diff.cur}

\* dispatch_diff_result.  A digest is taken of the emulator as it is then.
Dispatch ==
    /\ rel.at = "dispatch"
    /\ \E r \in {pend[1]} :
        CASE r.kind = "cells" ->
               \E frames \in {CellFrames(r, rel.seq)} :
                \E u \in {UpdateSeq(frames)} :
                 /\ Broadcast(frames \o (IF DigestDue(u) THEN <<DigestFrame(u)>> ELSE <<>>))
                 /\ dlog' = Kept(Append(dlog, [seq |-> u, diff |-> r.diff]))
                 /\ rel' = [rel EXCEPT !.at = "read", !.seq = @ + Len(frames), !.cur = r.diff.cur]
                 /\ seen' = [seen EXCEPT !.cur = NoTotal]
                 /\ UNCHANGED scLapses
          [] r.kind = "cursor" /\ r.diff.cur # rel.cur ->
               /\ Broadcast(<<CursorFrame(r.diff.cur, rel.seq)>> \o
                    (IF DigestDue(rel.seq) THEN <<DigestFrame(rel.seq)>> ELSE <<>>))
               /\ dlog' = Kept(Append(dlog, [seq |-> rel.seq, diff |-> r.diff]))
               /\ rel' = [rel EXCEPT !.at = "read", !.seq = @ + 1, !.cur = r.diff.cur]
               /\ seen' = [seen EXCEPT !.cur = NoTotal]
               /\ UNCHANGED scLapses
          [] OTHER ->
               /\ rel' = [rel EXCEPT !.at = "read"]
               /\ scLapses' = IF CursorMissed(r) THEN scLapses \cup {"cursor"} ELSE scLapses
               /\ UNCHANGED <<dlog, dat, seen>>
    /\ pend' = <<>>
    /\ UNCHANGED <<scScenario, scLeft, vt, eng, net, up, clientVars>>

Label == rel.seq - 1

\* A message of the control side goes out behind as much of the pane's channel
\* as its stream has passed on by then.
SendPast(msgs, rest) ==
    \E k \in 0..Len(dat) :
        /\ net' = net \o SubSeq(dat, 1, k) \o msgs
        /\ dat' = rest[k]

\* apply_effective_size and broadcast_resize: the new size is told past the
\* pane's channel, the snapshot goes through it.
Resize ==
    /\ ScSpend("resize")
    /\ \E v \in {Resized(vt, IF scScenario.wide THEN eng.rows ELSE NewRows)} :
        /\ vt' = v
        /\ eng' = ResizeEngine(eng, vt, v, Len(v.cells), 1)
        /\ seen' = [seen EXCEPT !.hist = v.hist, !.sent = v.cells, !.cur = v.cur]
        /\ scLapses' = scLapses
             \cup (IF vt.alt THEN {"resized in alt"} ELSE {})
             \cup (IF ~IsPrefix(seen.hist, vt.hist) \/ v.hist # vt.hist THEN {"resized"} ELSE {})
             \cup (IF pend # <<>> THEN {"crossed"} ELSE {})
    /\ IF rel.on
       THEN SendPast(<<[kind |-> "resized", rows |-> eng'.rows]>>,
                     [k \in 0..Len(dat) |-> Append(SubSeq(dat, k + 1, Len(dat)),
                                                SnapshotFrame(Snapshot(eng', vt'), Label))])
       ELSE UNCHANGED <<net, dat>>
    /\ UNCHANGED <<scScenario, rel, pend, dlog, up, clientVars>>

\* compute_replay: what a client that has seen everything up to `last` is sent.
Replay(last) ==
    LET full == SnapshotFrame(Snapshot(eng, vt), Label)
        missed == SelectSeq(dlog, LAMBDA e : e.seq > last)
    IN  CASE last = NoTotal -> <<full>>
          [] last # NoTotal /\ (last > Label \/ dlog = <<>> \/ last < dlog[1].seq) ->
                <<[kind |-> "reset"], full>>
          [] OTHER -> [i \in 1..Len(missed) |-> UpdateFrame(missed[i].diff, missed[i].seq)]

\* attach: the pane's channel starts over behind the replay.
HandleAttach ==
    /\ up # <<>> /\ Head(up).kind = "attach"
    /\ SendPast(Replay(Head(up).last), [k \in 0..Len(dat) |-> <<>>])
    /\ rel' = [rel EXCEPT !.on = TRUE]
    /\ up' = Tail(up)
    /\ UNCHANGED <<scScenario, scLeft, scLapses, vt, eng, pend, dlog, clientVars, seen>>

\* on_fetch_history: answered past the pane's channel.
HandleFetch ==
    /\ up # <<>> /\ Head(up).kind = "fetch"
    /\ \E m \in {MirrorRange(eng.mirror, Head(up).start, Head(up).count)} :
        SendPast(<<[kind |-> "history", rid |-> Head(up).rid, first |-> m.first,
                    lines |-> m.lines]>>,
                 [k \in 0..Len(dat) |-> SubSeq(dat, k + 1, Len(dat))])
    /\ up' = Tail(up)
    /\ UNCHANGED <<scScenario, scLeft, scLapses, vt, eng, rel, pend, dlog, clientVars, seen>>

-----------------------------------------------------------------------------
(* The client's handlers, on the UI thread.  A handler works on what it
   changes: sync state, facade order, jobs for the worker, messages sent. *)

Hands == [sm |-> sm, order |-> ui.order, jobs |-> wk.jobs, up |-> up]

\* The facade numbers every job but a digest check.
Enqueue(h, job) ==
    [h EXCEPT !.jobs = Append(@, [job EXCEPT !.order = h.order]), !.order = @ + 1]

Job(kind) == [kind |-> kind, order |-> 0]

AttachWith(h, last) ==
    [h EXCEPT !.sm.fetch = 0, !.up = Append(@, [kind |-> "attach", last |-> last])]

AttachFresh(h) == AttachWith([h EXCEPT !.sm.expect = NoTotal], NoTotal)

\* Out of step: blank the pane and start over.
StartOver(h) == AttachFresh(Enqueue(h, Job("clear")))

MarkSynced(h, seq) == [h EXCEPT !.sm.expect = seq + 1]

\* maybe_fetch_history looks at the content loaded at the last tick.
MaybeFetch(h) ==
    LET have == Total(ui.loaded.back)
    IN  IF h.sm.fetch # 0 \/ ~HasGap(ui.loaded) \/ h.sm.rid > MaxFetches THEN h
        ELSE [h EXCEPT !.sm.fetch = h.sm.rid, !.sm.rid = @ + 1,
                       !.up = Append(@, [kind |-> "fetch", rid |-> h.sm.rid, start |-> have,
                                         count |-> Least(ui.loaded.want - have, FetchChunk)])]

\* check_pane_sync: a pane that waits for its snapshot takes nothing else; a
\* frame out of step makes it wait.
InStep(h, seq, then) ==
    CASE h.sm.expect = NoTotal -> h
      [] h.sm.expect # NoTotal /\ seq # h.sm.expect -> StartOver(h)
      [] h.sm.expect # NoTotal /\ seq = h.sm.expect -> then

OnSnapshot(h, m) ==
    MarkSynced(Enqueue(h, Job("snapshot") @@ [snap |-> m.snap]), m.seq)

OnDiff(h, m) ==
    InStep(h, m.seq, MaybeFetch(MarkSynced(Enqueue(h, Job("diff") @@ [diff |-> m.diff]), m.seq)))

OnCursor(h, m) ==
    InStep(h, m.seq, MarkSynced(Enqueue(h, Job("cursor") @@ [cur |-> m.cur]), m.seq))

OnAppend(h, m) ==
    InStep(h, m.seq, MaybeFetch(MarkSynced(
        Enqueue(h, Job("append") @@ [first |-> m.first, lines |-> m.lines]), m.seq)))

OnHistory(h, m) ==
    LET told == Enqueue(h, Job("history") @@ [first |-> m.first, lines |-> m.lines])
    IN  MaybeFetch([told EXCEPT !.sm.fetch = IF @ = m.rid THEN 0 ELSE @])

OnResized(h, m) == Enqueue(h, Job("resize") @@ [rows |-> m.rows])

OnReset(h) == [Enqueue(h, Job("clear")) EXCEPT !.sm.fetch = 0, !.sm.expect = NoTotal]

\* Only a pane exactly at the digest's seqno is checked.
OnDigest(h, m) ==
    IF h.sm.expect # NoTotal /\ h.sm.expect = m.seq + 1
    THEN [h EXCEPT !.jobs = Append(@, Job("digest") @@ [hash |-> m.hash])]
    ELSE h

Handle(h, m) ==
    CASE m.kind = "snapshot" -> OnSnapshot(h, m)
      [] m.kind = "diff" -> OnDiff(h, m)
      [] m.kind = "cursor" -> OnCursor(h, m)
      [] m.kind = "append" -> OnAppend(h, m)
      [] m.kind = "history" -> OnHistory(h, m)
      [] m.kind = "resized" -> OnResized(h, m)
      [] m.kind = "reset" -> OnReset(h)
      [] m.kind = "digest" -> OnDigest(h, m)

Put(h) ==
    /\ sm' = h.sm
    /\ wk' = [wk EXCEPT !.jobs = h.jobs]
    /\ up' = h.up

\* The next message: what the control side sent has passed the channel.
Incoming == Head(net \o dat)

Receive ==
    /\ ui.has
    /\ net \o dat # <<>>
    /\ \E h \in {Handle(Hands, Incoming)} : Put(h) /\ ui' = [ui EXCEPT !.order = h.order]
    /\ net' = IF net # <<>> THEN Tail(net) ELSE net
    /\ dat' = IF net # <<>> THEN dat ELSE Tail(dat)
    /\ UNCHANGED <<scScenario, scLeft, scLapses, vt, eng, rel, pend, dlog, slot, notes, cache, seen>>

\* What one note does: to the view, or to the pane's stream.
Noted(a, n) ==
    IF n.kind = "effect" THEN [a EXCEPT !.view = ApplyEffect(@, n.effect)]
    ELSE [a EXCEPT !.hands = StartOver(@)]

\* drain_apply_notes.
Drained == FoldLeft(Noted, [view |-> ui.view, hands |-> Hands], IF ui.has THEN notes ELSE <<>>)

\* build_scene_cached: the live rows whose stamp is the cached one are not
\* built again.  A scrolled pane is built whole and its rows forgotten.
BuiltRows(old, c, view) ==
    LET kept == old.addr = ui.addr /\ Len(old.rows) = c.rows
    IN  IF ~ui.has \/ view.offset > 0 THEN NoCache
        ELSE [addr |-> ui.addr, stamps |-> c.stamps,
              rows |-> [r \in 1..c.rows |->
                IF kept /\ old.stamps[r] = c.stamps[r] THEN old.rows[r] ELSE c.cells[r]]]

\* A tick of the UI thread: refresh_buffers takes over what was published last,
\* drain_apply_notes does what the worker asked for, and a frame is drawn.  The
\* worker may run at any time in between; since it reports before it
\* publishes, what it does after the refresh looks the same when it comes
\* after the tick.
Tick ==
    /\ \E a \in {Drained} :
        /\ Put(a.hands)
        /\ ui' = [ui EXCEPT !.loaded = IF ui.has THEN slot ELSE @, !.view = a.view,
                            !.order = a.hands.order]
        /\ cache' = BuiltRows(cache, ui'.loaded, a.view)
    /\ notes' = <<>>
    /\ seen' = [seen EXCEPT !.gen = IF notes = <<>> THEN @ ELSE Last(notes).gen]
    /\ scLapses' = scLapses
         \cup (IF \E n \in Range(notes) : n.kind = "effect" /\ n.effect.evicted > 0
               THEN {"evicted"} ELSE {})
         \cup (IF \E n \in Range(notes) : n.kind = "effect" /\ n.effect.fix = "cleared"
               THEN {"emptied"} ELSE {})
    /\ UNCHANGED <<scScenario, scLeft, daemonVars, net, slot>>

\* The worker's note was drained, and the content it was about is not loaded.
Between == seen.gen > ui.loaded.gen \/ notes # <<>>

\* The user scrolls, or selects the two rows shown.
Scroll ==
    /\ ui.has
    /\ ScSpend("view")
    /\ \E v \in {ScrolledUp(ui.view, 1, ui.loaded), ScrolledDown(ui.view, 1)} :
        v # ui.view /\ ui' = [ui EXCEPT !.view = v]
    /\ scLapses' = scLapses \cup (IF Between THEN {"acted between"} ELSE {})
    /\ UNCHANGED <<scScenario, daemonVars, net, up, sm, wk, slot, notes, cache, seen>>

Select ==
    /\ ui.has
    /\ ui.loaded.rows = Rows
    /\ ScSpend("view")
    /\ \E sel \in {[anchor |-> VisibleToAbs(ui.loaded, ui.view, 0, 0),
                    end |-> VisibleToAbs(ui.loaded, ui.view, 1, 0)]} :
        /\ ui' = [ui EXCEPT !.view.sel = sel]
        /\ seen' = [seen EXCEPT !.held = sel.anchor.row - Len(ui.loaded.back.lines)]
    /\ scLapses' = scLapses \cup (IF Between THEN {"acted between"} ELSE {})
    /\ UNCHANGED <<scScenario, daemonVars, net, up, sm, wk, slot, notes, cache>>

\* The pane goes out of sight and is forgotten; when it is shown again it is
\* registered anew and attached.  Its grid may lie where the old one lay.
ForgetPane ==
    /\ ui.has
    /\ ScSpend("forget")
    /\ ui' = [ui EXCEPT !.has = FALSE]
    /\ wk' = [wk EXCEPT !.jobs = Append(@, Job("forget"))]
    /\ sm' = [sm EXCEPT !.fetch = 0, !.expect = NoTotal]
    /\ net' = <<>> /\ up' = <<>> /\ dat' = <<>>
    /\ rel' = [rel EXCEPT !.on = FALSE]
    /\ UNCHANGED <<scScenario, scLapses, vt, eng, pend, dlog, slot, notes, cache, seen>>

EnsurePane ==
    /\ ~ui.has
    /\ \E addr \in {ui.addr, 3 - ui.addr} :
        /\ ui' = [ui EXCEPT !.has = TRUE, !.addr = addr, !.slot = @ + 1, !.order = 0,
                            !.loaded = NewContent(Rows, 1), !.view = NewView]
        /\ scLapses' = scLapses \cup (IF addr = cache.addr THEN {"same address"} ELSE {})
    /\ slot' = NewContent(Rows, 1)
    /\ wk' = [wk EXCEPT !.jobs = Append(@, Job("register") @@ [slot |-> ui'.slot])]
    /\ sm' = [sm EXCEPT !.expect = NoTotal, !.fetch = 0]
    /\ up' = Append(up, [kind |-> "attach", last |-> NoTotal])
    /\ seen' = [seen EXCEPT !.gen = 0]
    /\ UNCHANGED <<scScenario, scLeft, daemonVars, net, notes, cache>>

\* The link breaks: what was on it is gone; the client attaches again on the
\* next one, from where it was if it was in step.
LoseLink ==
    /\ rel.on /\ ui.has
    /\ ScSpend("link")
    /\ rel' = [rel EXCEPT !.on = FALSE]
    /\ net' = <<>> /\ up' = <<>> /\ dat' = <<>>
    /\ UNCHANGED <<scScenario, scLapses, vt, eng, pend, dlog, clientVars, seen>>

ResumePane ==
    /\ ui.has
    /\ ~rel.on /\ up = <<>>
    /\ \E h \in {IF sm.expect # NoTotal THEN AttachWith(Hands, sm.expect - 1)
                 ELSE AttachFresh(Hands)} : Put(h)
    /\ UNCHANGED <<scScenario, scLeft, scLapses, daemonVars, net, slot, notes, ui, cache, seen>>

-----------------------------------------------------------------------------
(* The apply worker *)

Effect(eff, gen) ==
    IF eff = NoEffect THEN <<>> ELSE <<[kind |-> "effect", effect |-> eff, gen |-> gen]>>

\* What a job does to the content.
Applied(c, job) ==
    CASE job.kind = "snapshot" -> ApplySnapshot(c, job.snap)
      [] job.kind = "diff" -> ApplyDiff(c, job.diff)
      [] job.kind = "cursor" -> ApplyCursor(c, job.cur)
      [] job.kind = "append" -> ApplyAppend(c, job.first, job.lines)
      [] job.kind = "history" -> ApplyHistory(c, job.first, job.lines)
      [] job.kind = "clear" -> ClearContent(c)
      [] job.kind = "resize" -> ResizeContent(c, job.rows, 1)

\* A pane with a gap to fill is not held to the digest.
Mismatch(c, hash) == ~HasGap(c) /\ LiveDigest(ToSnapshot(c)) # hash

Batch == IF wk.batch # <<>> THEN wk.batch ELSE wk.jobs

\* run and apply_job: the worker takes what is queued as one batch.
ApplyJob ==
    /\ wk.batch # <<>> \/ (wk.jobs # <<>> /\ ~wk.touched)
    /\ \E job \in {Head(Batch)} :
       \E w \in {[wk EXCEPT !.batch = Tail(Batch),
                            !.jobs = IF wk.batch # <<>> THEN @ ELSE <<>>]} :
        CASE job.kind = "register" ->
               /\ wk' = [w EXCEPT !.content = NewContent(Rows, 1), !.order = 0, !.has = TRUE,
                                  !.slot = job.slot]
               /\ UNCHANGED notes
          [] job.kind = "forget" ->
               /\ wk' = [w EXCEPT !.has = FALSE, !.touched = FALSE, !.content = NewContent(Rows, 1)]
               /\ UNCHANGED notes
          [] job.kind = "digest" ->
               /\ wk' = w
               /\ notes' = IF wk.has /\ Mismatch(wk.content, job.hash)
                           THEN Append(notes, [kind |-> "mismatch", gen |-> wk.content.gen])
                           ELSE notes
          [] job.kind \notin {"register", "forget", "digest"} ->
               \E a \in {Applied(wk.content, job)} :
                /\ wk' = [w EXCEPT !.content = a.content, !.touched = TRUE,
                                   !.order = job.order + 1]
                /\ notes' = notes \o Effect(a.effect, a.content.gen)
    /\ UNCHANGED <<scScenario, scLeft, scLapses, daemonVars, net, up, sm, slot, ui, cache, seen>>

\* At the end of a batch the content is published, to the slot it was
\* registered with.
Publish ==
    /\ wk.batch = <<>> /\ wk.touched
    /\ wk' = [wk EXCEPT !.touched = FALSE]
    /\ slot' = IF wk.slot = ui.slot THEN wk.content ELSE slot
    /\ UNCHANGED <<scScenario, scLeft, scLapses, daemonVars, net, up, sm, notes, ui, cache, seen>>

-----------------------------------------------------------------------------
Bursts == UNION {[1..n -> scScenario.ops] : n \in 1..2}

ScNext ==
    \/ \E burst \in Bursts : Feed(burst)
    \/ Compute \/ Dispatch \/ Resize \/ HandleAttach \/ HandleFetch
    \/ Receive \/ Tick \/ Scroll \/ Select
    \/ ForgetPane \/ EnsurePane \/ LoseLink \/ ResumePane
    \/ ApplyJob \/ Publish

ScSpec == ScInit /\ [][ScNext]_scVars

-----------------------------------------------------------------------------
(* Properties *)

\* Nothing is on its way between the emulator and the screen.
Quiet ==
    /\ rel.at = "read" /\ rel.on
    /\ dat = <<>> /\ net = <<>> /\ up = <<>>
    /\ ui.has /\ sm.expect # NoTotal
    /\ wk.batch = <<>> /\ wk.jobs = <<>> /\ ~wk.touched
    /\ notes = <<>> /\ ui.loaded = slot

\* When nothing is on its way the client has the emulator's screen and cursor,
\* the rows drawn are those (a row kept from the last frame has not changed),
\* and without a gap left to fill its history reaches as far as the daemon's;
\* whatever was coalesced, dropped, replayed or started over before.  Except
\* that a diff computed before a resize and sent after it writes the old
\* screen's rows over the new one, that what is erased between a resize and
\* the next diff is not in that diff, that neither is a cursor moved home, or
\* back to where the relay last sent it, by then, and that a new grid may lie
\* where the one cached lay (diff_engine/mod.rs resize, relay.rs
\* flush_cell_diff, content.rs row_gens, geometry.rs build_scene_cached).
ScreenFollows ==
    Quiet =>
        /\ \/ ui.loaded.cells = vt.cells /\ ui.loaded.rows = eng.rows
           \/ scLapses \cap {"crossed", "erased"} # {}
        /\ ui.loaded.cur = vt.cur \/ scLapses \cap {"crossed", "cursor"} # {}
        /\ (cache.addr = ui.addr /\ "same address" \notin scLapses) =>
                cache.rows = ui.loaded.cells
        /\ ~HasGap(ui.loaded) => Total(ui.loaded.back) = Total(eng.mirror)

LineOf(b, i) == b.lines[i - b.base + 1]
Holds(b) == b.base..(Total(b) - 1)

\* The history is true at every stage.  After each diff the mirror holds what
\* the emulator's history holds, each line once, oldest first: through
\* scrolling, wipes and the alternate screen (compute.rs).  An absolute index
\* is one line for ever: every line a client holds is the one the daemon's
\* mirror has under that index, through evictions, wipes, fetches and fresh
\* starts; and once nothing is on its way no client holds a line of before a
\* wipe (mirror.rs reset, scrollback.rs, content.rs apply_diff, apply_snapshot).
\* The engine only compares sizes: a history wiped and grown again within one
\* diff, or full, goes by unseen; and a resize makes it take what the reflow
\* moved as sent, and forget the size it saved on entering the alternate screen.
HistoryIsTrue ==
    /\ (rel.at = "read" /\ scLapses \cap {"unseen", "resized", "resized in alt"} = {}) =>
          LET n == Len(seen.hist)
          IN  eng.mirror.lines = SubSeq(seen.hist, Most(0, n - MirrorCap) + 1, n)
    /\ \A i \in Holds(wk.content.back) \cap Holds(eng.mirror) :
          LineOf(wk.content.back, i) = LineOf(eng.mirror, i)
    /\ (Quiet /\ ui.loaded.back.lines # <<>>) => ui.loaded.back.base >= seen.wiped

\* A selection stays where it was made, the same distance from the live
\* screen's first row, while lines are appended below it, and the view is
\* never scrolled past the oldest line there is (view.rs apply_effect).  Lines
\* evicted move the selection; a buffer emptied by an append that does not
\* join on leaves the view scrolled (content.rs apply_scrollback_append); and
\* what the user does after the worker's note was drained and before the
\* content it was about is loaded is off by it.
ViewStays ==
    (Quiet /\ "acted between" \notin scLapses) =>
        /\ (ui.view.sel # NoSelection /\ "evicted" \notin scLapses) =>
              ui.view.sel.anchor.row - Len(ui.loaded.back.lines) = seen.held
        /\ "emptied" \notin scLapses =>
              ui.view.offset <= TotalDisplayRows(ui.loaded.back.lines, ui.loaded.cols)

=============================================================================
