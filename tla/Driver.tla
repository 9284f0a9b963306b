------------------------------- MODULE Driver -------------------------------
(***************************************************************************)
(* A frontend's link to its local daemon, as the driver keeps it up: the   *)
(* pump, the reconnect schedule, the input held during an outage, and what *)
(* is re-asserted on the next link (panes, sizes, pause, remotes).         *)
(*                                                                         *)
(* The UI thread owns `ui`: one pump iteration (tick_at) is one step, the  *)
(* handlers it calls composed in the order of the code, and so is each     *)
(* thing the user does.  A bootstrap runs beside it and hands its outcome  *)
(* over in a channel.  Bootstrap g makes the server channel, the outcome   *)
(* channel and the link g: the UI only reads those of its last bootstrap,  *)
(* and an older link may live on, since the task that forwards its frames  *)
(* holds a sender of it.                                                   *)
(*                                                                         *)
(* The daemon is a `run` number (0 when it is down) with what it knows of  *)
(* this client: the pane's viewer, the input it was handed, the remote.    *)
(***************************************************************************)
EXTENDS Integers, Sequences, FiniteSets, FiniteSetsExt, SequencesExt, TLC

CONSTANTS
  MaxGen,     \* bootstraps
  Capacity,   \* OUTAGE_INPUT_CAPACITY
  MaxAge,     \* OUTAGE_INPUT_MAX_AGE
  Silence,    \* SILENCE_TIMEOUT
  Batches,    \* keystrokes in one input message
  Sizes,      \* window sizes
  Scenarios   \* bounds: what the user, the daemon and the network do, and how often

ASSUME ConstantsAssumption ==
  /\ MaxGen \in Nat \ {0} /\ Capacity \in Nat /\ MaxAge \in Nat /\ Silence \in Nat
  /\ Batches \subseteq Nat \ {0} /\ IsFiniteSet(Sizes)

Gens == 1 .. MaxGen
NoLink == 0
Never == -1

VARIABLES
  scenario, \* [local: the daemon is, desired: --server names the peer, peer_errors: does a
            \*  failed opening name it, left: see left]
  left,     \* what the scenario still allows
  now,      \* the clock
  ui,       \* the driver, its AppCore and its SessionManager
  links,    \* per bootstrap: its task, its link, and the frames on it
  host,     \* the local daemon
  past,     \* for the properties: the input typed, sent, handled, and where the outage began
  lapses    \* for the properties: what excuses one

vars == <<scenario, left, now, ui, links, host, past, lapses>>

Spend(what) == left[what] > 0 /\ left' = [left EXCEPT ![what] = @ - 1]

(***************************************************************************)
(* SessionManager: what a handler sends goes out on the link in use.       *)
(***************************************************************************)

Live(u) == u.conn = "connected"

\* send_ws: without a sender the message is gone.
Send(u, m) == [u EXCEPT !.out = IF u.ws = NoLink THEN @ ELSE Append(@, [to |-> u.ws, m |-> m])]

\* attach_with, and the exemption re-asserted behind it.
AttachWith(u, from) ==
  LET sent == Send(u, [type |-> "attach", from |-> from, size |-> u.term])
  IN IF u.exempt THEN Send(sent, [type |-> "exempt", on |-> TRUE]) ELSE sent

AttachFresh(u) == AttachWith([u EXCEPT !.sync = "awaiting", !.synced = 0], 0)

LinkReachedSameDaemon(u) == u.instance # 0 /\ u.instance = u.previous

ResumeVisiblePanes(u) ==
  IF ~u.visible THEN u
  ELSE IF u.sync = "synced" /\ LinkReachedSameDaemon(u) THEN AttachWith(u, u.synced)
       ELSE AttachFresh(u)

\* apply_outcome, of a bootstrap that reached daemon run `run`.
ApplyOutcome_NoAttach(u, run) ==
  [u EXCEPT !.ws = u.gen, !.conn = "connected", !.heard = now,
            !.previous = u.instance, !.instance = run]

ApplyOutcome(u, run) ==
  ResumeVisiblePanes([u EXCEPT !.ws = u.gen, !.conn = "connected", !.heard = now,
                               !.previous = u.instance, !.instance = run])

\* begin_reconnect_attempt
BeginReconnectAttempt(u) ==
  [u EXCEPT !.ws = NoLink, !.applied = [paused |-> FALSE, auto |-> FALSE], !.conn = "reconnecting"]

\* prepare_reconnect
PrepareReconnect(u) == [u EXCEPT !.ws = NoLink, !.conn = "handshaking"]

\* mark_connection_lost_with
MarkConnectionLost(u) ==
  [u EXCEPT !.ws = NoLink, !.applied = [paused |-> FALSE, auto |-> FALSE], !.conn = "disconnected"]

\* disconnect: the user leaves; what was on screen is forgotten.
DisconnectManager(u) ==
  [MarkConnectionLost(u) EXCEPT !.active = FALSE, !.sync = "none", !.synced = 0]

\* update_term_size: every attached pane is told.
UpdateTermSize(u, size) ==
  IF u.sync = "none" THEN [u EXCEPT !.term = size]
  ELSE Send([u EXCEPT !.term = size], [type |-> "resize", size |-> size])

(***************************************************************************)
(* The reconnect schedule.  How long the backoff waits is left open: an    *)
(* attempt may fall due at any pump, and does at the next after retry_now. *)
(***************************************************************************)

Idle == [phase |-> "idle", attempt |-> 0, due |-> FALSE]
Waiting(n) == [phase |-> "waiting", attempt |-> n, due |-> FALSE]
Trying(n) == [phase |-> "trying", attempt |-> n, due |-> FALSE]

IsActive(u) == u.schedule.phase # "idle"

TakeDue(u, ripe) == u.schedule.phase = "waiting" /\ (ripe \/ u.schedule.due)

OnFailed(u) ==
  IF u.schedule.phase = "trying" THEN [u EXCEPT !.schedule = Waiting(u.schedule.attempt + 1)] ELSE u

RetryNow(u) == IF u.schedule.phase = "waiting" THEN [u EXCEPT !.schedule.due = TRUE] ELSE u

(***************************************************************************)
(* The input held during an outage (OutageInput): messages with the number *)
(* of keystrokes each carries.                                             *)
(***************************************************************************)

NothingHeld == [queued |-> <<>>, keystrokes |-> 0, first |-> Never, dropped |-> 0, notice |-> Never]

Push(o, m) ==
  IF o.keystrokes + m.weight > Capacity THEN [o EXCEPT !.dropped = @ + m.weight]
  ELSE [o EXCEPT !.keystrokes = @ + m.weight, !.first = IF @ = Never THEN now ELSE @,
                 !.queued = Append(@, m)]

Begin(o) == [o EXCEPT !.dropped = 0, !.notice = Never]

Stale(o) == o.first # Never /\ now - o.first > MaxAge

\* flush: what to send, and what is left of the buffer.
Flushed(o, deliver) == IF deliver /\ ~Stale(o) THEN o.queued ELSE <<>>

AfterFlush(o, deliver) ==
  LET dropped == IF deliver /\ ~Stale(o) THEN o.dropped ELSE o.dropped + o.keystrokes
  IN [queued |-> <<>>, keystrokes |-> 0, first |-> Never, dropped |-> dropped,
      notice |-> IF dropped > 0 /\ o.notice = Never THEN now ELSE o.notice]

\* send_prepared
SendPrepared(u, m) == Send(u, m)

\* end_outage: stop retrying, and settle the input held meanwhile.
EndOutage_Backwards(u, deliver) ==
  FoldLeft(SendPrepared, [u EXCEPT !.schedule = Idle, !.outage = AfterFlush(@, deliver)],
           Reverse(Flushed(u.outage, deliver)))

EndOutage(u, deliver) ==
  FoldLeft(SendPrepared, [u EXCEPT !.schedule = Idle, !.outage = AfterFlush(@, deliver)],
           Flushed(u.outage, deliver))

(***************************************************************************)
(* Pause (AppCore and SessionManager).                                     *)
(***************************************************************************)

IsPaused(u) == u.manual \/ u.auto
PauseReason(u) == IF u.manual THEN "manual" ELSE IF u.auto THEN "auto" ELSE "none"

Withheld(p, exempt) == p.paused /\ ~(p.auto /\ exempt)

ReconcilePause(u) ==
  LET p == [paused |-> IsPaused(u), auto |-> PauseReason(u) = "auto"]
      told == IF p # u.applied THEN Send(u, [type |-> "paused", p |-> p]) ELSE u
      again == u.visible /\ Withheld(u.applied, u.exempt) /\ ~Withheld(p, u.exempt)
  IN [(IF again THEN AttachFresh(told) ELSE told) EXCEPT !.applied = p]

\* set_auto_pause: a local daemon's window is never auto-paused.
SetAutoPause(u, on) ==
  IF (on /\ scenario.local) \/ u.auto = on THEN u ELSE ReconcilePause([u EXCEPT !.auto = on])

\* resume_if_auto_paused
ResumeIfAutoPaused(u) ==
  IF u.auto /\ ~u.manual THEN [SetAutoPause(u, FALSE) EXCEPT !.background = FALSE] ELSE u

InputSuppressed(u) == u.applied = [paused |-> TRUE, auto |-> FALSE]

(***************************************************************************)
(* Remotes: the daemon is asked to open or close the peer.                 *)
(***************************************************************************)

\* federate_desired_peer: a peer the user has connected, and the --server one always
FederateDesiredPeer(u) ==
  IF u.peer \in {"connected", "connecting"} THEN Send(u, [type |-> "open_peer"])
  ELSE IF scenario.desired THEN Send([u EXCEPT !.peer = "connecting"], [type |-> "open_peer"])
  ELSE u

OnPeerOpened(u) ==
  [u EXCEPT !.peer = "connected", !.mode = IF @ = "connecting" THEN "normal" ELSE @]

(***************************************************************************)
(* The pump: tick_at, step by step.                                        *)
(***************************************************************************)

\* link_lost: hold what is typed, and retry.
LinkLost(u) ==
  BeginReconnectAttempt([u EXCEPT !.schedule = Waiting(1), !.outage = Begin(@)])

\* enter_disconnected
EnterDisconnected(u) == [MarkConnectionLost(u) EXCEPT !.mode = "disconnected"]

\* on_peer_error: the remote's row shows it, unless the daemon could not name the peer, or
\* it is the --server one and the UI is still connecting.
OnPeerError(u, named) ==
  IF named /\ ~(u.mode = "connecting" /\ scenario.desired) THEN [u EXCEPT !.peer = "error"]
  ELSE EnterDisconnected(u)

ApplySettledResize(u, settled) ==
  IF settled /\ u.resize # Never THEN [UpdateTermSize(u, u.resize) EXCEPT !.resize = Never] ELSE u

\* check_pane_sync: an update past the one expected is resynced.
CheckPaneSync(u, gap) == IF u.sync = "synced" /\ gap THEN AttachFresh(u) ELSE u

\* handle_server_message and handle_session_event
HandleServerMessage(u, m) ==
  LET v == [u EXCEPT !.heard = now]
  IN CASE m.type = "auth_ok" -> [v EXCEPT !.mode = IF @ = "connecting" THEN "normal" ELSE @]
       [] m.type = "auth_failed" ->
            [v EXCEPT !.ws = NoLink, !.conn = "disconnected", !.mode = "disconnected"]
       [] m.type = "sync" -> [v EXCEPT !.sync = "synced", !.synced = m.run]
       [] m.type = "update" -> CheckPaneSync(v, m.gap)
       [] m.type = "pane_closed" ->
            [v EXCEPT !.visible = FALSE, !.active = FALSE, !.sync = "none", !.synced = 0]
       [] m.type = "peer_opened" -> OnPeerOpened(v)
       [] m.type = "peer_error" -> OnPeerError(v, m.named)

\* drain_server_messages: nothing is read behind the disconnected overlay, and a channel
\* that is closed is a lost link while the link counts as live.
DrainServerMessages_Deaf(u, frames, closed) ==
  IF u.mode = "disconnected" THEN u ELSE FoldLeft(HandleServerMessage, u, frames)

DrainServerMessages(u, frames, closed) ==
  IF u.mode = "disconnected" THEN u
  ELSE LET v == FoldLeft(HandleServerMessage, u, frames)
       IN IF closed /\ Live(v) THEN LinkLost(v) ELSE v

\* reflect_bootstrap_outcome, once apply_outcome made the link live
ReflectBootstrapOutcome(u) == IF u.mode = "connecting" THEN [u EXCEPT !.mode = "normal"] ELSE u

OnBootstrapSuccess(u, run) ==
  LET v == FederateDesiredPeer(ReflectBootstrapOutcome(ApplyOutcome(u, run)))
  IN EndOutage(v, LinkReachedSameDaemon(v))

\* on_bootstrap_failure: also a refusal that ends the retries
OnBootstrapFailure(u) == EnterDisconnected(EndOutage(u, FALSE))

OnBootstrapCancelled(u) == IF u.mode = "connecting" THEN EnterDisconnected(u) ELSE u

\* poll_bootstrap_outcome: at most one outcome per bootstrap
PollBootstrapOutcome(u, outcome, run) ==
  IF outcome = "none" THEN u
  ELSE LET v == [u EXCEPT !.booting = FALSE]
       IN CASE outcome = "success" -> OnBootstrapSuccess(v, run)
            [] outcome = "failed" -> IF IsActive(v) THEN OnFailed(v) ELSE OnBootstrapFailure(v)
            [] outcome = "refused" -> OnBootstrapFailure(v)
            [] outcome = "aborted" -> IF IsActive(v) THEN OnFailed(v) ELSE OnBootstrapCancelled(v)

\* tick_liveness: no frame for longer than the silence timeout
TickLiveness(u) == IF Live(u) /\ now - u.heard > Silence THEN LinkLost(u) ELSE u

\* start_bootstrap_with and start_bootstrap: new channels, and a task that fills them
StartBootstrap(u, phase) ==
  LET v == [u EXCEPT !.gen = @ + 1, !.booting = TRUE]
  IN IF phase = "resume" THEN BeginReconnectAttempt(v)
     ELSE [PrepareReconnect(v) EXCEPT !.mode = "connecting"]

\* tick_reconnect
TickReconnect(u, ripe) ==
  IF TakeDue(u, ripe)
  THEN StartBootstrap([u EXCEPT !.schedule = Trying(u.schedule.attempt)], "resume")
  ELSE u

\* tick_auto_pause, once the debounce is over
TickAutoPause(u, settled) == IF settled /\ u.background /\ ~u.auto THEN SetAutoPause(u, TRUE) ELSE u

\* fire_due_closes: the grace of a soft close is over
FireDueCloses(u, settled) ==
  IF settled /\ u.closing THEN Send([u EXCEPT !.closing = FALSE], [type |-> "close"]) ELSE u

(***************************************************************************)
(* A step of the UI thread ends in state `u`: what it sent is on its link, *)
(* `read` frames were drained, the outcome was polled if `polled`, and a   *)
(* new bootstrap drops the cancel handle of the one before it.             *)
(***************************************************************************)

Inbox == links[ui.gen].to_client

SentTo(u, g) ==
  LET mine == SelectSeq(u.out, LAMBDA o : o.to = g)
  IN [i \in DOMAIN mine |-> mine[i].m]

TaskAfter(l, g, u, polled) ==
  CASE g = u.gen /\ u.gen # ui.gen -> "running"
    [] g = ui.gen /\ polled -> "polled"
    [] g = ui.gen /\ u.gen # ui.gen /\ l.task = "running" -> "aborted"
    [] OTHER -> l.task

InputIds(msgs) == {o.m.id : o \in {x \in Range(msgs) : x.m.type = "input"}}

Commit(u, read, polled, typed) ==
  /\ ui' = [u EXCEPT !.out = <<>>]
  /\ links' = [g \in Gens |->
       [links[g] EXCEPT
         !.task = TaskAfter(links[g], g, u, polled),
         !.to_client = IF g = ui.gen THEN SubSeq(@, read + 1, Len(@)) ELSE @,
         !.to_daemon = IF links[g].up THEN @ \o SentTo(u, g) ELSE @]]
  /\ past' = [past EXCEPT
       !.typed = @ \o typed,
       !.sent = @ \union {[id |-> i, at |-> now] : i \in InputIds(u.out)},
       !.mark = IF ~IsActive(ui) /\ IsActive(u) THEN Len(past.typed) ELSE @]

NoCommit == UNCHANGED <<ui, links, past>>

\* tick_at, when `read` frames are in by the time the server channel is drained (an outcome
\* and the frames ahead of it may both come right after), the outcome is seen or not, and
\* the debounces and the backoff are over or not.
Outcome == IF ui.booting /\ links[ui.gen].task # "running" THEN links[ui.gen].task ELSE "none"

\* An attach starts unpaused, and nobody tells the daemon again that the UI is paused.
AttachedWhilePaused(u) ==
  IF IsPaused(u) /\ \E o \in Range(u.out) : o.m.type = "attach" THEN {"paused"} ELSE {}

Closed(read) == ~ui.booting /\ ~links[ui.gen].up /\ read = Len(Inbox)

TickAt(seen, ripe, settled) ==
  /\ seen => Outcome # "none"
  /\ ripe => ui.schedule.phase = "waiting"
  /\ settled => ui.resize # Never \/ ui.background \/ ui.closing
  /\ \E read \in (IF ui.mode = "disconnected" THEN {} ELSE {Len(Inbox)})
                 \union (IF seen \/ ui.mode = "disconnected" THEN {0} ELSE {}) :
     \E resized \in {ApplySettledResize(ui, settled)} :
     \E drained \in {DrainServerMessages(resized, SubSeq(Inbox, 1, read), Closed(read))} :
     \E polled \in {PollBootstrapOutcome(drained, IF seen THEN Outcome ELSE "none", links[ui.gen].run)} :
     \E alive \in {TickLiveness(polled)} :
     \E retried \in {TickReconnect(alive, ripe)} :
     \E u \in {FireDueCloses(TickAutoPause(retried, settled), settled)} :
       /\ Commit(u, read, seen, <<>>)
       /\ lapses' = lapses \union AttachedWhilePaused(u)
  /\ UNCHANGED <<scenario, left, now, host>>

Tick == \E seen, ripe, settled \in BOOLEAN : TickAt(seen, ripe, settled)

(***************************************************************************)
(* The user.                                                               *)
(***************************************************************************)

\* key_batch_message and paste_message: nothing is built while the input is suppressed,
\* or without an active pane.
Accepts(u) == ~InputSuppressed(u) /\ u.active

\* deliver_input
DeliverInput(u, m) ==
  IF IsActive(u) THEN [u EXCEPT !.outage = Push(@, m)] ELSE SendPrepared(u, m)

\* send_keys and feed_paste
SendKeys(weight) ==
  LET u == ResumeIfAutoPaused(ui)
      m == [type |-> "input", id |-> Len(past.typed) + 1, weight |-> weight]
  IN /\ ui.mode = "normal" /\ Accepts(u)
     /\ Spend("keys")
     /\ Commit(DeliverInput(u, m), 0, FALSE,
               <<[weight |-> weight, run |-> u.instance, at |-> now,
                  unsent |-> ~IsActive(u) /\ u.ws = NoLink]>>)
     /\ UNCHANGED <<scenario, now, host, lapses>>

\* reconnect_at: hasten the retry under way, or start over behind the overlay.
Reconnect ==
  /\ Spend("reconnects")
  /\ Commit(IF IsActive(ui) THEN RetryNow(ui) ELSE StartBootstrap(ui, "reconnect"), 0, FALSE, <<>>)
  /\ UNCHANGED <<scenario, now, host, lapses>>

\* Action::CancelBootstrap, on the connecting overlay
CancelBootstrap ==
  /\ ui.mode = "connecting"
  /\ ui.booting /\ links[ui.gen].task = "running"
  /\ Spend("cancels")
  /\ links' = [links EXCEPT ![ui.gen].task = "aborted"]
  /\ UNCHANGED <<scenario, now, ui, host, past, lapses>>

\* select_session: the pane is shown, and attached.
Select ==
  /\ ui.mode = "normal" /\ Live(ui) /\ ~ui.active /\ host.alive
  /\ LET u == AttachFresh([ui EXCEPT !.visible = TRUE, !.active = TRUE])
     IN Commit(u, 0, FALSE, <<>>) /\ lapses' = lapses \union AttachedWhilePaused(u)
  /\ UNCHANGED <<scenario, left, now, host>>

\* Action::Disconnect: the schedule of retries is not the AppCore's to stop.
Disconnect ==
  /\ ui.mode = "normal"
  /\ Spend("disconnects")
  /\ Commit(DisconnectManager(ui), 0, FALSE, <<>>)
  /\ lapses' = lapses \union {"left"}
  /\ UNCHANGED <<scenario, now, host>>

ToggleManualPause ==
  /\ Spend("pauses")
  /\ LET u == ReconcilePause([ui EXCEPT !.manual = ~@])
     IN Commit(u, 0, FALSE, <<>>) /\ lapses' = lapses \union AttachedWhilePaused(u)
  /\ UNCHANGED <<scenario, now, host>>

\* set_window_background
SetWindowBackground(on) ==
  /\ Spend("windows")
  /\ on = ~ui.background
  /\ Commit(IF on THEN [ui EXCEPT !.background = ~ui.auto /\ ~scenario.local]
            ELSE SetAutoPause([ui EXCEPT !.background = FALSE], FALSE), 0, FALSE, <<>>)
  /\ UNCHANGED <<scenario, now, host, lapses>>

\* toggle_pane_no_auto_pause; reconcile_pause compares two states that both have the new
\* exemption, so a pane that streams again is not attached afresh.
ToggleExempt ==
  LET u == [ui EXCEPT !.exempt = ~@]
      told == IF u.visible THEN Send(u, [type |-> "exempt", on |-> u.exempt]) ELSE u
  IN /\ Spend("exemptions")
     /\ Commit(ReconcilePause(told), 0, FALSE, <<>>)
     /\ lapses' = lapses \union (IF ui.auto THEN {"exempted"} ELSE {})
     /\ UNCHANGED <<scenario, now, host>>

RequestResize(size) ==
  /\ Spend("resizes")
  /\ Commit([ui EXCEPT !.resize = size], 0, FALSE, <<>>)
  /\ UNCHANGED <<scenario, now, host, lapses>>

\* soft_close_active_pane, of a pane whose shell runs
SoftClose ==
  /\ ui.mode = "normal" /\ ui.active /\ ~ui.closing
  /\ Spend("closes")
  /\ Commit([ui EXCEPT !.closing = TRUE], 0, FALSE, <<>>)
  /\ lapses' = lapses \ {"undone"}
  /\ UNCHANGED <<scenario, now, host>>

\* undo_soft_close and cancel_pending_close
OnItsWay(type) == \E g \in Gens : \E m \in Range(links[g].to_daemon) : m.type = type

UndoSoftClose ==
  /\ ui.closing
  /\ Spend("undos")
  /\ Commit([ui EXCEPT !.closing = FALSE], 0, FALSE, <<>>)
  /\ lapses' = lapses \union (IF OnItsWay("close") THEN {} ELSE {"undone"})
  /\ UNCHANGED <<scenario, now, host>>

\* expand_remote
ExpandRemote ==
  /\ Spend("expands")
  /\ ui.peer # "connected"
  /\ Commit(Send([ui EXCEPT !.peer = "connecting"], [type |-> "open_peer"]), 0, FALSE, <<>>)
  /\ UNCHANGED <<scenario, now, host, lapses>>

\* An OpenPeer the daemon has not answered yet, as far as the UI knows.
Opening ==
  \/ ui.peer = "connecting"
  \/ \E i \in DOMAIN Inbox : Inbox[i].type = "peer_opened"
  \/ ui.ws # NoLink /\ \E m \in Range(links[ui.ws].to_daemon) : m.type = "open_peer"

\* disconnect_remote, and collapse_remote of a peer no shown session is on
DisconnectRemote ==
  /\ Spend("collapses")
  /\ Commit(Send([ui EXCEPT !.peer = "idle"], [type |-> "close_peer"]), 0, FALSE, <<>>)
  /\ lapses' = lapses \union (IF Opening THEN {"hasty"} ELSE {})
                      \union (IF ui.ws = NoLink \/ ~links[ui.ws].up THEN {"unheard"} ELSE {})
  /\ UNCHANGED <<scenario, now, host>>

(***************************************************************************)
(* The bootstrap task (run_bootstrap): find or start the daemon, connect,  *)
(* authenticate.  The AuthResult is forwarded to the UI as well.           *)
(***************************************************************************)

NoViewer == [link |-> NoLink, size |-> Never, p |-> [paused |-> FALSE, auto |-> FALSE],
             exempt |-> FALSE, missed |-> FALSE]

EnsureDaemon(g) ==
  /\ links[g].task = "running"
  /\ host.run = 0
  /\ host' = [host EXCEPT !.run = host.runs + 1, !.runs = @ + 1]
  /\ UNCHANGED <<scenario, left, now, lapses>> /\ NoCommit

\* establish: the daemon accepted; a registration it still has is resumed.
BootSucceeds(g) ==
  /\ links[g].task = "running"
  /\ host.run # 0 /\ ~host.stalled
  /\ links' = [links EXCEPT ![g].task = "success", ![g].up = TRUE, ![g].run = host.run,
                            ![g].to_client = <<[type |-> "auth_ok"]>>]
  /\ UNCHANGED <<scenario, left, now, ui, host, past, lapses>>

\* The daemon does not start, does not answer in time, or goes away in the handshake.
BootFails(g) ==
  /\ links[g].task = "running"
  /\ Spend("fails")
  /\ links' = [links EXCEPT ![g].task = "failed"]
  /\ UNCHANGED <<scenario, now, ui, host, past, lapses>>

\* The protocol range does not match (found before or during the handshake), or the token.
BootRefused(g) ==
  /\ links[g].task = "running"
  /\ host.run # 0 /\ ~host.stalled
  /\ Spend("refusals")
  /\ \E told \in {<<>>, <<[type |-> "auth_failed"]>>} :
       links' = [links EXCEPT ![g].task = "refused", ![g].to_client = told]
  /\ UNCHANGED <<scenario, now, ui, host, past, lapses>>

(***************************************************************************)
(* The daemon and the clock.                                               *)
(***************************************************************************)

Down(l) == [l EXCEPT !.up = FALSE, !.to_daemon = <<>>]

\* A link ends: the daemon's handler releases the attachments made through it.
Ended(g) == IF host.viewer.link = g THEN [host EXCEPT !.viewer = NoViewer] ELSE host

\* The link in use, or about to be, is closed: what was on its way is lost.
LinkDrops ==
  /\ links[ui.gen].up /\ (ui.ws = ui.gen \/ ui.booting)
  /\ Spend("drops")
  /\ links' = [links EXCEPT ![ui.gen] = Down(@)]
  /\ host' = Ended(ui.gen)
  /\ lapses' = lapses \union (IF OnItsWay("close_peer") THEN {"unheard"} ELSE {})
  /\ UNCHANGED <<scenario, now, ui, past>>

\* A link the UI left behind ends, once the daemon read what was on it.
OldLinkEnds(g) ==
  /\ links[g].up /\ links[g].to_daemon = <<>>
  /\ g # ui.ws /\ ~(g = ui.gen /\ ui.booting)
  /\ links' = [links EXCEPT ![g] = Down(@)]
  /\ host' = Ended(g)
  /\ UNCHANGED <<scenario, left, now, ui, past, lapses>>

\* A crash, a stop, or a handoff: the next run is another one.
HostDies ==
  /\ host.run # 0
  /\ Spend("dies")
  /\ host' = [host EXCEPT !.run = 0, !.stalled = FALSE, !.viewer = NoViewer, !.peer = FALSE]
  /\ links' = [g \in Gens |-> Down(links[g])]
  /\ UNCHANGED <<scenario, now, ui, past, lapses>>

HostStalls ==
  /\ host.run # 0 /\ ~host.stalled
  /\ Spend("stalls")
  /\ host' = [host EXCEPT !.stalled = TRUE]
  /\ UNCHANGED <<scenario, now, lapses>> /\ NoCommit

HostResumes ==
  /\ host.stalled
  /\ host' = [host EXCEPT !.stalled = FALSE]
  /\ UNCHANGED <<scenario, left, now, lapses>> /\ NoCommit

OutputPaused(v) == Withheld(v.p, v.exempt)

\* The pane has output: the viewer is sent it, unless it is paused.
Output ==
  /\ host.run # 0 /\ ~host.stalled /\ host.viewer.link # NoLink
  /\ Spend("output")
  /\ IF OutputPaused(host.viewer)
     THEN /\ host' = [host EXCEPT !.viewer.missed = TRUE]
          /\ UNCHANGED links
     ELSE /\ links' = [links EXCEPT ![host.viewer.link].to_client =
                         Append(@, [type |-> "update", gap |-> host.viewer.missed])]
          /\ UNCHANGED host
  /\ UNCHANGED <<scenario, now, ui, past, lapses>>

\* Time passes.  Over a link that answers, the pings keep frames coming in.
Elapse ==
  LET answers == Live(ui) /\ links[ui.ws].up /\ ~host.stalled
  IN /\ Spend("elapse")
     /\ now' = now + 1
     /\ ui' = [ui EXCEPT !.heard = IF answers THEN now + 1 ELSE @]
     /\ UNCHANGED <<scenario, links, host, past, lapses>>

\* The daemon handles one frame of link g (the dispatch handlers).
Attached(g, m) ==
  [host EXCEPT !.viewer = [NoViewer EXCEPT !.link = g, !.size = m.size]]

Viewing == host.viewer.link # NoLink

HostHandles(g) ==
  LET m == Head(links[g].to_daemon)
      Reply(r) == links' = [links EXCEPT ![g].to_daemon = Tail(@), ![g].to_client = @ \o r]
  IN /\ links[g].up /\ links[g].to_daemon # <<>> /\ ~host.stalled
     /\ CASE m.type = "attach" ->
               IF host.alive
               THEN /\ host' = Attached(g, m)
                    /\ Reply(IF m.from = 0 THEN <<[type |-> "sync", run |-> host.run]>> ELSE <<>>)
               ELSE UNCHANGED host /\ Reply(<<>>)
          [] m.type = "exempt" ->
               /\ host' = IF Viewing THEN [host EXCEPT !.viewer.exempt = m.on] ELSE host
               /\ Reply(<<>>)
          [] m.type = "paused" ->
               /\ host' = IF Viewing THEN [host EXCEPT !.viewer.p = m.p] ELSE host
               /\ Reply(<<>>)
          [] m.type = "resize" ->
               /\ host' = IF Viewing THEN [host EXCEPT !.viewer.size = m.size] ELSE host
               /\ Reply(<<>>)
          [] m.type = "input" -> UNCHANGED host /\ Reply(<<>>)
          [] m.type = "close" ->
               /\ host' = [host EXCEPT !.alive = FALSE, !.viewer = NoViewer]
               /\ Reply(<<[type |-> "pane_closed"]>>)
          [] m.type = "open_peer" ->
               \/ host' = [host EXCEPT !.peer = TRUE] /\ Reply(<<[type |-> "peer_opened"]>>)
               \/ \E named \in scenario.peer_errors :
                    UNCHANGED host /\ Reply(<<[type |-> "peer_error", named |-> named]>>)
          [] m.type = "close_peer" -> host' = [host EXCEPT !.peer = FALSE] /\ Reply(<<>>)
     /\ past' = IF m.type = "input"
                THEN [past EXCEPT !.log = Append(@, [id |-> m.id, link |-> g, run |-> links[g].run])]
                ELSE past
     /\ lapses' = IF m.type # "input" /\ \E h \in Gens : h > g /\ links[h].run = host.run
                  THEN lapses \union {"crossed"} ELSE lapses
     /\ UNCHANGED <<scenario, left, now, ui>>

(***************************************************************************)
(* The specification.  A frontend starts in its first bootstrap.           *)
(***************************************************************************)

Init ==
  /\ scenario \in Scenarios
  /\ left = scenario.left
  /\ now = 0
  /\ ui = [mode |-> "connecting", conn |-> "handshaking", ws |-> NoLink, gen |-> 1, booting |-> TRUE,
           heard |-> 0, instance |-> 0, previous |-> 0, visible |-> FALSE, active |-> FALSE,
           sync |-> "none", synced |-> 0, schedule |-> Idle, outage |-> NothingHeld,
           manual |-> FALSE, auto |-> FALSE, background |-> FALSE, exempt |-> FALSE,
           applied |-> [paused |-> FALSE, auto |-> FALSE],
           term |-> 0, resize |-> Never, closing |-> FALSE, peer |-> "idle", out |-> <<>>]
  /\ links = [g \in Gens |-> [task |-> IF g = 1 THEN "running" ELSE "none", up |-> FALSE, run |-> 0,
                              to_daemon |-> <<>>, to_client |-> <<>>]]
  /\ host = [run |-> 1, runs |-> 1, stalled |-> FALSE, viewer |-> NoViewer, alive |-> TRUE, peer |-> FALSE]
  /\ past = [typed |-> <<>>, sent |-> {}, log |-> <<>>, mark |-> 0]
  /\ lapses = {}

User ==
  \/ \E weight \in Batches : SendKeys(weight)
  \/ Reconnect
  \/ CancelBootstrap
  \/ Select
  \/ Disconnect
  \/ ToggleManualPause
  \/ \E on \in BOOLEAN : SetWindowBackground(on)
  \/ ToggleExempt
  \/ \E size \in Sizes : RequestResize(size)
  \/ SoftClose
  \/ UndoSoftClose
  \/ ExpandRemote
  \/ DisconnectRemote

Boot(g) == EnsureDaemon(g) \/ BootSucceeds(g) \/ BootFails(g) \/ BootRefused(g)

Next ==
  \/ Tick
  \/ User
  \/ \E g \in Gens : Boot(g) \/ OldLinkEnds(g) \/ HostHandles(g)
  \/ LinkDrops
  \/ HostDies
  \/ HostStalls
  \/ HostResumes
  \/ Output
  \/ Elapse

\* The frontend pumps every frame, polls an outcome it finds, and lets an attempt fall due;
\* a bootstrap gets on with its work.
Fairness ==
  /\ WF_vars(TickAt(FALSE, FALSE, FALSE))
  /\ WF_vars(TickAt(TRUE, FALSE, FALSE))
  /\ WF_vars(TickAt(FALSE, TRUE, FALSE))
  /\ WF_vars(\E g \in Gens : EnsureDaemon(g) \/ BootSucceeds(g))

Spec == Init /\ [][Next]_vars /\ Fairness

(***************************************************************************)
(* Properties                                                              *)
(***************************************************************************)

Held == Range(ui.outage.queued)
HeldIds == {m.id : m \in Held}
SentIds == {x.id : x \in past.sent}
Typed(i) == past.typed[i]
Weight(ids) == MapThenSumSet(LAMBDA i : Typed(i).weight, ids)

\* Nothing is under way between the UI and the daemon it is connected to.
Settled ==
  /\ Live(ui) /\ ~ui.booting /\ links[ui.ws].up /\ links[ui.ws].run = host.run
  /\ \A g \in Gens : links[g].up => links[g].to_daemon = <<>>
  /\ Inbox = <<>>
  /\ ui.resize = Never

(* What a user types is kept, and kept right (OutageInput).  Each input was  *)
(* put on a link, is held, or is among the keystrokes the banner reports as  *)
(* dropped by this outage or an earlier one, each once; the exception is     *)
(* what is typed between the AuthResult and the outcome of a bootstrap the   *)
(* user started, when the overlay is gone and there is no sender yet.  No    *)
(* more keystrokes are held than the capacity.  The daemon is handed the     *)
(* input of a link in the order it was typed, what was held first, and none  *)
(* twice over whichever links; only the daemon run it was typed at; and at   *)
(* most OUTAGE_INPUT_MAX_AGE after it was typed.                             *)
InputIsKept ==
  LET ids == {i \in 1 .. Len(past.typed) : ~Typed(i).unsent}
      gone == ids \ (SentIds \union HeldIds)
  IN /\ HeldIds \intersect SentIds = {}
     /\ Weight({i \in gone : i > past.mark}) = ui.outage.dropped
     /\ IsActive(ui) \/ Held = {}
     /\ ui.outage.keystrokes = Weight(HeldIds) /\ Weight(HeldIds) <= Capacity
     /\ \A i, j \in DOMAIN past.log :
          /\ i # j => past.log[i].id # past.log[j].id
          /\ i < j /\ past.log[i].link = past.log[j].link => past.log[i].id < past.log[j].id
     /\ \A i \in DOMAIN past.log : past.log[i].run = Typed(past.log[i].id).run
     /\ \A x \in past.sent : x.at - Typed(x.id).at <= MaxAge

(* Once all is settled, whatever came before, the pane on screen is attached *)
(* over the link in use, in sync with the run that link reached, at the size *)
(* of the window - unless a link left behind was heard after a newer one, or *)
(* the user left.  The daemon withholds its output exactly when the UI says  *)
(* it is paused, and a pane that is not has missed none - unless also the    *)
(* link came back while paused, or an exemption changed in an auto-pause.    *)
(* A remote shown as connected is open at the daemon, also after the daemon  *)
(* restarted, and one shown as idle is not - unless it was closed before its *)
(* opening was answered, or without a link.                                  *)
ViewIsRestored ==
  Settled =>
    /\ ui.visible /\ host.alive /\ lapses \intersect {"crossed", "left"} = {} =>
         /\ host.viewer.link = ui.ws
         /\ host.viewer.size = ui.term
         /\ ui.sync = "synced" /\ ui.synced = host.run
         /\ lapses \intersect {"paused", "exempted"} = {} =>
              /\ OutputPaused(host.viewer) = Withheld([paused |-> IsPaused(ui), auto |-> ~ui.manual], ui.exempt)
              /\ host.viewer.p = ui.applied
              /\ ~OutputPaused(host.viewer) => ~host.viewer.missed
    /\ lapses \intersect {"hasty", "unheard", "crossed"} = {} =>
         /\ ui.peer = "connected" => host.peer
         /\ ui.peer = "idle" => ~host.peer

(* A link that is gone comes back, noticed or not, or the user is told that  *)
(* it does not, or left, as long as the daemon answers in the end.           *)
LinkComesBack ==
  LET linked == Live(ui) /\ links[ui.ws].up
  IN <>[](~host.stalled) => []<>(linked \/ ui.mode = "disconnected" \/ "left" \in lapses)
=============================================================================
