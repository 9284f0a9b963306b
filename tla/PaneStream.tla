------------------------------ MODULE PaneStream ------------------------------
(***************************************************************************)
(* How the screen of one pane reaches one client.                          *)
(*                                                                         *)
(* The relay of the pane (kmuxd relay.rs) feeds what the shell prints to    *)
(* the emulator, computes the cell diff, numbers it, keeps it in the        *)
(* replay buffer and broadcasts it to the channel of every attached client. *)
(* An attach (app/attach.rs, client_handler/dispatch/view.rs) computes a    *)
(* replay and registers the channel.  The pane stream (outbound.rs) moves   *)
(* replay and channel into the bounded outbound queue of the connection,    *)
(* drops frames when that queue is congested and resyncs from a snapshot.   *)
(* The client (kmux-client session_manager) applies the frames, checks that *)
(* seqnos are consecutive, compares digests and re-attaches when either     *)
(* fails; a new link re-attaches from the last seqno applied.               *)
(*                                                                         *)
(* A screen is a function from cells to the number of the output chunk last *)
(* drawn there, 0 for blank; a diff is a screen whose 0 cells it does not   *)
(* write.  Relay, handlers, streams and client run on different threads:    *)
(* each action is what one of them does without another being able to see   *)
(* it half done.                                                            *)
(***************************************************************************)
EXTENDS Integers, Sequences, FiniteSets

CONSTANTS
  Cells,        \* the cells of the screen
  MaxFeeds,     \* bound: chunks of output the shell prints
  DigestEvery,  \* DIGEST_SEQNO_INTERVAL
  Retained,     \* diffs the replay buffer keeps
  MaxDelta,     \* MAX_RESUME_DELTA_DIFFS
  ChanCap,      \* CLIENT_CHANNEL_CAPACITY
  Capacity,     \* OUTBOUND_CAPACITY
  MaxAttaches,  \* bound: attaches the client sends
  MaxScrolls,   \* bound: chunks that move lines into the history
  MaxOther,     \* bound: messages of the connection's other producers
  OtherFrom,    \* bound: they come when the queue is at least this long
  MaxLinks,     \* bound: links the client opens
  MaxResizes,   \* bound: times another viewer changes the pane's size
  Windows,      \* which of the preemption windows below are open
  Events        \* which optional events happen

(* "attach": the relay runs between the steps of compute_replay and the     *)
(* insert; "reap": a handler runs between the broadcast that found a client *)
(* dead and its removal; "abort": an aborted pane stream goes on sending    *)
(* until it next waits; "overlap": a new link is served while a handler of  *)
(* the old one is still at an attach.                                       *)
AllWindows == {"attach", "reap", "abort", "overlap"}
AllEvents == {"drop", "swap"}

ASSUME ConstantsAssumption ==
  /\ IsFiniteSet(Cells) /\ Cells # {}
  /\ {MaxFeeds, MaxScrolls, MaxAttaches, MaxOther, OtherFrom, MaxResizes} \subseteq Nat
  /\ {DigestEvery, Retained, MaxDelta, ChanCap, Capacity, MaxLinks} \subseteq Nat \ {0}
  /\ Capacity \div 2 > Capacity \div 4 + 1     \* a resync fits where it starts
  /\ Windows \subseteq AllWindows
  /\ Events \subseteq AllEvents

VARIABLES
  emu,       \* the emulator: its grid, the grid of the last diff, chunks fed
  relay,     \* the relay task: its step, frames to send, seqno counter, buffer
  asOf,      \* history variable: the grid as of each seqno
  lock,      \* who holds the session map: "free" or the operation holding it
  resizeSeq, \* the seqno a resize has read
  handler,   \* per link: the handler of its Attach messages
  stream,    \* per link: the pane stream task and its channel
  stale,     \* per link: what its aborted stream still sends
  reg,       \* the link whose channel is in the pane's client map, 0 if none
  link,      \* the client's current link
  down,      \* that link is lost and the client has not replaced it
  released,  \* links whose daemon loop has ended
  racing,    \* another pane's stream has seen room and not yet sent
  up,        \* Attach messages under way to the daemon: seqno to resume after
  out,       \* the outbound queue of the link, and the wire behind it
  sync,      \* client: PaneSync, "awaiting" or "synced"
  expected,  \* client: the next seqno, when synced
  shown,     \* client: the grid on screen
  blanked,   \* history variable: a resize blanked it, no snapshot came since
  spent      \* counts of attaches, other messages and resizes (for the bounds)

vars == <<emu, relay, asOf, lock, resizeSeq, handler, stream, stale, reg,
          link, down, released, racing, up, out, sync, expected, shown, blanked, spent>>

daemonVars == <<emu, relay, asOf, lock, resizeSeq, handler, stream, stale, reg>>
clientVars == <<sync, expected, shown, blanked>>
linkVars == <<link, down, released, racing>>

Links == 1..MaxLinks
Fresh == -1                       \* Attach with last_seqno None
Blank == [c \in Cells |-> 0]
Overlay(grid, writes) == [c \in Cells |-> IF writes[c] = 0 THEN grid[c] ELSE writes[c]]

Msg(kind, seq, cells) == [kind |-> kind, seq |-> seq, cells |-> cells]
Plain(kind) == Msg(kind, 0, Blank)

Incremental == {"update", "scroll", "digest"}        \* incremental_seqno
DataKinds == {"update", "scroll", "digest", "snapshot", "reset", "other"}
ControlKinds == {"lagged", "resized", "control"}
Messages == [kind : DataKinds \cup ControlKinds, seq : Nat, cells : [Cells -> Nat]]

NoStream == [pc |-> "gone", replay |-> <<>>, chan |-> <<>>, covered |-> -1,
             label |-> 0, snap |-> Blank]
IdleHandler == [pc |-> "idle", attached |-> FALSE, last |-> Fresh, replay |-> <<>>]

RelayType == [pc : {"read", "fed", "push", "send", "reap", "digest"},
              scroll : {"no", "before", "after"}, frames : Seq(Messages),
              seq : Nat, counter : Nat, buffer : Seq(Messages)]
HandlerType == [pc : {"idle", "detach", "replay", "label", "insert"},
                attached : BOOLEAN, last : Int, replay : Seq(Messages)]
StreamType == [pc : {"gone", "live", "lagged", "resync", "snapshot", "reset", "fill"},
               replay : Seq(Messages), chan : Seq(Messages),
               covered : Int, label : Nat, snap : [Cells -> Nat]]

TypeOK ==
  /\ emu \in [grid : [Cells -> Nat], prev : [Cells -> Nat], fed : 0..MaxFeeds]
  /\ relay \in RelayType
  /\ asOf \in Seq([Cells -> Nat])
  /\ lock \in {"free", "attach", "resync", "resize"} /\ resizeSeq \in Nat
  /\ handler \in [Links -> HandlerType]
  /\ stream \in [Links -> StreamType]
  /\ \A l \in Links : Len(stream[l].chan) <= ChanCap
  /\ stale \in [Links -> Seq(Messages)]
  /\ reg \in 0..MaxLinks /\ link \in Links /\ down \in BOOLEAN
  /\ released \subseteq Links /\ racing \in BOOLEAN
  /\ up \in Seq(Int) /\ out \in Seq(Messages) /\ Len(out) <= Capacity
  /\ sync \in {"awaiting", "synced"} /\ expected \in Nat
  /\ shown \in [Cells -> Nat] /\ blanked \in BOOLEAN
  /\ spent \in [attaches : Nat, other : Nat, resizes : Nat]

(* A pane just spawned, its relay waiting for output, and a client that has *)
(* just sent its first Attach.                                              *)
Init ==
  /\ emu = [grid |-> Blank, prev |-> Blank, fed |-> 0]
  /\ relay = [pc |-> "read", scroll |-> "no", frames |-> <<>>, seq |-> 0,
              counter |-> 1, buffer |-> <<>>]
  /\ asOf = <<>> /\ lock = "free" /\ resizeSeq = 0
  /\ handler = [l \in Links |-> IdleHandler]
  /\ stream = [l \in Links |-> NoStream]
  /\ stale = [l \in Links |-> <<>>]
  /\ reg = 0 /\ link = 1 /\ down = FALSE /\ released = {} /\ racing = FALSE
  /\ up = <<Fresh>> /\ out = <<>>
  /\ sync = "awaiting" /\ expected = 0 /\ shown = Blank /\ blanked = FALSE
  /\ spent = [attaches |-> 1, other |-> 0, resizes |-> 0]

CurrentSeqno == relay.counter - 1
AsOf(seq) == IF seq = 0 THEN Blank ELSE asOf[seq]

-----------------------------------------------------------------------------
(* The outbound queue of the current link; a link the client has left        *)
(* swallows what is still sent to it.                                        *)

Reserve == Capacity \div 4        \* CONTROL_RESERVE_DIVISOR
ResumeFree == Capacity \div 2
Free == Capacity - Len(out)
Live(l) == l = link /\ ~down

DataFits_Inclusive(l) == Live(l) => Free >= Reserve

DataFits(l) == Live(l) => Free > Reserve
HasRoom(l) == Live(l) => Free >= ResumeFree

(* try_send_data, once DataFits. *)
QueueData(l, msg) == out' = IF Live(l) THEN Append(out, msg) ELSE out

(* OutboundTx::send: a control message is never dropped; a full queue        *)
(* closes the connection.                                                    *)
SendControl(l, msg) ==
  /\ out' = IF Live(l) /\ Free > 0 THEN Append(out, msg) ELSE out
  /\ down' = (down \/ (Live(l) /\ Free = 0))

(* The connection's other producers: events, replies and pings, and another  *)
(* pane's stream, whose try_send_data looks at the room and then sends.      *)
OtherControl ==
  /\ ~down /\ spent.other < MaxOther /\ Len(out) >= OtherFrom
  /\ spent' = [spent EXCEPT !.other = @ + 1]
  /\ SendControl(link, Plain("control"))
  /\ UNCHANGED <<daemonVars, clientVars, link, released, up, racing>>

OtherChecks ==
  /\ ~down /\ spent.other < MaxOther /\ Len(out) >= OtherFrom /\ ~racing /\ DataFits(link)
  /\ spent' = [spent EXCEPT !.other = @ + 1]
  /\ racing' = TRUE
  /\ UNCHANGED <<daemonVars, clientVars, link, down, released, up, out>>

OtherSends ==
  /\ racing
  /\ racing' = FALSE
  /\ out' = IF Live(link) /\ Free > 0 THEN Append(out, Plain("other")) ELSE out
  /\ UNCHANGED <<daemonVars, clientVars, link, down, released, up, spent>>

OtherTraffic == OtherControl \/ OtherChecks \/ OtherSends

-----------------------------------------------------------------------------
(* The relay: session_diff_loop, one cycle per chunk read from the pty.      *)

(* The attach handler holds the session map, which the relay never takes: it *)
(* may run in the middle of an attach.                                       *)
RelayRuns == "attach" \in Windows \/ lock # "attach"

(* feed_capped: the chunk is drawn under the emulator's lock.  Seqnos exceed  *)
(* chunks by the frames of history lines.                                    *)
Feed ==
  /\ RelayRuns /\ relay.pc = "read" /\ emu.fed < MaxFeeds
  /\ \E c \in Cells, scroll \in IF CurrentSeqno - emu.fed < MaxScrolls
                              THEN {"no", "before", "after"} ELSE {"no"} :
       /\ emu' = [emu EXCEPT !.grid[c] = emu.fed + 1, !.fed = @ + 1]
       /\ relay' = [relay EXCEPT !.pc = "fed", !.scroll = scroll]
  /\ UNCHANGED <<asOf, lock, resizeSeq, handler, stream, stale, reg, linkVars, clientVars, up, out, spent>>

(* compute_diff, and the seqnos stamped in the order the frames will be      *)
(* sent: history lines before the update, or after it on a scrollback reset. *)
ComputeDiff ==
  LET writes == [c \in Cells |-> IF emu.grid[c] = emu.prev[c] THEN 0 ELSE emu.grid[c]]
      n == relay.counter
      update == IF relay.scroll = "before" THEN n + 1 ELSE n
      frame == Msg("update", update, writes)
  IN /\ RelayRuns /\ relay.pc = "fed"
     /\ emu' = [emu EXCEPT !.prev = emu.grid]
     /\ relay' = [relay EXCEPT
          !.pc = "push", !.seq = update,
          !.counter = IF relay.scroll = "no" THEN n + 1 ELSE n + 2,
          !.frames = CASE relay.scroll = "no" -> <<frame>>
                       [] relay.scroll = "before" -> <<Msg("scroll", n, Blank), frame>>
                       [] OTHER -> <<frame, Msg("scroll", n + 1, Blank)>>]
     /\ asOf' = CASE relay.scroll = "no" -> Append(asOf, emu.grid)
                  [] relay.scroll = "before" -> asOf \o <<AsOf(n - 1), emu.grid>>
                  [] OTHER -> asOf \o <<emu.grid, emu.grid>>
     /\ UNCHANGED <<lock, resizeSeq, handler, stream, stale, reg, linkVars, clientVars, up, out, spent>>

(* DiffBuffer::push: the update is kept for replay, the history lines are    *)
(* not; the oldest diffs are evicted.                                        *)
PushDiff ==
  LET update == relay.frames[IF relay.scroll = "before" THEN 2 ELSE 1]
      kept == Append(relay.buffer, update)
  IN /\ RelayRuns /\ relay.pc = "push"
     /\ relay' = [relay EXCEPT !.pc = "send",
          !.buffer = IF Len(kept) > Retained THEN Tail(kept) ELSE kept]
     /\ UNCHANGED <<emu, asOf, lock, resizeSeq, handler, stream, stale, reg, linkVars, clientVars, up, out, spent>>

AfterFrame(frames) == IF frames = <<>> THEN "digest" ELSE "send"
HasReceiver(l) == stream[l].pc # "gone"
ChanFull(l) == Len(stream[l].chan) >= ChanCap
ToChan(l, msg) == [stream EXCEPT ![l].chan = Append(@, msg)]

(* broadcast_to_clients: a full channel costs the client a Lagged, and it or *)
(* a closed one its place in the map, which a second lock of the map takes.  *)
Broadcast ==
  LET frame == Head(relay.frames)
      rest == Tail(relay.frames)
      dead == reg # 0 /\ (~HasReceiver(reg) \/ ChanFull(reg))
      reapLater == dead /\ "reap" \in Windows
  IN /\ RelayRuns /\ relay.pc = "send"
     /\ relay' = [relay EXCEPT !.frames = rest,
                               !.pc = IF reapLater THEN "reap" ELSE AfterFrame(rest)]
     /\ reg' = IF dead /\ ~reapLater THEN 0 ELSE reg
     /\ IF dead /\ HasReceiver(reg)
        THEN SendControl(reg, Plain("lagged"))
        ELSE UNCHANGED <<out, down>>
     /\ stream' = IF reg = 0 \/ dead THEN stream ELSE ToChan(reg, frame)
     /\ UNCHANGED <<stale, resizeSeq, emu, asOf, lock, handler, link, released, racing, clientVars, up, spent>>

(* The dead client is removed by its id, whichever channel that now has. *)
Reap ==
  /\ RelayRuns /\ relay.pc = "reap"
  /\ reg' = 0
  /\ relay' = [relay EXCEPT !.pc = AfterFrame(relay.frames)]
  /\ UNCHANGED <<stale, resizeSeq, emu, asOf, lock, handler, stream, linkVars, clientVars, up, out, spent>>

(* broadcast_grid_digest: best effort, after the data it certifies. *)
Digest ==
  LET due == relay.seq % DigestEvery = 0
  IN /\ RelayRuns /\ relay.pc = "digest"
     /\ relay' = [relay EXCEPT !.pc = "read"]
     /\ stream' = IF due /\ reg # 0 /\ HasReceiver(reg) /\ ~ChanFull(reg)
                  THEN ToChan(reg, Msg("digest", relay.seq, emu.grid))
                  ELSE stream
     /\ UNCHANGED <<stale, resizeSeq, emu, asOf, lock, handler, reg, linkVars, clientVars, up, out, spent>>

Relay == Feed \/ ComputeDiff \/ PushDiff \/ Broadcast \/ Reap \/ Digest

-----------------------------------------------------------------------------
(* The handler of a link's Attach messages: on_attach and ServerApp::attach. *)

(* What a stream can send before it next waits. *)
Unsent(st) ==
  CASE st.pc = "live" -> st.replay \o st.chan
    [] st.pc = "reset" -> <<Plain("reset"), Msg("snapshot", st.label, st.snap)>>
    [] st.pc = "fill" -> <<Msg("snapshot", st.label, st.snap)>>
    [] OTHER -> <<>>

(* on_attach: a pane already attached through this link has its stream       *)
(* aborted, then its attachment removed.                                     *)
TakeAttach(l) ==
  /\ Live(l) /\ handler[l].pc = "idle" /\ up # <<>> /\ stream[l].pc # "snapshot"
  /\ up' = Tail(up)
  /\ handler' = [handler EXCEPT ![l] =
       [pc |-> IF handler[l].attached THEN "detach" ELSE "replay",
        attached |-> FALSE, last |-> Head(up), replay |-> <<>>]]
  /\ stream' = IF handler[l].attached THEN [stream EXCEPT ![l] = NoStream] ELSE stream
  /\ \E n \in IF "abort" \in Windows THEN 0..Len(Unsent(stream[l])) ELSE {0} :
       stale' = [stale EXCEPT ![l] = SubSeq(Unsent(stream[l]), 1, n)]
  /\ UNCHANGED <<resizeSeq, emu, relay, asOf, lock, reg, linkVars, clientVars, out, spent>>

(* detach_from_pane: removes the client's entry, whichever link made it. *)
DetachOld(l) ==
  /\ handler[l].pc = "detach" /\ lock = "free"
  /\ handler' = [handler EXCEPT ![l].pc = "replay"]
  /\ reg' = 0
  /\ UNCHANGED <<stale, resizeSeq, emu, relay, asOf, lock, stream, linkVars, clientVars, up, out, spent>>

(* compute_replay: the retained diffs after the client's last seqno when     *)
(* they reach back to it and are few, else a snapshot; a resuming client is  *)
(* told to reset first.  The snapshot is taken here, its seqno read next.    *)
(* The buffer is in seqno order: the diffs after a seqno are its last ones.  *)
Since(seq) ==
  LET older == Cardinality({i \in 1..Len(relay.buffer) : relay.buffer[i].seq <= seq})
  IN SubSeq(relay.buffer, older + 1, Len(relay.buffer))
DeltaCovers(seq) ==
  /\ seq <= CurrentSeqno
  /\ relay.buffer # <<>> /\ seq >= Head(relay.buffer).seq
  /\ Len(Since(seq)) <= MaxDelta

ComputeReplay(l) ==
  LET last == handler[l].last
      delta == last # Fresh /\ DeltaCovers(last)
      reset == IF last = Fresh THEN <<>> ELSE <<Plain("reset")>>
  IN /\ handler[l].pc = "replay" /\ lock = "free"
     /\ lock' = "attach"
     /\ handler' = [handler EXCEPT
          ![l].pc = IF delta THEN "insert" ELSE "label",
          ![l].replay = IF delta THEN Since(last)
                                 ELSE Append(reset, Msg("snapshot", 0, emu.grid))]
     /\ UNCHANGED <<stale, resizeSeq, emu, relay, asOf, stream, reg, linkVars, clientVars, up, out, spent>>

ReadLabel(l) ==
  /\ handler[l].pc = "label"
  /\ handler' = [handler EXCEPT ![l].pc = "insert",
                                ![l].replay[Len(handler[l].replay)].seq = CurrentSeqno]
  /\ UNCHANGED <<stale, resizeSeq, emu, relay, asOf, lock, stream, reg, linkVars, clientVars, up, out, spent>>

(* The channel enters the client map and the pane stream starts. *)
InsertClient(l) ==
  /\ handler[l].pc = "insert"
  /\ handler' = [handler EXCEPT ![l] = [IdleHandler EXCEPT !.attached = TRUE]]
  /\ stream' = [stream EXCEPT ![l] = [NoStream EXCEPT !.pc = "live",
                                                     !.replay = handler[l].replay]]
  /\ reg' = l /\ lock' = "free"
  /\ UNCHANGED <<stale, resizeSeq, emu, relay, asOf, linkVars, clientVars, up, out, spent>>

(* The loop of a link the client has left ends once its handler is idle:     *)
(* release_channel drops the streams and detaches what that link attached.   *)
ReleaseChannel(l) ==
  /\ ~Live(l) /\ l <= link /\ l \notin released
  /\ handler[l].pc = "idle" /\ lock = "free"
  /\ released' = released \cup {l}
  /\ reg' = IF reg = l THEN 0 ELSE reg
  /\ stream' = [stream EXCEPT ![l] = NoStream]
  /\ handler' = [handler EXCEPT ![l] = IdleHandler]
  /\ UNCHANGED <<stale, resizeSeq, emu, relay, asOf, lock, link, down, racing, clientVars, up, out, spent>>

Handler(l) ==
  \/ TakeAttach(l) \/ DetachOld(l) \/ ComputeReplay(l) \/ ReadLabel(l)
  \/ InsertClient(l) \/ ReleaseChannel(l)

-----------------------------------------------------------------------------
(* The pane stream of a link: forward_pane_stream and resync_lagged.         *)

SenderDropped(l) == reg # l
Covered(l, msg) == msg.kind \in Incremental /\ msg.seq <= stream[l].covered

(* Live: the replay first, then the channel; a frame the last resync's       *)
(* snapshot covers is skipped, one the queue has no room for is dropped.     *)
Forward(l) ==
  LET st == stream[l]
      fromReplay == st.replay # <<>>
      msg == IF fromReplay THEN Head(st.replay) ELSE Head(st.chan)
      popped == IF fromReplay THEN [st EXCEPT !.replay = Tail(@)]
                              ELSE [st EXCEPT !.chan = Tail(@)]
  IN /\ st.pc = "live" /\ (fromReplay \/ st.chan # <<>>)
     /\ \/ /\ Covered(l, msg)
           /\ stream' = [stream EXCEPT ![l] = popped]
           /\ UNCHANGED out
        \/ /\ ~Covered(l, msg) /\ DataFits(l)
           /\ stream' = [stream EXCEPT ![l] = popped]
           /\ QueueData(l, msg)
        \/ /\ ~Covered(l, msg) /\ ~DataFits(l)
           /\ stream' = [stream EXCEPT ![l] = [popped EXCEPT !.pc = "lagged"]]
           /\ UNCHANGED out
     /\ UNCHANGED <<stale, resizeSeq, emu, relay, asOf, lock, handler, reg, linkVars, clientVars, up, spent>>

(* Lagged: the select prefers data_room; until then frames are dropped. *)
DropFrame(l) ==
  /\ stream[l].pc = "lagged" /\ stream[l].chan # <<>> /\ ~HasRoom(l)
  /\ stream' = [stream EXCEPT ![l].chan = Tail(@)]
  /\ UNCHANGED <<stale, resizeSeq, emu, relay, asOf, lock, handler, reg, linkVars, clientVars, up, out, spent>>

(* recv returns None: the sender is gone and the channel is drained. *)
EndStream(l) ==
  /\ stream[l].pc = "live" => stream[l].replay = <<>>
  /\ stream[l].pc \in {"live", "lagged"} /\ stream[l].chan = <<>> /\ SenderDropped(l)
  /\ stream' = [stream EXCEPT ![l] = NoStream]
  /\ UNCHANGED <<stale, resizeSeq, emu, relay, asOf, lock, handler, reg, linkVars, clientVars, up, out, spent>>

StartResync_OnNextFrame(l) ==
  /\ stream[l].pc = "lagged" /\ HasRoom(l) /\ stream[l].chan # <<>>
  /\ stream' = [stream EXCEPT ![l] =
       IF SenderDropped(l) THEN NoStream
       ELSE [@ EXCEPT !.pc = "resync", !.replay = <<>>, !.chan = <<>>]]
  /\ UNCHANGED <<stale, resizeSeq, emu, relay, asOf, lock, handler, reg, linkVars, clientVars, up, out, spent>>

(* The queue has room: what the lag left waiting is discarded. *)
StartResync(l) ==
  /\ stream[l].pc = "lagged" /\ HasRoom(l)
  /\ stream' = [stream EXCEPT ![l] =
       IF SenderDropped(l) THEN NoStream
       ELSE [@ EXCEPT !.pc = "resync", !.replay = <<>>, !.chan = <<>>]]
  /\ UNCHANGED <<stale, resizeSeq, emu, relay, asOf, lock, handler, reg, linkVars, clientVars, up, out, spent>>

(* resync_snapshot: the seqno is read before the snapshot is taken. *)
ResyncLabel(l) ==
  /\ stream[l].pc = "resync" /\ lock = "free"
  /\ lock' = "resync"
  /\ stream' = [stream EXCEPT ![l].pc = "snapshot", ![l].label = CurrentSeqno]
  /\ UNCHANGED <<stale, resizeSeq, emu, relay, asOf, handler, reg, linkVars, clientVars, up, out, spent>>

ResyncSnapshot(l) ==
  /\ stream[l].pc = "snapshot"
  /\ lock' = "free"
  /\ stream' = [stream EXCEPT ![l].pc = "reset", ![l].snap = emu.grid]
  /\ UNCHANGED <<stale, resizeSeq, emu, relay, asOf, handler, reg, linkVars, clientVars, up, out, spent>>

(* SyncReset, then the snapshot; either may find the queue refilled. *)
SendReset(l) ==
  /\ stream[l].pc = "reset"
  /\ IF DataFits(l)
     THEN QueueData(l, Plain("reset")) /\ stream' = [stream EXCEPT ![l].pc = "fill"]
     ELSE UNCHANGED out /\ stream' = [stream EXCEPT ![l].pc = "lagged"]
  /\ UNCHANGED <<stale, resizeSeq, emu, relay, asOf, lock, handler, reg, linkVars, clientVars, up, spent>>

SendSnapshot(l) ==
  LET st == stream[l]
  IN /\ st.pc = "fill"
     /\ IF DataFits(l)
        THEN /\ QueueData(l, Msg("snapshot", st.label, st.snap))
             /\ stream' = [stream EXCEPT ![l].pc = "live", ![l].covered = st.label]
        ELSE UNCHANGED out /\ stream' = [stream EXCEPT ![l].pc = "lagged"]
     /\ UNCHANGED <<stale, resizeSeq, emu, relay, asOf, lock, handler, reg, linkVars, clientVars, up, spent>>

(* An aborted stream sends on until the queue is congested or it waits. *)
StaleSend(l) ==
  /\ stale[l] # <<>>
  /\ \/ /\ DataFits(l)
        /\ QueueData(l, Head(stale[l]))
        /\ stale' = [stale EXCEPT ![l] = Tail(@)]
     \/ stale' = [stale EXCEPT ![l] = <<>>] /\ UNCHANGED out
  /\ UNCHANGED <<emu, relay, asOf, lock, resizeSeq, handler, stream, reg, linkVars,
                 clientVars, up, spent>>

Stream(l) ==
  \/ StaleSend(l)
  \/ Forward(l) \/ DropFrame(l) \/ EndStream(l) \/ StartResync(l)
  \/ ResyncLabel(l) \/ ResyncSnapshot(l) \/ SendReset(l) \/ SendSnapshot(l)

-----------------------------------------------------------------------------
(* Another viewer of the pane attaches, leaves or resizes its window, which  *)
(* changes the size the pane has: apply_effective_size, broadcast_resize.    *)

(* The seqno is read, then the emulator is resized: its next diff repaints.  *)
ResizePane ==
  /\ lock = "free" /\ spent.resizes < MaxResizes
  /\ lock' = "resize"
  /\ resizeSeq' = CurrentSeqno
  /\ emu' = [emu EXCEPT !.prev = Blank]
  /\ spent' = [spent EXCEPT !.resizes = @ + 1]
  /\ UNCHANGED <<stale, relay, asOf, handler, stream, reg, linkVars, clientVars, up, out>>

BroadcastResize_NextSeqno ==
  /\ lock = "resize"
  /\ lock' = "free"
  /\ IF reg = 0 THEN UNCHANGED <<out, down>> ELSE SendControl(reg, Plain("resized"))
  /\ stream' = IF reg # 0 /\ HasReceiver(reg) /\ ~ChanFull(reg)
               THEN ToChan(reg, Msg("snapshot", resizeSeq + 1, emu.grid)) ELSE stream
  /\ UNCHANGED <<stale, resizeSeq, emu, relay, asOf, handler, reg, link, released, racing, clientVars, up, spent>>

(* PaneResized is control and always sent; the snapshot goes to the pane's   *)
(* channel if it has room.                                                   *)
BroadcastResize ==
  /\ lock = "resize"
  /\ lock' = "free"
  /\ IF reg = 0 THEN UNCHANGED <<out, down>> ELSE SendControl(reg, Plain("resized"))
  /\ stream' = IF reg # 0 /\ HasReceiver(reg) /\ ~ChanFull(reg)
               THEN ToChan(reg, Msg("snapshot", resizeSeq, emu.grid)) ELSE stream
  /\ UNCHANGED <<stale, resizeSeq, emu, relay, asOf, handler, reg, link, released, racing, clientVars, up, spent>>

Resize == ResizePane \/ BroadcastResize

-----------------------------------------------------------------------------
(* The client: handle_server_message for the pane's frames, and its links.   *)

(* attach_fresh, after clearing the grid. *)
Resync ==
  /\ spent.attaches < MaxAttaches
  /\ spent' = [spent EXCEPT !.attaches = @ + 1]
  /\ up' = Append(up, Fresh)
  /\ sync' = "awaiting" /\ expected' = 0
  /\ shown' = Blank /\ blanked' = FALSE

OnSnapshot_NotNext(msg) ==
  /\ sync' = "synced" /\ expected' = msg.seq
  /\ shown' = msg.cells /\ blanked' = FALSE
  /\ UNCHANGED <<up, spent>>

(* on_terminal_snapshot: accepted in any state. *)
OnSnapshot(msg) ==
  /\ sync' = "synced" /\ expected' = msg.seq + 1
  /\ shown' = msg.cells /\ blanked' = FALSE
  /\ UNCHANGED <<up, spent>>

(* on_sync_reset *)
OnReset ==
  /\ sync' = "awaiting" /\ expected' = 0
  /\ shown' = Blank /\ blanked' = FALSE
  /\ UNCHANGED <<up, spent>>

(* on_terminal_update, on_scrollback_append: check_pane_sync, then apply. *)
OnFrame(msg) ==
  \/ sync = "awaiting" /\ UNCHANGED <<clientVars, up, spent>>
  \/ sync = "synced" /\ msg.seq # expected /\ Resync
  \/ /\ sync = "synced" /\ msg.seq = expected
     /\ shown' = Overlay(shown, msg.cells) /\ expected' = expected + 1
     /\ UNCHANGED <<sync, blanked, up, spent>>

(* on_grid_digest: compared only when synced at exactly its seqno. *)
OnDigest(msg) ==
  IF sync = "synced" /\ expected = msg.seq + 1 /\ shown # msg.cells
  THEN Resync
  ELSE UNCHANGED <<clientVars, up, spent>>

(* on_event_pane_resized: the grid is blanked, the sync state is kept. *)
OnResized ==
  /\ shown' = Blank /\ blanked' = TRUE
  /\ UNCHANGED <<sync, expected, up, spent>>

Receive ==
  LET msg == Head(out)
  IN /\ out # <<>>
     /\ out' = Tail(out)
     /\ \/ msg.kind = "snapshot" /\ OnSnapshot(msg)
        \/ msg.kind = "reset" /\ OnReset
        \/ msg.kind \in {"update", "scroll"} /\ OnFrame(msg)
        \/ msg.kind = "digest" /\ OnDigest(msg)
        \/ msg.kind = "lagged" /\ Resync
        \/ msg.kind = "resized" /\ OnResized
        \/ msg.kind \in {"control", "other"} /\ UNCHANGED <<clientVars, up, spent>>
     /\ UNCHANGED <<daemonVars, linkVars>>

(* The link fails; a reconnect re-attaches the pane on a new one, from the   *)
(* last seqno applied if it was in sync (resume_visible_panes).              *)
LoseLink ==
  /\ "drop" \in Events /\ ~down /\ link < MaxLinks
  /\ down' = TRUE
  /\ UNCHANGED <<daemonVars, clientVars, link, released, racing, up, out, spent>>

OldHandlerDone == "overlap" \in Windows \/ handler[link].pc = "idle"

Reconnect ==
  /\ down /\ link < MaxLinks /\ OldHandlerDone /\ spent.attaches < MaxAttaches
  /\ link' = link + 1 /\ down' = FALSE
  /\ out' = <<>> /\ racing' = FALSE
  /\ up' = <<IF sync = "synced" THEN expected - 1 ELSE Fresh>>
  /\ spent' = [spent EXCEPT !.attaches = @ + 1]
  /\ UNCHANGED <<daemonVars, clientVars, released>>

(* apply_transport_upgrade: the supervisor promotes another transport; the   *)
(* old link is dropped and the panes are left as they are (a swap while an   *)
(* attach is under way is left out).                                         *)
SwapTransport ==
  /\ "swap" \in Events /\ ~down /\ link < MaxLinks
  /\ up = <<>> /\ handler[link].pc = "idle"
  /\ link' = link + 1
  /\ out' = <<>> /\ racing' = FALSE
  /\ UNCHANGED <<daemonVars, clientVars, down, released, up, spent>>

Next ==
  \/ Relay \/ Resize \/ OtherTraffic
  \/ \E l \in Links : Handler(l) \/ Stream(l)
  \/ Receive \/ LoseLink \/ Reconnect \/ SwapTransport

Spec == Init /\ [][Next]_vars

(* Every task is scheduled: the relay, the handlers, the streams, the writer *)
(* and the client's event loop.  The shell, other viewers, other traffic and *)
(* the network owe nothing.                                                  *)
FairSpec ==
  /\ Spec
  /\ WF_vars(ComputeDiff \/ PushDiff \/ Broadcast \/ Reap \/ Digest)
  /\ WF_vars(BroadcastResize)
  /\ \A l \in Links : WF_vars(Handler(l)) /\ WF_vars(Stream(l))
  /\ WF_vars(OtherSends) /\ WF_vars(Receive) /\ WF_vars(Reconnect)

-----------------------------------------------------------------------------
(* Properties. *)

(* What the client shows is whole: in sync and expecting seqno k + 1, it has *)
(* drawn everything the pane had drawn as of seqno k, through every lag,     *)
(* dropped frame, resync, re-attach and reconnect (until a resize that       *)
(* blanked its grid is repainted).                                           *)
SyncedIsWhole ==
  sync = "synced" /\ ~blanked =>
    /\ expected <= relay.counter
    /\ \A c \in Cells : shown[c] >= AsOf(expected - 1)[c]

(* Pane data never takes more of the outbound queue than the control reserve *)
(* leaves it: not the frames of this pane, and not all panes' together but   *)
(* for one slot for each other stream that looked at the room at the same    *)
(* time (try_send_data looks, then sends).  However fast panes print,        *)
(* replies, events and pings keep their share.                               *)
Queued(kinds) == Cardinality({i \in 1..Len(out) : out[i].kind \in kinds})
DataLeavesReserve ==
  /\ Queued(DataKinds \ {"other"}) <= Capacity - Reserve
  /\ Queued(DataKinds) <= Capacity - Reserve + 1

(* The frames a client in sync receives never skip a seqno: protocol.md,     *)
(* "each frame one more than the last".  One exception: the replay buffer    *)
(* keeps no history lines (DiffBuffer::push), so the replay of a reconnect   *)
(* may skip the seqnos of history lines, and only theirs.  (A frame may come *)
(* twice, when an attach meets the relay between numbering and sending it.)  *)
HistoryLines(k) == AsOf(k) = AsOf(k - 1)
NoFrameSkipped ==
  out # <<>> /\ sync = "synced" /\ Head(out).kind \in {"update", "scroll"} =>
    \/ Head(out).seq <= expected
    \/ link > 1 /\ \A k \in expected..Head(out).seq - 1 : HistoryLines(k)

(* Once the output stops, the client ends up in sync with the pane's screen, *)
(* however many frames were dropped and links lost on the way.               *)
CatchesUp == <>[](sync = "synced" /\ shown = emu.grid)
=============================================================================
