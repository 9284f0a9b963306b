------------------------------ MODULE Handoff ------------------------------
(***************************************************************************)
(* The graceful restart of kmuxd: an outgoing daemon O hands its live PTYs *)
(* to a successor N over handoff.sock and exits                            *)
(* (crates/kmuxd/src/handoff, startup.rs, app/migrate.rs).                 *)
(*                                                                         *)
(* O is its main loop (main, sigterm), its handoff task (task), its pane   *)
(* readers and its checkpoint file.  N is one successor at a time (nPc).   *)
(* Between them runs a Unix stream socket: a FIFO of frames each way and,  *)
(* per end, whether it is open.  A frame already sent stays readable after *)
(* its sender closes.  A PTY's output is a count: taken[p] bytes have left *)
(* the kernel buffer of p, grid[p] of them are in O's emulator, disk[p] in *)
(* the checkpoint file, nGrid[p] in N's emulator.                          *)
(***************************************************************************)
EXTENDS Integers, Sequences, FiniteSets

CONSTANTS
  Panes,        \* the panes that can ever exist
  MaxOut,       \* bound: bytes of output of one pane
  MaxAttempts,  \* bound: `restart` commands accepted
  Stalls,       \* who may outlast the other side's timeout (StallKinds)
  Events        \* what may happen around the handoff (EventKinds)

StallKinds == {"successor", "reader", "checkpoint", "predecessor"}
EventKinds == {"crash_o", "crash_n", "hang_n", "create", "exit", "close", "tick", "sigterm", "stop"}

ASSUME ConstantsAssumption ==
  /\ MaxOut \in Nat
  /\ MaxAttempts \in Nat
  /\ Stalls \subseteq StallKinds
  /\ Events \subseteq EventKinds

VARIABLES
  pane, reader, hold, taken, grid,            \* O's panes and their readers
  disk, sealed, tick,                         \* the checkpoint file
  gate, task, unsent, committed, keepAlive,   \* O's handoff task
  main, sigterm, stopAsked, cancel, busy, handedOff, alive, attempts,
  nPc, nWant, nFds, nGrid,                    \* the successor
  toN, toO, oEnd, nEnd                        \* the handoff socket

paneVars == <<pane, reader, hold, taken, grid>>
diskVars == <<disk, sealed, tick>>
taskVars == <<gate, task, unsent, committed, keepAlive>>
mainVars == <<main, sigterm, stopAsked, cancel, busy, handedOff, alive, attempts>>
nVars    == <<nPc, nWant, nFds, nGrid>>
linkVars == <<toN, toO, oEnd, nEnd>>
vars     == <<paneVars, diskVars, taskVars, mainVars, nVars, linkVars>>

Absent == -1            \* a pane the checkpoint does not hold
NoTick == <<>>          \* no periodic checkpoint under way

MsgTypes == {"Hello", "Accept", "Decline", "PaneFd", "PaneFdAck", "Complete",
             "Ack", "Released", "Abort"}
Frames == [type : MsgTypes, panes : SUBSET Panes]
Frame(t)      == [type |-> t, panes |-> {}]
PaneFrame(t, S) == [type |-> t, panes |-> S]

PaneStates   == {"none", "creating", "open", "exited", "closed", "killed"}
ReaderStates == {"off", "reading", "parked", "stopped"}
TaskStates   == {"idle", "begun", "closing", "accepting", "hello", "await_accept",
                 "streaming", "await_fd_ack", "holding", "writing", "complete",
                 "await_ack", "write_declined", "finish", "rollback", "aborting",
                 "stopping", "done", "failed", "settling"}
MainStates   == {"loop", "stopping", "exiting", "exited"}
NStates      == {"none", "connecting", "hello", "declined", "fds", "complete",
                 "released", "lost_before", "lost_after", "restore", "inherit",
                 "serving", "stood_down", "dead", "hung"}
EndStates    == {"none", "open", "closed"}
Snapshots    == [Panes -> Int]

(* The handoff task is running: `in_flight` is Some.                       *)
InFlight == task \notin {"idle", "begun", "settling"}
(* The handoff socket is bound: `hand_off` has not returned.               *)
Listening == alive /\ task \notin {"idle", "begun", "closing", "done", "failed", "settling"}
(* O is past the point where it can go back to serving.                    *)
Leaving == task \in {"finish", "done"} \/ handedOff
SuccessorGone == nPc \in {"none", "stood_down", "dead"}
(* The panes a checkpoint lists (`sessions`), with what their emulators    *)
(* hold.                                                                   *)
CheckpointState ==
  [p \in Panes |-> IF pane[p] \in {"open", "exited"} THEN grid[p] ELSE Absent]

Released(r) == [p \in Panes |-> IF r[p] = "parked" THEN "reading" ELSE r[p]]

Init ==
  /\ pane \in [Panes -> {"none", "open"}]
  /\ reader = [p \in Panes |-> IF pane[p] = "open" THEN "reading" ELSE "off"]
  /\ hold = FALSE
  /\ taken = [p \in Panes |-> 0]
  /\ grid = taken
  /\ disk = [p \in Panes |-> Absent] /\ sealed = FALSE /\ tick = NoTick
  /\ gate = "open" /\ task = "idle" /\ unsent = {} /\ committed = FALSE
  /\ keepAlive = FALSE
  /\ main = "loop" /\ sigterm = FALSE /\ stopAsked = FALSE /\ cancel = FALSE
  /\ busy = FALSE /\ handedOff = FALSE /\ alive = TRUE /\ attempts = 0
  /\ nPc = "none" /\ nWant = {} /\ nFds = {} /\ nGrid = [p \in Panes |-> Absent]
  /\ toN = <<>> /\ toO = <<>> /\ oEnd = "none" /\ nEnd = "none"

-----------------------------------------------------------------------------
(* O's panes: creation behind the gate, output, exit and close.            *)

Admitted == gate = "open"

AdmitPane(p) ==
  /\ "create" \in Events /\ alive /\ pane[p] = "none" /\ Admitted
  /\ pane' = [pane EXCEPT ![p] = "creating"]
  /\ UNCHANGED <<reader, hold, taken, grid, diskVars, taskVars, mainVars, nVars, linkVars>>

(* The PTY spawned and the pane went into `sessions` (or the spawn         *)
(* failed); the admission is dropped.                                      *)
CreatePane(p) ==
  /\ alive /\ pane[p] = "creating"
  /\ \/ pane' = [pane EXCEPT ![p] = "open"] /\ reader' = [reader EXCEPT ![p] = "reading"]
     \/ pane' = [pane EXCEPT ![p] = "none"] /\ UNCHANGED reader
  /\ UNCHANGED <<hold, taken, grid, diskVars, taskVars, mainVars, nVars, linkVars>>

(* The reader takes a byte out of the kernel's buffer.                     *)
ReadPty(p) ==
  /\ alive /\ reader[p] = "reading" /\ taken[p] < MaxOut
  /\ taken' = [taken EXCEPT ![p] = @ + 1]
  /\ UNCHANGED <<pane, reader, hold, grid, diskVars, taskVars, mainVars, nVars, linkVars>>

(* A byte read reaches the emulator (`feed_capped`), or, from a worker,    *)
(* the mirror the checkpoint is taken from.                                *)
Unfed_Twice(p) == grid[p] <= taken[p]
Unfed(p) == grid[p] < taken[p]

FeedGrid(p) ==
  /\ alive /\ reader[p] = "reading" /\ Unfed(p)
  /\ grid' = [grid EXCEPT ![p] = @ + 1]
  /\ UNCHANGED <<pane, reader, hold, taken, diskVars, taskVars, mainVars, nVars, linkVars>>

(* The reader sees the hold between two reads and parks.                   *)
Park(p) ==
  /\ alive /\ hold /\ reader[p] = "reading" /\ grid[p] = taken[p]
  /\ reader' = [reader EXCEPT ![p] = "parked"]
  /\ UNCHANGED <<pane, hold, taken, grid, diskVars, taskVars, mainVars, nVars, linkVars>>

(* The shell exits by itself; its reader drains the PTY and ends at EOF.   *)
ChildExits(p) ==
  /\ "exit" \in Events /\ alive /\ pane[p] = "open"
  /\ pane' = [pane EXCEPT ![p] = "exited"]
  /\ UNCHANGED <<reader, hold, taken, grid, diskVars, taskVars, mainVars, nVars, linkVars>>

ReaderEnds(p) ==
  /\ alive /\ pane[p] = "exited" /\ reader[p] = "reading" /\ grid[p] = taken[p]
  /\ reader' = [reader EXCEPT ![p] = "off"]
  /\ UNCHANGED <<pane, hold, taken, grid, diskVars, taskVars, mainVars, nVars, linkVars>>

(* A client closes the pane: nothing gates a close on a handoff.           *)
ClosePane(p) ==
  /\ "close" \in Events /\ alive /\ pane[p] \in {"open", "exited"}
  /\ pane' = [pane EXCEPT ![p] = "closed"]
  /\ reader' = [reader EXCEPT ![p] = "off"]
  /\ UNCHANGED <<hold, taken, grid, diskVars, taskVars, mainVars, nVars, linkVars>>

PaneStep ==
  \E p \in Panes : \/ AdmitPane(p) \/ CreatePane(p) \/ ReadPty(p) \/ FeedGrid(p)
                   \/ Park(p) \/ ChildExits(p) \/ ReaderEnds(p) \/ ClosePane(p)

-----------------------------------------------------------------------------
(* The periodic checkpoint: the state is gathered on the runtime, then     *)
(* written on the blocking pool, and refused once the file is sealed.      *)

TickGather ==
  /\ "tick" \in Events /\ alive /\ tick = NoTick
  /\ tick' = <<CheckpointState>>
  /\ UNCHANGED <<paneVars, disk, sealed, taskVars, mainVars, nVars, linkVars>>

TickWrite ==
  /\ alive /\ tick # NoTick
  /\ tick' = NoTick
  /\ disk' = IF sealed THEN disk ELSE tick[1]
  /\ UNCHANGED <<paneVars, sealed, taskVars, mainVars, nVars, linkVars>>

(* `write_final_from`: write whatever the state, and seal.                 *)
WriteFinal == disk' = CheckpointState /\ sealed' = TRUE /\ UNCHANGED tick

-----------------------------------------------------------------------------
(* O's control socket, signals and main loop (startup.rs, daemon.rs).      *)

(* `restart`: HandoffStatus::begin marks the handoff running; a second     *)
(* request meanwhile is answered `busy`.                                   *)
Restart ==
  /\ alive /\ main = "loop" /\ ~busy /\ attempts < MaxAttempts
  /\ busy' = TRUE /\ attempts' = attempts + 1 /\ task' = "begun"
  /\ UNCHANGED <<paneVars, diskVars, gate, unsent, committed, keepAlive, main, sigterm,
                 stopAsked, cancel, handedOff, alive, nVars, linkVars>>

(* The request's connection is cut off before it handed the handoff over:  *)
(* the guard rolls it back.                                                *)
RestartCutOff ==
  /\ alive /\ task = "begun"
  /\ task' = "idle" /\ busy' = FALSE
  /\ UNCHANGED <<paneVars, diskVars, gate, unsent, committed, keepAlive, main, sigterm,
                 stopAsked, cancel, handedOff, alive, attempts, nVars, linkVars>>

(* The main loop starts the handoff task, which asks for the gate.         *)
StartTask ==
  /\ alive /\ main = "loop" /\ task = "begun"
  /\ task' = "closing" /\ gate' = "closing" /\ committed' = FALSE /\ cancel' = FALSE
  /\ UNCHANGED <<paneVars, diskVars, unsent, keepAlive, main, sigterm, stopAsked, busy,
                 handedOff, alive, attempts, nVars, linkVars>>

Sigterm ==
  /\ "sigterm" \in Events /\ alive /\ ~sigterm
  /\ sigterm' = TRUE
  /\ UNCHANGED <<paneVars, diskVars, taskVars, main, stopAsked, cancel, busy, handedOff,
                 alive, attempts, nVars, linkVars>>

LeaveLoop ==
  /\ main' = IF InFlight THEN "stopping" ELSE "exiting"
  /\ cancel' = InFlight

(* A signal stays pending while the loop is settling a handoff.            *)
ServeSignal ==
  /\ alive /\ main = "loop" /\ sigterm /\ task # "settling"
  /\ LeaveLoop
  /\ UNCHANGED <<paneVars, diskVars, taskVars, sigterm, stopAsked, busy, handedOff, alive,
                 attempts, nVars, linkVars>>

(* The `stop` command: answered `ok`, then `notify_waiters`, which wakes   *)
(* the loop only if it is waiting in its select!.                          *)
StopCommand ==
  /\ "stop" \in Events /\ alive /\ main = "loop" /\ ~stopAsked
  /\ stopAsked' = TRUE
  /\ IF task = "settling" THEN UNCHANGED <<main, cancel>> ELSE LeaveLoop
  /\ UNCHANGED <<paneVars, diskVars, taskVars, sigterm, busy, handedOff, alive, attempts,
                 nVars, linkVars>>

HandoffDone ==
  /\ alive /\ main \in {"loop", "stopping"} /\ task = "done"
  /\ handedOff' = TRUE /\ main' = "exiting"
  /\ keepAlive' = (keepAlive \/ committed)
  /\ UNCHANGED <<paneVars, diskVars, gate, task, unsent, committed, sigterm, stopAsked,
                 cancel, busy, alive, attempts, nVars, linkVars>>

HandoffFailed ==
  /\ alive /\ main = "loop" /\ task = "failed"
  /\ task' = "settling"
  /\ UNCHANGED <<paneVars, diskVars, gate, unsent, committed, keepAlive, mainVars, nVars,
                 linkVars>>

SettleFailed ==
  /\ alive /\ main = "loop" /\ task = "settling"
  /\ hold' = FALSE /\ reader' = Released(reader)
  /\ task' = "idle" /\ busy' = FALSE
  /\ UNCHANGED <<pane, taken, grid, diskVars, gate, unsent, committed, keepAlive, main,
                 sigterm, stopAsked, cancel, handedOff, alive, attempts, nVars, linkVars>>

(* A shutdown that cancelled the handoff: it has rolled back.              *)
StoppedFailed ==
  /\ alive /\ main = "stopping" /\ task = "failed"
  /\ hold' = FALSE /\ reader' = Released(reader)
  /\ task' = "idle" /\ main' = "exiting"
  /\ UNCHANGED <<pane, taken, grid, diskVars, gate, unsent, committed, keepAlive, sigterm,
                 stopAsked, cancel, busy, handedOff, alive, attempts, nVars, linkVars>>

(* The shutdown's own final checkpoint, which may fail.                    *)
ShutdownCheckpoint ==
  /\ alive /\ main = "exiting" /\ ~handedOff /\ ~sealed
  /\ WriteFinal
  /\ UNCHANGED <<paneVars, taskVars, mainVars, nVars, linkVars>>

(* O's process ends: its readers and its end of the socket go with it, and *)
(* its shells are killed (PtyProcess's Drop) unless kept alive.            *)
Gone ==
  /\ alive' = FALSE /\ oEnd' = "closed" /\ hold' = FALSE
  /\ reader' = [p \in Panes |-> "off"] /\ tick' = NoTick

Killed_Always(p) == pane[p] = "open"
Killed(p) == pane[p] = "open" /\ ~keepAlive

Exit ==
  /\ alive /\ main = "exiting"
  /\ Gone
  /\ main' = "exited"
  /\ pane' = [p \in Panes |-> IF Killed(p) THEN "killed" ELSE pane[p]]
  /\ UNCHANGED <<taken, grid, disk, sealed, taskVars, sigterm, stopAsked, cancel, busy,
                 handedOff, attempts, nVars, toN, toO, nEnd>>

(* O is killed outright: no destructor runs.                               *)
CrashO ==
  /\ "crash_o" \in Events /\ alive
  /\ Gone
  /\ UNCHANGED <<pane, taken, grid, disk, sealed, taskVars, main, sigterm, stopAsked,
                 cancel, busy, handedOff, attempts, nVars, toN, toO, nEnd>>

MainStep ==
  \/ Restart \/ RestartCutOff \/ StartTask \/ ServeSignal \/ StopCommand
  \/ HandoffDone \/ HandoffFailed \/ SettleFailed \/ StoppedFailed
  \/ ShutdownCheckpoint \/ Exit

-----------------------------------------------------------------------------
(* O's handoff task (handoff/sender.rs).  Every step before the commit is  *)
(* abandoned for a shutdown (`unless_cancelled`, biased), except the       *)
(* checkpoint writes, which own the checkpointer while they run.           *)

(* Whether a peer may be late: its step outlasts the other's timeout       *)
(* (handoff_timeouts).                                                     *)
NLate == "successor" \in Stalls
OLate ==
  \/ "predecessor" \in Stalls
  \/ "checkpoint" \in Stalls /\ task \in {"writing", "write_declined"}

(* What every sender step leaves alone.                                    *)
SenderFrame ==
  UNCHANGED <<main, sigterm, stopAsked, cancel, busy, handedOff, alive, attempts, tick>>

(* The gate is ours once the creations under way have finished; then the   *)
(* socket is bound and the successor spawned.  Either may fail, with no    *)
(* successor to stop.                                                      *)
SpawnSuccessor ==
  /\ alive /\ task = "closing" /\ \A p \in Panes : pane[p] # "creating"
  /\ \/ /\ task' = "accepting" /\ gate' = "closed"
        /\ nPc' = "connecting" /\ nWant' = {} /\ nFds' = {}
        /\ nGrid' = [p \in Panes |-> Absent]
        /\ toN' = <<>> /\ toO' = <<>> /\ oEnd' = "open" /\ nEnd' = "none"
     \/ /\ task' = "failed" /\ gate' = "open"
        /\ UNCHANGED <<nVars, linkVars>>
  /\ UNCHANGED <<paneVars, disk, sealed, unsent, committed, keepAlive>> /\ SenderFrame

(* `await_successor`.                                                      *)
AcceptSuccessor ==
  /\ alive /\ task = "accepting" /\ ~cancel /\ nEnd # "none"
  /\ task' = "hello"
  /\ UNCHANGED <<paneVars, disk, sealed, gate, unsent, committed, keepAlive, nVars, linkVars>>
  /\ SenderFrame

(* The successor did not connect in time, or a shutdown came: nothing was  *)
(* sent, so it is only stopped.                                            *)
AcceptFails ==
  /\ alive /\ task = "accepting"
  /\ cancel \/ (nEnd = "none" /\ (NLate \/ nPc = "dead"))
  /\ task' = "stopping"
  /\ UNCHANGED <<paneVars, disk, sealed, gate, unsent, committed, keepAlive, nVars, linkVars>>
  /\ SenderFrame

(* Send m and go on to `next`, or roll back when N's end is closed.        *)
Send(m, next) ==
  IF nEnd = "open"
  THEN toN' = Append(toN, m) /\ task' = next
  ELSE UNCHANGED toN /\ task' = "rollback"

(* Advertise the panes; has_live_fd is set for those whose child lives.    *)
SendHello ==
  /\ alive /\ task = "hello" /\ ~cancel
  /\ unsent' = {p \in Panes : pane[p] = "open"}
  /\ Send(PaneFrame("Hello", unsent'), "await_accept")
  /\ UNCHANGED <<paneVars, disk, sealed, gate, committed, keepAlive, nVars, toO, oEnd, nEnd>>
  /\ SenderFrame

(* Read the successor's next frame in one of the awaiting states.          *)
Receive(at, t, next) ==
  /\ alive /\ task = at /\ ~cancel /\ toO # <<>> /\ Head(toO).type = t
  /\ toO' = Tail(toO) /\ task' = next
  /\ UNCHANGED <<paneVars, disk, sealed, gate, unsent, keepAlive, nVars, toN, oEnd, nEnd>>
  /\ SenderFrame

RecvAccept  == Receive("await_accept", "Accept", "streaming") /\ UNCHANGED committed
RecvDecline == Receive("await_accept", "Decline", "write_declined") /\ UNCHANGED committed
RecvFdAck   == Receive("await_fd_ack", "PaneFdAck", "streaming") /\ UNCHANGED committed
(* The commit point.                                                       *)
RecvAck     == Receive("await_ack", "Ack", "finish") /\ committed' = TRUE

(* `stream_fds`: one fd in flight at a time; a pane closed since it was    *)
(* advertised has no master left to dup.                                   *)
SendFd ==
  /\ alive /\ task = "streaming" /\ ~cancel
  /\ \E p \in unsent :
       /\ unsent' = unsent \ {p}
       /\ IF pane[p] = "closed"
          THEN task' = "rollback" /\ UNCHANGED toN
          ELSE Send(PaneFrame("PaneFd", {p}), "await_fd_ack")
  /\ UNCHANGED <<paneVars, disk, sealed, gate, committed, keepAlive, nVars, toO, oEnd, nEnd>>
  /\ SenderFrame

(* Every fd is across: ask every reader to park.                           *)
HoldRelays ==
  /\ alive /\ task = "streaming" /\ ~cancel /\ unsent = {}
  /\ hold' = TRUE /\ task' = "holding"
  /\ UNCHANGED <<pane, reader, taken, grid, disk, sealed, gate, unsent, committed, keepAlive,
                 nVars, linkVars>>
  /\ SenderFrame

AllParked_NoWait == TRUE
AllParked == \A p \in Panes : reader[p] # "reading"

RelaysHeld ==
  /\ alive /\ task = "holding" /\ ~cancel /\ AllParked
  /\ task' = "writing"
  /\ UNCHANGED <<paneVars, disk, sealed, gate, unsent, committed, keepAlive, nVars, linkVars>>
  /\ SenderFrame

(* A final checkpoint, after the hold or for a successor that declined.    *)
FinalCheckpoint ==
  /\ alive /\ task \in {"writing", "write_declined"}
  /\ \/ WriteFinal /\ task' = IF task = "writing" THEN "complete" ELSE "finish"
     \/ task' = "rollback" /\ UNCHANGED <<disk, sealed, tick>>
  /\ UNCHANGED <<paneVars, gate, unsent, committed, keepAlive, main, sigterm, stopAsked,
                 cancel, busy, handedOff, alive, attempts, nVars, linkVars>>

SendComplete ==
  /\ alive /\ task = "complete" /\ ~cancel
  /\ Send(Frame("Complete"), "await_ack")
  /\ UNCHANGED <<paneVars, disk, sealed, gate, unsent, committed, keepAlive, nVars, toO,
                 oEnd, nEnd>>
  /\ SenderFrame

(* The steps a shutdown abandons (`unless_cancelled`).                     *)
Abandonable_AfterCommit ==
  {"hello", "await_accept", "streaming", "await_fd_ack", "holding", "complete", "await_ack",
   "finish"}
Abandonable ==
  {"hello", "await_accept", "streaming", "await_fd_ack", "holding", "complete", "await_ack"}

(* The successor's end is closed, or its answer overdue.                   *)
NoAnswer_Unbounded == toO = <<>> /\ nEnd = "closed"
NoAnswer == toO = <<>> /\ (nEnd = "closed" \/ NLate)

(* A step fails: a shutdown, readers that do not park in time, or no       *)
(* answer.                                                                 *)
StepFails ==
  /\ alive
  /\ \/ cancel /\ task \in Abandonable
     \/ task = "holding" /\ "reader" \in Stalls /\ ~AllParked
     \/ task \in {"await_accept", "await_fd_ack", "await_ack"} /\ NoAnswer
  /\ task' = "rollback"
  /\ UNCHANGED <<paneVars, disk, sealed, gate, unsent, committed, keepAlive, nVars, linkVars>>
  /\ SenderFrame

(* `quiesce_relays` stops the readers for good.                            *)
Quiesced_Parked(r) == r
Quiesced(r) == [p \in Panes |-> IF r[p] = "off" THEN "off" ELSE "stopped"]

(* `finish`: keep the shells, stop the readers, say Released at best.  For *)
(* a successor that declined only the last.                                *)
Finish ==
  /\ alive /\ task = "finish"
  /\ IF committed
     THEN keepAlive' = TRUE /\ reader' = Quiesced(reader)
     ELSE UNCHANGED <<keepAlive, reader>>
  /\ toN' \in IF nEnd = "open" THEN {toN, Append(toN, Frame("Released"))} ELSE {toN}
  /\ task' = "done" /\ gate' = "ended" /\ oEnd' = "closed"
  /\ UNCHANGED <<pane, hold, taken, grid, disk, sealed, unsent, committed, nVars, toO, nEnd>>
  /\ SenderFrame

(* The FinalCheckpoint drops (unsealing) and the readers are released ...  *)
RollBack_Sealed ==
  /\ alive /\ task = "rollback"
  /\ hold' = FALSE /\ reader' = Released(reader)
  /\ task' = "aborting"
  /\ UNCHANGED <<pane, taken, grid, disk, sealed, gate, unsent, committed, keepAlive, nVars,
                 linkVars>>
  /\ SenderFrame

RollBack ==
  /\ alive /\ task = "rollback"
  /\ sealed' = FALSE /\ hold' = FALSE /\ reader' = Released(reader)
  /\ task' = "aborting"
  /\ UNCHANGED <<pane, taken, grid, disk, gate, unsent, committed, keepAlive, nVars, linkVars>>
  /\ SenderFrame

(* ... then Abort is sent, at best, and the stream dropped ...             *)
SendAbort ==
  /\ alive /\ task = "aborting"
  /\ toN' \in IF nEnd = "open" THEN {toN, Append(toN, Frame("Abort"))} ELSE {toN}
  /\ task' = "stopping" /\ oEnd' = "closed"
  /\ UNCHANGED <<paneVars, disk, sealed, gate, unsent, committed, keepAlive, nVars, toO, nEnd>>
  /\ SenderFrame

Stopped(s) == IF SuccessorGone THEN s ELSE "dead"
Hangup(end) == IF end = "open" THEN "closed" ELSE end

StopSuccessor ==
  /\ alive /\ task = "stopping"
  /\ nPc' = Stopped(nPc) /\ nEnd' = IF nPc' = "dead" THEN Hangup(nEnd) ELSE nEnd
  /\ task' = "failed" /\ gate' = "open" /\ oEnd' = "closed"
  /\ UNCHANGED <<paneVars, disk, sealed, unsent, committed, keepAlive, nWant, nFds, nGrid,
                 toN, toO>>
  /\ SenderFrame

SenderStep ==
  \/ SpawnSuccessor \/ AcceptSuccessor \/ AcceptFails \/ SendHello \/ RecvAccept
  \/ RecvDecline \/ RecvFdAck \/ RecvAck \/ SendFd \/ HoldRelays \/ RelaysHeld
  \/ FinalCheckpoint \/ SendComplete \/ StepFails \/ Finish \/ RollBack \/ SendAbort
  \/ StopSuccessor

-----------------------------------------------------------------------------
(* The successor (handoff/receiver.rs and the start of async_main).        *)

NFrame == UNCHANGED <<pane, reader, hold, grid, diskVars, taskVars, mainVars, oEnd>>

(* `connect_with_retry`.                                                   *)
NConnect ==
  /\ nPc = "connecting" /\ Listening
  /\ nPc' = "hello" /\ nEnd' = "open"
  /\ UNCHANGED <<taken, nWant, nFds, nGrid, toN, toO>> /\ NFrame

(* No handoff socket answered in time: the control socket decides.         *)
NUnreachable ==
  /\ nPc = "connecting" /\ ~Listening
  /\ nPc' = IF alive /\ main = "loop" THEN "stood_down" ELSE "restore"
  /\ UNCHANGED <<taken, nWant, nFds, nGrid, linkVars>> /\ NFrame

(* Answer with m and go on to `next`; when O's end is closed the write     *)
(* fails and O is lost.                                                    *)
Reply(m, next, lost) ==
  IF oEnd = "open"
  THEN toO' = Append(toO, Frame(m)) /\ nPc' = next /\ UNCHANGED nEnd
  ELSE nPc' = lost /\ nEnd' = "closed" /\ UNCHANGED toO

Got(at, t) ==
  /\ nPc = at /\ toN # <<>> /\ Head(toN).type = t
  /\ toN' = Tail(toN)

(* `exchange`: Hello of this version is accepted, of another declined.     *)
NHello ==
  /\ Got("hello", "Hello")
  /\ nWant' = Head(toN).panes
  /\ \/ Reply("Accept", IF nWant' = {} THEN "complete" ELSE "fds", "lost_before")
     \/ Reply("Decline", "declined", "lost_before")
  /\ UNCHANGED <<taken, nFds, nGrid>> /\ NFrame

(* `receive_fds`, one per live pane.                                       *)
NPaneFd ==
  /\ Got("fds", "PaneFd")
  /\ nFds' = nFds \cup Head(toN).panes
  /\ Reply("PaneFdAck", IF nFds' = nWant THEN "complete" ELSE "fds", "lost_before")
  /\ UNCHANGED <<taken, nWant, nGrid>> /\ NFrame

(* `acknowledge`.                                                          *)
NComplete ==
  /\ Got("complete", "Complete")
  /\ Reply("Ack", "released", "lost_after")
  /\ UNCHANGED <<taken, nWant, nFds, nGrid>> /\ NFrame

NReleased ==
  /\ \/ Got("released", "Released") /\ nPc' = "inherit" /\ UNCHANGED nFds
     \/ Got("declined", "Released") /\ nPc' = "restore" /\ nFds' = {}
  /\ nEnd' = "closed"
  /\ UNCHANGED <<taken, nWant, nGrid, toO>> /\ NFrame

NAbort ==
  /\ \E at \in {"declined", "fds", "complete", "released"} : Got(at, "Abort")
  /\ nPc' = "stood_down" /\ nEnd' = "closed"
  /\ UNCHANGED <<taken, nWant, nFds, nGrid, toO>> /\ NFrame

(* The next frame does not come (O's end is closed, or O is late), or it   *)
(* is not one N expects: an Abort where Hello should be.  N closes the     *)
(* socket and waits for O to exit.                                         *)
NLost ==
  /\ nPc \in {"hello", "declined", "fds", "complete", "released"}
  /\ \/ toN = <<>> /\ (oEnd = "closed" \/ OLate)
     \/ toN # <<>> /\ nPc = "hello" /\ Head(toN).type # "Hello"
  /\ nPc' = IF nPc = "released" THEN "lost_after" ELSE "lost_before"
  /\ nEnd' = "closed"
  /\ UNCHANGED <<taken, nWant, nFds, nGrid, toN, toO>> /\ NFrame

(* `pull`: O exits within the grace, or N stands down.                     *)
PredecessorGone_Assumed == TRUE
PredecessorGone == ~alive
GraceOver == alive /\ (OLate \/ ~Leaving)

NGrace ==
  /\ \/ /\ nPc = "lost_before" /\ PredecessorGone
        /\ nPc' = "restore" /\ nFds' = {}
     \/ /\ nPc = "lost_after" /\ PredecessorGone
        /\ nPc' = "inherit" /\ UNCHANGED nFds
     \/ /\ nPc \in {"lost_before", "lost_after"} /\ GraceOver
        /\ nPc' = "stood_down" /\ UNCHANGED nFds
  /\ UNCHANGED <<taken, nWant, nGrid, linkVars>> /\ NFrame

(* N restores the checkpoint, adopting the fds of the panes it lists, and  *)
(* serves.  The fds of panes it does not list are dropped.                 *)
NServe ==
  /\ nPc \in {"restore", "inherit"}
  /\ nPc' = "serving"
  /\ nFds' = {p \in nFds : disk[p] # Absent}
  /\ nGrid' = [p \in Panes |-> IF p \in nFds' THEN disk[p] ELSE Absent]
  /\ UNCHANGED <<taken, nWant, linkVars>> /\ NFrame

NRead(p) ==
  /\ nPc = "serving" /\ p \in nFds /\ taken[p] < MaxOut
  /\ taken' = [taken EXCEPT ![p] = @ + 1]
  /\ nGrid' = [nGrid EXCEPT ![p] = @ + 1]
  /\ UNCHANGED <<nPc, nWant, nFds, linkVars>> /\ NFrame

(* N is killed, or fails to start (a bind that fails, a full disk).        *)
CrashN ==
  /\ "crash_n" \in Events /\ ~SuccessorGone
  /\ nPc' = "dead" /\ nEnd' = Hangup(nEnd)
  /\ UNCHANGED <<taken, nWant, nFds, nGrid, toN, toO>> /\ NFrame

(* N stops making progress before its Ack, its socket still open.          *)
HangN ==
  /\ "hang_n" \in Events /\ nPc \in {"connecting", "hello", "fds", "complete"}
  /\ nPc' = "hung"
  /\ UNCHANGED <<taken, nWant, nFds, nGrid, linkVars>> /\ NFrame

SuccessorStep ==
  \/ NConnect \/ NUnreachable \/ NHello \/ NPaneFd \/ NComplete \/ NReleased \/ NAbort
  \/ NLost \/ NGrace \/ NServe

-----------------------------------------------------------------------------
Next ==
  \/ PaneStep \/ TickGather \/ TickWrite \/ MainStep \/ Sigterm \/ SenderStep
  \/ SuccessorStep \/ (\E p \in Panes : NRead(p)) \/ CrashO \/ CrashN \/ HangN

Spec == Init /\ [][Next]_vars

-----------------------------------------------------------------------------
(* Fairness: every task of the two daemons keeps running, and what a reader *)
(* has read reaches its emulator.  Nothing makes a pane, a client, a signal *)
(* or a crash happen.                                                       *)
MainProgress ==
  \/ StartTask \/ ServeSignal \/ HandoffDone \/ HandoffFailed \/ SettleFailed
  \/ StoppedFailed \/ Exit

Fairness ==
  /\ WF_vars(MainProgress) /\ WF_vars(SenderStep) /\ WF_vars(SuccessorStep)
  /\ \A p \in Panes : WF_vars(CreatePane(p)) /\ WF_vars(FeedGrid(p)) /\ WF_vars(Park(p))

FairSpec == Spec /\ Fairness

-----------------------------------------------------------------------------
(* Properties.                                                              *)

(* Every variable stays within its type, and no emulator is ahead of what   *)
(* was read.                                                                *)
PanesOK ==
  /\ pane \in [Panes -> PaneStates] /\ reader \in [Panes -> ReaderStates]
  /\ hold \in BOOLEAN /\ taken \in [Panes -> Nat] /\ grid \in [Panes -> Nat]
  /\ \A p \in Panes : grid[p] <= taken[p]
DiskOK == disk \in Snapshots /\ sealed \in BOOLEAN /\ tick \in Seq(Snapshots)
TaskOK ==
  /\ gate \in {"open", "closing", "closed", "ended"} /\ task \in TaskStates
  /\ unsent \subseteq Panes /\ committed \in BOOLEAN /\ keepAlive \in BOOLEAN
MainOK ==
  /\ main \in MainStates /\ sigterm \in BOOLEAN /\ stopAsked \in BOOLEAN
  /\ cancel \in BOOLEAN /\ busy \in BOOLEAN /\ handedOff \in BOOLEAN
  /\ alive \in BOOLEAN /\ attempts \in Nat
SuccessorOK ==
  /\ nPc \in NStates /\ nWant \subseteq Panes /\ nFds \subseteq Panes
  /\ nGrid \in [Panes -> Int]
LinkOK ==
  /\ toN \in Seq(Frames) /\ toO \in Seq(Frames)
  /\ oEnd \in EndStates /\ nEnd \in EndStates
TypeOK == PanesOK /\ DiskOK /\ TaskOK /\ MainOK /\ SuccessorOK /\ LinkOK

TakingOver == nPc \in {"restore", "inherit", "serving"}

(* Two daemons never serve at once: a successor that has decided to serve   *)
(* finds O gone or past the point of no return (docs/daemon-handoff.md,     *)
(* "Two daemons never serve at once").                                      *)
OneServer == TakingOver => ~alive \/ Leaving

(* No PTY is ever read by both daemons: O's readers of what N adopted are   *)
(* stopped, not merely parked, before N reads (quiesce_relays).             *)
NoSplitRead ==
  nPc \in {"inherit", "serving"} =>
    \A p \in nFds : alive => reader[p] \in {"off", "stopped"}

(* O was killed while undoing a handoff it had frozen its panes for: its    *)
(* readers ran again, and N had not been told.                              *)
KilledInRollback == ~alive /\ main # "exited" /\ task \in {"aborting", "stopping"}

(* Nothing is lost across a handoff.  Every pane whose shell runs is        *)
(* adopted: none is created between the advertisement and the final         *)
(* checkpoint (the pane-creation gate).  And what N shows of an adopted     *)
(* pane is exactly what has left the kernel's buffer, nothing missing and   *)
(* nothing twice: the final checkpoint is taken with the readers parked and *)
(* stays sealed.                                                            *)
NothingLost ==
  ~KilledInRollback =>
    /\ nPc = "inherit" => \A p \in Panes : pane[p] = "open" => p \in nFds /\ disk[p] # Absent
    /\ nPc = "serving" => \A p \in nFds : nGrid[p] = taken[p]

(* A shell N adopts is never killed by O on its way out (keep-alive is set  *)
(* whenever the Ack was read, and an unread Ack never leads to an exit that *)
(* leaves N adopting).                                                      *)
ShellsSurvive ==
  nPc \in {"inherit", "serving"} => \A p \in nFds : pane[p] # "killed"

(* A daemon that serves with no handoff running is whole, whatever rolled   *)
(* back before: its readers run, its gate is open, its checkpoint accepts   *)
(* writes, its shells die with it, no successor lives, a restart is not     *)
(* refused as busy.                                                         *)
ServingIsWhole ==
  alive /\ main = "loop" /\ task = "idle" =>
    /\ \A p \in Panes : reader[p] \notin {"parked", "stopped"}
    /\ gate = "open" /\ ~sealed /\ ~hold /\ ~keepAlive /\ ~busy /\ SuccessorGone

(* A handoff always ends: no `restart` is answered `busy` forever.          *)
HandoffEnds == busy ~> (~busy \/ ~alive)

(* After the commit nothing undoes the handoff, a shutdown included: N      *)
(* serves.                                                                  *)
CommitIsTakenOver == committed ~> (nPc = "serving")

-----------------------------------------------------------------------------
(* The handoff implements PtyHandover as long as O is not killed outright  *)
(* (a kill may take bytes read and not yet shown with it).                 *)
Holder ==
  [p \in Panes |->
     IF nPc = "serving" /\ p \in nFds THEN "new"
     ELSE IF reader[p] = "reading" THEN "old" ELSE "nobody"]
Shown == [p \in Panes |-> IF nPc = "serving" /\ p \in nFds THEN nGrid[p] ELSE grid[p]]

Abstract == INSTANCE PtyHandover WITH holder <- Holder, shown <- Shown

(* Every step of the two daemons is a step, or no step, of PtyHandover.    *)
HandsOverEachPty == Abstract!Spec

=============================================================================
