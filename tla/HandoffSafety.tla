--------------------------- MODULE HandoffSafety ---------------------------
(***************************************************************************)
(* What a handoff keeps, proved for any number of panes, attempts, stalls  *)
(* and events: no PTY is read by both daemons, nothing a shell printed is  *)
(* lost, no adopted shell is killed, and a daemon that rolled back is      *)
(* whole; and the handoff implements PtyHandover.                          *)
(*                                                                         *)
(* The argument is one inductive invariant in three layers.  ControlInv:   *)
(* where O's task is fixes its gate, its seal, its keep-alive flag and     *)
(* what its main loop may do.  ReaderInv: what that says of the panes and  *)
(* their readers.  SuccessorInv: what N may be doing meanwhile; above all  *)
(* that an N which acknowledged finds a checkpoint taken with every reader *)
(* parked, and that an N which declined never holds a PTY.                 *)
(***************************************************************************)
EXTENDS HandoffProofs

(* The states of the task in which no successor has been spawned, and those *)
(* in which readers may be frozen.                                          *)
Unspawned == {"idle", "begun", "closing", "failed", "settling"}
Freezing  == {"holding", "writing", "complete", "await_ack", "rollback", "finish", "done"}

GateFollowsTask ==
  /\ task \in Unspawned \ {"closing"} => gate = "open"
  /\ task = "closing" => gate = "closing"
  /\ task = "done" => gate = "ended"
  /\ task \notin Unspawned \cup {"done"} => gate = "closed"
CommitIsFinal == committed => task \in {"finish", "done"}
ExitsSettled ==
  main \in {"exiting", "exited"} =>
    task \in {"idle", "begun"} \/ (task = "done" /\ (committed => keepAlive))
KeptIsDone == keepAlive => task = "done"
SealedIsBounded ==
  sealed => \/ task \in {"complete", "await_ack", "rollback", "finish", "done"}
            \/ main \in {"exiting", "exited"}
CheckpointedIsSealed == task \in {"complete", "await_ack", "finish", "done"} => sealed
BusyIsRunning == busy => task # "idle" \/ main \in {"exiting", "exited"}

ControlInv == /\ GateFollowsTask /\ CommitIsFinal /\ ExitsSettled /\ KeptIsDone
              /\ SealedIsBounded /\ CheckpointedIsSealed /\ BusyIsRunning

LEMMA ControlUnchanged ==
  ControlInv /\ UNCHANGED <<gate, task, committed, keepAlive, main, sealed, busy>> => ControlInv'
  BY DEF ControlInv, GateFollowsTask, CommitIsFinal, ExitsSettled, KeptIsDone, SealedIsBounded,
         CheckpointedIsSealed, BusyIsRunning, Unspawned

LEMMA ControlMain ==
  ASSUME TypeOK, ServerInv, ControlInv, MainStep \/ Sigterm \/ CrashO PROVE ControlInv'
<1> USE DEF ControlInv, GateFollowsTask, CommitIsFinal, ExitsSettled, KeptIsDone,
            SealedIsBounded, CheckpointedIsSealed, BusyIsRunning, Unspawned
<1>1. CASE Sigterm \/ CrashO
  BY <1>1, ControlUnchanged, Zenon DEF Sigterm, CrashO, Gone, diskVars, taskVars
<1>2. CASE Restart \/ RestartCutOff \/ StartTask
  <2>1. CASE Restart
    BY <2>1, Zenon DEF Restart, diskVars, ServerInv, BusyWhileTask
  <2>2. CASE RestartCutOff
    BY <2>2, Zenon DEF RestartCutOff, diskVars, ServerInv, BusyWhileTask
  <2>3. CASE StartTask
    BY <2>3, Zenon DEF StartTask, diskVars, ServerInv, BusyWhileTask
  <2> QED BY <1>2, <2>1, <2>2, <2>3, Zenon
<1>3. CASE ServeSignal \/ StopCommand
  <2>1. CASE ServeSignal
    BY <2>1, Zenon DEF ServeSignal, LeaveLoop, InFlight, diskVars, taskVars
  <2>2. CASE StopCommand
    BY <2>2, Zenon DEF StopCommand, LeaveLoop, InFlight, diskVars, taskVars
  <2> QED BY <1>3, <2>1, <2>2, Zenon
<1>4. CASE HandoffDone
  <2>1. (committed => keepAlive') /\ (keepAlive' => keepAlive \/ committed)
    BY <1>4, Zenon DEF HandoffDone
  <2> QED
    BY <1>4, <2>1, Zenon DEF HandoffDone, diskVars
<1>8. CASE HandoffFailed
  BY <1>8, Zenon DEF HandoffFailed, diskVars, mainVars
<1>5. CASE SettleFailed \/ StoppedFailed
  <2>1. CASE SettleFailed
    BY <2>1, Zenon DEF SettleFailed, diskVars
  <2>2. CASE StoppedFailed
    BY <2>2, Zenon DEF StoppedFailed, diskVars
  <2> QED BY <1>5, <2>1, <2>2, Zenon
<1>6. CASE ShutdownCheckpoint
  BY <1>6, Zenon DEF ShutdownCheckpoint, WriteFinal, taskVars, mainVars
<1>7. CASE Exit
  BY <1>7, Zenon DEF Exit, taskVars
<1> QED
  BY <1>1, <1>2, <1>3, <1>4, <1>5, <1>6, <1>7, <1>8, Zenon DEF MainStep

LEMMA ControlSender == ASSUME TypeOK, ControlInv, SenderStep PROVE ControlInv'
<1> USE DEF ControlInv, GateFollowsTask, CommitIsFinal, ExitsSettled, KeptIsDone,
            SealedIsBounded, CheckpointedIsSealed, BusyIsRunning, Unspawned, SenderFrame
<1>1. CASE SpawnSuccessor
  BY <1>1, Zenon DEF SpawnSuccessor
<1>2. CASE AcceptSuccessor \/ AcceptFails \/ RelaysHeld \/ HoldRelays
  <2>1. CASE AcceptSuccessor
    BY <2>1, Zenon DEF AcceptSuccessor
  <2>2. CASE AcceptFails
    BY <2>2, Zenon DEF AcceptFails
  <2>3. CASE RelaysHeld
    BY <2>3, Zenon DEF RelaysHeld
  <2>4. CASE HoldRelays
    BY <2>4, Zenon DEF HoldRelays
  <2> QED BY <1>2, <2>1, <2>2, <2>3, <2>4, Zenon
<1>3. CASE RecvAccept \/ RecvDecline \/ RecvFdAck \/ RecvAck
  <2>1. CASE RecvAccept
    BY <2>1, Zenon DEF RecvAccept, Receive
  <2>2. CASE RecvDecline
    BY <2>2, Zenon DEF RecvDecline, Receive
  <2>3. CASE RecvFdAck
    BY <2>3, Zenon DEF RecvFdAck, Receive
  <2>4. CASE RecvAck
    BY <2>4, Zenon DEF RecvAck, Receive
  <2> QED BY <1>3, <2>1, <2>2, <2>3, <2>4, Zenon
<1>4. CASE SendHello \/ SendFd \/ SendComplete
  <2>1. UNCHANGED <<gate, committed, keepAlive, main, sealed, busy>>
    BY <1>4, Zenon DEF SendHello, SendFd, SendComplete
  <2>2. \/ task = "hello" /\ task' \in {"await_accept", "rollback"}
        \/ task = "streaming" /\ task' \in {"await_fd_ack", "rollback"}
        \/ task = "complete" /\ task' \in {"await_ack", "rollback"}
    BY <1>4, Zenon DEF SendHello, SendFd, SendComplete, Send
  <2> QED
    BY <2>1, <2>2, Zenon
<1>5. CASE FinalCheckpoint
  BY <1>5, Zenon DEF FinalCheckpoint, WriteFinal
<1>6. CASE StepFails
  BY <1>6, Zenon DEF StepFails, Abandonable
<1>7. CASE Finish
  BY <1>7, Zenon DEF Finish
<1>8. CASE RollBack \/ SendAbort \/ StopSuccessor
  <2>1. CASE RollBack
    BY <2>1, Zenon DEF RollBack
  <2>2. CASE SendAbort
    BY <2>2, Zenon DEF SendAbort
  <2>3. CASE StopSuccessor
    BY <2>3, Zenon DEF StopSuccessor
  <2> QED BY <1>8, <2>1, <2>2, <2>3, Zenon
<1> QED
  BY <1>1, <1>2, <1>3, <1>4, <1>5, <1>6, <1>7, <1>8, Zenon DEF SenderStep

LEMMA ControlStep == ASSUME TypeOK, ServerInv, ControlInv, [Next]_vars PROVE ControlInv'
<1>1. CASE PaneStep \/ TickGather \/ TickWrite
  BY <1>1, ControlUnchanged, ZenonT(30)
     DEF PaneStep, AdmitPane, CreatePane, ReadPty, FeedGrid, Park, ChildExits, ReaderEnds,
         ClosePane, TickGather, TickWrite, diskVars, taskVars, mainVars
<1>2. CASE SuccessorStep \/ (\E p \in Panes : NRead(p)) \/ CrashN \/ HangN
  BY <1>2, ControlUnchanged, Zenon
     DEF SuccessorStep, NConnect, NUnreachable, NHello, NPaneFd, NComplete, NReleased, NAbort,
         NLost, NGrace, NServe, NRead, CrashN, HangN, NFrame, diskVars, taskVars, mainVars
<1>3. CASE UNCHANGED vars
  BY <1>3, ControlUnchanged, Zenon DEF vars, diskVars, taskVars, mainVars
<1> QED
  BY <1>1, <1>2, <1>3, ControlMain, ControlSender, Zenon DEF Next

-----------------------------------------------------------------------------
(* The panes and their readers.                                            *)

(* The gate, once ours, keeps new panes out.                               *)
GateHolds == gate \in {"closed", "ended"} => \A p \in Panes : pane[p] # "creating"
(* Only an exit that does not keep the shells alive kills one.             *)
KilledByExit ==
  \A p \in Panes : pane[p] = "killed" => main = "exited" /\ ~keepAlive /\ ~alive
FrozenIsBounded == task \notin Freezing => ~hold /\ \A p \in Panes : reader[p] # "parked"
StoppedIsFinal == task # "done" => \A p \in Panes : reader[p] # "stopped"
QuiescedStays ==
  task = "done" /\ committed => \A p \in Panes : reader[p] \in {"off", "stopped"}
(* A reader that does not read has fed all it read.                        *)
IdleIsFed ==
  alive /\ task # "done" =>
    \A p \in Panes :
      /\ pane[p] \in {"open", "exited"} /\ reader[p] # "reading" => grid[p] = taken[p]
      /\ pane[p] = "open" => reader[p] # "off"

ReaderInv == /\ GateHolds /\ KilledByExit /\ FrozenIsBounded /\ StoppedIsFinal
             /\ QuiescedStays /\ IdleIsFed

LEMMA ReaderUnchanged ==
  ReaderInv /\ UNCHANGED <<paneVars, gate, task, committed, keepAlive, main, alive>>
  => ReaderInv'
  BY DEF ReaderInv, GateHolds, KilledByExit, FrozenIsBounded, StoppedIsFinal, QuiescedStays,
         IdleIsFed, paneVars

LEMMA ReaderPane == ASSUME TypeOK, ControlInv, ReaderInv, PaneStep PROVE ReaderInv'
<1> USE DEF ReaderInv, GateHolds, KilledByExit, FrozenIsBounded, StoppedIsFinal, QuiescedStays,
            IdleIsFed, TypeOK, PanesOK
<1>1. PICK q \in Panes : \/ AdmitPane(q) \/ CreatePane(q) \/ ReadPty(q) \/ FeedGrid(q)
                         \/ Park(q) \/ ChildExits(q) \/ ReaderEnds(q) \/ ClosePane(q)
  BY Zenon DEF PaneStep
<1>2. UNCHANGED <<gate, task, committed, keepAlive, main, alive>> /\ alive
  BY <1>1, Zenon DEF AdmitPane, CreatePane, ReadPty, FeedGrid, Park, ChildExits, ReaderEnds, ClosePane,
              taskVars, mainVars
<1>3. CASE AdmitPane(q)
  BY <1>2, <1>3, Zenon DEF AdmitPane, Admitted
<1>4. CASE CreatePane(q)
  <2>1. gate \notin {"closed", "ended"} /\ task # "done"
    BY <1>4, Zenon DEF CreatePane, ControlInv, GateFollowsTask
  <2> QED
    BY <1>2, <1>4, <2>1, ZenonT(120) DEF CreatePane
<1>5. CASE ReadPty(q)
  BY <1>2, <1>5, Zenon DEF ReadPty
<1>6. CASE FeedGrid(q)
  BY <1>2, <1>6, Zenon DEF FeedGrid
<1>7. CASE Park(q)
  BY <1>2, <1>7, Zenon DEF Park
<1>8. CASE ChildExits(q)
  BY <1>2, <1>8, Zenon DEF ChildExits
<1>9. CASE ReaderEnds(q)
  BY <1>2, <1>9, Zenon DEF ReaderEnds
<1>10. CASE ClosePane(q)
  BY <1>2, <1>10, ZenonT(60) DEF ClosePane
<1> QED
  BY <1>1, <1>3, <1>4, <1>5, <1>6, <1>7, <1>8, <1>9, <1>10, Zenon

LEMMA ReaderMain ==
  ASSUME TypeOK, ServerInv, ControlInv, ReaderInv, MainStep \/ Sigterm \/ CrashO
  PROVE  ReaderInv'
<1> USE DEF ReaderInv, GateHolds, KilledByExit, FrozenIsBounded, StoppedIsFinal, QuiescedStays,
            IdleIsFed, TypeOK, PanesOK, Freezing
<1>1. CASE Sigterm \/ ServeSignal \/ StopCommand \/ ShutdownCheckpoint
  <2>1. alive
    BY <1>1, Zenon DEF Sigterm, ServeSignal, StopCommand, ShutdownCheckpoint
  <2>2. UNCHANGED <<paneVars, gate, task, committed, keepAlive, alive>>
    BY <1>1, Zenon DEF Sigterm, ServeSignal, StopCommand, ShutdownCheckpoint, taskVars, mainVars
  <2> QED
    BY <2>1, <2>2, Zenon DEF paneVars
<1>2. CASE Restart \/ RestartCutOff \/ StartTask \/ HandoffFailed
  <2>1. task \notin Freezing /\ task' \notin Freezing
    BY <1>2, Zenon DEF Restart, RestartCutOff, StartTask, HandoffFailed, ServerInv, BusyWhileTask
  <2>2. UNCHANGED <<paneVars, keepAlive, main, alive>> /\ gate' \notin {"closed", "ended"}
    BY <1>2, <2>1, Zenon DEF Restart, RestartCutOff, StartTask, HandoffFailed, mainVars, ControlInv,
                      GateFollowsTask, Unspawned, ServerInv, BusyWhileTask
  <2> QED
    BY <2>1, <2>2, Zenon DEF paneVars
<1>3. CASE HandoffDone
  <2>1. UNCHANGED <<paneVars, gate, task, committed, alive>> /\ alive
    BY <1>3, Zenon DEF HandoffDone
  <2> QED
    BY <2>1, Zenon DEF paneVars
<1>4. CASE SettleFailed \/ StoppedFailed
  BY <1>4, ZenonT(120) DEF SettleFailed, StoppedFailed, Released
<1>5. CASE Exit
  BY <1>5, Zenon DEF Exit, Gone, Killed, taskVars
<1>6. CASE CrashO
  BY <1>6, Zenon DEF CrashO, Gone, taskVars
<1> QED
  BY <1>1, <1>2, <1>3, <1>4, <1>5, <1>6, Zenon DEF MainStep

LEMMA ReaderSender == ASSUME TypeOK, ControlInv, ReaderInv, SenderStep PROVE ReaderInv'
<1> USE DEF ReaderInv, GateHolds, KilledByExit, FrozenIsBounded, StoppedIsFinal, QuiescedStays,
            IdleIsFed, TypeOK, PanesOK, Freezing, SenderFrame
<1>1. CASE SpawnSuccessor
  BY <1>1, Zenon DEF SpawnSuccessor, paneVars
<1>2. CASE AcceptSuccessor \/ AcceptFails \/ RelaysHeld
  <2>1. CASE AcceptSuccessor
    BY <2>1, Zenon DEF AcceptSuccessor, paneVars
  <2>2. CASE AcceptFails
    BY <2>2, Zenon DEF AcceptFails, paneVars
  <2>3. CASE RelaysHeld
    BY <2>3, Zenon DEF RelaysHeld, paneVars
  <2> QED BY <1>2, <2>1, <2>2, <2>3, Zenon
<1>3. CASE HoldRelays
  BY <1>3, Zenon DEF HoldRelays
<1>4. CASE RecvAccept \/ RecvDecline \/ RecvFdAck \/ RecvAck
  <2>1. CASE RecvAccept
    BY <2>1, Zenon DEF RecvAccept, Receive, paneVars
  <2>2. CASE RecvDecline
    BY <2>2, Zenon DEF RecvDecline, Receive, paneVars
  <2>3. CASE RecvFdAck
    BY <2>3, Zenon DEF RecvFdAck, Receive, paneVars
  <2>4. CASE RecvAck
    BY <2>4, Zenon DEF RecvAck, Receive, paneVars
  <2> QED BY <1>4, <2>1, <2>2, <2>3, <2>4, Zenon
<1>5. CASE SendHello \/ SendFd \/ SendComplete
  <2>1. UNCHANGED <<paneVars, gate, committed, keepAlive, main, alive>>
    BY <1>5, Zenon DEF SendHello, SendFd, SendComplete
  <2>2. /\ task \notin Freezing => task' # "done" /\ ~hold /\ \A p \in Panes : reader[p] # "parked"
        /\ task \in Freezing => task' \in Freezing \ {"done"}
        /\ task # "done"
    BY <1>5, Zenon DEF SendHello, SendFd, SendComplete, Send
  <2> QED
    BY <2>1, <2>2, Zenon DEF paneVars
<1>6. CASE FinalCheckpoint
  BY <1>6, Zenon DEF FinalCheckpoint, paneVars
<1>7. CASE StepFails
  BY <1>7, Zenon DEF StepFails, Abandonable, paneVars
<1>8. CASE Finish
  BY <1>8, Zenon DEF Finish, Quiesced, ControlInv, GateFollowsTask, Unspawned
<1>9. CASE RollBack
  BY <1>9, Zenon DEF RollBack, Released
<1>10. CASE SendAbort \/ StopSuccessor
  <2>1. CASE SendAbort
    BY <2>1, Zenon DEF SendAbort, paneVars
  <2>2. CASE StopSuccessor
    BY <2>2, Zenon DEF StopSuccessor, paneVars
  <2> QED BY <1>10, <2>1, <2>2, Zenon
<1> QED
  BY <1>1, <1>2, <1>3, <1>4, <1>5, <1>6, <1>7, <1>8, <1>9, <1>10, Zenon DEF SenderStep

LEMMA ReaderStep ==
  ASSUME TypeOK, ServerInv, ControlInv, ReaderInv, [Next]_vars PROVE ReaderInv'
<1>1. CASE TickGather \/ TickWrite
  BY <1>1, ReaderUnchanged, Zenon DEF TickGather, TickWrite, taskVars, mainVars
<1>2. CASE SuccessorStep \/ CrashN \/ HangN
  BY <1>2, ReaderUnchanged, Zenon
     DEF SuccessorStep, NConnect, NUnreachable, NHello, NPaneFd, NComplete, NReleased, NAbort,
         NLost, NGrace, NServe, CrashN, HangN, NFrame, paneVars, taskVars, mainVars
<1>3. CASE \E p \in Panes : NRead(p)
  <2>1. UNCHANGED <<pane, reader, hold, grid, gate, task, committed, keepAlive, main, alive>>
    BY <1>3, Zenon DEF NRead, NFrame, taskVars, mainVars
  <2>2. alive => task = "done"
    BY <1>3, Zenon DEF NRead, ServerInv, TakenOverIsDone, TakingOver
  <2> QED
    BY <2>1, <2>2, Zenon DEF ReaderInv, GateHolds, KilledByExit, FrozenIsBounded, StoppedIsFinal,
                      QuiescedStays, IdleIsFed
<1>4. CASE UNCHANGED vars
  BY <1>4, ReaderUnchanged, Zenon DEF vars, taskVars, mainVars
<1> QED
  BY <1>1, <1>2, <1>3, <1>4, ReaderPane, ReaderMain, ReaderSender, Zenon DEF Next

-----------------------------------------------------------------------------
(* What the two ends of the handoff socket put on it and take off it.      *)

(* O appends at most one frame, the Hello it sends lists its open panes.   *)
LEMMA SenderSends ==
  ASSUME TypeOK, SenderStep, ~ SpawnSuccessor
  PROVE  \/ toN' = toN
         \/ \E f \in Frames :
              /\ toN' = Append(toN, f)
              /\ f.type = "Complete" => SendComplete
              /\ f.type = "Hello" => \A p \in Panes : pane[p] = "open" => p \in f.panes
<1> USE TypeQueue
<1>1. CASE SendHello
  <2> DEFINE f == PaneFrame("Hello", unsent')
  <2>1. f \in Frames /\ f.type = "Hello" /\ f.panes = {p \in Panes : pane[p] = "open"}
    BY <1>1, Zenon DEF SendHello, MsgTypes, PaneFrame
  <2>2. toN' = toN \/ toN' = Append(toN, f)
    BY <1>1, Zenon DEF SendHello, Send
  <2> QED
    BY <2>1, <2>2, Zenon
<1>2. CASE SendFd
  <2>1. \A p \in Panes : PaneFrame("PaneFd", {p}) \in Frames /\ PaneFrame("PaneFd", {p}).type = "PaneFd"
    BY Zenon DEF MsgTypes, PaneFrame
  <2>2. toN' = toN \/ \E p \in Panes : toN' = Append(toN, PaneFrame("PaneFd", {p}))
    BY <1>2, Zenon DEF SendFd, Send, TypeOK, TaskOK
  <2> QED
    BY <2>1, <2>2, Zenon
<1>3. CASE SendComplete
  <2>1. Frame("Complete") \in Frames /\ Frame("Complete").type = "Complete"
    BY Zenon DEF MsgTypes, Frame
  <2>2. toN' = toN \/ toN' = Append(toN, Frame("Complete"))
    BY <1>3, Zenon DEF SendComplete, Send
  <2> QED
    BY <1>3, <2>1, <2>2, Zenon
<1>4. CASE Finish \/ SendAbort
  <2>1. \A t \in {"Released", "Abort"} : Frame(t) \in Frames /\ Frame(t).type = t
    BY Zenon DEF MsgTypes, Frame
  <2>2. toN' = toN \/ \E t \in {"Released", "Abort"} : toN' = Append(toN, Frame(t))
    BY <1>4, Zenon DEF Finish, SendAbort
  <2> QED
    BY <2>1, <2>2, Zenon
<1>5. CASE ~ (SendHello \/ SendFd \/ SendComplete \/ Finish \/ SendAbort)
  BY <1>5, Zenon DEF SenderStep, AcceptSuccessor, AcceptFails, Receive, RecvAccept, RecvDecline,
              RecvFdAck, RecvAck, HoldRelays, RelaysHeld, FinalCheckpoint, StepFails, RollBack,
              StopSuccessor, linkVars
<1> QED
  BY <1>1, <1>2, <1>3, <1>4, <1>5, Zenon

(* N takes at most one frame off, and declines only on its way to leaving. *)
LEMMA SuccessorTalks ==
  ASSUME TypeOK, SuccessorStep \/ (\E p \in Panes : NRead(p)) \/ CrashN \/ HangN
  PROVE  /\ toN' = toN \/ (toN # <<>> /\ toN' = Tail(toN))
         /\ \/ toO' = toO
            \/ \E f \in Frames : /\ toO' = Append(toO, f)
                                 /\ f.type = "Decline" => nPc' = "declined"
<1> USE TypeQueue
<1>1. toN' = toN \/ (toN # <<>> /\ toN' = Tail(toN))
  BY Zenon DEF SuccessorStep, NConnect, NUnreachable, NHello, NPaneFd, NComplete, NReleased, NAbort,
         NLost, NGrace, NServe, NRead, CrashN, HangN, Got, linkVars
<1>2. \A t \in {"Accept", "Decline", "PaneFdAck", "Ack"} :
        Frame(t) \in Frames /\ Frame(t).type = t
  BY ZenonT(30) DEF MsgTypes, Frame
<1>3. \/ toO' = toO
      \/ \E t \in {"Accept", "PaneFdAck", "Ack"} : toO' = Append(toO, Frame(t))
      \/ toO' = Append(toO, Frame("Decline")) /\ nPc' = "declined"
  BY Zenon DEF SuccessorStep, NConnect, NUnreachable, NHello, NPaneFd, NComplete, NReleased, NAbort,
         NLost, NGrace, NServe, NRead, CrashN, HangN, Reply, linkVars
<1> QED
  BY <1>1, <1>2, <1>3, Zenon

(* What a step of N leaves alone.                                          *)
LEMMA SuccessorFrame ==
  ASSUME SuccessorStep \/ (\E p \in Panes : NRead(p)) \/ CrashN \/ HangN
  PROVE  UNCHANGED <<pane, reader, hold, grid, disk, sealed, gate, task, committed, keepAlive,
                     main, alive>>
  BY ZenonT(30) DEF SuccessorStep, NConnect, NUnreachable, NHello, NPaneFd, NComplete, NReleased, NAbort,
         NLost, NGrace, NServe, NRead, CrashN, HangN, NFrame, diskVars, taskVars, mainVars

(* What a step of O other than a handoff step leaves alone of N.           *)
LEMMA OtherFrame ==
  ASSUME PaneStep \/ TickGather \/ TickWrite \/ MainStep \/ Sigterm \/ CrashO
  PROVE  UNCHANGED <<nPc, nWant, nFds, nGrid, toN, toO>>
  BY Zenon DEF PaneStep, AdmitPane, CreatePane, ReadPty, FeedGrid, Park, ChildExits, ReaderEnds,
         ClosePane, TickGather, TickWrite, MainStep, Restart, RestartCutOff, StartTask,
         ServeSignal, StopCommand, HandoffDone, HandoffFailed, SettleFailed, StoppedFailed,
         ShutdownCheckpoint, Exit, Sigterm, CrashO, nVars, linkVars

-----------------------------------------------------------------------------
(* A successor that declined.                                              *)

(* No task, no successor: the one of an earlier attempt is gone.           *)
SpawnedOnce == task \in Unspawned => SuccessorGone
Declined ==
  \/ nPc \in {"declined", "lost_before", "stood_down", "restore", "dead"}
  \/ nPc = "serving" /\ nFds = {}
(* O writes the checkpoint of a declined handoff only for an N that        *)
(* declined, and such an N never adopts a PTY.                             *)
DeclinedStays ==
  Holds(toO, "Decline") \/ (task \in {"write_declined", "finish", "done"} /\ ~committed)
  => Declined
RestoresBare == nPc \in {"connecting", "hello", "restore"} => nFds = {}

DeclineInv == SpawnedOnce /\ DeclinedStays /\ RestoresBare

LEMMA DeclineMain ==
  ASSUME TypeOK, ServerInv, ControlInv, DeclineInv,
         PaneStep \/ TickGather \/ TickWrite \/ MainStep \/ Sigterm \/ CrashO
  PROVE  DeclineInv'
<1>1. UNCHANGED <<nPc, nFds, toO>>
  BY OtherFrame, Zenon
<1>2. CASE PaneStep \/ TickGather \/ TickWrite \/ Sigterm \/ CrashO
  <2>1. UNCHANGED <<task, committed>>
    BY <1>2, Zenon DEF PaneStep, AdmitPane, CreatePane, ReadPty, FeedGrid, Park, ChildExits, ReaderEnds,
         ClosePane, TickGather, TickWrite, Sigterm, CrashO, taskVars
  <2> QED
    BY <1>1, <2>1, Zenon DEF DeclineInv, SpawnedOnce, DeclinedStays, Declined, RestoresBare,
                      SuccessorGone
<1>3. CASE MainStep
  <2>1. /\ task' \in Unspawned => task \in Unspawned
        /\ task' \notin Unspawned => UNCHANGED <<task, committed>>
    BY <1>3, Zenon DEF MainStep, Restart, RestartCutOff, StartTask, ServeSignal, StopCommand,
         HandoffDone, HandoffFailed, SettleFailed, StoppedFailed, ShutdownCheckpoint, Exit,
         taskVars, Unspawned, ServerInv, BusyWhileTask
  <2> QED
    BY <1>1, <2>1 DEF DeclineInv, SpawnedOnce, DeclinedStays, Declined, RestoresBare,
                      SuccessorGone, Unspawned
<1> QED
  BY <1>2, <1>3, Zenon

LEMMA DeclineSender ==
  ASSUME TypeOK, ControlInv, DeclineInv, SenderStep PROVE DeclineInv'
<1>0. "Decline" \in MsgTypes
  BY Zenon DEF MsgTypes
<1> USE DEF DeclineInv, SpawnedOnce, DeclinedStays, Declined, RestoresBare, SuccessorGone,
            Unspawned
<1>1. CASE SpawnSuccessor
  BY <1>0, <1>1, HoldsQueue DEF SpawnSuccessor, nVars, linkVars
<1>2. CASE StopSuccessor
  BY <1>2, Zenon DEF StopSuccessor, Stopped
<1>3. CASE RecvAccept \/ RecvDecline \/ RecvFdAck \/ RecvAck
  <2>1. UNCHANGED <<nPc, nFds>> /\ toO # <<>> /\ toO' = Tail(toO)
    BY <1>3, Zenon DEF RecvAccept, RecvDecline, RecvFdAck, RecvAck, Receive, nVars
  <2>2. /\ Holds(toO', "Decline") => Holds(toO, "Decline")
        /\ Head(toO).type = "Decline" => Holds(toO, "Decline")
    BY <1>0, <2>1, HoldsQueue, Zenon DEF TypeOK, LinkOK
  <2> QED
    BY <1>3, <2>1, <2>2, Zenon DEF RecvAccept, RecvDecline, RecvFdAck, RecvAck, Receive
<1>4. CASE FinalCheckpoint \/ Finish
  BY <1>4, Zenon DEF FinalCheckpoint, Finish, nVars, linkVars
<1>5. CASE SendHello \/ SendFd \/ SendComplete
  <2>1. UNCHANGED <<nPc, nFds, toO, committed>>
    BY <1>5, Zenon DEF SendHello, SendFd, SendComplete, nVars
  <2>2. task' \in {"await_accept", "await_fd_ack", "await_ack", "rollback"}
    BY <1>5, ZenonT(30) DEF SendHello, SendFd, SendComplete, Send
  <2> QED
    BY <2>1, <2>2, Zenon
<1>6. CASE AcceptSuccessor \/ AcceptFails \/ HoldRelays \/ RelaysHeld \/ StepFails \/ RollBack
           \/ SendAbort
  BY <1>6, Zenon DEF AcceptSuccessor, AcceptFails, HoldRelays, RelaysHeld, StepFails, RollBack,
              SendAbort, nVars, linkVars
<1> QED
  BY <1>1, <1>2, <1>3, <1>4, <1>5, <1>6, Zenon DEF SenderStep

LEMMA DeclineSuccessor ==
  ASSUME TypeOK, DeclineInv,
         SuccessorStep \/ (\E p \in Panes : NRead(p)) \/ CrashN \/ HangN
  PROVE  DeclineInv'
<1> USE DEF DeclineInv, SpawnedOnce, DeclinedStays, Declined, RestoresBare
<1>1. UNCHANGED <<task, committed>> /\ ~ SuccessorGone
  BY SuccessorFrame, Zenon DEF SuccessorStep, NConnect, NUnreachable, NHello, NPaneFd, NComplete,
     NReleased, NAbort, NLost, NGrace, NServe, NRead, CrashN, HangN, Got, SuccessorGone
<1>2. Holds(toO', "Decline") => Holds(toO, "Decline") \/ nPc' = "declined"
  <2>1. "Decline" \in MsgTypes
    BY Zenon DEF MsgTypes
  <2> QED
    BY <2>1, SuccessorTalks, HoldsQueue, ZenonT(120) DEF TypeOK, LinkOK
<1>3. RestoresBare'
  BY Zenon DEF SuccessorStep, NConnect, NUnreachable, NHello, NPaneFd, NComplete, NReleased, NAbort,
         NLost, NGrace, NServe, NRead, CrashN, HangN, Got, Reply
<1>4. Declined => Declined'
  BY Zenon DEF SuccessorStep, NConnect, NUnreachable, NHello, NPaneFd, NComplete, NReleased, NAbort,
         NLost, NGrace, NServe, NRead, CrashN, HangN, Got
<1> QED
  BY <1>1, <1>2, <1>3, <1>4, Zenon

LEMMA DeclineStep ==
  ASSUME TypeOK, ServerInv, ControlInv, DeclineInv, [Next]_vars PROVE DeclineInv'
<1>1. CASE UNCHANGED vars
  BY <1>1, Zenon DEF vars, taskVars, nVars, linkVars, DeclineInv, SpawnedOnce, DeclinedStays, Declined,
              RestoresBare, SuccessorGone
<1> QED
  BY <1>1, DeclineMain, DeclineSender, DeclineSuccessor, Zenon DEF Next

-----------------------------------------------------------------------------
(* The final checkpoint.                                                   *)

(* The sealed checkpoint a successor may be told of.                       *)
Final == sealed /\ (task \in {"complete", "await_ack", "rollback"} \/ committed)

WritesParked == task = "writing" => AllParked
(* While it stands nothing is read, and it holds every byte that was.      *)
FinalIsCurrent ==
  Final =>
    \A p \in Panes :
      /\ reader[p] # "reading"
      /\ pane[p] = "open" => disk[p] # Absent
      /\ nPc \notin {"serving", "dead"} /\ disk[p] # Absent =>
           disk[p] = grid[p] /\ grid[p] = taken[p]

FinalInv == WritesParked /\ FinalIsCurrent

(* Where the task has not written it, or has dropped it, it is not there.  *)
LEMMA NotFinal ==
  ASSUME TypeOK, ControlInv,
         task \notin {"complete", "await_ack", "rollback", "finish", "done"}
  PROVE  /\ ~ Final
         /\ task \notin {"idle", "begun"} => ~ sealed
  BY Zenon DEF Final, ControlInv, CommitIsFinal, SealedIsBounded, ExitsSettled

LEMMA FinalPane ==
  ASSUME TypeOK, ControlInv, ReaderInv, FinalInv, PaneStep PROVE FinalInv'
<1> USE DEF FinalInv, WritesParked, AllParked, FinalIsCurrent, Final, TypeOK, PanesOK
<1>1. PICK q \in Panes : \/ AdmitPane(q) \/ CreatePane(q) \/ ReadPty(q) \/ FeedGrid(q)
                         \/ Park(q) \/ ChildExits(q) \/ ReaderEnds(q) \/ ClosePane(q)
  BY Zenon DEF PaneStep
<1>2. UNCHANGED <<disk, sealed, task, committed, nPc>>
  BY <1>1, Zenon DEF AdmitPane, CreatePane, ReadPty, FeedGrid, Park, ChildExits, ReaderEnds, ClosePane,
              diskVars, taskVars, nVars
<1>3. CASE Final \/ task = "writing"
  <2>1. gate \in {"closed", "ended"}
    BY <1>3, Zenon DEF ControlInv, GateFollowsTask, CommitIsFinal, Unspawned
  <2>2. \A p \in Panes : reader[p] # "reading" /\ pane[p] # "creating"
    BY <1>3, <2>1, Zenon DEF ReaderInv, GateHolds
  <2>3. AdmitPane(q) \/ ChildExits(q) \/ ClosePane(q)
    BY <1>1, <2>2, Zenon DEF CreatePane, ReadPty, FeedGrid, Park, ReaderEnds
  <2> QED
    BY <1>2, <2>2, <2>3, ZenonT(60) DEF AdmitPane, ChildExits, ClosePane
<1>4. CASE ~ (Final \/ task = "writing")
  BY <1>2, <1>4, ZenonT(30)
<1> QED
  BY <1>3, <1>4, Zenon

LEMMA FinalMain ==
  ASSUME TypeOK, ServerInv, ControlInv, FinalInv,
         TickGather \/ TickWrite \/ MainStep \/ Sigterm \/ CrashO
  PROVE  FinalInv'
<1> USE DEF FinalInv, WritesParked, AllParked, FinalIsCurrent, Final, TypeOK, PanesOK
<1>0. UNCHANGED nPc
  BY OtherFrame, Zenon
<1>1. CASE TickGather \/ TickWrite
  <2>1. UNCHANGED <<pane, reader, grid, taken, sealed, task, committed>>
    BY <1>1, Zenon DEF TickGather, TickWrite, paneVars, taskVars
  <2>2. sealed => disk' = disk
    BY <1>1, Zenon DEF TickGather, TickWrite
  <2> QED BY <1>0, <2>1, <2>2, Zenon
<1>2. CASE Sigterm \/ ServeSignal \/ StopCommand \/ HandoffDone
  <2>1. UNCHANGED <<pane, reader, grid, taken, disk, sealed, task, committed>>
    <3>1. Sigterm => UNCHANGED <<pane, reader, grid, taken, disk, sealed, task, committed>>
      BY Zenon DEF Sigterm, paneVars, diskVars, taskVars
    <3>2. ServeSignal => UNCHANGED <<pane, reader, grid, taken, disk, sealed, task, committed>>
      BY Zenon DEF ServeSignal, paneVars, diskVars, taskVars
    <3>3. StopCommand => UNCHANGED <<pane, reader, grid, taken, disk, sealed, task, committed>>
      BY Zenon DEF StopCommand, paneVars, diskVars, taskVars
    <3>4. HandoffDone => UNCHANGED <<pane, reader, grid, taken, disk, sealed, task, committed>>
      BY Zenon DEF HandoffDone, paneVars, diskVars, taskVars
    <3> QED BY <1>2, <3>1, <3>2, <3>3, <3>4, Zenon
  <2> QED BY <1>0, <2>1, Zenon
<1>3. CASE Restart \/ RestartCutOff \/ StartTask \/ HandoffFailed \/ SettleFailed
           \/ StoppedFailed
  <2>1. ~ Final'
    BY <1>3, Zenon DEF Restart, RestartCutOff, StartTask, HandoffFailed, SettleFailed, StoppedFailed,
                ControlInv, CommitIsFinal, ServerInv, BusyWhileTask
  <2>2. task' # "writing"
    BY <1>3, Zenon DEF Restart, RestartCutOff, StartTask, HandoffFailed, SettleFailed, StoppedFailed
  <2> QED
    BY <2>1, <2>2, Zenon
<1>4. CASE ShutdownCheckpoint
  BY <1>4, Zenon DEF ShutdownCheckpoint, taskVars, paneVars, ControlInv, CommitIsFinal, ExitsSettled,
              CheckpointedIsSealed
<1>5. CASE Exit \/ CrashO
  <2>1. CASE Exit
    BY <1>0, <2>1, Zenon DEF Exit, Gone, taskVars
  <2>2. CASE CrashO
    BY <1>0, <2>2, Zenon DEF CrashO, Gone, taskVars
  <2> QED BY <1>5, <2>1, <2>2, Zenon
<1> QED
  BY <1>1, <1>2, <1>3, <1>4, <1>5, Zenon DEF MainStep

LEMMA FinalSender ==
  ASSUME TypeOK, ServerInv, ControlInv, ReaderInv, FinalInv, SenderStep PROVE FinalInv'
<1> USE DEF FinalInv, WritesParked, AllParked, FinalIsCurrent, TypeOK, PanesOK
<1>1. CASE FinalCheckpoint
  <2>1. alive /\ ~ Final /\ ~ sealed /\ ~ committed /\ UNCHANGED <<paneVars, committed, nPc>>
    BY <1>1, NotFinal, Zenon DEF FinalCheckpoint, ControlInv, CommitIsFinal, nVars
  <2>2. CASE task = "writing" /\ WriteFinal
    <3>1. disk' = CheckpointState
      BY <2>2, Zenon DEF WriteFinal
    <3>2. \A p \in Panes :
            disk'[p] = IF pane[p] \in {"open", "exited"} THEN grid[p] ELSE Absent
      BY <3>1, Zenon DEF CheckpointState
    <3> QED
      BY <1>1, <2>1, <2>2, <3>2, SMTT(30)
         DEF FinalCheckpoint, Absent, ReaderInv, IdleIsFed, paneVars
  <2>3. CASE ~ (task = "writing" /\ WriteFinal)
    <3>1. (task' = "rollback" /\ sealed' = sealed) \/ task' = "finish"
      BY <1>1, <2>3, Zenon DEF FinalCheckpoint
    <3>2. ~ Final' /\ task' # "writing"
      BY <2>1, <3>1 DEF Final
    <3> QED
      BY <3>2, Zenon
  <2> QED
    BY <2>2, <2>3, Zenon
<1>2. CASE SpawnSuccessor \/ AcceptSuccessor \/ AcceptFails \/ HoldRelays \/ RecvAccept
           \/ RecvDecline \/ RecvFdAck \/ SendAbort \/ StopSuccessor \/ RollBack
  <2>1. /\ ~ sealed' \/ task \notin {"complete", "await_ack", "rollback", "finish", "done"}
        /\ task' \notin {"complete", "await_ack", "rollback", "writing"} /\ committed' = committed
    BY <1>2, Zenon DEF SpawnSuccessor, AcceptSuccessor, AcceptFails, HoldRelays, RecvAccept, RecvDecline,
                RecvFdAck, Receive, SendAbort, StopSuccessor, RollBack
  <2>2. ~ Final'
    BY <2>1, Zenon DEF Final, ControlInv, CommitIsFinal
  <2> QED
    BY <2>1, <2>2, Zenon
<1>3. CASE RelaysHeld
  BY <1>3, NotFinal, Zenon DEF RelaysHeld, Final, paneVars
<1>4. CASE SendHello \/ SendFd \/ SendComplete \/ StepFails
  <2>1. UNCHANGED <<paneVars, disk, sealed, committed, nPc>>
    BY <1>4, Zenon DEF SendHello, SendFd, SendComplete, StepFails, nVars
  <2>2. /\ task \in Abandonable
        /\ task' \in {"await_accept", "await_fd_ack", "await_ack", "rollback"}
        /\ task' = "await_ack" => task = "complete"
    BY <1>4, Zenon DEF SendHello, SendFd, SendComplete, StepFails, Send, Abandonable
  <2>3. Final' => Final
    BY <2>1, <2>2, NotFinal, Zenon DEF Final, Abandonable
  <2> QED
    BY <2>1, <2>2, <2>3, Zenon DEF paneVars
<1>5. CASE RecvAck
  BY <1>5, Zenon DEF RecvAck, Receive, Final, paneVars, nVars
<1>6. CASE Finish
  BY <1>6, ZenonT(30) DEF Finish, Quiesced, Final, nVars
<1> QED
  BY <1>1, <1>2, <1>3, <1>4, <1>5, <1>6, ZenonT(30) DEF SenderStep

LEMMA FinalStep ==
  ASSUME TypeOK, ServerInv, ControlInv, ReaderInv, FinalInv, [Next]_vars PROVE FinalInv'
<1> USE DEF FinalInv, WritesParked, AllParked, FinalIsCurrent, Final
<1>1. CASE SuccessorStep \/ (\E p \in Panes : NRead(p)) \/ CrashN \/ HangN
  <2>1. UNCHANGED <<pane, reader, grid, disk, sealed, task, committed>>
    BY <1>1, SuccessorFrame, ZenonT(30)
  <2>2. nPc' \notin {"serving", "dead"} => nPc \notin {"serving", "dead"} /\ taken' = taken
    BY <1>1, Zenon DEF SuccessorStep, NConnect, NUnreachable, NHello, NPaneFd, NComplete, NReleased,
         NAbort, NLost, NGrace, NServe, NRead, CrashN, HangN, Got
  <2> QED
    BY <2>1, <2>2, Zenon
<1>2. CASE UNCHANGED vars
  BY <1>2, Zenon DEF vars, paneVars, diskVars, taskVars, nVars
<1> QED
  BY <1>1, <1>2, FinalPane, FinalMain, FinalSender, Zenon DEF Next

-----------------------------------------------------------------------------
(* A successor that acknowledged.                                          *)

Acked == nPc \in {"released", "lost_after", "inherit"} \/ (nPc = "serving" /\ nFds # {})

(* Complete is sent, and acknowledged, on a final checkpoint that stands    *)
(* until O undoes the handoff.                                              *)
AckedIsFinal ==
  Acked \/ (Holds(toN, "Complete") /\ ~ SuccessorGone)
  => Final \/ task \in {"aborting", "stopping"}

(* Every Hello in the queue lists the panes that are open.                  *)
Lists(q) ==
  \A i \in 1 .. Len(q) :
    q[i].type = "Hello" => \A p \in Panes : pane[p] = "open" => p \in q[i].panes
(* N is told of every pane, and acknowledges only with all their PTYs.      *)
Advertised ==
  /\ ~ SuccessorGone => Lists(toN)
  /\ nPc \in {"fds", "complete", "released", "lost_after", "inherit"} =>
       \A p \in Panes : pane[p] = "open" => p \in nWant
  /\ nPc \in {"complete", "released", "lost_after", "inherit"} => nFds = nWant

(* What N shows of what it adopted.                                         *)
ServedIsWhole ==
  nPc = "serving" /\ ~ KilledInRollback => \A p \in nFds : nGrid[p] = taken[p]

LEMMA AckedStep ==
  ASSUME TypeOK, ServerInv, ControlInv, DeclineInv, AckedIsFinal, [Next]_vars
  PROVE  AckedIsFinal'
<1>0. "Complete" \in MsgTypes
  BY Zenon DEF MsgTypes
<1> USE DEF AckedIsFinal, Acked, SuccessorGone
<1>1. CASE PaneStep \/ TickGather \/ TickWrite \/ MainStep \/ Sigterm \/ CrashO
  <2>1. UNCHANGED <<nPc, nFds, toN>>
    BY <1>1, OtherFrame, Zenon
  <2>2. \/ task \in Unspawned
        \/ task' = task /\ committed' = committed /\ (sealed => sealed')
    BY <1>1, ZenonT(60) DEF PaneStep, AdmitPane, CreatePane, ReadPty, FeedGrid, Park, ChildExits, ReaderEnds,
         ClosePane, TickGather, TickWrite, MainStep, Restart, RestartCutOff, StartTask,
         ServeSignal, StopCommand, HandoffDone, HandoffFailed, SettleFailed, StoppedFailed,
         ShutdownCheckpoint, WriteFinal, Exit, Sigterm, CrashO, diskVars, taskVars, Unspawned,
         ServerInv, BusyWhileTask
  <2> QED
    BY <2>1, <2>2, Zenon DEF DeclineInv, SpawnedOnce, Final
<1>2. CASE SenderStep
  <2>1. CASE SpawnSuccessor \/ StopSuccessor
    <3>1. CASE SpawnSuccessor
      BY <1>0, <3>1, HoldsQueue, ZenonT(120) DEF SpawnSuccessor, Stopped, nVars, linkVars, DeclineInv, SpawnedOnce, Unspawned
    <3>2. CASE StopSuccessor
      BY <1>0, <3>2, HoldsQueue, Zenon DEF StopSuccessor, Stopped, nVars, linkVars, DeclineInv, SpawnedOnce, Unspawned
    <3> QED BY <2>1, <3>1, <3>2, Zenon
  <2>2. CASE ~ SpawnSuccessor /\ ~ StopSuccessor
    <3>1. UNCHANGED <<nPc, nFds>>
      BY <1>2, <2>2, Zenon DEF SenderStep, AcceptSuccessor, AcceptFails, SendHello, Receive, RecvAccept,
         RecvDecline, RecvFdAck, RecvAck, SendFd, HoldRelays, RelaysHeld, FinalCheckpoint,
         SendComplete, StepFails, Finish, RollBack, SendAbort, nVars
    <3>2. Holds(toN', "Complete") => Holds(toN, "Complete") \/ SendComplete
      BY <1>0, <1>2, <2>2, SenderSends, HoldsQueue, ZenonT(30) DEF TypeOK, LinkOK
    <3>3. CASE SendComplete
      <4>1. task = "complete" /\ task' \in {"await_ack", "rollback"} /\ sealed' = sealed
        BY <3>3, Zenon DEF SendComplete, Send
      <4> QED
        BY <4>1, Zenon DEF Final, ControlInv, CheckpointedIsSealed
    <3>4. CASE RecvAck \/ StepFails \/ Finish \/ RollBack \/ SendAbort
      <4>1. Final \/ task \in {"aborting", "stopping"}
            => Final' \/ task' \in {"aborting", "stopping"}
        BY <3>4, NotFinal, Zenon DEF RecvAck, Receive, StepFails, Abandonable, Finish, RollBack,
           SendAbort, Final
      <4>2. ~ SendComplete
        BY <3>4, Zenon DEF SendComplete, RecvAck, Receive, StepFails, Abandonable, Finish, RollBack,
                    SendAbort, SenderFrame
      <4> QED
        BY <3>1, <3>2, <4>1, <4>2, Zenon
    <3>5. CASE ~ (SendComplete \/ RecvAck \/ StepFails \/ Finish \/ RollBack \/ SendAbort)
      <4>1. task \notin {"complete", "await_ack", "rollback", "finish", "done", "aborting",
                         "stopping"}
        BY <1>2, <2>2, <3>5, Zenon DEF SenderStep, AcceptSuccessor, AcceptFails, SendHello, Receive,
           RecvAccept, RecvDecline, RecvFdAck, SendFd, HoldRelays, RelaysHeld, FinalCheckpoint
      <4> QED
        BY <3>1, <3>2, <3>5, <4>1, NotFinal, Zenon
    <3> QED
      BY <3>3, <3>4, <3>5, Zenon
  <2> QED
    BY <2>1, <2>2, Zenon
<1>3. CASE SuccessorStep \/ (\E p \in Panes : NRead(p)) \/ CrashN \/ HangN
  <2>1. UNCHANGED <<sealed, task, committed>>
    BY <1>3, SuccessorFrame, Zenon
  <2>2. Holds(toN', "Complete") => Holds(toN, "Complete")
    BY <1>0, <1>3, SuccessorTalks, HoldsQueue, Zenon DEF TypeOK, LinkOK
  <2>3. CASE NComplete
    <3>1. Holds(toN, "Complete")
      BY <1>0, <2>3, HoldsQueue, Zenon DEF NComplete, Got, TypeOK, LinkOK
    <3> QED
      BY <2>1, <2>3, <3>1, Zenon DEF NComplete, Got, Final
  <2>4. CASE ~ NComplete
    <3>1. ~ SuccessorGone /\ (Acked' => Acked)
      BY <1>3, <2>4, Zenon DEF SuccessorStep, NConnect, NUnreachable, NHello, NPaneFd, NReleased, NAbort,
         NLost, NGrace, NServe, NRead, CrashN, HangN, Got, Reply, DeclineInv, RestoresBare
    <3> QED
      BY <2>1, <2>2, <3>1, Zenon DEF Final
  <2> QED
    BY <2>3, <2>4, Zenon
<1>4. CASE UNCHANGED vars
  BY <1>4, Zenon DEF vars, diskVars, taskVars, nVars, linkVars, Final
<1> QED
  BY <1>1, <1>2, <1>3, <1>4, Zenon DEF Next

(* A queue that lists the open panes keeps listing them.                   *)
LEMMA ListsQueue ==
  /\ Lists(<<>>)
  /\ \A q \in Seq(Frames), f \in Frames :
       /\ Lists(q)
       /\ f.type = "Hello" => \A p \in Panes : pane[p] = "open" => p \in f.panes
       => Lists(Append(q, f))
  /\ \A q \in Seq(Frames) : q # <<>> /\ Lists(q) =>
       /\ Lists(Tail(q))
       /\ Head(q).type = "Hello" => \A p \in Panes : pane[p] = "open" => p \in Head(q).panes
<1>1. Lists(<<>>)
  BY DEF Lists
<1>2. ASSUME NEW q \in Seq(Frames), NEW f \in Frames, Lists(q),
             f.type = "Hello" => \A p \in Panes : pane[p] = "open" => p \in f.panes
      PROVE  Lists(Append(q, f))
  <2>1. SUFFICES ASSUME NEW i \in 1 .. Len(Append(q, f)), Append(q, f)[i].type = "Hello"
                 PROVE  \A p \in Panes : pane[p] = "open" => p \in Append(q, f)[i].panes
    BY Zenon DEF Lists
  <2>2. CASE i = Len(q) + 1
    BY <1>2, <2>1, <2>2
  <2>3. CASE i # Len(q) + 1
    <3>1. i \in 1 .. Len(q) /\ Append(q, f)[i] = q[i]
      BY <2>1, <2>3
    <3> QED
      BY <1>2, <2>1, <3>1, Zenon DEF Lists
  <2> QED
    BY <2>2, <2>3, Zenon
<1>3. ASSUME NEW q \in Seq(Frames), q # <<>>, Lists(q)
      PROVE  /\ Lists(Tail(q))
             /\ Head(q).type = "Hello" => \A p \in Panes : pane[p] = "open" => p \in Head(q).panes
  <2>1. 1 \in 1 .. Len(q) /\ Head(q) = q[1]
    BY <1>3
  <2>2. \A i \in 1 .. Len(Tail(q)) : i + 1 \in 1 .. Len(q) /\ Tail(q)[i] = q[i + 1]
    BY <1>3
  <2> QED
    BY <1>3, <2>1, <2>2, Zenon DEF Lists
<1> QED
  BY <1>1, <1>2, <1>3, Zenon

LEMMA AdvertisedOther ==
  ASSUME TypeOK, ControlInv, ReaderInv, DeclineInv, Advertised,
         PaneStep \/ TickGather \/ TickWrite \/ MainStep \/ Sigterm \/ CrashO
  PROVE  Advertised'
<1>1. UNCHANGED <<nPc, nWant, nFds, toN>>
  BY OtherFrame, Zenon
<1>2. CASE \E q \in Panes : CreatePane(q)
  <2>1. SuccessorGone
    BY <1>2, Zenon DEF CreatePane, ReaderInv, GateHolds, ControlInv, GateFollowsTask, DeclineInv,
                SpawnedOnce, TypeOK, TaskOK, Unspawned
  <2> QED
    BY <1>1, <2>1, Zenon DEF Advertised, SuccessorGone
<1>3. CASE ~ \E q \in Panes : CreatePane(q)
  <2>1. \A p \in Panes : pane'[p] = "open" => pane[p] = "open"
    BY <1>3, ZenonT(30) DEF PaneStep, AdmitPane, ReadPty, FeedGrid, Park, ChildExits, ReaderEnds, ClosePane,
         TickGather, TickWrite, MainStep, Restart, RestartCutOff, StartTask, ServeSignal,
         StopCommand, HandoffDone, HandoffFailed, SettleFailed, StoppedFailed,
         ShutdownCheckpoint, Exit, Sigterm, CrashO, paneVars, TypeOK, PanesOK
  <2> QED
    BY <1>1, <2>1, Zenon DEF Advertised, Lists, SuccessorGone
<1> QED
  BY <1>2, <1>3, Zenon

LEMMA AdvertisedStep ==
  ASSUME TypeOK, ControlInv, ReaderInv, DeclineInv, Advertised, [Next]_vars PROVE Advertised'
<1>1. CASE PaneStep \/ TickGather \/ TickWrite \/ MainStep \/ Sigterm \/ CrashO
  BY <1>1, AdvertisedOther, Zenon
<1> USE DEF Advertised, SuccessorGone, TypeOK, LinkOK
<1>2. CASE SenderStep
  <2>0. UNCHANGED pane
    BY <1>2, ZenonT(30) DEF SenderStep, SpawnSuccessor, AcceptSuccessor, AcceptFails, SendHello, Receive,
       RecvAccept, RecvDecline, RecvFdAck, RecvAck, SendFd, HoldRelays, RelaysHeld,
       FinalCheckpoint, SendComplete, StepFails, Finish, RollBack, SendAbort, StopSuccessor,
       paneVars
  <2>1. CASE SpawnSuccessor
    <3>1. CASE UNCHANGED <<nVars, linkVars>>
      BY <2>0, <3>1, Zenon DEF nVars, linkVars, Lists
    <3>2. CASE nPc' = "connecting" /\ toN' = <<>>
      BY <2>0, <3>2 DEF Lists
    <3> QED
      BY <2>1, <3>1, <3>2, Zenon DEF SpawnSuccessor
  <2>2. CASE StopSuccessor
    BY <2>0, <2>2, Zenon DEF StopSuccessor, Stopped, Lists
  <2>3. CASE ~ SpawnSuccessor /\ ~ StopSuccessor
    <3>1. UNCHANGED <<nPc, nWant, nFds>>
      BY <1>2, <2>3, ZenonT(30) DEF SenderStep, AcceptSuccessor, AcceptFails, SendHello, Receive, RecvAccept,
         RecvDecline, RecvFdAck, RecvAck, SendFd, HoldRelays, RelaysHeld, FinalCheckpoint,
         SendComplete, StepFails, Finish, RollBack, SendAbort, nVars
    <3>2. Lists(toN) => Lists(toN')
      BY <1>2, <2>3, SenderSends, ListsQueue, Zenon
    <3>3. Lists(toN)' <=> Lists(toN')
      BY <2>0, Zenon DEF Lists
    <3> QED
      BY <2>0, <3>1, <3>2, <3>3, Zenon
  <2> QED
    BY <2>1, <2>2, <2>3, Zenon
<1>3. CASE SuccessorStep \/ (\E p \in Panes : NRead(p)) \/ CrashN \/ HangN
  <2>0. UNCHANGED pane /\ ~ SuccessorGone
    BY <1>3, SuccessorFrame, ZenonT(30) DEF SuccessorStep, NConnect, NUnreachable, NHello, NPaneFd, NComplete,
       NReleased, NAbort, NLost, NGrace, NServe, NRead, CrashN, HangN, Got
  <2>1. Lists(toN')
    BY <1>3, <2>0, SuccessorTalks, ListsQueue, Zenon
  <2>2. Lists(toN)' <=> Lists(toN')
    BY <2>0, Zenon DEF Lists
  <2>3. CASE NHello
    <3>1. \A p \in Panes : pane[p] = "open" => p \in nWant'
      BY <2>0, <2>3, ListsQueue, Zenon DEF NHello, Got
    <3>2. nFds' = {} /\ nPc' \in {"fds", "complete", "declined", "lost_before"}
          /\ (nPc' = "complete" => nWant' = {})
      BY <2>3, Zenon DEF NHello, Got, Reply, DeclineInv, RestoresBare
    <3> QED
      BY <2>0, <2>1, <2>2, <3>1, <3>2, Zenon
  <2>4. CASE NPaneFd
    BY <2>0, <2>1, <2>2, <2>4, Zenon DEF NPaneFd, Got, Reply
  <2>5. CASE ~ NHello /\ ~ NPaneFd
    <3>1. /\ nWant' = nWant
          /\ nPc' \in {"complete", "released", "lost_after", "inherit"} =>
               nPc \in {"complete", "released", "lost_after", "inherit"} /\ nFds' = nFds
          /\ nPc' = "fds" => nPc = "fds"
      BY <1>3, <2>5, ZenonT(30) DEF SuccessorStep, NConnect, NUnreachable, NComplete, NReleased, NAbort,
         NLost, NGrace, NServe, NRead, CrashN, HangN, Got, Reply
    <3> QED
      BY <2>0, <2>1, <2>2, <3>1, Zenon
  <2> QED
    BY <2>3, <2>4, <2>5, Zenon
<1>4. CASE UNCHANGED vars
  BY <1>4, Zenon DEF vars, paneVars, nVars, linkVars, Lists
<1> QED
  BY <1>1, <1>2, <1>3, <1>4, Zenon DEF Next

-----------------------------------------------------------------------------
SuccessorInv == DeclineInv /\ FinalInv /\ AckedIsFinal /\ Advertised
SafetyInv == ServerInv /\ ControlInv /\ ReaderInv /\ SuccessorInv

(* An N that holds PTYs finds O's final checkpoint, unless O was killed     *)
(* while undoing the handoff; where O lives, it has stopped reading.        *)
LEMMA AdopterIsSafe ==
  ASSUME TypeOK, SafetyInv, nPc = "inherit" \/ (nPc = "serving" /\ nFds # {})
  PROVE  /\ Final \/ KilledInRollback
         /\ alive => Final /\ committed /\ task = "done"
<1>1. Final \/ task \in {"aborting", "stopping"}
  BY Zenon DEF SafetyInv, SuccessorInv, AckedIsFinal, Acked
<1>2. alive => task = "done"
  BY Zenon DEF SafetyInv, ServerInv, TakenOverIsDone, TakingOver
<1>3. task \in {"aborting", "stopping"} => main # "exited"
  BY Zenon DEF SafetyInv, ControlInv, ExitsSettled
<1> QED
  BY <1>1, <1>2, <1>3, Zenon DEF KilledInRollback, Final, TypeOK, MainOK

LEMMA ServedStep ==
  ASSUME TypeOK, SafetyInv, ServedIsWhole, [Next]_vars PROVE ServedIsWhole'
<1> USE DEF ServedIsWhole, TypeOK, PanesOK, SuccessorOK
<1>1. CASE PaneStep
  <2>1. UNCHANGED <<nPc, nFds, nGrid>> /\ UNCHANGED <<alive, main, task>>
    BY <1>1, OtherFrame, Zenon DEF PaneStep, AdmitPane, CreatePane, ReadPty, FeedGrid, Park, ChildExits,
       ReaderEnds, ClosePane, mainVars, taskVars
  <2>2. CASE \E q \in Panes : ReadPty(q)
    <3>1. PICK q \in Panes : ReadPty(q)
      BY <2>2, Zenon
    <3>2. nPc = "serving" => nFds = {}
      <4>1. alive /\ reader[q] = "reading"
        BY <3>1, Zenon DEF ReadPty
      <4> QED
        BY <4>1, AdopterIsSafe, Zenon DEF SafetyInv, SuccessorInv, FinalInv, FinalIsCurrent
    <3> QED
      BY <2>1, <3>2, Zenon
  <2>3. CASE ~ \E q \in Panes : ReadPty(q)
    <3>1. taken' = taken
      BY <1>1, <2>3, Zenon DEF PaneStep, AdmitPane, CreatePane, FeedGrid, Park, ChildExits, ReaderEnds,
                        ClosePane
    <3> QED
      BY <2>1, <3>1, Zenon DEF KilledInRollback
  <2> QED
    BY <2>2, <2>3, ZenonT(30)
<1>2. CASE TickGather \/ TickWrite \/ MainStep \/ Sigterm \/ CrashO
  <2>1. UNCHANGED <<nPc, nFds, nGrid, taken>> /\ alive
    BY <1>2, OtherFrame, Zenon DEF TickGather, TickWrite, MainStep, Restart, RestartCutOff, StartTask,
       ServeSignal, StopCommand, HandoffDone, HandoffFailed, SettleFailed, StoppedFailed,
       ShutdownCheckpoint, Exit, Sigterm, CrashO, paneVars
  <2> QED
    BY <2>1, Zenon DEF KilledInRollback
<1>3. CASE SenderStep
  <2>1. alive /\ taken' = taken
    BY <1>3, ZenonT(30) DEF SenderStep, SpawnSuccessor, AcceptSuccessor, AcceptFails, SendHello, Receive,
       RecvAccept, RecvDecline, RecvFdAck, RecvAck, SendFd, HoldRelays, RelaysHeld,
       FinalCheckpoint, SendComplete, StepFails, Finish, RollBack, SendAbort, StopSuccessor,
       paneVars
  <2>2. nPc' = "serving" => UNCHANGED <<nPc, nFds, nGrid>>
    BY <1>3, ZenonT(30) DEF SenderStep, SpawnSuccessor, AcceptSuccessor, AcceptFails, SendHello, Receive,
       RecvAccept, RecvDecline, RecvFdAck, RecvAck, SendFd, HoldRelays, RelaysHeld,
       FinalCheckpoint, SendComplete, StepFails, Finish, RollBack, SendAbort, StopSuccessor,
       Stopped, SuccessorGone, nVars
  <2> QED
    BY <2>1, <2>2, Zenon DEF KilledInRollback
<1>4. CASE SuccessorStep \/ (\E p \in Panes : NRead(p)) \/ CrashN \/ HangN
  <2>1. KilledInRollback' <=> KilledInRollback
    BY <1>4, SuccessorFrame DEF KilledInRollback
  <2>2. CASE NServe
    <3>1. CASE nPc = "restore"
      BY <2>2, <3>1, Zenon DEF NServe, SafetyInv, SuccessorInv, DeclineInv, RestoresBare
    <3>2. CASE nPc = "inherit"
      <4>1. Final \/ KilledInRollback
        BY <3>2, AdopterIsSafe, Zenon
      <4>2. Final => \A p \in Panes : disk[p] # Absent => disk[p] = taken[p]
        BY <3>2, Zenon DEF SafetyInv, SuccessorInv, FinalInv, FinalIsCurrent
      <4>3. taken' = taken /\ \A p \in nFds' : p \in Panes /\ disk[p] # Absent /\ nGrid'[p] = disk[p]
        BY <2>2, Zenon DEF NServe
      <4> QED
        BY <2>1, <4>1, <4>2, <4>3, Zenon
    <3> QED
      BY <2>2, <3>1, <3>2, Zenon DEF NServe
  <2>3. CASE \E q \in Panes : NRead(q)
    BY <2>1, <2>3 DEF NRead
  <2>4. CASE ~ NServe /\ ~ \E q \in Panes : NRead(q)
    <3>1. nPc' # "serving"
      BY <1>4, <2>4, Zenon DEF SuccessorStep, NConnect, NUnreachable, NHello, NPaneFd, NComplete,
         NReleased, NAbort, NLost, NGrace, CrashN, HangN, Reply
    <3> QED
      BY <3>1, Zenon
  <2> QED
    BY <2>2, <2>3, <2>4, Zenon
<1>5. CASE UNCHANGED vars
  BY <1>5, Zenon DEF vars, paneVars, taskVars, mainVars, nVars, KilledInRollback
<1> QED
  BY <1>1, <1>2, <1>3, <1>4, <1>5, Zenon DEF Next

(* The whole invariant, from which the theorems below follow.              *)
THEOREM SafetyInvariant == Spec => [](TypeOK /\ SafetyInv /\ ServedIsWhole)
<1>1. Init => SafetyInv /\ ServedIsWhole
  <2> USE DEF Init
  <2>1. Init => ServerInv
    BY ReleasedQueue, Zenon DEF ServerInv, BusyWhileTask, HandedOffIsDone, ReleasedIsLast,
       ConnectingIsAwaited, TakenOverIsDone, TakingOver
  <2>2. Init => ControlInv
    BY Zenon DEF ControlInv, GateFollowsTask, CommitIsFinal, ExitsSettled, KeptIsDone, SealedIsBounded,
           CheckpointedIsSealed, BusyIsRunning, Unspawned
  <2>3. Init => ReaderInv
    BY Zenon DEF ReaderInv, GateHolds, KilledByExit, FrozenIsBounded, StoppedIsFinal, QuiescedStays,
           IdleIsFed
  <2>4. Init => DeclineInv /\ AckedIsFinal /\ Advertised
    <3>1. ~ Holds(<<>>, "Decline") /\ ~ Holds(<<>>, "Complete")
      BY HoldsQueue, Zenon DEF MsgTypes
    <3> QED
      BY <3>1, Zenon DEF DeclineInv, SpawnedOnce, DeclinedStays, RestoresBare, SuccessorGone,
                  AckedIsFinal, Acked, Advertised
  <2>5. Init => FinalInv /\ ServedIsWhole
    BY Zenon DEF FinalInv, WritesParked, FinalIsCurrent, Final, ServedIsWhole
  <2> QED
    BY <2>1, <2>2, <2>3, <2>4, <2>5, Zenon DEF SafetyInv, SuccessorInv
<1>2. TypeOK /\ SafetyInv /\ ServedIsWhole /\ [Next]_vars => SafetyInv' /\ ServedIsWhole'
  BY ServerStep, ControlStep, ReaderStep, DeclineStep, FinalStep, AckedStep, AdvertisedStep,
     ServedStep, Zenon DEF SafetyInv, SuccessorInv
<1> QED
  BY <1>1, <1>2, TypeCorrect, PTL DEF Spec

(* No PTY is ever read by both daemons: `quiesce_relays` runs before N can  *)
(* adopt one from an O that still lives.                                    *)
THEOREM NoSplitReadAlways == Spec => []NoSplitRead
<1>1. TypeOK /\ SafetyInv => NoSplitRead
  BY AdopterIsSafe, Zenon DEF NoSplitRead, SafetyInv, ReaderInv, QuiescedStays, TypeOK, SuccessorOK
<1> QED
  BY <1>1, SafetyInvariant, PTL

(* Nothing is lost across a handoff: N adopts every open pane and shows     *)
(* every byte read from it (the gate, the parked readers, the seal).        *)
THEOREM NothingLostAlways == Spec => []NothingLost
<1>1. TypeOK /\ SafetyInv /\ ServedIsWhole => NothingLost
  <2> SUFFICES ASSUME TypeOK, SafetyInv, ServedIsWhole, ~ KilledInRollback, nPc = "inherit",
                      NEW p \in Panes, pane[p] = "open"
               PROVE  p \in nFds /\ disk[p] # Absent
    BY Zenon DEF NothingLost, ServedIsWhole
  <2>1. Final
    BY AdopterIsSafe, Zenon
  <2> QED
    BY <2>1, Zenon DEF SafetyInv, SuccessorInv, FinalInv, FinalIsCurrent, Advertised
<1> QED
  BY <1>1, SafetyInvariant, PTL

(* No shell N adopts is killed by O's exit (`set_keep_alive_for_handoff`).  *)
THEOREM ShellsSurviveAlways == Spec => []ShellsSurvive
<1>1. TypeOK /\ SafetyInv => ShellsSurvive
  <2> SUFFICES ASSUME TypeOK, SafetyInv, nPc \in {"inherit", "serving"}, NEW p \in nFds,
                      pane[p] = "killed"
               PROVE  FALSE
    BY Zenon DEF ShellsSurvive
  <2>1. main = "exited" /\ ~ keepAlive /\ ~ alive
    BY Zenon DEF SafetyInv, ReaderInv, KilledByExit, TypeOK, SuccessorOK
  <2>2. Final
    BY <2>1, AdopterIsSafe, Zenon DEF KilledInRollback
  <2> QED
    BY <2>1, <2>2, Zenon DEF SafetyInv, ControlInv, ExitsSettled, CommitIsFinal, Final
<1> QED
  BY <1>1, SafetyInvariant, PTL

(* A daemon that serves with no handoff running is whole: every rollback    *)
(* undoes all of it.                                                        *)
THEOREM ServingIsWholeAlways == Spec => []ServingIsWhole
<1>1. TypeOK /\ SafetyInv => ServingIsWhole
  BY Zenon DEF ServingIsWhole, SafetyInv, SuccessorInv, ControlInv, GateFollowsTask, SealedIsBounded,
         KeptIsDone, BusyIsRunning, ReaderInv, FrozenIsBounded, StoppedIsFinal, DeclineInv,
         SpawnedOnce, Freezing, Unspawned
<1> QED
  BY <1>1, SafetyInvariant, PTL

-----------------------------------------------------------------------------
(* The handoff implements PtyHandover: seen from one PTY, whatever the two  *)
(* daemons do is a read, a byte shown, a start or stop of the old reader,   *)
(* or the one adoption.  Only an outright kill of a daemon is excluded: it  *)
(* drops bytes read and not yet shown, or a reader that had taken over.     *)

NoKills == "crash_o" \notin Events /\ "crash_n" \notin Events

(* O is gone only by its own exit.                                         *)
GoneByExit == ~ alive => main = "exited"

Adopted(p) == nPc = "serving" /\ p \in nFds

LEMMA GoneByExitStep ==
  ASSUME NoKills, TypeOK, GoneByExit, [Next]_vars PROVE GoneByExit'
<1> USE DEF GoneByExit
<1>1. CASE MainStep
  BY <1>1, Zenon DEF MainStep, Restart, RestartCutOff, StartTask, ServeSignal, StopCommand, HandoffDone,
     HandoffFailed, SettleFailed, StoppedFailed, ShutdownCheckpoint, Exit, mainVars
<1>2. CASE ~ MainStep
  <2>1. UNCHANGED <<alive, main>>
    BY <1>2, SuccessorFrame, Zenon DEF NoKills, Next, PaneStep, AdmitPane, CreatePane, ReadPty, FeedGrid,
       Park, ChildExits, ReaderEnds, ClosePane, TickGather, TickWrite, Sigterm, CrashO,
       SenderStep, SpawnSuccessor, AcceptSuccessor, AcceptFails, SendHello, Receive, RecvAccept,
       RecvDecline, RecvFdAck, RecvAck, SendFd, HoldRelays, RelaysHeld, FinalCheckpoint,
       SendComplete, StepFails, Finish, RollBack, SendAbort, StopSuccessor, SenderFrame,
       mainVars, vars
  <2> QED
    BY <2>1, Zenon
<1> QED
  BY <1>1, <1>2, Zenon

(* The abstract variables, pane by pane.                                   *)
LEMMA Mapping ==
  /\ Holder \in [Panes -> {"old", "nobody", "new"}]
  /\ Shown = [p \in Panes |-> Shown[p]]
  /\ \A p \in Panes :
       /\ Holder[p] = IF Adopted(p) THEN "new"
                      ELSE IF reader[p] = "reading" THEN "old" ELSE "nobody"
       /\ Shown[p] = IF Adopted(p) THEN nGrid[p] ELSE grid[p]
  BY ZenonT(30) DEF Holder, Shown, Adopted

(* A step that moves no byte and adopts nothing only starts or stops old    *)
(* readers.                                                                 *)
LEMMA ReadersOnly ==
  ASSUME UNCHANGED <<taken, grid>>,
         \A p \in Panes : (Adopted(p)' <=> Adopted(p)) /\ (Adopted(p) => nGrid'[p] = nGrid[p])
  PROVE  Abstract!Next
<1> DEFINE S == {p \in Panes : ~ Adopted(p)}
<1>1. \A p \in S : Holder[p] # "new"
  BY Mapping, Zenon
<1>2. /\ Holder' \in [Panes -> {"old", "nobody", "new"}]
      /\ \A p \in Panes :
           /\ Holder'[p] = IF Adopted(p)' THEN "new"
                           ELSE IF reader'[p] = "reading" THEN "old" ELSE "nobody"
           /\ Shown'[p] = IF Adopted(p)' THEN nGrid'[p] ELSE grid'[p]
  BY Zenon DEF Holder, Shown, Adopted
<1>3. \A p \in Panes : IF p \in S THEN Holder'[p] # "new" ELSE Holder'[p] = Holder[p]
  BY <1>2, Mapping, Zenon
<1>4. Shown' = Shown
  <2>1. \A p \in Panes : Shown'[p] = Shown[p]
    BY <1>2, Mapping, Zenon
  <2>2. Shown = [p \in Panes |-> Shown[p]] /\ Shown' = [p \in Panes |-> Shown'[p]]
    BY Zenon DEF Shown
  <2> QED
    BY <2>1, <2>2, Zenon
<1>5. Abstract!OldReads(S)
  BY <1>1, <1>2, <1>3, <1>4, Zenon DEF Abstract!OldReads
<1>6. S \in SUBSET Panes
  BY Zenon
<1> QED
  BY <1>5, <1>6, Zenon DEF Abstract!Next

(* The old daemon reads a byte, or shows one it read.                       *)
LEMMA OldSteps ==
  ASSUME TypeOK, SafetyInv, NEW q \in Panes, ReadPty(q) \/ FeedGrid(q)
  PROVE  Abstract!Next
<1> USE DEF TypeOK, PanesOK
<1>1. UNCHANGED <<nPc, nFds, nGrid, reader>> /\ alive /\ reader[q] = "reading"
  BY Zenon DEF ReadPty, FeedGrid, nVars
<1>2. ~ Adopted(q)
  BY <1>1, AdopterIsSafe, Zenon DEF Adopted, SafetyInv, SuccessorInv, FinalInv, FinalIsCurrent
<1>3. Holder' = Holder /\ Holder[q] = "old" /\ Shown[q] = grid[q]
  BY <1>1, <1>2, Mapping, Zenon DEF Holder
<1>4. CASE ReadPty(q)
  <2>1. Shown' = Shown
    BY <1>1, <1>4, Zenon DEF ReadPty, Shown
  <2>2. Abstract!Read(q)
    BY <1>3, <1>4, <2>1, Zenon DEF ReadPty, Abstract!Read
  <2> QED
    BY <2>2, Zenon DEF Abstract!Next
<1>5. CASE FeedGrid(q)
  <2>1. grid' = [grid EXCEPT ![q] = grid[q] + 1]
    BY <1>5, Zenon DEF FeedGrid
  <2>2. Shown' = [Shown EXCEPT ![q] = Shown[q] + 1]
    BY <1>1, <1>2, <2>1, Zenon DEF Shown, Adopted
  <2>3. Abstract!Show(q)
    BY <1>3, <1>5, <2>2, Zenon DEF FeedGrid, Unfed, Abstract!Show
  <2> QED
    BY <2>3, Zenon DEF Abstract!Next
<1> QED
  BY <1>4, <1>5, Zenon

(* The new daemon adopts, and reads on.                                     *)
LEMMA NewSteps ==
  ASSUME TypeOK, SafetyInv, GoneByExit, NServe \/ \E q \in Panes : NRead(q)
  PROVE  Abstract!Next
<1> USE DEF TypeOK, PanesOK, SuccessorOK
<1>1. CASE NServe
  <2>1. /\ nPc' = "serving" /\ nFds' = {p \in nFds : disk[p] # Absent}
        /\ \A p \in nFds' : nGrid'[p] = disk[p]
        /\ UNCHANGED <<reader, grid, taken>> /\ nPc # "serving"
    BY <1>1, Zenon DEF NServe, NFrame
  <2>2. \A p \in nFds' : /\ p \in Panes /\ reader[p] # "reading"
                         /\ disk[p] = grid[p] /\ grid[p] = taken[p]
    <3>1. CASE nPc = "restore"
      BY <2>1, <3>1, ZenonT(30) DEF SafetyInv, SuccessorInv, DeclineInv, RestoresBare
    <3>2. CASE nPc = "inherit"
      <4>1. Final
        BY <3>2, AdopterIsSafe, Zenon DEF GoneByExit, KilledInRollback
      <4> QED
        BY <2>1, <3>2, <4>1, Zenon DEF SafetyInv, SuccessorInv, FinalInv, FinalIsCurrent
    <3> QED
      BY <1>1, <3>1, <3>2, Zenon DEF NServe
  <2>3. \A p \in Panes : ~ Adopted(p) /\ (Adopted(p)' <=> p \in nFds')
    BY <2>1, Zenon DEF Adopted
  <2>4. \A p \in nFds' : Holder[p] = "nobody" /\ Shown[p] = taken[p]
    BY <2>2, <2>3, Mapping, Zenon
  <2>5. Holder' = [p \in Panes |-> IF p \in nFds' THEN "new" ELSE Holder[p]]
    BY <2>1, <2>3, Mapping, Zenon DEF Holder, Adopted
  <2>6. Shown' = Shown
    BY <2>1, <2>2, Zenon DEF Shown
  <2>7. Abstract!Adopt(nFds')
    BY <2>1, <2>4, <2>5, <2>6, ZenonT(30) DEF Abstract!Adopt
  <2>8. nFds' \in SUBSET Panes
    BY <2>1, Zenon
  <2> QED
    BY <2>7, <2>8, Zenon DEF Abstract!Next
<1>2. CASE \E q \in Panes : NRead(q)
  <2>1. PICK q \in Panes : NRead(q)
    BY <1>2, Zenon
  <2>2. /\ Adopted(q) /\ taken[q] < MaxOut /\ taken' = [taken EXCEPT ![q] = @ + 1]
        /\ nGrid' = [nGrid EXCEPT ![q] = nGrid[q] + 1] /\ UNCHANGED <<nPc, nFds, reader, grid>>
    BY <2>1, Zenon DEF NRead, NFrame, Adopted
  <2>3. Holder' = Holder
    BY <2>2, Zenon DEF Holder
  <2>4. Shown' = [Shown EXCEPT ![q] = Shown[q] + 1]
    BY <2>2, Zenon DEF Shown, Adopted
  <2>5. Abstract!ReadOn(q)
    BY <2>2, <2>3, <2>4, Mapping, Zenon DEF Abstract!ReadOn
  <2> QED
    BY <2>5, Zenon DEF Abstract!Next
<1> QED
  BY <1>1, <1>2, Zenon

LEMMA StepRefines ==
  ASSUME NoKills, TypeOK, SafetyInv, GoneByExit, [Next]_vars
  PROVE  [Abstract!Next]_Abstract!vars
<1>1. CASE (\E q \in Panes : ReadPty(q) \/ FeedGrid(q)) \/ NServe \/ (\E q \in Panes : NRead(q))
  BY <1>1, OldSteps, NewSteps, Zenon
<1>2. CASE ~ ((\E q \in Panes : ReadPty(q) \/ FeedGrid(q)) \/ NServe \/ (\E q \in Panes : NRead(q)))
  <2>1. UNCHANGED <<taken, grid>>
    BY <1>2, ZenonT(30) DEF NoKills, Next, PaneStep, AdmitPane, CreatePane, Park, ChildExits, ReaderEnds,
       ClosePane, TickGather, TickWrite, Sigterm, CrashO, MainStep, Restart, RestartCutOff,
       StartTask, ServeSignal, StopCommand, HandoffDone, HandoffFailed, SettleFailed,
       StoppedFailed, ShutdownCheckpoint, Exit, SenderStep, SpawnSuccessor, AcceptSuccessor,
       AcceptFails, SendHello, Receive, RecvAccept, RecvDecline, RecvFdAck, RecvAck, SendFd,
       HoldRelays, RelaysHeld, FinalCheckpoint, SendComplete, StepFails, Finish, RollBack,
       SendAbort, StopSuccessor, SuccessorStep, NConnect, NUnreachable, NHello, NPaneFd,
       NComplete, NReleased, NAbort, NLost, NGrace, CrashN, HangN, NFrame, paneVars, vars
  <2>2. UNCHANGED <<nPc, nFds, nGrid>> \/ (nPc # "serving" /\ nPc' # "serving")
    <3>1. CASE PaneStep \/ TickGather \/ TickWrite \/ MainStep \/ Sigterm \/ CrashO
      BY <3>1, OtherFrame, Zenon
    <3>2. CASE SenderStep
      <4>1. nPc = "serving" => task = "done" \/ ~ alive
        BY Zenon DEF SafetyInv, ServerInv, TakenOverIsDone, TakingOver
      <4>2. UNCHANGED <<nPc, nFds, nGrid>> \/ SpawnSuccessor \/ StopSuccessor
        BY <3>2, ZenonT(30) DEF SenderStep, AcceptSuccessor, AcceptFails, SendHello, Receive, RecvAccept,
           RecvDecline, RecvFdAck, RecvAck, SendFd, HoldRelays, RelaysHeld, FinalCheckpoint,
           SendComplete, StepFails, Finish, RollBack, SendAbort, nVars
      <4> QED
        BY <4>1, <4>2, Zenon DEF SpawnSuccessor, StopSuccessor, Stopped, SuccessorGone, nVars
    <3>3. CASE SuccessorStep \/ CrashN \/ HangN
      BY <1>2, <3>3, Zenon DEF NoKills, SuccessorStep, NConnect, NUnreachable, NHello, NPaneFd, NComplete,
         NReleased, NAbort, NLost, NGrace, CrashN, HangN, Got, Reply
    <3>4. CASE UNCHANGED vars
      BY <3>4, Zenon DEF vars, nVars
    <3> QED
      BY <1>2, <3>1, <3>2, <3>3, <3>4, Zenon DEF Next
  <2>3. \A p \in Panes :
          (Adopted(p)' <=> Adopted(p)) /\ (Adopted(p) => nGrid'[p] = nGrid[p])
    BY <2>2, Zenon DEF Adopted
  <2> QED
    BY <2>1, <2>3, ReadersOnly, ZenonT(60)
<1> QED
  BY <1>1, <1>2, Zenon

(* Every step of the two daemons, however they stall, hang, time out and     *)
(* roll back, is a step or no step of PtyHandover.                           *)
THEOREM HandoffRefinesPtyHandover == NoKills => (Spec => HandsOverEachPty)
<1> SUFFICES ASSUME NoKills PROVE Spec => HandsOverEachPty
  BY Zenon
<1>1. Init => Abstract!Init
  BY Zenon DEF Init, Abstract!Init, Holder, Shown
<1>2. Init => GoneByExit
  BY Zenon DEF Init, GoneByExit
<1>3. TypeOK /\ GoneByExit /\ [Next]_vars => GoneByExit'
  BY GoneByExitStep, Zenon
<1>4. TypeOK /\ SafetyInv /\ GoneByExit /\ [Next]_vars => [Abstract!Next]_Abstract!vars
  BY StepRefines, Zenon
<1> QED
  BY <1>1, <1>2, <1>3, <1>4, SafetyInvariant, PTL DEF Spec, HandsOverEachPty, Abstract!Spec

=============================================================================
