--------------------------- MODULE HandoffProofs ---------------------------
(***************************************************************************)
(* Proofs about Handoff, for any number of panes, attempts, stalls and     *)
(* events.                                                                 *)
(***************************************************************************)
EXTENDS Handoff, TLAPS

(* What an action leaves alone keeps its type.                             *)
LEMMA Unchanged ==
  /\ PanesOK /\ UNCHANGED paneVars => PanesOK'
  /\ DiskOK /\ UNCHANGED diskVars => DiskOK'
  /\ TaskOK /\ UNCHANGED taskVars => TaskOK'
  /\ MainOK /\ UNCHANGED mainVars => MainOK'
  /\ SuccessorOK /\ UNCHANGED nVars => SuccessorOK'
  /\ LinkOK /\ UNCHANGED linkVars => LinkOK'
  BY Zenon DEF PanesOK, DiskOK, TaskOK, MainOK, SuccessorOK, LinkOK, paneVars, diskVars, taskVars,
         mainVars, nVars, linkVars

LEMMA TypeInit == ASSUME Init PROVE TypeOK
<1>1. pane \in [Panes -> PaneStates] /\ reader \in [Panes -> ReaderStates]
  BY Zenon DEF Init, PaneStates, ReaderStates
<1>2. taken \in [Panes -> Nat] /\ grid = taken /\ hold \in BOOLEAN
  BY Zenon DEF Init
<1>3. disk \in Snapshots
  BY DEF Init, Snapshots, Absent
<1>4. tick \in Seq(Snapshots)
  BY DEF Init, NoTick
<1>9. sealed \in BOOLEAN
  BY Zenon DEF Init
<1>5. TaskOK
  BY Zenon DEF Init, TaskOK, TaskStates
<1>6. MainOK
  BY Zenon DEF Init, MainOK, MainStates
<1>7. SuccessorOK
  BY DEF Init, SuccessorOK, NStates, Absent
<1>8. LinkOK
  BY DEF Init, LinkOK, EndStates
<1> QED
  BY <1>1, <1>2, <1>3, <1>4, <1>5, <1>6, <1>7, <1>8, <1>9 DEF TypeOK, PanesOK, DiskOK

LEMMA TypePane == ASSUME TypeOK, PaneStep PROVE TypeOK'
<1>1. PICK p \in Panes : \/ AdmitPane(p) \/ CreatePane(p) \/ ReadPty(p) \/ FeedGrid(p)
                         \/ Park(p) \/ ChildExits(p) \/ ReaderEnds(p) \/ ClosePane(p)
  BY Zenon DEF PaneStep
<1>2. UNCHANGED <<diskVars, taskVars, mainVars, nVars, linkVars>>
  BY <1>1, Zenon DEF AdmitPane, CreatePane, ReadPty, FeedGrid, Park, ChildExits, ReaderEnds, ClosePane
<1>3. PanesOK
  BY Zenon DEF TypeOK
<1>4. PanesOK'
  <2> USE <1>3 DEF PanesOK, PaneStates, ReaderStates
  <2>1. CASE AdmitPane(p)
    BY <2>1, Zenon DEF AdmitPane
  <2>2. CASE CreatePane(p)
    BY <2>2, Zenon DEF CreatePane
  <2>3. CASE ReadPty(p)
    BY <2>3 DEF ReadPty
  <2>4. CASE FeedGrid(p)
    BY <2>4 DEF FeedGrid, Unfed
  <2>5. CASE Park(p) \/ ChildExits(p) \/ ReaderEnds(p) \/ ClosePane(p)
    BY <2>5, Zenon DEF Park, ChildExits, ReaderEnds, ClosePane
  <2> QED
    BY <1>1, <2>1, <2>2, <2>3, <2>4, <2>5, Zenon
<1> QED
  BY <1>2, <1>4, Unchanged, Zenon DEF TypeOK

LEMMA TypeDisk == ASSUME TypeOK, TickGather \/ TickWrite PROVE TypeOK'
<1> USE DEF TypeOK
<1>1. CheckpointState \in Snapshots
  BY DEF CheckpointState, Snapshots, Absent, PanesOK
<1>2. CASE TickGather
  <2>1. DiskOK'
    BY <1>1, <1>2 DEF DiskOK, TickGather
  <2> QED
    BY <1>2, <2>1, Unchanged, Zenon DEF TickGather
<1>3. CASE TickWrite
  <2>1. tick[1] \in Snapshots
    BY <1>3 DEF DiskOK, TickWrite, NoTick
  <2>2. DiskOK'
    BY <1>3, <2>1 DEF DiskOK, TickWrite, NoTick
  <2> QED
    BY <1>3, <2>2, Unchanged, Zenon DEF TickWrite
<1> QED
  BY <1>2, <1>3, Zenon

LEMMA TypeReleased == ASSUME PanesOK PROVE Released(reader) \in [Panes -> ReaderStates]
  BY Zenon DEF PanesOK, Released, ReaderStates

LEMMA TypeMain == ASSUME TypeOK, MainStep \/ Sigterm \/ CrashO PROVE TypeOK'
<1> USE DEF TypeOK
<1>1. CASE Restart \/ RestartCutOff \/ StartTask \/ HandoffDone \/ HandoffFailed
  <2>1. UNCHANGED <<paneVars, diskVars, nVars, linkVars>>
    BY <1>1, Zenon DEF Restart, RestartCutOff, StartTask, HandoffDone, HandoffFailed
  <2>2. TaskOK'
    BY <1>1, Zenon DEF Restart, RestartCutOff, StartTask, HandoffDone, HandoffFailed, TaskOK,
                TaskStates, mainVars
  <2>3. MainOK'
    <3> USE DEF MainOK
    <3>1. CASE Restart
      BY <3>1 DEF Restart
    <3>2. CASE RestartCutOff \/ StartTask
      BY <3>2, Zenon DEF RestartCutOff, StartTask
    <3>3. CASE HandoffDone
      BY <3>3, Zenon DEF HandoffDone, MainStates
    <3>4. CASE HandoffFailed
      BY <3>4, Zenon DEF HandoffFailed, mainVars
    <3> QED
      BY <1>1, <3>1, <3>2, <3>3, <3>4, Zenon
  <2> QED
    BY <2>1, <2>2, <2>3, Unchanged, Zenon
<1>2. CASE Sigterm \/ ServeSignal \/ StopCommand
  <2>1. UNCHANGED <<paneVars, diskVars, taskVars, nVars, linkVars>>
    BY <1>2, Zenon DEF Sigterm, ServeSignal, StopCommand
  <2>2. CASE Sigterm
    BY <2>1, <2>2, Unchanged, Zenon DEF Sigterm, MainOK
  <2>3. ASSUME LeaveLoop PROVE main' \in MainStates /\ cancel' \in BOOLEAN
    <3>1. main' \in MainStates
      BY <2>3, Zenon DEF LeaveLoop, MainStates
    <3>2. cancel' \in BOOLEAN
      BY <2>3, Zenon DEF LeaveLoop, InFlight
    <3> QED
      BY <3>1, <3>2, Zenon
  <2>4. CASE ServeSignal
    BY <2>1, <2>3, <2>4, Unchanged, Zenon DEF ServeSignal, MainOK
  <2>5. CASE StopCommand
    BY <2>1, <2>3, <2>5, Unchanged, Zenon DEF StopCommand, MainOK
  <2> QED
    BY <1>2, <2>2, <2>4, <2>5, Zenon
<1>3. CASE SettleFailed \/ StoppedFailed
  <2>1. UNCHANGED <<diskVars, nVars, linkVars>>
    BY <1>3, Zenon DEF SettleFailed, StoppedFailed
  <2>2. PanesOK'
    BY <1>3, TypeReleased, Zenon DEF SettleFailed, StoppedFailed, PanesOK
  <2>3. TaskOK'
    BY <1>3, Zenon DEF SettleFailed, StoppedFailed, TaskOK, TaskStates
  <2>4. MainOK'
    BY <1>3, Zenon DEF SettleFailed, StoppedFailed, MainOK, MainStates
  <2> QED
    BY <2>1, <2>2, <2>3, <2>4, Unchanged, Zenon
<1>4. CASE ShutdownCheckpoint
  <2>1. CheckpointState \in Snapshots
    BY DEF CheckpointState, Snapshots, Absent, PanesOK
  <2>2. DiskOK'
    BY <1>4, <2>1, Zenon DEF ShutdownCheckpoint, WriteFinal, DiskOK
  <2> QED
    BY <1>4, <2>2, Unchanged, Zenon DEF ShutdownCheckpoint
<1>5. CASE Exit \/ CrashO
  <2>1. UNCHANGED <<taken, grid, disk, sealed, taskVars, sigterm, stopAsked, cancel, busy,
                    handedOff, attempts, nVars, toN, toO, nEnd>>
    BY <1>5, Zenon DEF Exit, CrashO
  <2>2. Gone
    BY <1>5, Zenon DEF Exit, CrashO
  <2>3. pane' \in [Panes -> PaneStates] /\ reader' \in [Panes -> ReaderStates]
    BY <1>5, <2>2, Zenon DEF Exit, CrashO, Gone, PanesOK, PaneStates, ReaderStates
  <2>4. PanesOK'
    BY <2>1, <2>2, <2>3, Zenon DEF Gone, PanesOK
  <2>5. DiskOK'
    BY <2>1, <2>2 DEF Gone, DiskOK, NoTick
  <2>6. MainOK'
    BY <1>5, <2>1, <2>2, Zenon DEF Exit, CrashO, Gone, MainOK, MainStates
  <2>7. LinkOK'
    BY <2>1, <2>2, Zenon DEF Gone, LinkOK, EndStates
  <2> QED
    BY <2>1, <2>4, <2>5, <2>6, <2>7, Unchanged, Zenon
<1> QED
  BY <1>1, <1>2, <1>3, <1>4, <1>5, Zenon DEF MainStep

(* Frames are frames, and queues of them stay queues of them.              *)
LEMMA TypeQueue ==
  /\ \A t \in MsgTypes : Frame(t) \in Frames
  /\ \A t \in MsgTypes, S \in SUBSET Panes : PaneFrame(t, S) \in Frames
  /\ \A q \in Seq(Frames), f \in Frames : Append(q, f) \in Seq(Frames)
  /\ \A q \in Seq(Frames) : q # <<>> => Head(q) \in Frames /\ Tail(q) \in Seq(Frames)
<1>1. \A t \in MsgTypes : Frame(t) \in Frames
  BY Zenon DEF Frame, Frames
<1>2. \A t \in MsgTypes, S \in SUBSET Panes : PaneFrame(t, S) \in Frames
  BY Zenon DEF PaneFrame, Frames
<1>3. \A q \in Seq(Frames), f \in Frames : Append(q, f) \in Seq(Frames)
  OBVIOUS
<1>4. \A q \in Seq(Frames) : q # <<>> => Head(q) \in Frames /\ Tail(q) \in Seq(Frames)
  OBVIOUS
<1> QED
  BY <1>1, <1>2, <1>3, <1>4, Zenon

LEMMA TypeSend ==
  ASSUME TypeOK, NEW f \in Frames, NEW next \in TaskStates, Send(f, next)
  PROVE  toN' \in Seq(Frames) /\ task' \in TaskStates
  BY TypeQueue, Zenon DEF Send, TypeOK, LinkOK, TaskStates

LEMMA TypeSender == ASSUME TypeOK, SenderStep PROVE TypeOK'
<1> USE DEF TypeOK
<1>0. MainOK' /\ tick' = tick
  <2>1. UNCHANGED <<mainVars, tick>>
    BY Zenon DEF SenderStep, SpawnSuccessor, AcceptSuccessor, AcceptFails, SendHello, Receive,
           RecvAccept, RecvDecline, RecvFdAck, RecvAck, SendFd, HoldRelays, RelaysHeld,
           FinalCheckpoint, WriteFinal, SendComplete, StepFails, Finish, RollBack, SendAbort,
           StopSuccessor, SenderFrame, mainVars
  <2> QED
    BY <2>1, Unchanged, Zenon
<1>1. CASE SpawnSuccessor
  <2>1. TaskOK'
    BY <1>1, Zenon DEF SpawnSuccessor, TaskOK, TaskStates
  <2>2. SuccessorOK'
    BY <1>1 DEF SpawnSuccessor, SuccessorOK, NStates, Absent, nVars
  <2>3. LinkOK'
    <3>1. CASE UNCHANGED linkVars
      BY <3>1, Unchanged, Zenon
    <3>2. CASE toN' = <<>> /\ toO' = <<>> /\ oEnd' = "open" /\ nEnd' = "none"
      BY <3>2 DEF LinkOK, EndStates
    <3> QED
      BY <1>1, <3>1, <3>2, Zenon DEF SpawnSuccessor
  <2>4. PanesOK' /\ DiskOK'
    BY <1>0, <1>1, Unchanged, Zenon DEF SpawnSuccessor, diskVars
  <2> QED
    BY <1>0, <2>1, <2>2, <2>3, <2>4, Zenon
<1>2. CASE AcceptSuccessor \/ AcceptFails \/ RelaysHeld \/ StepFails
  <2>1. TaskOK'
    BY <1>2, Zenon DEF AcceptSuccessor, AcceptFails, RelaysHeld, StepFails, TaskOK, TaskStates
  <2>2. UNCHANGED <<paneVars, diskVars, nVars, linkVars>>
    BY <1>0, <1>2, Zenon DEF AcceptSuccessor, AcceptFails, RelaysHeld, StepFails, diskVars
  <2> QED
    BY <1>0, <2>1, <2>2, Unchanged, Zenon
<1>3. CASE RecvAccept \/ RecvDecline \/ RecvFdAck \/ RecvAck
  <2>1. UNCHANGED <<paneVars, diskVars, nVars>>
    BY <1>0, <1>3, Zenon DEF RecvAccept, RecvDecline, RecvFdAck, RecvAck, Receive, diskVars
  <2>2. TaskOK'
    BY <1>3, Zenon DEF RecvAccept, RecvDecline, RecvFdAck, RecvAck, Receive, TaskOK, TaskStates
  <2>3. toO # <<>> /\ toO' = Tail(toO) /\ UNCHANGED <<toN, oEnd, nEnd>>
    BY <1>3, Zenon DEF RecvAccept, RecvDecline, RecvFdAck, RecvAck, Receive
  <2>4. LinkOK'
    BY <2>3, TypeQueue, Zenon DEF LinkOK
  <2> QED
    BY <1>0, <2>1, <2>2, <2>4, Unchanged, Zenon
<1>4. CASE SendHello \/ SendFd \/ SendComplete
  <2>1. UNCHANGED <<paneVars, diskVars, nVars, toO, oEnd, nEnd, gate, committed, keepAlive>>
    BY <1>0, <1>4, Zenon DEF SendHello, SendFd, SendComplete, diskVars
  <2>2. unsent' \subseteq Panes
    BY <1>4, Zenon DEF SendHello, SendFd, SendComplete, TaskOK
  <2>3. toN' \in Seq(Frames) /\ task' \in TaskStates
    <3>1. CASE SendHello
      BY <3>1, <2>2, TypeQueue, TypeSend, Zenon DEF SendHello, MsgTypes, TaskStates
    <3>2. CASE SendFd
      BY <3>2, TypeQueue, TypeSend, Zenon DEF SendFd, MsgTypes, TaskStates, LinkOK, TaskOK
    <3>3. CASE SendComplete
      BY <3>3, TypeQueue, TypeSend, Zenon DEF SendComplete, MsgTypes, TaskStates
    <3> QED
      BY <1>4, <3>1, <3>2, <3>3, Zenon
  <2> QED
    BY <1>0, <2>1, <2>2, <2>3, Unchanged, Zenon DEF TaskOK, LinkOK
<1>5. CASE HoldRelays
  BY <1>0, <1>5, Unchanged, Zenon DEF HoldRelays, PanesOK, TaskOK, TaskStates, diskVars
<1>6. CASE FinalCheckpoint
  <2>1. CheckpointState \in Snapshots
    BY DEF CheckpointState, Snapshots, Absent, PanesOK
  <2>2. DiskOK'
    BY <1>6, <2>1, Zenon DEF FinalCheckpoint, WriteFinal, DiskOK
  <2>3. TaskOK'
    BY <1>6, Zenon DEF FinalCheckpoint, TaskOK, TaskStates
  <2> QED
    BY <1>0, <1>6, <2>2, <2>3, Unchanged, Zenon DEF FinalCheckpoint
<1>7. CASE Finish
  <2>1. TaskOK'
    BY <1>7, Zenon DEF Finish, TaskOK, TaskStates
  <2>2. PanesOK'
    BY <1>7, Zenon DEF Finish, Quiesced, PanesOK, ReaderStates
  <2>3. LinkOK'
    <3>1. toN' \in Seq(Frames)
      BY <1>7, TypeQueue, Zenon DEF Finish, LinkOK, MsgTypes
    <3> QED
      BY <1>7, <3>1, Zenon DEF Finish, LinkOK, EndStates
  <2> QED
    BY <1>0, <1>7, <2>1, <2>2, <2>3, Unchanged, Zenon DEF Finish, diskVars
<1>8. CASE RollBack
  <2>1. PanesOK'
    BY <1>8, TypeReleased, Zenon DEF RollBack, PanesOK
  <2>2. DiskOK'
    BY <1>0, <1>8, Zenon DEF RollBack, DiskOK
  <2>3. TaskOK'
    BY <1>8, Zenon DEF RollBack, TaskOK, TaskStates
  <2> QED
    BY <1>0, <1>8, <2>1, <2>2, <2>3, Unchanged, Zenon DEF RollBack
<1>9. CASE SendAbort
  <2>1. LinkOK'
    BY <1>9, TypeQueue, Zenon DEF SendAbort, LinkOK, EndStates, MsgTypes
  <2>2. TaskOK'
    BY <1>9, Zenon DEF SendAbort, TaskOK, TaskStates
  <2> QED
    BY <1>0, <1>9, <2>1, <2>2, Unchanged, Zenon DEF SendAbort, diskVars
<1>10. CASE StopSuccessor
  <2>1. LinkOK' /\ SuccessorOK'
    BY <1>10, Zenon DEF StopSuccessor, Stopped, Hangup, LinkOK, EndStates, SuccessorOK, NStates
  <2>2. TaskOK'
    BY <1>10, Zenon DEF StopSuccessor, TaskOK, TaskStates
  <2> QED
    BY <1>0, <1>10, <2>1, <2>2, Unchanged, Zenon DEF StopSuccessor, diskVars
<1> QED
  BY <1>1, <1>2, <1>3, <1>4, <1>5, <1>6, <1>7, <1>8, <1>9, <1>10, Zenon DEF SenderStep

LEMMA TypeSuccessor ==
  ASSUME TypeOK, SuccessorStep \/ (\E p \in Panes : NRead(p)) \/ CrashN \/ HangN
  PROVE  TypeOK'
<1> USE DEF TypeOK
<1>1. UNCHANGED <<pane, reader, hold, grid, diskVars, taskVars, mainVars, oEnd>>
  BY Zenon DEF SuccessorStep, NConnect, NUnreachable, NHello, NPaneFd, NComplete, NReleased, NAbort,
         NLost, NGrace, NServe, NRead, CrashN, HangN, NFrame
<1>2. PanesOK'
  <2>1. CASE \E p \in Panes : NRead(p)
    BY <1>1, <2>1 DEF NRead, PanesOK
  <2>2. CASE ~ \E p \in Panes : NRead(p)
    <3>1. taken' = taken
      BY <2>2, Zenon DEF SuccessorStep, NConnect, NUnreachable, NHello, NPaneFd, NComplete, NReleased,
                  NAbort, NLost, NGrace, NServe, CrashN, HangN
    <3> QED
      BY <1>1, <3>1, Zenon DEF PanesOK
  <2> QED
    BY <2>1, <2>2, Zenon
<1>3. ASSUME NEW at, NEW t, Got(at, t)
      PROVE  toN' \in Seq(Frames) /\ Head(toN) \in Frames
  BY <1>3, TypeQueue, Zenon DEF Got, LinkOK
<1>4. ASSUME NEW t \in MsgTypes, NEW next \in NStates, NEW lost \in NStates,
             Reply(t, next, lost)
      PROVE  nPc' \in NStates /\ toO' \in Seq(Frames) /\ nEnd' \in EndStates
  BY <1>4, TypeQueue, Zenon DEF Reply, LinkOK, EndStates
<1>5. SuccessorOK' /\ LinkOK'
  <2>1. CASE NConnect \/ NUnreachable \/ NLost \/ NGrace \/ CrashN \/ HangN
    <3>1. SuccessorOK'
      BY <2>1, Zenon DEF NConnect, NUnreachable, NLost, NGrace, CrashN, HangN, SuccessorOK, NStates
    <3>2. LinkOK'
      BY <1>1, <2>1, Zenon DEF NConnect, NUnreachable, NLost, NGrace, CrashN, HangN, Hangup, LinkOK,
                        EndStates, linkVars
    <3> QED
      BY <3>1, <3>2, Zenon
  <2>2. CASE NHello
    <3>1. Got("hello", "Hello")
      BY <2>2, Zenon DEF NHello
    <3>2. nWant' \subseteq Panes
      BY <1>3, <2>2, <3>1, Zenon DEF NHello, Frames
    <3>3. nPc' \in NStates /\ toO' \in Seq(Frames) /\ nEnd' \in EndStates
      BY <1>4, <2>2, Zenon DEF NHello, NStates, MsgTypes
    <3> QED
      BY <1>1, <1>3, <2>2, <3>1, <3>2, <3>3, Zenon DEF NHello, SuccessorOK, LinkOK
  <2>3. CASE NPaneFd
    <3>1. Got("fds", "PaneFd")
      BY <2>3, Zenon DEF NPaneFd
    <3>2. nFds' \subseteq Panes
      BY <1>3, <2>3, <3>1, Zenon DEF NPaneFd, Frames, SuccessorOK
    <3>3. nPc' \in NStates /\ toO' \in Seq(Frames) /\ nEnd' \in EndStates
      BY <1>4, <2>3, Zenon DEF NPaneFd, NStates, MsgTypes
    <3> QED
      BY <1>1, <1>3, <2>3, <3>1, <3>2, <3>3, Zenon DEF NPaneFd, SuccessorOK, LinkOK
  <2>4. CASE NComplete
    <3>1. Got("complete", "Complete")
      BY <2>4, Zenon DEF NComplete
    <3>2. nPc' \in NStates /\ toO' \in Seq(Frames) /\ nEnd' \in EndStates
      BY <1>4, <2>4, Zenon DEF NComplete, NStates, MsgTypes
    <3> QED
      BY <1>1, <1>3, <2>4, <3>1, <3>2, Zenon DEF NComplete, SuccessorOK, LinkOK
  <2>5. CASE NReleased
    <3>1. toN' \in Seq(Frames)
      BY <1>3, <2>5, Zenon DEF NReleased
    <3> QED
      BY <1>1, <2>5, <3>1, Zenon DEF NReleased, SuccessorOK, LinkOK, NStates, EndStates
  <2>6. CASE NAbort
    <3>1. toN' \in Seq(Frames)
      BY <1>3, <2>6, Zenon DEF NAbort
    <3> QED
      BY <1>1, <2>6, <3>1, Zenon DEF NAbort, SuccessorOK, LinkOK, NStates, EndStates
  <2>7. CASE NServe
    <3>1. SuccessorOK'
      BY <1>1, <2>7 DEF NServe, SuccessorOK, NStates, DiskOK, Snapshots, Absent
    <3> QED
      BY <2>7, <3>1, Unchanged, Zenon DEF NServe
  <2>8. CASE \E p \in Panes : NRead(p)
    BY <2>8, Unchanged DEF NRead, SuccessorOK
  <2> QED
    BY <2>1, <2>2, <2>3, <2>4, <2>5, <2>6, <2>7, <2>8, Zenon DEF SuccessorStep
<1> QED
  BY <1>1, <1>2, <1>5, Unchanged, Zenon

(* Every variable of the two daemons keeps its type, and no emulator runs  *)
(* ahead of its PTY (feed_capped feeds only what was read).                *)
THEOREM TypeCorrect == Spec => []TypeOK
<1>1. Init => TypeOK
  BY TypeInit, Zenon
<1>2. TypeOK /\ [Next]_vars => TypeOK'
  <2> SUFFICES ASSUME TypeOK, [Next]_vars PROVE TypeOK'
    BY Zenon
  <2>1. CASE UNCHANGED vars
    BY <2>1, Unchanged, Zenon DEF vars, TypeOK
  <2>2. CASE Next
    BY <2>2, TypePane, TypeDisk, TypeMain, TypeSender, TypeSuccessor, Zenon DEF Next
  <2> QED
    BY <2>1, <2>2, Zenon
<1> QED
  BY <1>1, <1>2, PTL DEF Spec

-----------------------------------------------------------------------------
(* Why two daemons never serve at once.  A successor that is still         *)
(* connecting is awaited by O, so it never takes O's silence for absence;  *)
(* `Released` is the last thing O says, in a state it never leaves; and    *)
(* nothing else lets N serve while O lives.                                *)

Holds(q, t) == \E i \in 1 .. Len(q) : q[i].type = t
HasReleased(q) == Holds(q, "Released")

BusyWhileTask       == task # "idle" => busy
HandedOffIsDone     == handedOff => task = "done"
ReleasedIsLast      == HasReleased(toN) => task = "done"
ConnectingIsAwaited ==
  nPc = "connecting" /\ alive => task \in {"accepting", "stopping"} /\ nEnd = "none"
TakenOverIsDone     == TakingOver /\ alive => task = "done"

ServerInv == /\ BusyWhileTask /\ HandedOffIsDone /\ ReleasedIsLast /\ ConnectingIsAwaited
             /\ TakenOverIsDone

(* Which frames a queue holds, as it grows and shrinks.                    *)
LEMMA HoldsQueue ==
  ASSUME NEW t \in MsgTypes
  PROVE  /\ ~ Holds(<<>>, t)
         /\ \A q \in Seq(Frames), f \in Frames :
              Holds(Append(q, f), t) => Holds(q, t) \/ f.type = t
         /\ \A q \in Seq(Frames) : q # <<>> =>
              /\ Holds(Tail(q), t) => Holds(q, t)
              /\ Head(q).type = t => Holds(q, t)
<1>1. ~ Holds(<<>>, t)
  BY DEF Holds
<1>2. ASSUME NEW q \in Seq(Frames), NEW f \in Frames, Holds(Append(q, f), t)
      PROVE  Holds(q, t) \/ f.type = t
  <2>1. PICK i \in 1 .. Len(Append(q, f)) : Append(q, f)[i].type = t
    BY <1>2, Zenon DEF Holds
  <2>2. CASE i = Len(q) + 1
    BY <2>1, <2>2
  <2>3. CASE i # Len(q) + 1
    <3>1. i \in 1 .. Len(q) /\ Append(q, f)[i] = q[i]
      BY <2>1, <2>3
    <3> QED
      BY <2>1, <3>1, Zenon DEF Holds
  <2> QED
    BY <2>2, <2>3, Zenon
<1>3. ASSUME NEW q \in Seq(Frames), q # <<>>
      PROVE  /\ Holds(Tail(q), t) => Holds(q, t)
             /\ Head(q).type = t => Holds(q, t)
  <2>1. ASSUME Holds(Tail(q), t) PROVE Holds(q, t)
    <3>1. PICK i \in 1 .. Len(Tail(q)) : Tail(q)[i].type = t
      BY <2>1, Zenon DEF Holds
    <3>2. i + 1 \in 1 .. Len(q) /\ Tail(q)[i] = q[i + 1]
      BY <1>3, <3>1
    <3> QED
      BY <3>1, <3>2, Zenon DEF Holds
  <2>2. 1 \in 1 .. Len(q) /\ Head(q) = q[1]
    BY <1>3
  <2> QED
    BY <2>1, <2>2, Zenon DEF Holds
<1> QED
  BY <1>1, <1>2, <1>3, Zenon

(* The same for the reply the predecessor exits on.                        *)
LEMMA ReleasedQueue ==
  /\ ~ HasReleased(<<>>)
  /\ \A q \in Seq(Frames), f \in Frames :
       HasReleased(Append(q, f)) => HasReleased(q) \/ f.type = "Released"
  /\ \A q \in Seq(Frames) : q # <<>> =>
       /\ HasReleased(Tail(q)) => HasReleased(q)
       /\ Head(q).type = "Released" => HasReleased(q)
<1>1. "Released" \in MsgTypes
  BY Zenon DEF MsgTypes
<1> QED
  BY <1>1, HoldsQueue, Zenon DEF HasReleased

(* What none of the invariant's variables sees keeps it.                   *)
LEMMA ServerUnchanged ==
  ServerInv /\ UNCHANGED <<task, busy, handedOff, alive, nPc, toN, nEnd>> => ServerInv'
  BY DEF ServerInv, BusyWhileTask, HandedOffIsDone, ReleasedIsLast, ConnectingIsAwaited,
         TakenOverIsDone, TakingOver, HasReleased

LEMMA ServerMain ==
  ASSUME TypeOK, ServerInv, MainStep \/ Sigterm \/ CrashO PROVE ServerInv'
<1> USE DEF ServerInv, BusyWhileTask, HandedOffIsDone, ReleasedIsLast, ConnectingIsAwaited,
            TakenOverIsDone, TakingOver
<1>1. toN' = toN /\ nPc' = nPc /\ nEnd' = nEnd
  BY Zenon DEF MainStep, Sigterm, CrashO, Restart, RestartCutOff, StartTask, ServeSignal, StopCommand,
         HandoffDone, HandoffFailed, SettleFailed, StoppedFailed, ShutdownCheckpoint, Exit,
         linkVars, nVars
<1>2. HasReleased(toN') = HasReleased(toN)
  BY <1>1, Zenon
<1>3. CASE Sigterm \/ ServeSignal \/ StopCommand \/ ShutdownCheckpoint
  BY <1>1, <1>3, ServerUnchanged, Zenon
     DEF Sigterm, ServeSignal, StopCommand, ShutdownCheckpoint, taskVars, mainVars
<1>4. CASE Restart \/ RestartCutOff \/ StartTask
  <2>1. CASE Restart
    BY <1>1, <1>2, <2>1, Zenon DEF Restart
  <2>2. CASE RestartCutOff
    BY <1>1, <1>2, <2>2, Zenon DEF RestartCutOff
  <2>3. CASE StartTask
    BY <1>1, <1>2, <2>3, Zenon DEF StartTask
  <2> QED BY <1>4, <2>1, <2>2, <2>3, Zenon
<1>5. CASE HandoffDone \/ HandoffFailed \/ SettleFailed \/ StoppedFailed
  <2>1. CASE HandoffDone
    BY <1>1, <1>2, <2>1, Zenon DEF HandoffDone, mainVars
  <2>2. CASE HandoffFailed
    BY <1>1, <1>2, <2>2, Zenon DEF HandoffFailed, mainVars
  <2>3. CASE SettleFailed
    BY <1>1, <1>2, <2>3, Zenon DEF SettleFailed, mainVars
  <2>4. CASE StoppedFailed
    BY <1>1, <1>2, <2>4, Zenon DEF StoppedFailed, mainVars
  <2> QED BY <1>5, <2>1, <2>2, <2>3, <2>4, Zenon
<1>6. CASE Exit \/ CrashO
  <2>1. CASE Exit
    BY <1>1, <1>2, <2>1, Zenon DEF Exit, Gone, taskVars
  <2>2. CASE CrashO
    BY <1>1, <1>2, <2>2, Zenon DEF CrashO, Gone, taskVars
  <2> QED BY <1>6, <2>1, <2>2, Zenon
<1> QED
  BY <1>3, <1>4, <1>5, <1>6, Zenon DEF MainStep

LEMMA ServerSender == ASSUME TypeOK, ServerInv, SenderStep PROVE ServerInv'
<1> USE DEF ServerInv, BusyWhileTask, HandedOffIsDone, ReleasedIsLast, ConnectingIsAwaited,
            TakenOverIsDone, TakingOver
<1>0. UNCHANGED <<busy, handedOff, alive>> /\ task # "done" /\ alive
  BY Zenon DEF SenderStep, SpawnSuccessor, AcceptSuccessor, AcceptFails, SendHello, Receive,
         RecvAccept, RecvDecline, RecvFdAck, RecvAck, SendFd, HoldRelays, RelaysHeld,
         FinalCheckpoint, SendComplete, StepFails, Abandonable, Finish, RollBack, SendAbort,
         StopSuccessor, SenderFrame
<1>1. busy /\ ~handedOff /\ ~TakingOver /\ ~HasReleased(toN)
  <2>1. task # "idle"
    BY Zenon DEF SenderStep, SpawnSuccessor, AcceptSuccessor, AcceptFails, SendHello, Receive,
           RecvAccept, RecvDecline, RecvFdAck, RecvAck, SendFd, HoldRelays, RelaysHeld,
           FinalCheckpoint, SendComplete, StepFails, Abandonable, Finish, RollBack, SendAbort,
           StopSuccessor
  <2> QED
    BY <1>0, <2>1, Zenon
<1>2. CASE SpawnSuccessor
  BY <1>0, <1>1, <1>2, ReleasedQueue, Zenon DEF SpawnSuccessor, nVars, linkVars
<1>3. CASE StopSuccessor
  BY <1>0, <1>1, <1>3, Zenon DEF StopSuccessor, Stopped, SuccessorGone
<1>4. CASE ~ SpawnSuccessor /\ ~ StopSuccessor
  <2>1. nPc' = nPc /\ nEnd' = nEnd
    BY <1>4, Zenon DEF SenderStep, AcceptSuccessor, AcceptFails, SendHello, Receive,
         RecvAccept, RecvDecline, RecvFdAck, RecvAck, SendFd, HoldRelays, RelaysHeld,
         FinalCheckpoint, SendComplete, StepFails, Finish, RollBack, SendAbort, nVars, linkVars
  <2>2. HasReleased(toN') => task' = "done"
    <3> USE <1>1, ReleasedQueue, TypeQueue DEF TypeOK, LinkOK
    <3>1. ASSUME NEW f \in Frames, f.type # "Released", NEW next, Send(f, next)
          PROVE  ~ HasReleased(toN')
      BY <3>1, ZenonT(30) DEF Send
    <3>2. CASE SendHello
      <4>1. PaneFrame("Hello", unsent') \in Frames
        BY <3>2, Zenon DEF SendHello, MsgTypes
      <4> QED
        BY <3>1, <3>2, <4>1, Zenon DEF SendHello, PaneFrame
    <3>3. CASE SendFd
      <4>1. \A p \in Panes : PaneFrame("PaneFd", {p}) \in Frames
        BY ZenonT(120) DEF MsgTypes
      <4> QED
        BY <3>1, <3>3, <4>1, Zenon DEF SendFd, PaneFrame, TaskOK
    <3>4. CASE SendComplete
      <4>1. Frame("Complete") \in Frames
        BY Zenon DEF MsgTypes
      <4> QED
        BY <3>1, <3>4, <4>1, Zenon DEF SendComplete, Frame
    <3>5. CASE SendAbort
      <4>1. Frame("Abort") \in Frames /\ Frame("Abort").type = "Abort"
        BY Zenon DEF MsgTypes, Frame
      <4> QED
        BY <3>5, <4>1, Zenon DEF SendAbort
    <3>6. CASE Finish
      BY <3>6, Zenon DEF Finish
    <3>7. CASE ~ (SendHello \/ SendFd \/ SendComplete \/ SendAbort \/ Finish)
      <4>1. toN' = toN
        BY <1>4, <3>7, ZenonT(30) DEF SenderStep, AcceptSuccessor, AcceptFails, Receive, RecvAccept,
             RecvDecline, RecvFdAck, RecvAck, HoldRelays, RelaysHeld, FinalCheckpoint,
             StepFails, RollBack, linkVars
      <4> QED
        BY <4>1, Zenon
    <3> QED
      BY <3>2, <3>3, <3>4, <3>5, <3>6, <3>7, Zenon
  <2>3. nPc = "connecting" => task' \in {"accepting", "stopping"}
    BY <1>0, <1>4, Zenon DEF SenderStep, AcceptSuccessor, AcceptFails, SendHello, Receive,
         RecvAccept, RecvDecline, RecvFdAck, RecvAck, SendFd, HoldRelays, RelaysHeld,
         FinalCheckpoint, SendComplete, StepFails, Abandonable, Finish, RollBack, SendAbort
  <2> QED
    BY <1>0, <1>1, <2>1, <2>2, <2>3, Zenon
<1> QED
  BY <1>2, <1>3, <1>4, Zenon

LEMMA ServerSuccessor ==
  ASSUME TypeOK, ServerInv, SuccessorStep \/ (\E p \in Panes : NRead(p)) \/ CrashN \/ HangN
  PROVE  ServerInv'
<1> USE DEF ServerInv, BusyWhileTask, HandedOffIsDone, ReleasedIsLast, ConnectingIsAwaited,
            TakenOverIsDone, TakingOver
<1>0. UNCHANGED <<task, busy, handedOff, alive, main>>
  BY Zenon DEF SuccessorStep, NConnect, NUnreachable, NHello, NPaneFd, NComplete, NReleased, NAbort,
         NLost, NGrace, NServe, NRead, CrashN, HangN, NFrame, taskVars, mainVars
<1>1. ASSUME NEW at, NEW t, Got(at, t)
      PROVE  /\ HasReleased(toN') => HasReleased(toN)
             /\ t = "Released" => HasReleased(toN)
  BY <1>1, ReleasedQueue, Zenon DEF Got, TypeOK, LinkOK
<1>2. HasReleased(toN') => HasReleased(toN)
  <2>1. CASE NHello \/ NPaneFd \/ NComplete \/ NReleased \/ NAbort
    BY <1>1, <2>1, Zenon DEF NHello, NPaneFd, NComplete, NReleased, NAbort
  <2>2. CASE ~ (NHello \/ NPaneFd \/ NComplete \/ NReleased \/ NAbort)
    <3>1. toN' = toN
      BY <2>2, ZenonT(30) DEF SuccessorStep, NConnect, NUnreachable, NLost, NGrace, NServe, NRead, CrashN,
                  HangN, linkVars
    <3> QED
      BY <3>1, Zenon
  <2> QED
    BY <2>1, <2>2, Zenon
<1>3. nPc' = "connecting" => nPc = "connecting" /\ nEnd' = nEnd
  BY Zenon DEF SuccessorStep, NConnect, NUnreachable, NHello, NPaneFd, NComplete, NReleased, NAbort,
         NLost, NGrace, NServe, NRead, CrashN, HangN, Reply, linkVars
<1>4. TakingOver' /\ alive => task = "done"
  <2>1. CASE NUnreachable
    BY <1>0, <2>1, Zenon DEF NUnreachable, Listening
  <2>2. CASE NReleased
    BY <1>1, <2>2, Zenon DEF NReleased
  <2>3. CASE NGrace
    BY <2>3, Zenon DEF NGrace, PredecessorGone
  <2>4. CASE ~ (NUnreachable \/ NReleased \/ NGrace)
    <3>1. TakingOver' => TakingOver
      BY <2>4, Zenon DEF SuccessorStep, NConnect, NHello, NPaneFd, NComplete, NAbort, NLost, NServe,
                  NRead, CrashN, HangN, Reply
    <3> QED
      BY <3>1, Zenon
  <2> QED
    BY <2>1, <2>2, <2>3, <2>4, Zenon
<1> QED
  BY <1>0, <1>2, <1>3, <1>4, Zenon

LEMMA ServerStep == ASSUME TypeOK, ServerInv, [Next]_vars PROVE ServerInv'
<1>1. CASE PaneStep \/ TickGather \/ TickWrite
  BY <1>1, ServerUnchanged, ZenonT(60)
     DEF PaneStep, AdmitPane, CreatePane, ReadPty, FeedGrid, Park, ChildExits, ReaderEnds,
         ClosePane, TickGather, TickWrite, taskVars, mainVars, nVars, linkVars
<1>2. CASE UNCHANGED vars
  BY <1>2, ServerUnchanged, Zenon DEF vars, taskVars, mainVars, nVars, linkVars
<1> QED
  BY <1>1, <1>2, ServerMain, ServerSender, ServerSuccessor, Zenon DEF Next

(* Two daemons never serve at once (docs/daemon-handoff.md): whatever      *)
(* stalls or crashes, a successor that takes over finds the outgoing       *)
(* daemon gone or past the point where it could serve again.               *)
THEOREM OneServerAlways == Spec => []OneServer
<1>1. Init => ServerInv
  BY ReleasedQueue, Zenon DEF Init, ServerInv, BusyWhileTask, HandedOffIsDone, ReleasedIsLast,
     ConnectingIsAwaited, TakenOverIsDone, TakingOver
<1>2. TypeOK /\ ServerInv /\ [Next]_vars => ServerInv'
  BY ServerStep, Zenon
<1>3. ServerInv => OneServer
  BY Zenon DEF ServerInv, TakenOverIsDone, OneServer, Leaving
<1> QED
  BY <1>1, <1>2, <1>3, TypeCorrect, PTL DEF Spec

=============================================================================
