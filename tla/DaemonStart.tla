---------------------------- MODULE DaemonStart -----------------------------
(***************************************************************************)
(* One local daemon: how the kmux command starts, stops and restarts kmuxd *)
(* and what the daemon itself does to the files they meet at.  Callers run *)
(* ensure_daemon, `kmux daemon stop` and `kmux daemon restart`; a daemon   *)
(* locks its pid file, looks for a live one, restores, binds the control   *)
(* socket, serves, and on its way out writes the final checkpoint and      *)
(* removes its files.                                                      *)
(*                                                                         *)
(* Every system call on a shared file is a step of its own.  How a handoff *)
(* commits or rolls back is the business of Handoff: here it does one or   *)
(* the other.  A daemon is known by its pid, and a pid is not used twice.  *)
(***************************************************************************)
EXTENDS Naturals, FiniteSets

CONSTANTS
    Daemons,        \* 1 .. n: the pids of the daemons a run may start
    Callers,        \* the kmux commands that run
    MaxInodes,      \* bound on the pid files created
    DmScenarios     \* the environments explored: records with the fields below

VARIABLES
    dmScenario,     \* [want: what each caller does, force: stop's --force,
                    \*  begin: what is there at first, budget: see dmLeft]
    dmLeft,         \* what the environment may still do
    dm,             \* each daemon
    pidPath,        \* the inode at the pid file's path, or Nobody
    inode,          \* each pid file: the pid it holds and who has it locked
    inodes,         \* how many pid files have been created
    sock,           \* the daemon whose control socket is at the path, or Nobody
    spawnLock,      \* the caller that holds daemon.spawn.lock, or Nobody
    call,           \* each caller
    slips           \* <<daemon, cause>> of each known way for it to come to harm

dmVars == <<dmScenario, dmLeft, dm, pidPath, inode, inodes, sock, spawnLock, call, slips>>

fileVars == <<pidPath, inode, inodes, sock>>

DmSpend(what) == dmLeft[what] > 0 /\ dmLeft' = [dmLeft EXCEPT ![what] = @ - 1]

Nobody == 0

\* A daemon: main is async_main's place, ctl the control socket task's.  term:
\* who has yet to see a SIGTERM; woken and permit: the Notify `shutdown`;
\* hand: the handoff in flight; told: a `stop` it has acknowledged; seen: whose
\* socket its latest probe found at the path; armed: SocketGuard's flag.
Absent == [main |-> "absent", ctl |-> "none", ino |-> Nobody, pred |-> Nobody,
           heir |-> Nobody, term |-> {}, woken |-> FALSE, permit |-> FALSE,
           restart |-> FALSE, hand |-> "none", handedOff |-> FALSE,
           claims |-> FALSE, told |-> FALSE, early |-> FALSE, seen |-> Nobody,
           armed |-> FALSE]

Idler == [op |-> "none", pc |-> "idle", target |-> Nobody, ino |-> Nobody,
          owner |-> Nobody, child |-> Nobody, retried |-> FALSE]

Alive(d) == d # Nobody /\ dm[d].main \notin {"absent", "dead"}
Successor(d) == dm[d].pred # Nobody
Listening(d) == d # Nobody /\ dm[d].ctl = "serving"

\* The daemon has restored the sessions and will write a final checkpoint.
Holds(d) == dm[d].main \in {"starting", "loop", "settling", "closing"} /\ dm[d].hand # "ok"

(***************************************************************************)
(* The file system.                                                        *)
(***************************************************************************)
\* socket_is_live, probe_is_live: a connect finds a listener.  The EAGAIN of a
\* full backlog is asked again until the answer is one of these two.
SockLive == Listening(sock)

\* The flock of process p on whatever it has open goes with the process.
Unlocked(f, p) == [i \in DOMAIN f |-> IF f[i].lock = p THEN [f[i] EXCEPT !.lock = Nobody] ELSE f[i]]

\* The pid file at the path, if there is one, holds this pid.
PidFileHolds(d) == pidPath # Nobody /\ inode[pidPath].pid = d

(***************************************************************************)
(* The daemon.                                                             *)
(***************************************************************************)
\* The process ends: its listener closes, its locks go, its files stay.
Gone(d, ds) == [ds EXCEPT ![d].main = "dead", ![d].ctl = "none",
                          ![d].early = dm[d].main = "boot"]

Dies(d) == dm' = Gone(d, dm) /\ inode' = Unlocked(inode, d)

\* The daemonize crate (external) opens the pid file, creating it if needed.
OpenPidFile(d) ==
    /\ dm[d].main = "boot"
    /\ IF pidPath # Nobody
       THEN /\ dm' = [dm EXCEPT ![d].main = "opened", ![d].ino = pidPath]
            /\ UNCHANGED <<pidPath, inodes>>
       ELSE /\ inodes < MaxInodes
            /\ inodes' = inodes + 1
            /\ pidPath' = inodes + 1
            /\ dm' = [dm EXCEPT ![d].main = "opened", ![d].ino = inodes + 1]
    /\ UNCHANGED <<dmScenario, dmLeft, inode, sock, spawnLock, call, slips>>

\* It locks the file it opened, or gives up at once, and writes its pid.
LockPidFile(d) ==
    /\ dm[d].main = "opened"
    /\ IF inode[dm[d].ino].lock # Nobody
       THEN Dies(d)
       ELSE /\ inode' = [inode EXCEPT ![dm[d].ino] = [pid |-> d, lock |-> d]]
            /\ dm' = [dm EXCEPT ![d].main = "check"]
    /\ UNCHANGED <<dmScenario, dmLeft, pidPath, inodes, sock, spawnLock, call, slips>>

\* A successor that was told to take over and has yet to bind the socket.
Unbound(e) == /\ Successor(e) /\ dm[e].main \in {"restore", "starting", "loop"}
              /\ dm[e].ctl \in {"none", "check", "take", "bind"}

\* Fault: the check comes only when the control socket is bound.
EnsureNoLive_Skipped(d) ==
    /\ dm[d].main = "check"
    /\ dm' = [dm EXCEPT ![d].main = "restore"]
    /\ UNCHANGED <<dmScenario, dmLeft, pidPath, inode, inodes, sock, spawnLock, call, slips>>

\* ensure_no_live_daemon, before anything with a side effect.
EnsureNoLive(d) ==
    /\ dm[d].main = "check"
    /\ IF SockLive THEN Dies(d) /\ UNCHANGED slips
       ELSE /\ dm' = [dm EXCEPT ![d].main = "restore"]
            /\ slips' = slips \cup {<<e, "in between">> : e \in {f \in Daemons : Unbound(f)}}
            /\ UNCHANGED inode
    /\ UNCHANGED <<dmScenario, dmLeft, pidPath, inodes, sock, spawnLock, call>>

\* The sessions restored, the listeners bound and the control task spawned.
RestoreAndBind(d) ==
    /\ dm[d].main = "restore"
    /\ dm' = [dm EXCEPT ![d].main = "starting", ![d].ctl = "check",
                        ![d].claims = Successor(d)]
    /\ UNCHANGED <<dmScenario, dmLeft, fileVars, spawnLock, call, slips>>

\* The main loop's first select!.
EnterLoop(d) ==
    /\ dm[d].main = "starting"
    /\ dm' = [dm EXCEPT ![d].main = "loop"]
    /\ UNCHANGED <<dmScenario, dmLeft, fileVars, spawnLock, call, slips>>

\* A successor writes its pid once its predecessor has gone, or after
\* PID_FILE_CLAIM: into the file that is there, or a new one.  It locks neither.
ClaimPidFile(d) ==
    /\ dm[d].claims
    /\ IF Alive(dm[d].pred) THEN DmSpend("slow") ELSE UNCHANGED dmLeft
    /\ dm' = [dm EXCEPT ![d].claims = FALSE]
    /\ IF pidPath # Nobody
       THEN inode' = [inode EXCEPT ![pidPath].pid = d] /\ UNCHANGED <<pidPath, inodes>>
       ELSE /\ inodes < MaxInodes
            /\ inodes' = inodes + 1
            /\ pidPath' = inodes + 1
            /\ inode' = [inode EXCEPT ![inodes + 1].pid = d]
    /\ slips' = IF dm[d].ctl = "ended" THEN slips \cup {<<d, "claimed late">>} ELSE slips
    /\ UNCHANGED <<dmScenario, sock, spawnLock, call>>

\* serve_control_socket: a live socket is only a successor's to take; a daemon
\* that finds one stops the whole process, with a permit that waits for it.
ProbeSocket(d) ==
    /\ dm[d].ctl = "check"
    /\ IF sock # Nobody /\ ~Successor(d) /\ SockLive
       THEN dm' = [dm EXCEPT ![d].ctl = "ended", ![d].permit = TRUE]
       ELSE dm' = [dm EXCEPT ![d].ctl = IF sock # Nobody THEN "take" ELSE "bind",
                             ![d].seen = sock]
    /\ UNCHANGED <<dmScenario, dmLeft, fileVars, spawnLock, call, slips>>

\* The unlink of whatever is at the path by now: what the probe took to be stale,
\* the socket of the predecessor, or one bound since.
TakeSocket(d) ==
    /\ dm[d].ctl = "take"
    /\ dm' = [dm EXCEPT ![d].ctl = "bind"]
    /\ sock' = Nobody
    /\ slips' = IF SockLive /\ sock # dm[d].pred THEN slips \cup {<<sock, "unlinked">>}
                ELSE slips
    /\ UNCHANGED <<dmScenario, dmLeft, pidPath, inode, inodes, spawnLock, call>>

\* A bind that finds a file at the path fails, and the task ends: the daemon
\* runs on with no control socket.
BindSocket(d) ==
    /\ dm[d].ctl = "bind"
    /\ IF sock = Nobody
       THEN /\ sock' = d /\ dm' = [dm EXCEPT ![d].ctl = "serving", ![d].armed = TRUE]
            /\ UNCHANGED slips
       ELSE /\ dm' = [dm EXCEPT ![d].ctl = "ended"]
            /\ slips' = slips \cup {<<d, "headless">>}
            /\ UNCHANGED sock
    /\ UNCHANGED <<dmScenario, dmLeft, pidPath, inode, inodes, spawnLock, call>>

\* shutdown.notify_waiters(): only a main loop that waits is woken.
NotifyWaiters(d, ds) == [ds EXCEPT ![d].woken = @ \/ ds[d].main = "loop"]

Missed(d) == IF dm[d].main = "loop" THEN {} ELSE {<<d, "missed">>}

\* The control task's own SIGTERM or SIGINT: it wakes the main loop and closes.
ControlSignalled(d) ==
    /\ dm[d].ctl = "serving" /\ "ctl" \in dm[d].term
    /\ dm' = [NotifyWaiters(d, dm) EXCEPT ![d].ctl = "probe", ![d].term = @ \ {"ctl"}]
    /\ slips' = slips \cup {<<d, "swept itself">>}
    /\ UNCHANGED <<dmScenario, dmLeft, fileVars, spawnLock, call>>

GuardProbe(d) ==
    /\ dm[d].ctl = "probe"
    /\ dm' = [dm EXCEPT ![d].ctl = IF SockLive THEN "pidfile" ELSE "unlink", ![d].seen = sock]
    /\ UNCHANGED <<dmScenario, dmLeft, fileVars, spawnLock, call, slips>>

GuardUnlink(d) ==
    /\ dm[d].ctl = "unlink"
    /\ dm' = [dm EXCEPT ![d].ctl = "pidfile"]
    /\ sock' = Nobody
    /\ slips' = IF SockLive /\ sock # dm[d].seen THEN slips \cup {<<sock, "unlinked">>}
                ELSE slips
    /\ UNCHANGED <<dmScenario, dmLeft, pidPath, inode, inodes, spawnLock, call>>

GuardPidFile(d) ==
    /\ dm[d].ctl = "pidfile"
    /\ dm' = [dm EXCEPT ![d].ctl = "ended"]
    /\ pidPath' = IF PidFileHolds(d) THEN Nobody ELSE pidPath
    /\ UNCHANGED <<dmScenario, dmLeft, inode, inodes, sock, spawnLock, call, slips>>

(***************************************************************************)
(* The main loop and the way out.                                          *)
(***************************************************************************)
NextDaemon == CHOOSE d \in Daemons : /\ dm[d].main = "absent"
                                     /\ \A e \in Daemons : dm[e].main = "absent" => d <= e
DaemonLeft == \E d \in Daemons : dm[d].main = "absent"

\* A signal, a stop or the permit of a lost start race ends the loop.
LoopEnds(d) ==
    /\ dm[d].main = "loop"
    /\ dm[d].woken \/ dm[d].permit \/ "main" \in dm[d].term
    /\ dm' = [dm EXCEPT ![d].main = "closing"]
    /\ UNCHANGED <<dmScenario, dmLeft, fileVars, spawnLock, call, slips>>

\* restart.notified(): HandoffInFlight::start spawns the successor.
LoopRestarts(d) ==
    /\ dm[d].main = "loop" /\ dm[d].restart /\ dm[d].hand = "none"
    /\ DaemonLeft
    /\ LET s == NextDaemon IN
       dm' = [dm EXCEPT ![d].restart = FALSE, ![d].hand = "run", ![d].heir = s,
                        ![s] = [Absent EXCEPT !.main = "handoff", !.pred = d]]
    /\ UNCHANGED <<dmScenario, dmLeft, fileVars, spawnLock, call, slips>>

\* handoff_ended: the branch settles the handoff, and while it does nothing waits
\* on `shutdown`; a wake-up the select! had already been given goes with it.
LoopSettles(d) ==
    /\ dm[d].main = "loop" /\ dm[d].hand \in {"ok", "rolled"}
    /\ dm' = [dm EXCEPT ![d].main = "settling", ![d].woken = FALSE]
    /\ slips' = IF dm[d].woken THEN slips \cup {<<d, "missed">>} ELSE slips
    /\ UNCHANGED <<dmScenario, dmLeft, fileVars, spawnLock, call>>

Settle(d) ==
    /\ dm[d].main = "settling"
    /\ dm' = IF dm[d].hand = "ok"
             THEN [dm EXCEPT ![d].main = "closing", ![d].handedOff = TRUE]
             ELSE [dm EXCEPT ![d].main = "loop", ![d].hand = "none"]
    /\ UNCHANGED <<dmScenario, dmLeft, fileVars, spawnLock, call, slips>>

\* The handoff (Handoff.tla): the successor may take over, having been told so
\* after the final checkpoint, or it stands down and ends.
HandoffCommits(d) ==
    /\ dm[d].hand = "run" /\ dm[d].main \in {"loop", "closing"}
    /\ dm[dm[d].heir].main = "handoff"
    /\ dm' = [dm EXCEPT ![d].hand = "ok", ![dm[d].heir].main = "restore"]
    /\ UNCHANGED <<dmScenario, dmLeft, fileVars, spawnLock, call, slips>>

HandoffRolls(d) ==
    /\ dm[d].hand = "run" /\ dm[d].main = "loop"
    /\ IF dm[dm[d].heir].main = "handoff" THEN DmSpend("rolls") ELSE UNCHANGED dmLeft
    /\ dm' = [Gone(dm[d].heir, dm) EXCEPT ![d].hand = "rolled"]
    /\ UNCHANGED <<dmScenario, fileVars, spawnLock, call, slips>>

\* A shutdown mid-handoff: cancelled unless it has committed, and settled.
StopHandoff(d) ==
    /\ dm[d].main = "closing" /\ dm[d].hand # "none" /\ ~dm[d].handedOff
    /\ dm' = IF dm[d].hand = "ok" THEN [dm EXCEPT ![d].handedOff = TRUE]
             ELSE [Gone(dm[d].heir, dm) EXCEPT ![d].hand = "none"]
    /\ UNCHANGED <<dmScenario, dmLeft, fileVars, spawnLock, call, slips>>

\* The final checkpoint, unless the handoff wrote it.
WriteFinal(d) ==
    /\ dm[d].main = "closing"
    /\ dm[d].hand = "none" \/ dm[d].handedOff
    /\ dm' = [dm EXCEPT ![d].main = "written"]
    /\ UNCHANGED <<dmScenario, dmLeft, fileVars, spawnLock, call, slips>>

\* control.abort(): a task that serves drops its listener, then its guard; one
\* that has not begun never does.
AbortControl(d) ==
    /\ dm[d].main = "written" /\ dm[d].ctl \in {"serving", "check"}
    /\ dm' = [dm EXCEPT ![d].ctl = IF @ = "serving" THEN "probe" ELSE "ended"]
    /\ UNCHANGED <<dmScenario, dmLeft, fileVars, spawnLock, call, slips>>

ExitDaemon(d) ==
    /\ dm[d].main = "written" /\ dm[d].ctl = "ended"
    /\ Dies(d)
    /\ UNCHANGED <<dmScenario, dmLeft, pidPath, inodes, sock, spawnLock, call, slips>>

(***************************************************************************)
(* What happens to a daemon from outside.                                  *)
(***************************************************************************)
\* SIGTERM: fatal until the handlers are installed, just before the control task.
Terminated(d, ds) ==
    IF ds[d].main \in {"boot", "opened", "check", "restore", "handoff"} THEN Gone(d, ds)
    ELSE [ds EXCEPT ![d].term = {"main", "ctl"}]

LockAfter(d) == IF dm[d].main \in {"boot", "opened", "check", "restore", "handoff"}
                THEN Unlocked(inode, d) ELSE inode

Terminate(d) ==
    /\ Alive(d) /\ DmSpend("terms")
    /\ dm' = Terminated(d, dm) /\ inode' = LockAfter(d)
    /\ UNCHANGED <<dmScenario, pidPath, inodes, sock, spawnLock, call, slips>>

Crash(d) ==
    /\ Alive(d) /\ DmSpend("crashes")
    /\ Dies(d)
    /\ UNCHANGED <<dmScenario, pidPath, inodes, sock, spawnLock, call, slips>>

\* The idle-shutdown watcher's one notify_waiters, a second or more after the last
\* client has left: it returns after it.
IdleShutdown(d) ==
    /\ dm[d].main \in {"loop", "settling"} /\ Listening(d) /\ DmSpend("idles")
    /\ dm' = [NotifyWaiters(d, dm) EXCEPT ![d].told = TRUE]
    /\ slips' = slips \cup Missed(d)
    /\ UNCHANGED <<dmScenario, fileVars, spawnLock, call>>

(***************************************************************************)
(* A caller.  query_daemon: whoever listens answers, in two seconds, or    *)
(* the caller takes the daemon not to be there.                            *)
(***************************************************************************)
Goes(c, pc) == call' = [call EXCEPT ![c].pc = pc]

\* Nothing answers, or it is too slow to.
NoAnswer == IF SockLive THEN DmSpend("slow") ELSE UNCHANGED dmLeft

\* A poll's time is up: with a daemon on its way, because that takes too long.
Coming == \E d \in Daemons : /\ dm[d].main \in {"boot", "opened", "check", "restore",
                                                 "starting", "loop"}
                             /\ dm[d].ctl \in {"none", "check", "take", "bind"} \/ sock = d
TimeIsUp == IF Coming THEN DmSpend("slow") ELSE UNCHANGED dmLeft

\* ensure_daemon_in's fast path and its polls.
QueryAnswered(c) ==
    /\ call[c].pc \in {"query", "poll"} /\ SockLive
    /\ call' = [call EXCEPT ![c].target = sock,
                            ![c].pc = CASE @ = "poll" \/ call[c].op = "ensure" -> "done"
                                        [] call[c].op = "stop" -> "askStop"
                                        [] call[c].op = "restart" -> "askRestart"]
    /\ UNCHANGED <<dmScenario, dmLeft, dm, fileVars, spawnLock, slips>>

\* A restart with nothing running is a start.
QueryUnanswered(c) ==
    /\ call[c].pc = "query" /\ NoAnswer
    /\ call' = [call EXCEPT ![c].op = IF @ = "restart" THEN "ensure" ELSE @,
                            ![c].pc = CASE call[c].op = "ensure" -> "look"
                                        [] call[c].op = "stop" -> "pid"
                                        [] call[c].op = "restart" -> "query"]
    /\ UNCHANGED <<dmScenario, dm, fileVars, spawnLock, slips>>

(***************************************************************************)
(* cleanup_stale_daemon_in: the pid file's lock says whether a daemon owns *)
(* the files; unlocked, the pid file goes, and the socket with it.         *)
(***************************************************************************)
Look(c) ==
    /\ call[c].pc = "look"
    /\ call' = [call EXCEPT ![c].pc = IF pidPath = Nobody THEN "sweep" ELSE "flock",
                            ![c].ino = pidPath,
                            ![c].owner = IF pidPath = Nobody THEN Nobody
                                         ELSE inode[pidPath].lock]
    /\ UNCHANGED <<dmScenario, dmLeft, dm, fileVars, spawnLock, slips>>

\* What becomes of a caller whose cleanup fails: force_kill_daemon_in ignores it.
CleanupFailed(c) == IF call[c].op = "stop" THEN "done" ELSE "failed"

FlockPidFile(c) ==
    /\ call[c].pc = "flock"
    /\ IF inode[call[c].ino].lock # Nobody
       THEN Goes(c, CleanupFailed(c)) /\ UNCHANGED inode
       ELSE Goes(c, "remove") /\ inode' = [inode EXCEPT ![call[c].ino].lock = c]
    /\ UNCHANGED <<dmScenario, dmLeft, dm, pidPath, inodes, sock, spawnLock, slips>>

\* Whatever is at the path goes, the file that was locked or a newer one.
RemovePidFile(c) ==
    /\ call[c].pc = "remove"
    /\ Goes(c, IF pidPath = Nobody THEN CleanupFailed(c) ELSE "sweep")
    /\ pidPath' = Nobody
    /\ inode' = Unlocked(inode, c)
    /\ slips' = slips \cup {<<d, "pid file lost">> :
                   d \in {e \in Daemons : /\ Alive(e) /\ dm[e].ino = pidPath
                                          /\ pidPath # Nobody /\ call[c].owner # e}}
    /\ UNCHANGED <<dmScenario, dmLeft, dm, inodes, sock, spawnLock>>

\* A live socket goes only when its daemon does not own the pid file (a
\* successor never does), or came to own it after the look.
SweepSocket(c) ==
    /\ call[c].pc = "sweep"
    /\ Goes(c, IF call[c].op = "stop" THEN "done" ELSE "spawn")
    /\ sock' = Nobody
    /\ slips' = IF SockLive /\ (Successor(sock) \/ call[c].owner # sock)
                THEN slips \cup {<<sock, "swept">>} ELSE slips
    /\ UNCHANGED <<dmScenario, dmLeft, dm, pidPath, inode, inodes, spawnLock>>

\* start_daemon_in's spawn lock: held, another caller is starting a daemon.
LockSpawn(c) ==
    /\ call[c].pc = "spawn"
    /\ IF spawnLock = Nobody THEN spawnLock' = c /\ Goes(c, "fork")
       ELSE Goes(c, "poll") /\ UNCHANGED spawnLock
    /\ UNCHANGED <<dmScenario, dmLeft, dm, fileVars, slips>>

\* The spawn, and the lock dropped on return.  With no kmuxd to run it fails.
SpawnDaemon(c) ==
    /\ call[c].pc = "fork"
    /\ spawnLock' = Nobody
    /\ IF DaemonLeft
       THEN /\ dm' = [dm EXCEPT ![NextDaemon] = [Absent EXCEPT !.main = "boot"]]
            /\ call' = [call EXCEPT ![c].pc = "poll", ![c].child = NextDaemon]
       ELSE Goes(c, "failed") /\ UNCHANGED dm
    /\ UNCHANGED <<dmScenario, dmLeft, fileVars, slips>>

\* A child that exits before it has daemonized, with a status.
ChildExited(c) ==
    /\ call[c].pc = "poll" /\ call[c].child # Nobody
    /\ dm[call[c].child].early
    /\ Goes(c, "failed")
    /\ UNCHANGED <<dmScenario, dmLeft, dm, fileVars, spawnLock, slips>>

\* Three seconds without an answer: clean up and start once more.
RetryStart(c) ==
    /\ call[c].pc = "poll" /\ ~call[c].retried /\ TimeIsUp
    /\ call' = [call EXCEPT ![c].pc = "look", ![c].retried = TRUE]
    /\ UNCHANGED <<dmScenario, dm, fileVars, spawnLock, slips>>

\* And five: give up.
GiveUp(c) ==
    /\ call[c].pc = "poll" /\ call[c].retried /\ TimeIsUp
    /\ Goes(c, "failed")
    /\ UNCHANGED <<dmScenario, dm, fileVars, spawnLock, slips>>

(***************************************************************************)
(* kmux daemon stop: ask, wait for the pid to go, and with --force kill it *)
(* when it does not, or when it did not answer at all.                     *)
(***************************************************************************)
\* The `stop` command, answered before it takes effect.
Told(d) ==
    /\ dm' = [NotifyWaiters(d, dm) EXCEPT ![d].told = TRUE]
    /\ slips' = slips \cup Missed(d)

\* The answer comes back, or is too slow for a request that has its effect.
AskStop(c) ==
    /\ call[c].pc = "askStop"
    /\ IF SockLive
       THEN /\ Told(sock)
            /\ \/ Goes(c, "await") /\ UNCHANGED dmLeft
               \/ Goes(c, "failed") /\ DmSpend("slow")
       ELSE Goes(c, "failed") /\ UNCHANGED <<dmLeft, dm, slips>>
    /\ UNCHANGED <<dmScenario, fileVars, spawnLock>>

Escalates(c) == dmScenario.force /\ call[c].op = "stop"

\* wait_for_exit.  A restart's hard stop goes on to start a daemon.
AwaitedExit(c) ==
    /\ call[c].pc = "await" /\ ~Alive(call[c].target)
    /\ call' = [call EXCEPT ![c].pc = IF @ = "await" /\ call[c].op = "restart"
                                      THEN "query" ELSE "done",
                            ![c].op = IF @ = "restart" THEN "ensure" ELSE @]
    /\ UNCHANGED <<dmScenario, dmLeft, dm, fileVars, spawnLock, slips>>

AwaitTimesOut(c) ==
    /\ call[c].pc = "await" /\ Alive(call[c].target)
    /\ Goes(c, IF Escalates(c) THEN "kill" ELSE "failed")
    /\ UNCHANGED <<dmScenario, dmLeft, dm, fileVars, spawnLock, slips>>

\* running_daemon_pid: the pid file of a daemon that does not answer.
ReadPid(c) ==
    /\ call[c].pc = "pid"
    /\ IF pidPath # Nobody /\ Alive(inode[pidPath].pid)
       THEN call' = [call EXCEPT ![c].target = inode[pidPath].pid,
                                 ![c].pc = IF dmScenario.force THEN "term" ELSE "failed"]
       ELSE Goes(c, "done")
    /\ UNCHANGED <<dmScenario, dmLeft, dm, fileVars, spawnLock, slips>>

\* force_kill_daemon_in: SIGTERM with a grace, for a daemon not asked before.
TermFirst(c) ==
    /\ call[c].pc = "term"
    /\ IF Alive(call[c].target)
       THEN /\ dm' = Terminated(call[c].target, dm) /\ inode' = LockAfter(call[c].target)
            /\ Goes(c, "grace")
       ELSE Goes(c, "look") /\ UNCHANGED <<dm, inode>>
    /\ UNCHANGED <<dmScenario, dmLeft, pidPath, inodes, sock, spawnLock, slips>>

GraceOver(c) ==
    /\ call[c].pc = "grace"
    /\ Goes(c, IF Alive(call[c].target) THEN "kill" ELSE "look")
    /\ UNCHANGED <<dmScenario, dmLeft, dm, fileVars, spawnLock, slips>>

\* SIGKILL, and the sweep of the files once the process is gone.
KillDaemon(c) ==
    /\ call[c].pc = "kill"
    /\ IF Alive(call[c].target) THEN Dies(call[c].target) ELSE UNCHANGED <<dm, inode>>
    /\ Goes(c, "look")
    /\ UNCHANGED <<dmScenario, dmLeft, pidPath, inodes, sock, spawnLock, slips>>

(***************************************************************************)
(* kmux daemon restart: a live handoff, and a hard stop for a daemon that  *)
(* did not answer the command.                                             *)
(***************************************************************************)
\* on_restart: begin refuses a second; the reply is written, then the main task
\* is woken whether or not the caller still reads.
AskRestart(c) ==
    /\ call[c].pc = "askRestart"
    /\ IF ~SockLive THEN Goes(c, "hardStop") /\ UNCHANGED <<dmLeft, dm>>
       ELSE IF dm[sock].restart \/ dm[sock].hand # "none"
       THEN Goes(c, "failed") /\ UNCHANGED <<dmLeft, dm>>
       ELSE /\ dm' = [dm EXCEPT ![sock].restart = TRUE]
            /\ \/ Goes(c, "takeover") /\ UNCHANGED dmLeft
               \/ Goes(c, "hardStop") /\ DmSpend("slow")
    /\ UNCHANGED <<dmScenario, fileVars, spawnLock, slips>>

HardStop(c) ==
    /\ call[c].pc = "hardStop"
    /\ Goes(c, "await")
    /\ IF SockLive THEN Told(sock) ELSE UNCHANGED <<dm, slips>>
    /\ UNCHANGED <<dmScenario, dmLeft, fileVars, spawnLock>>

\* wait_for_takeover: another pid answers; the handoff stood down; the old daemon
\* is gone and nobody answers; or it takes too long.
TakenOver(c) ==
    /\ call[c].pc = "takeover" /\ SockLive /\ sock # call[c].target
    /\ call' = [call EXCEPT ![c].pc = "handedOff", ![c].target = sock]
    /\ UNCHANGED <<dmScenario, dmLeft, dm, fileVars, spawnLock, slips>>

NotTakenOver(c) ==
    /\ call[c].pc = "takeover"
    /\ Goes(c, "failed")
    /\ UNCHANGED <<dmScenario, dmLeft, dm, fileVars, spawnLock, slips>>

CallBegins(c) ==
    /\ call[c].pc = "idle" /\ dmScenario.want[c] # "none"
    /\ call' = [call EXCEPT ![c].pc = "query", ![c].op = dmScenario.want[c]]
    /\ UNCHANGED <<dmScenario, dmLeft, dm, fileVars, spawnLock, slips>>

(***************************************************************************)
(* The specification.                                                      *)
(***************************************************************************)
\* A daemon that serves, its socket and its pid file in place.
Serving == [Absent EXCEPT !.main = "loop", !.ctl = "serving", !.armed = TRUE]

\* What is there at first: nothing; the files of a crashed daemon; a daemon that
\* was started; or one that took over from another.
FirstDaemon == CASE dmScenario.begin = "crashed" -> [Absent EXCEPT !.main = "dead"]
                 [] dmScenario.begin = "started" -> [Serving EXCEPT !.ino = 1]
                 [] dmScenario.begin = "restarted" -> [Serving EXCEPT !.pred = 2]
                 [] OTHER -> Absent

DmInit ==
    /\ dmScenario \in DmScenarios
    /\ dmLeft = dmScenario.budget
    /\ LET there == dmScenario.begin # "nothing" IN
       /\ dm = [d \in Daemons |-> IF d = 1 THEN FirstDaemon
                                  ELSE IF d = 2 /\ dmScenario.begin = "restarted"
                                  THEN [Absent EXCEPT !.main = "dead"] ELSE Absent]
       /\ pidPath = IF there THEN 1 ELSE Nobody
       /\ inode = [i \in 1 .. MaxInodes |->
                     IF i = 1 /\ there
                     THEN [pid |-> 1, lock |-> IF dmScenario.begin = "started" THEN 1 ELSE Nobody]
                     ELSE [pid |-> Nobody, lock |-> Nobody]]
       /\ inodes = IF there THEN 1 ELSE 0
       /\ sock = IF there THEN 1 ELSE Nobody
    /\ spawnLock = Nobody
    /\ call = [c \in Callers |-> Idler]
    /\ slips = {}

DaemonStep(d) ==
    \/ OpenPidFile(d) \/ LockPidFile(d) \/ EnsureNoLive(d) \/ RestoreAndBind(d)
    \/ EnterLoop(d) \/ ClaimPidFile(d) \/ ProbeSocket(d) \/ TakeSocket(d) \/ BindSocket(d)
    \/ ControlSignalled(d) \/ GuardProbe(d) \/ GuardUnlink(d) \/ GuardPidFile(d)
    \/ LoopEnds(d) \/ LoopRestarts(d) \/ LoopSettles(d) \/ Settle(d)
    \/ HandoffCommits(d) \/ HandoffRolls(d) \/ StopHandoff(d)
    \/ WriteFinal(d) \/ AbortControl(d) \/ ExitDaemon(d)

CallerStep(c) ==
    \/ CallBegins(c) \/ QueryAnswered(c) \/ QueryUnanswered(c)
    \/ Look(c) \/ FlockPidFile(c) \/ RemovePidFile(c) \/ SweepSocket(c)
    \/ LockSpawn(c) \/ SpawnDaemon(c) \/ ChildExited(c) \/ RetryStart(c) \/ GiveUp(c)
    \/ AskStop(c) \/ AwaitedExit(c) \/ AwaitTimesOut(c) \/ ReadPid(c) \/ TermFirst(c)
    \/ GraceOver(c) \/ KillDaemon(c)
    \/ AskRestart(c) \/ HardStop(c) \/ TakenOver(c) \/ NotTakenOver(c)

DmNext ==
    \/ \E d \in Daemons : DaemonStep(d) \/ Terminate(d) \/ Crash(d) \/ IdleShutdown(d)
    \/ \E c \in Callers : CallerStep(c)

\* The runtime keeps polling a daemon's tasks, and a command runs on.  Neither can
\* go on for ever, so it is enough that one of them moves while any can.
DmProgress == (\E d \in Daemons : DaemonStep(d)) \/ (\E c \in Callers : CallerStep(c))

DmFairness == WF_dmVars(DmProgress)

DmSpec == DmInit /\ [][DmNext]_dmVars /\ DmFairness

(***************************************************************************)
(* Properties.                                                             *)
(***************************************************************************)
Slipped(d, causes) == \E why \in causes : <<d, why>> \in slips

SplitCauses == {"in between", "pid file lost", "swept", "unlinked", "swept itself"}

\* Two daemons never hold the sessions at once (startup.rs: "A second daemon doing
\* either while another is live splits the host's sessions between two daemons"),
\* however many callers start one, and whatever crashes, but for five causes, each
\* recorded against the one of the two that it befell:
\*   "in between": a successor had yet to bind its socket when another daemon
\*     looked for it (OneDaemon shows this one);
\*   "pid file lost": a caller removed the pid file a daemon had come to own since
\*     the caller looked;
\*   "swept": a caller removed the live socket of a daemon that does not own the
\*     pid file, or came to own it since the caller looked;
\*   "unlinked": a daemon's live socket was removed by another daemon, which had
\*     probed the path before it was bound (the guard of one on its way out,
\*     daemon.rs:521, or the start of one), or is a successor and takes the path
\*     from whoever has it;
\*   "swept itself": at SIGTERM a daemon removes its socket before it writes the
\*     final checkpoint.
\* And a daemon that serves its control socket is the one a client finds at the
\* path (SocketGuard: "only ever *this* daemon's"), unless it has handed over, or
\* its socket was swept or unlinked as above.
OneHolds ==
    /\ \A d, e \in Daemons :
          d # e /\ Holds(d) /\ Holds(e)
              => Slipped(d, SplitCauses) \/ Slipped(e, SplitCauses)
    /\ \A d \in Daemons :
          dm[d].ctl = "serving" =>
              \/ sock = d
              \/ dm[d].hand = "ok"
              \/ Slipped(d, {"swept", "unlinked"})

\* "Ensure exactly one local daemon is running" (kmux-connect, ensure_daemon): two
\* daemons never hold the sessions at once, each having restored them and each
\* going to write its own final checkpoint.
OneDaemon == \A d, e \in Daemons : d # e => ~(Holds(d) /\ Holds(e))

=============================================================================
