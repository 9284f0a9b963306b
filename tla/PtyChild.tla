------------------------------ MODULE PtyChild ------------------------------
(***************************************************************************)
(* The processes behind the panes (crates/kmux-pty): forking a child on a  *)
(* pseudo-terminal, the one reaper thread that turns SIGCHLD into exit     *)
(* statuses, the kill(pid, 0) poll that stands in for it when the child    *)
(* was inherited from another daemon, the shutdown cascade of a close, and *)
(* what dropping a handle does when the daemon exits.                      *)
(*                                                                         *)
(* The kernel is the environment: a pid is free once its process has been  *)
(* waited for and its process group is empty, and a free pid may be taken  *)
(* by a stranger that is the leader of a group of its own.  Output, sizes  *)
(* and descriptors are the business of Engine and PtyHandover.             *)
(***************************************************************************)
EXTENDS Naturals, Sequences, FiniteSets

CONSTANTS
    Kids,           \* the panes
    Pids,           \* the pids the kernel hands out
    KidScenarios    \* the environments explored: records with the fields below

NoPid == 0

ASSUME KidAssumption ==
    /\ NoPid \notin Pids \cup Kids
    /\ \A s \in KidScenarios : s.foreign \subseteq Kids

VARIABLES
    kidScenario,    \* [foreign: panes inherited from a predecessor, deaf: panes
                    \*  whose processes ignore SIGHUP and SIGTERM, stuck: panes
                    \*  whose child SIGKILL does not end, budget: see kidLeft]
    kidLeft,        \* what the environment may still do
    kid,            \* the daemon's handle on each pane's child
    proc,           \* the kernel's process under each pid
    grp,            \* the group led by each pid, beyond its leader
    reaper,         \* the reaper thread: its phase, SIGCHLD, the watched pids
    daemonUp,       \* the daemon process runs
    stray           \* <<pane, cause>> of each signal that reached another's process

kidVars == <<kidScenario, kidLeft, kid, proc, grp, reaper, daemonUp, stray>>

KidSpend(what) == kidLeft[what] > 0 /\ kidLeft' = [kidLeft EXCEPT ![what] = @ - 1]

Free == [st |-> "free", of |-> NoPid, got |-> <<>>, how |-> "none"]
Stranger == [Free EXCEPT !.st = "stranger"]

\* The child of pane k: "fork" until it has called setsid and execve.
Child(k, st) == [Free EXCEPT !.st = st, !.of = k]

\* PtyProcess: pid, exit_rx and keep_alive, and where the handle is in its life.
NoHandle == [st |-> "none", pid |-> NoPid, exit |-> "none", keep |-> FALSE]

Foreign(k) == k \in kidScenario.foreign

\* A pid whose process is gone and whose group is empty.
PidFree(pid) == proc[pid].st = "free" /\ grp[pid] = "none"

(***************************************************************************)
(* Signals.  A process that dies of one is "dying" until it has exited; a  *)
(* signal sent before the child has reset its dispositions stays pending   *)
(* and ends it by the default action.                                      *)
(***************************************************************************)
Deadly(k, p, sig) ==
    IF sig = "KILL" THEN k \notin kidScenario.stuck
    ELSE p.st = "fork" \/ k \notin kidScenario.deaf

\* What the process p is after pane k's handle has signalled it.
Struck(k, p, sig) ==
    IF p.st \notin {"fork", "run"} THEN p
    ELSE [p EXCEPT !.got = IF sig = "INT" \/ p.of # k THEN @ ELSE Append(@, sig),
                   !.st = IF Deadly(k, p, sig) THEN "dying" ELSE @,
                   !.how = IF Deadly(k, p, sig) THEN "signal" ELSE @]

\* What is left of pane k's group after a signal to it.
StruckGroup(k, g, sig) ==
    IF g # "none" /\ (sig = "KILL" \/ k \notin kidScenario.deaf) THEN "dying" ELSE g

\* There is a process group with this id: its leader has called setsid, or a
\* member is left.
HasGroup(pid) ==
    proc[pid].st \in {"run", "dying", "zombie", "stranger"} \/ grp[pid] # "none"

\* A live process that is not pane k's.
Alien(k, p) == p.st # "free" /\ p.of # k

\* One signal, or the two of a close in their order.
StruckBy(k, p, sigs) ==
    IF Len(sigs) = 1 THEN Struck(k, p, sigs[1])
    ELSE Struck(k, Struck(k, p, sigs[1]), sigs[2])

StruckGroupBy(k, g, sigs) ==
    IF Len(sigs) = 1 THEN StruckGroup(k, g, sigs[1])
    ELSE StruckGroup(k, StruckGroup(k, g, sigs[1]), sigs[2])

\* Send the signals, in order, to the group `pid` leads.
Kill(k, pid, sigs, cause) ==
    /\ proc' = [proc EXCEPT ![pid] = StruckBy(k, @, sigs)]
    /\ grp' = [grp EXCEPT ![pid] = StruckGroupBy(k, @, sigs)]
    /\ stray' = IF Alien(k, proc[pid]) THEN stray \cup {<<k, cause>>} ELSE stray

\* killpg alone: nothing when there is no such group.
GroupOnly(k, pid, sigs, cause) ==
    IF HasGroup(pid) THEN Kill(k, pid, sigs, cause) ELSE UNCHANGED <<proc, grp, stray>>

\* signal_group: killpg, and kill of the pid alone when there is no group yet.
\* Both come to the same processes here: before setsid the child has no members.
SignalGroup(k, pid, sigs, cause) == Kill(k, pid, sigs, cause)

(***************************************************************************)
(* Spawning.  SessionManager::spawn holds the registry's lock throughout,  *)
(* so one pane spawns at a time.                                           *)
(***************************************************************************)
Spawning(k) == kid[k].st \in {"armed", "forked", "watched"}

NoneSpawning == \A k \in Kids : ~Spawning(k)

\* A pid freed this instant: the spawn that forked it has not returned, or its
\* pane's close is about to signal the group it led ("a group emptied this
\* recently has had no time to see its id recycled").
TooRecent(pid) ==
    \E k \in Kids :
        /\ kid[k].pid = pid
        /\ Spawning(k) \/ (kid[k].st = "closing" /\ kid[k].exit # "none")

\* reaper(): running, or started now.  A failed start fails this spawn alone.
GetReaper(k) ==
    /\ daemonUp /\ NoneSpawning /\ ~Foreign(k) /\ kid[k] = NoHandle
    /\ \/ /\ kid' = [kid EXCEPT ![k].st = "armed"]
          /\ reaper' = IF reaper.st = "off" THEN [reaper EXCEPT !.st = "idle"] ELSE reaper
          /\ KidSpend("spawns")
       \/ /\ reaper.st = "off"
          /\ UNCHANGED <<kid, reaper>>
          /\ KidSpend("fails")
    /\ UNCHANGED <<kidScenario, proc, grp, daemonUp, stray>>

\* forkpty, with every signal blocked; it may fail.
Fork(k) ==
    /\ kid[k].st = "armed"
    /\ \/ \E pid \in Pids :
            /\ PidFree(pid) /\ ~TooRecent(pid)
            /\ proc' = [proc EXCEPT ![pid] = Child(k, "fork")]
            /\ kid' = [kid EXCEPT ![k].st = "forked", ![k].pid = pid]
            /\ UNCHANGED kidLeft
       \/ /\ kid' = [kid EXCEPT ![k] = NoHandle]
          /\ KidSpend("fails")
          /\ UNCHANGED proc
    /\ UNCHANGED <<kidScenario, grp, reaper, daemonUp, stray>>

\* waitpid(pid, WNOHANG) found a zombie: its status, published on the channel
\* of the pane that watches it, and its pid free again.
Reaped(k) == [kid EXCEPT ![k].exit = proc[kid[k].pid].how]

\* Reaper::watch: under its lock, which a scan also holds, check once and
\* register.
Watch(k) ==
    LET pid == kid[k].pid IN
    /\ kid[k].st = "forked" /\ reaper.st = "idle"
    /\ IF proc[pid].st = "zombie"
       THEN /\ kid' = [Reaped(k) EXCEPT ![k].st = "watched"]
            /\ proc' = [proc EXCEPT ![pid] = Free]
            /\ UNCHANGED reaper
       ELSE /\ kid' = [kid EXCEPT ![k].st = "watched"]
            /\ reaper' = [reaper EXCEPT !.watched = @ \cup {pid}]
            /\ UNCHANGED proc
    /\ UNCHANGED <<kidScenario, kidLeft, grp, daemonUp, stray>>

\* The handle is built and registered; or the master cannot be, and the child
\* that no handle would own is killed.
Register(k) ==
    /\ kid[k].st = "watched"
    /\ \/ /\ kid' = [kid EXCEPT ![k].st = "open"]
          /\ UNCHANGED <<kidLeft, proc, grp, stray>>
       \/ /\ kid' = [kid EXCEPT ![k].st = "failed"]
          /\ SignalGroup(k, kid[k].pid, <<"KILL">>, "spawn")
          /\ KidSpend("fails")
    /\ UNCHANGED <<kidScenario, reaper, daemonUp>>

(***************************************************************************)
(* The child and the kernel.                                               *)
(***************************************************************************)
\* setsid and execve, or an exit with START_FAILURE_EXIT.
Exec(pid) ==
    /\ proc[pid].st = "fork"
    /\ \/ proc' = [proc EXCEPT ![pid].st = "run"]
       \/ proc' = [proc EXCEPT ![pid].st = "dying", ![pid].how = "code"]
    /\ UNCHANGED <<kidScenario, kidLeft, kid, grp, reaper, daemonUp, stray>>

\* A shell without job control starts a job in its own group.
StartsJob(pid) ==
    /\ proc[pid].st = "run" /\ grp[pid] = "none"
    /\ grp' = [grp EXCEPT ![pid] = "run"]
    /\ KidSpend("jobs")
    /\ UNCHANGED <<kidScenario, kid, proc, reaper, daemonUp, stray>>

JobEnds(pid) ==
    /\ grp[pid] = "dying"
    /\ grp' = [grp EXCEPT ![pid] = "none"]
    /\ UNCHANGED <<kidScenario, kidLeft, kid, proc, reaper, daemonUp, stray>>

\* The child ends by itself.
Quits(pid) ==
    /\ proc[pid].st = "run"
    /\ proc' = [proc EXCEPT ![pid].st = "dying", ![pid].how = "code"]
    /\ KidSpend("quits")
    /\ UNCHANGED <<kidScenario, kid, grp, reaper, daemonUp, stray>>

\* Its parent is told, once for however many children exit before it looks.
\* An inherited child's parent is init, which waits for it at once.
Exits(pid) ==
    /\ proc[pid].st = "dying"
    /\ IF Foreign(proc[pid].of) \/ ~daemonUp
       THEN proc' = [proc EXCEPT ![pid] = Free] /\ UNCHANGED reaper
       ELSE proc' = [proc EXCEPT ![pid].st = "zombie"]
            /\ reaper' = [reaper EXCEPT !.sigchld = TRUE]
    /\ UNCHANGED <<kidScenario, kidLeft, kid, grp, daemonUp, stray>>

\* A stranger's process takes a free pid, and leads a group of its own.
Recycle(pid) ==
    /\ PidFree(pid) /\ ~TooRecent(pid)
    /\ proc' = [proc EXCEPT ![pid] = Stranger]
    /\ KidSpend("strangers")
    /\ UNCHANGED <<kidScenario, kid, grp, reaper, daemonUp, stray>>

(***************************************************************************)
(* The reaper thread, and the poll that replaces it for inherited panes.   *)
(***************************************************************************)
\* sigchld.recv: one wake-up for the signals so far; reap_exited takes the lock.
Scan ==
    /\ daemonUp /\ reaper.st = "idle" /\ reaper.sigchld
    /\ reaper' = [reaper EXCEPT !.st = IF reaper.watched = {} THEN "idle" ELSE "scan",
                                !.sigchld = FALSE, !.todo = reaper.watched]
    /\ UNCHANGED <<kidScenario, kidLeft, kid, proc, grp, daemonUp, stray>>

\* The pane that watches this pid.
WatcherOf(pid) == CHOOSE k \in Kids : kid[k].pid = pid /\ kid[k].exit = "none" /\ ~Foreign(k)

\* reap_exited's waitpid of one watched child; the last one ends the scan.
ReapOne(pid) ==
    /\ daemonUp /\ reaper.st = "scan" /\ pid \in reaper.todo
    /\ LET done == proc[pid].st = "zombie" IN
       /\ reaper' = [reaper EXCEPT
                !.todo = @ \ {pid},
                !.st = IF reaper.todo = {pid} THEN "idle" ELSE @,
                !.watched = IF done THEN @ \ {pid} ELSE @]
       /\ kid' = IF done THEN Reaped(WatcherOf(pid)) ELSE kid
       /\ proc' = IF done THEN [proc EXCEPT ![pid] = Free] ELSE proc
    /\ UNCHANGED <<kidScenario, kidLeft, grp, daemonUp, stray>>

\* spawn_kill_poll_task: kill(pid, 0) fails once there is no such process, or it
\* is another user's.  A process of the same user under the pid keeps it going.
Poll(k) ==
    /\ daemonUp /\ Foreign(k) /\ kid[k].pid # NoPid /\ kid[k].exit = "none"
    /\ \/ proc[kid[k].pid].st = "free"
       \/ proc[kid[k].pid].st = "stranger" /\ ~kidScenario.sameUser
    /\ kid' = [kid EXCEPT ![k].exit = "unknown"]
    /\ UNCHANGED <<kidScenario, kidLeft, proc, grp, reaper, daemonUp, stray>>

(***************************************************************************)
(* Closing a pane: graceful_shutdown in a background task.                 *)
(***************************************************************************)
\* Fault: the cascade starts without looking at the exit channel.
Close_Unchecked(k) ==
    /\ daemonUp /\ kid[k].st = "open"
    /\ kid' = [kid EXCEPT ![k].st = "closing"]
    /\ SignalGroup(k, kid[k].pid, <<"HUP", "TERM">>, "close")
    /\ KidSpend("closes")
    /\ UNCHANGED <<kidScenario, reaper, daemonUp>>

\* SessionManager::close_nowait: the handle leaves the registry.  A child that
\* has exited is not signalled at all; else SIGHUP and SIGTERM go to its group.
Close(k) ==
    /\ daemonUp /\ kid[k].st = "open"
    /\ kid' = [kid EXCEPT ![k].st = IF kid[k].exit # "none" THEN "closed" ELSE "closing"]
    /\ IF kid[k].exit # "none"
       THEN UNCHANGED <<proc, grp, stray>>
       ELSE SignalGroup(k, kid[k].pid, <<"HUP", "TERM">>, "close")
    /\ KidSpend("closes")
    /\ UNCHANGED <<kidScenario, reaper, daemonUp>>

\* Fault: the members that outlive the child are left alone.
ExitSeen_LeavesGroup(k) ==
    /\ daemonUp /\ kid[k].st = "closing" /\ kid[k].exit # "none"
    /\ kid' = [kid EXCEPT ![k].st = "closed"]
    /\ UNCHANGED <<kidScenario, kidLeft, proc, grp, reaper, daemonUp, stray>>

\* The child exited within the grace: SIGKILL to what is left of its group.
ExitSeen(k) ==
    /\ daemonUp /\ kid[k].st = "closing" /\ kid[k].exit # "none"
    /\ kid' = [kid EXCEPT ![k].st = "closed"]
    /\ GroupOnly(k, kid[k].pid, <<"KILL">>, "close")
    /\ UNCHANGED <<kidScenario, kidLeft, reaper, daemonUp>>

\* It did not: SIGKILL to the group, and another grace.
GraceEnds(k) ==
    /\ daemonUp /\ kid[k].st = "closing" /\ kid[k].exit = "none"
    /\ kid' = [kid EXCEPT ![k].st = "killing"]
    /\ SignalGroup(k, kid[k].pid, <<"KILL">>, "close")
    /\ UNCHANGED <<kidScenario, kidLeft, reaper, daemonUp>>

\* The close returns once the kill has landed, or after the second grace; the
\* handle is dropped, and its Drop kills a child still not known to be gone.
KillSeen(k) ==
    /\ daemonUp /\ kid[k].st = "killing"
    /\ kid' = [kid EXCEPT ![k].st = "closed"]
    /\ IF kid[k].exit # "none"
       THEN UNCHANGED <<proc, grp, stray>>
       ELSE SignalGroup(k, kid[k].pid, <<"KILL">>, "drop")
    /\ UNCHANGED <<kidScenario, kidLeft, reaper, daemonUp>>

\* ServerApp::send_signal: kill of the pid, whatever it is by now.
SendSignal(k) ==
    /\ daemonUp /\ kid[k].st = "open"
    /\ LET pid == kid[k].pid IN
       /\ proc' = [proc EXCEPT ![pid] = Struck(k, @, "INT")]
       /\ stray' = IF Alien(k, proc[pid]) THEN stray \cup {<<k, "sent">>} ELSE stray
    /\ KidSpend("sends")
    /\ UNCHANGED <<kidScenario, kid, grp, reaper, daemonUp>>

(***************************************************************************)
(* The daemon's exit: every handle is dropped.  A committed handoff set    *)
(* keep_alive on the registered ones first.                                *)
(***************************************************************************)
Registered == {k \in Kids : kid[k].st = "open"}

\* set_all_keep_alive(true), after a commit or in settle_handoff.
KeepAlive ==
    /\ daemonUp /\ NoneSpawning /\ kidScenario.handsOver
    /\ \E k \in Registered : ~kid[k].keep
    /\ kid' = [k \in Kids |-> IF k \in Registered THEN [kid[k] EXCEPT !.keep = TRUE] ELSE kid[k]]
    /\ UNCHANGED <<kidScenario, kidLeft, proc, grp, reaper, daemonUp, stray>>

\* PtyProcess::drop kills unless keep_alive is set or the child has exited.
Dropped(k) ==
    /\ kid[k].st \in {"open", "closing", "killing"}
    /\ ~kid[k].keep /\ kid[k].exit = "none"

\* The runtime is torn down: the registry and the close tasks drop their
\* handles, and the children left are init's.
DaemonExits ==
    LET victims == {k \in Kids : Dropped(k)}
        owner(pid) == {k \in victims : kid[k].pid = pid}
    IN
    /\ daemonUp /\ NoneSpawning /\ kidScenario.stops
    /\ kidScenario.handsOver => \A k \in Registered : kid[k].keep
    /\ daemonUp' = FALSE
    /\ proc' = [pid \in Pids |->
            IF proc[pid].st = "zombie" THEN Free
            ELSE IF owner(pid) = {} THEN proc[pid]
            ELSE Struck(CHOOSE k \in owner(pid) : TRUE, proc[pid], "KILL")]
    /\ grp' = [pid \in Pids |-> IF owner(pid) # {} /\ grp[pid] # "none" THEN "dying" ELSE grp[pid]]
    /\ stray' = stray \cup {<<k, "drop">> : k \in {k \in victims : Alien(k, proc[kid[k].pid])}}
    /\ reaper' = [reaper EXCEPT !.st = "off", !.watched = {}, !.todo = {}]
    /\ UNCHANGED <<kidScenario, kidLeft, kid>>

-----------------------------------------------------------------------------
KidInit ==
    /\ kidScenario \in KidScenarios
    /\ kidLeft = kidScenario.budget
    /\ \E pidOf \in [kidScenario.foreign -> Pids] :
        /\ \A a, b \in kidScenario.foreign : pidOf[a] = pidOf[b] => a = b
        /\ kid = [k \in Kids |-> IF k \in kidScenario.foreign
                                 THEN [NoHandle EXCEPT !.st = "open", !.pid = pidOf[k]]
                                 ELSE NoHandle]
        /\ proc = [pid \in Pids |->
                IF \E k \in kidScenario.foreign : pidOf[k] = pid
                THEN Child(CHOOSE k \in kidScenario.foreign : pidOf[k] = pid, "run")
                ELSE Free]
    /\ grp = [pid \in Pids |-> "none"]
    /\ reaper = [st |-> "off", sigchld |-> FALSE, watched |-> {}, todo |-> {}]
    /\ daemonUp = TRUE
    /\ stray = {}

Spawn(k) == GetReaper(k) \/ Fork(k) \/ Watch(k) \/ Register(k)
Kernel(pid) == Exec(pid) \/ JobEnds(pid) \/ Exits(pid)
Reap == Scan \/ \E pid \in Pids : ReapOne(pid)
Shutdown(k) == ExitSeen(k) \/ GraceEnds(k) \/ KillSeen(k)

KidNext ==
    \/ \E k \in Kids : Spawn(k) \/ Poll(k) \/ Close(k) \/ Shutdown(k) \/ SendSignal(k)
    \/ \E pid \in Pids : Kernel(pid) \/ StartsJob(pid) \/ Quits(pid) \/ Recycle(pid)
    \/ Reap
    \/ KeepAlive
    \/ DaemonExits

\* The kernel schedules every process and delivers SIGCHLD; the reaper thread,
\* the poll and the close tasks run, and the graces end.  None of these can go on
\* for ever, so it is enough that one of them is taken while any can be.
KidProgress ==
    \/ \E pid \in Pids : Kernel(pid)
    \/ Reap
    \/ \E k \in Kids : Fork(k) \/ Watch(k) \/ Register(k) \/ Poll(k) \/ Shutdown(k)

KidFairness == WF_kidVars(KidProgress)

KidSpec == KidInit /\ [][KidNext]_kidVars /\ KidFairness
-----------------------------------------------------------------------------
Ours(k) == {pid \in Pids : proc[pid].of = k /\ proc[pid].st \notin {"free", "stranger"}}

GroupLeft(k) ==
    /\ kid[k].pid # NoPid
    /\ grp[kid[k].pid] # "none" /\ proc[kid[k].pid].of \notin Kids \ {k}

\* Neither a close nor a drop signals a process that is not the pane's: a pid
\* whose owner has exited "may belong to someone else by now".  The exceptions
\* are an inherited child whose pid was taken before the poll looked, and a
\* user's signal to a pane whose child has exited, which send_signal does not
\* check.
NoStrangerSignalled ==
    \A s \in stray : s[2] = "sent" \/ Foreign(s[1])

\* A close that finds its child running ends the child and everything in its
\* process group, the member that ignores SIGHUP and SIGTERM and outlives the child
\* included, even when the child had not yet called setsid; so does a spawn that
\* fails after the fork.  Three things are let off.  A close that finds the child
\* already exited signals nobody (graceful_shutdown returns at once, lest the pid
\* be another's by now), so the jobs such a shell left in its group run on: of that
\* close, which goes straight to "closed", this says nothing.  A child SIGKILL
\* cannot end is given up on.  And the members of a group whose leader was seen to
\* exit as the daemon itself stopped are left.
CloseEndsTheGroup ==
    \A k \in Kids :
        (kid[k].st \in {"closing", "failed"} /\ k \notin kidScenario.stuck)
        ~> Ours(k) = {} /\ (GroupLeft(k) => ~daemonUp)
=============================================================================
