------------------------------ MODULE MCDaemon ------------------------------
(***************************************************************************)
(* The daemon process and the processes under it.  The two do not meet: a  *)
(* behaviour is one of DaemonStart's with no pane, or one of PtyChild's    *)
(* with no command at work on the daemon.                                  *)
(***************************************************************************)
EXTENDS DaemonStart, PtyChild, TLC

CONSTANTS c1, c2, k1, k2

(***************************************************************************)
(* The daemon.                                                             *)
(***************************************************************************)
NoFaults == [slow |-> 0, crashes |-> 0, terms |-> 0, idles |-> 0, rolls |-> 0]

Do(a, b) == [c \in {c1, c2} |-> IF c = c1 THEN a ELSE b]

Case(b, x, y, force, faults) ==
    [want |-> Do(x, y), force |-> force, begin |-> b, budget |-> faults @@ NoFaults]

Slow == "slow" :> 1
Crashes == "crashes" :> 1

\* Two callers start a daemon at once, with nothing there or the files of a crashed
\* one; one caller, with a daemon slow to answer or to start, or that crashes.
Starts ==
    {Case(b, "ensure", "ensure", FALSE, <<>>) : b \in {"nothing", "crashed", "started"}}
    \cup {Case(b, "ensure", "none", FALSE, f)
            : b \in {"nothing", "crashed", "started", "restarted"}, f \in {Slow, Crashes}}

\* A stop, forced or not, against a start; and a daemon signalled or idle.
Stops ==
    {Case("started", "stop", "ensure", f, <<>>) : f \in BOOLEAN}
    \cup {Case(b, "stop", "none", TRUE, Slow) : b \in {"started", "restarted"}}
    \cup {Case(b, "ensure", "none", FALSE, f)
            : b \in {"started", "restarted"}, f \in {"terms" :> 1, "idles" :> 1}}

\* A restart against a start and against a stop; rolled back, or slow to answer.
Restarts ==
    {Case("started", "restart", o, FALSE, <<>>) : o \in {"ensure", "stop"}}
    \cup {Case("started", "restart", "none", FALSE, f) : f \in {Slow, Crashes}}
    \cup {Case("started", "restart", "stop", FALSE, "rolls" :> 1)}

DmOff == Case("nothing", "none", "none", FALSE, <<>>)

MCDmScenarios == Starts \cup Stops \cup Restarts \cup {DmOff}

\* One restart while another command looks for the daemon, with nothing failing.
RestartScenarios ==
    {Case("started", "restart", "ensure", FALSE, <<>>)}

(***************************************************************************)
(* The panes' processes.                                                   *)
(***************************************************************************)
KidBudget == [spawns |-> 0, fails |-> 0, jobs |-> 0, quits |-> 0, strangers |-> 0,
           closes |-> 0, sends |-> 0]

KidOff == [foreign |-> {}, deaf |-> {}, stuck |-> {}, sameUser |-> TRUE,
         handsOver |-> FALSE, stops |-> FALSE, budget |-> KidBudget]

\* Two panes spawned and closed, with a start, a fork or a registration failing,
\* and a job that outlives its shell.
Spawned ==
    {[KidOff EXCEPT !.deaf = d, !.budget = [KidBudget EXCEPT !.spawns = 2, !.fails = 1,
                                                        !.quits = 1, !.closes = 1]]
        : d \in {{}, {k1}}}
    \cup {[KidOff EXCEPT !.deaf = {k1}, !.stops = TRUE,
                       !.budget = [KidBudget EXCEPT !.spawns = 1, !.fails = 1, !.quits = 1,
                                                 !.closes = 1, !.jobs = 1]]}

\* A pid that changes hands: own panes, and one inherited from a predecessor.
Recycled ==
    {[KidOff EXCEPT !.foreign = f, !.stops = TRUE, !.sameUser = (f = {}) \/ u,
                  !.budget = [KidBudget EXCEPT !.spawns = 1, !.quits = 1, !.strangers = 1,
                                            !.closes = 1, !.sends = IF f = {} THEN 1 ELSE 0]]
        : f \in {{}, {k1}}, u \in BOOLEAN}

\* Handed over to a successor; and a child SIGKILL does not end.
Ending ==
    {[KidOff EXCEPT !.handsOver = TRUE, !.stops = TRUE,
                  !.budget = [KidBudget EXCEPT !.spawns = 2, !.closes = 1]],
     [KidOff EXCEPT !.stuck = {k1}, !.deaf = {k1}, !.stops = TRUE,
                  !.budget = [KidBudget EXCEPT !.spawns = 1, !.closes = 1]]}

NoKids == {KidOff}

MCKidScenarios == Spawned \cup Recycled \cup Ending \cup {KidOff}

(***************************************************************************)
(* One or the other.                                                       *)
(***************************************************************************)
MCInit == DmInit /\ KidInit /\ (dmScenario = DmOff \/ kidScenario = KidOff)

MCNext == \/ DmNext /\ UNCHANGED kidVars
          \/ KidNext /\ UNCHANGED dmVars

MCSpec == MCInit /\ [][MCNext]_<<dmVars, kidVars>> /\ DmFairness /\ KidFairness
=============================================================================
