--------------------------- MODULE PtyChildProofs ---------------------------
(***************************************************************************)
(* No close, failed spawn or drop signals a stranger: NoStrangerSignalled  *)
(* of PtyChild, for any panes, pids and environments.                      *)
(*                                                                         *)
(* A pid is signalled on one of two grounds.  While no exit has been       *)
(* published, the pid is still the pane's: only the reaper's waitpid frees *)
(* the pid of an own child, and the same step publishes the exit (Owns).   *)
(* And after it, during a spawn or right after a close's wait, the pid is  *)
(* free and nobody has had the time to take it (Recent).                   *)
(***************************************************************************)
EXTENDS PtyChild, TLAPS

-----------------------------------------------------------------------------
(* Types. *)

Lives == {"fork", "run", "dying", "zombie"}

ProcType == [st : Lives \cup {"free", "stranger"}, of : Kids \cup {NoPid},
             got : Seq({"HUP", "TERM", "KILL"}), how : {"none", "code", "signal"}]

KidType == [st : {"none", "armed", "forked", "watched", "open", "closing", "killing", "closed", "failed"},
            pid : Pids \cup {NoPid}, exit : {"none", "code", "signal", "unknown"}, keep : BOOLEAN]

ReaperType == [st : {"off", "idle", "scan"}, sigchld : BOOLEAN, watched : SUBSET Pids, todo : SUBSET Pids]

KidTypeOK ==
    /\ kidScenario \in KidScenarios
    /\ kid \in [Kids -> KidType]
    /\ proc \in [Pids -> ProcType]
    /\ DOMAIN grp = Pids
    /\ reaper \in ReaperType
    /\ daemonUp \in BOOLEAN

-----------------------------------------------------------------------------
(* The inductive invariant. *)

\* A process that ended, ended somehow.
Ending(p) == p.st \in {"dying", "zombie"} => p.how # "none"

\* The handle has a pid from its fork on; an inherited pane is never spawned.
Handles ==
    /\ \A k \in Kids : kid[k].pid = NoPid <=> kid[k].st \in {"none", "armed"}
    /\ \A k \in Kids : kid[k].st \in {"none", "armed", "forked"} => kid[k].exit = "none"
    /\ \A k \in Kids : Spawning(k) => ~Foreign(k) /\ daemonUp

\* Until its exit is published the pid is the pane's own child.
Owns(k) == kid[k].pid # NoPid /\ kid[k].exit = "none" =>
              proc[kid[k].pid].of = k /\ proc[kid[k].pid].st \in Lives

\* Just after, nobody has taken it.
Recent(k) == kid[k].pid # NoPid /\ kid[k].exit # "none" /\ (Spawning(k) \/ kid[k].st = "closing") =>
                proc[kid[k].pid].st = "free"

\* A watched pid is watched for a pane that still waits for its exit.
Watchers ==
    /\ reaper.todo \subseteq reaper.watched
    /\ \A pid \in reaper.watched : \E k \in Kids :
          ~Foreign(k) /\ kid[k].pid = pid /\ kid[k].exit = "none" /\ kid[k].st # "forked"

KidInv ==
    /\ KidTypeOK
    /\ \A pid \in Pids : Ending(proc[pid])
    /\ Handles
    /\ daemonUp => \A k \in Kids : ~Foreign(k) => Owns(k) /\ Recent(k)
    /\ daemonUp => Watchers
    /\ NoStrangerSignalled

-----------------------------------------------------------------------------
(* What the operators make of processes and handles. *)

LEMMA StruckType ==
    ASSUME NEW k, NEW p \in ProcType, Ending(p), NEW sig \in {"INT", "HUP", "TERM", "KILL"}
    PROVE  /\ Struck(k, p, sig) \in ProcType /\ Ending(Struck(k, p, sig))
           /\ Struck(k, p, sig).of = p.of
           /\ p.st \in Lives => Struck(k, p, sig).st \in Lives
           /\ p.st = "free" => Struck(k, p, sig).st = "free"
<1> DEFINE g == IF sig = "INT" \/ p.of # k THEN p.got ELSE Append(p.got, sig)
           s == IF Deadly(k, p, sig) THEN "dying" ELSE p.st
           h == IF Deadly(k, p, sig) THEN "signal" ELSE p.how
<1>1. p.got \in Seq({"HUP", "TERM", "KILL"}) /\ p.st \in Lives \cup {"free", "stranger"}
      /\ p.how \in {"none", "code", "signal"} /\ p.of \in Kids \cup {NoPid}
  BY Zenon DEF ProcType
<1>2. g \in Seq({"HUP", "TERM", "KILL"})
  BY <1>1
<1>3. s \in Lives \cup {"free", "stranger"} /\ h \in {"none", "code", "signal"}
  <2>1. s \in {"dying", p.st} /\ h \in {"signal", p.how}
    BY Zenon
  <2> HIDE DEF s, h
  <2> QED BY <1>1, <2>1, Zenon DEF Lives
<1>4. Struck(k, p, sig) = IF p.st \notin {"fork", "run"} THEN p
                          ELSE [p EXCEPT !.got = g, !.st = s, !.how = h]
  BY Zenon DEF Struck
<1>5. (s \in Lives \/ s = p.st) /\ (s = "dying" => h # "none") /\ (s \in {"dying", "zombie"} => s = "dying" \/ s = p.st)
      /\ (h = p.how \/ h = "signal")
  BY Zenon DEF Lives, Ending
<1> HIDE DEF g, s, h
<1>6. CASE p.st \notin {"fork", "run"}
  BY <1>4, <1>6, Zenon
<1>7. CASE p.st \in {"fork", "run"}
  <2>1. Struck(k, p, sig) = [p EXCEPT !.got = g, !.st = s, !.how = h]
    BY <1>4, <1>7, Zenon
  <2>2. [p EXCEPT !.got = g, !.st = s, !.how = h] \in ProcType
    BY <1>1, <1>2, <1>3, Zenon DEF ProcType
  <2>3. /\ Struck(k, p, sig).of = p.of /\ Struck(k, p, sig).st = s /\ Struck(k, p, sig).how = h
    BY <2>1, Zenon DEF ProcType
  <2> QED BY <1>5, <1>7, <2>1, <2>2, <2>3, Zenon DEF Ending, Lives
<1> QED BY <1>6, <1>7, Zenon

LEMMA StruckByType ==
    ASSUME NEW k, NEW p \in ProcType, Ending(p), NEW sigs \in {<<"KILL">>, <<"HUP", "TERM">>}
    PROVE  /\ StruckBy(k, p, sigs) \in ProcType /\ Ending(StruckBy(k, p, sigs))
           /\ StruckBy(k, p, sigs).of = p.of
           /\ p.st \in Lives => StruckBy(k, p, sigs).st \in Lives
           /\ p.st = "free" => StruckBy(k, p, sigs).st = "free"
<1>1. CASE sigs = <<"KILL">>
  <2>1. StruckBy(k, p, sigs) = Struck(k, p, "KILL")
    BY <1>1, Zenon DEF StruckBy
  <2> QED BY <2>1, StruckType
<1>2. CASE sigs = <<"HUP", "TERM">>
  <2> DEFINE q == Struck(k, p, "HUP")
  <2>1. StruckBy(k, p, sigs) = Struck(k, q, "TERM")
    BY <1>2 DEF StruckBy
  <2>2. q \in ProcType /\ Ending(q) /\ q.of = p.of /\ (p.st \in Lives => q.st \in Lives) /\ (p.st = "free" => q.st = "free")
    BY StruckType, Zenon
  <2> HIDE DEF q
  <2>3. /\ Struck(k, q, "TERM") \in ProcType /\ Ending(Struck(k, q, "TERM")) /\ Struck(k, q, "TERM").of = q.of
        /\ q.st \in Lives => Struck(k, q, "TERM").st \in Lives
        /\ q.st = "free" => Struck(k, q, "TERM").st = "free"
    BY <2>2, StruckType, Zenon
  <2> QED BY <2>1, <2>2, <2>3, Zenon
<1> QED BY <1>1, <1>2, Zenon

\* A step takes no process from its pane, and revives none.
Gentle ==
    /\ proc' \in [Pids -> ProcType]
    /\ \A pid \in Pids : Ending(proc'[pid])
    /\ \A pid \in Pids : proc[pid].st \in Lives => proc'[pid].st \in Lives /\ proc'[pid].of = proc[pid].of
    /\ \A pid \in Pids : proc[pid].st = "free" => proc'[pid].st = "free"

LEMMA OneProcess ==
    ASSUME KidInv, NEW pid \in Pids, NEW new \in ProcType, Ending(new),
           proc' = [proc EXCEPT ![pid] = new],
           proc[pid].st \in Lives => new.st \in Lives /\ new.of = proc[pid].of,
           proc[pid].st = "free" => new.st = "free"
    PROVE  Gentle
BY Zenon DEF Gentle, KidInv, KidTypeOK

LEMMA UnchangedProcesses ==
    ASSUME KidInv, UNCHANGED proc
    PROVE  Gentle
BY Zenon DEF Gentle, KidInv, KidTypeOK

LEMMA KillIsGentle ==
    ASSUME KidInv, NEW k \in Kids, kid[k].pid \in Pids, NEW sigs \in {<<"KILL">>, <<"HUP", "TERM">>}, NEW cause,
           Kill(k, kid[k].pid, sigs, cause)
    PROVE  Gentle /\ DOMAIN grp' = Pids
<1> DEFINE pid == kid[k].pid
           new == StruckBy(k, proc[pid], sigs)
<1>1. proc[pid] \in ProcType /\ Ending(proc[pid])
  BY Zenon DEF KidInv, KidTypeOK
<1>2. /\ new \in ProcType /\ Ending(new) /\ new.of = proc[pid].of
      /\ proc[pid].st \in Lives => new.st \in Lives
      /\ proc[pid].st = "free" => new.st = "free"
  BY <1>1, StruckByType, Zenon
<1>3. proc' = [proc EXCEPT ![pid] = new] /\ DOMAIN grp' = DOMAIN grp
  BY Zenon DEF Kill
<1> HIDE DEF new, pid
<1>4. pid \in Pids
  BY Zenon DEF pid
<1>5. Gentle
  BY <1>2, <1>3, <1>4, OneProcess, Zenon
<1> QED BY <1>3, <1>5, Zenon DEF KidInv, KidTypeOK

LEMMA SetSt ==
    ASSUME kid \in [Kids -> KidType], NEW k \in Kids,
           NEW s \in {"none", "armed", "forked", "watched", "open", "closing", "killing", "closed", "failed"},
           kid' = [kid EXCEPT ![k].st = s]
    PROVE  /\ kid' \in [Kids -> KidType]
           /\ \A j \in Kids : kid'[j].pid = kid[j].pid /\ kid'[j].exit = kid[j].exit
           /\ kid'[k].st = s /\ \A j \in Kids : j # k => kid'[j].st = kid[j].st
<1>1. kid[k] \in KidType /\ kid' = [kid EXCEPT ![k] = [kid[k] EXCEPT !.st = s]]
  BY Zenon
<1>2. /\ [kid[k] EXCEPT !.st = s] \in KidType /\ [kid[k] EXCEPT !.st = s].pid = kid[k].pid
      /\ [kid[k] EXCEPT !.st = s].exit = kid[k].exit /\ [kid[k] EXCEPT !.st = s].st = s
  BY <1>1, Zenon DEF KidType
<1> QED BY <1>1, <1>2, Zenon

(***************************************************************************)
(* The steps that leave every pid and every published exit alone.          *)
(***************************************************************************)

\* What such a step does to the handles and to the reaper's list.
Steady ==
    /\ UNCHANGED <<kidScenario, daemonUp>>
    /\ kid' \in [Kids -> KidType]
    /\ \A k \in Kids : kid'[k].pid = kid[k].pid /\ kid'[k].exit = kid[k].exit
    /\ \A k \in Kids : kid'[k].st \in {"none", "armed", "forked", "watched"} => kid'[k].st = kid[k].st
    /\ \A k \in Kids : kid[k].st \in {"none", "armed"} => kid'[k].st = kid[k].st
    /\ \A k \in Kids : kid'[k].st = "closing" => kid[k].st = "closing" \/ kid[k].exit = "none"
    /\ DOMAIN grp' = Pids
    /\ reaper' \in ReaperType /\ reaper'.watched = reaper.watched
    /\ reaper'.todo \subseteq reaper.watched \/ reaper'.todo = reaper.todo

LEMMA SteadyKeeps ==
    ASSUME KidInv, Gentle, Steady,
           \A s \in stray' : s \in stray \/ s[2] = "sent" \/ Foreign(s[1])
    PROVE  KidInv'
<1>0. \A k \in Kids : kid[k] \in KidType /\ kid'[k] \in KidType
  BY Zenon DEF KidInv, KidTypeOK, Steady
<1>1. KidTypeOK'
  BY Zenon DEF KidInv, KidTypeOK, Steady, Gentle
<1>2. \A pid \in Pids : Ending(proc[pid])'
  BY Zenon DEF Gentle, Ending
<1>3. \A k \in Kids : Foreign(k)' = Foreign(k) /\ (Spawning(k)' => Spawning(k))
  BY Zenon DEF Steady, Foreign, Spawning
<1>4. Handles'
  BY <1>3 DEF KidInv, Handles, Steady
<1>5. ASSUME daemonUp', NEW k \in Kids, ~Foreign(k)'
      PROVE  Owns(k)' /\ Recent(k)'
  <2>1. daemonUp /\ Owns(k) /\ Recent(k)
    BY <1>3, <1>5, Zenon DEF KidInv, Steady
  <2>2. kid'[k].pid = kid[k].pid /\ kid'[k].exit = kid[k].exit
    BY Zenon DEF Steady
  <2>3. kid[k].pid # NoPid => kid[k].pid \in Pids
    BY <1>0, Zenon DEF KidType
  <2>4. Owns(k)'
    BY <2>1, <2>2, <2>3, Zenon DEF Owns, Gentle
  <2>5. Recent(k)'
    BY <1>3, <2>1, <2>2, <2>3, Zenon DEF Recent, Gentle, Steady
  <2> QED BY <2>4, <2>5, Zenon
<1>6. ASSUME daemonUp' PROVE Watchers'
  <2>1. Watchers
    BY <1>6, Zenon DEF KidInv, Steady
  <2>2. reaper'.todo \subseteq reaper'.watched
    BY <2>1, Zenon DEF Watchers, Steady
  <2>3. ASSUME NEW pid \in reaper'.watched
        PROVE  \E k \in Kids : ~Foreign(k)' /\ kid'[k].pid = pid /\ kid'[k].exit = "none" /\ kid'[k].st # "forked"
    <3>1. PICK k \in Kids : ~Foreign(k) /\ kid[k].pid = pid /\ kid[k].exit = "none" /\ kid[k].st # "forked"
      BY <2>1, <2>3, Zenon DEF Watchers, Steady
    <3> QED BY <1>3, <3>1, Zenon DEF Steady
  <2> QED BY <2>2, <2>3, Zenon DEF Watchers
<1>7. NoStrangerSignalled'
  BY Zenon DEF KidInv, NoStrangerSignalled, Steady, Foreign
<1> QED BY <1>1, <1>2, <1>4, <1>5, <1>6, <1>7, Zenon DEF KidInv

\* A signal sent on one of the two grounds reaches no stranger.
LEMMA KillIsSafe ==
    ASSUME KidInv, daemonUp, NEW k \in Kids, kid[k].pid \in Pids,
           NEW sigs, NEW cause, Kill(k, kid[k].pid, sigs, cause),
           kid[k].exit = "none" \/ Spawning(k) \/ kid[k].st = "closing"
    PROVE  \A s \in stray' : s \in stray \/ s[2] = "sent" \/ Foreign(s[1])
<1>1. stray' = IF Alien(k, proc[kid[k].pid]) THEN stray \cup {<<k, cause>>} ELSE stray
  BY Zenon DEF Kill
<1>2. ~Foreign(k) => ~Alien(k, proc[kid[k].pid])
  <2>1. kid[k].pid # NoPid
    BY KidAssumption, Zenon
  <2> QED BY <2>1, Zenon DEF KidInv, Owns, Recent, Alien
<1>3. CASE Foreign(k)
  <2>1. \A s \in stray' : s \in stray \/ s = <<k, cause>>
    BY <1>1, Zenon
  <2>2. <<k, cause>>[1] = k
    BY Zenon
  <2> QED BY <1>3, <2>1, <2>2, Zenon
<1>4. CASE ~Foreign(k)
  <2>1. stray' = stray
    BY <1>1, <1>2, <1>4, Zenon
  <2> QED BY <2>1, Zenon
<1> QED BY <1>3, <1>4, Zenon

LEMMA HasPid ==
    ASSUME KidInv, NEW k \in Kids, kid[k].st \notin {"none", "armed"}
    PROVE  kid[k].pid \in Pids
BY Zenon DEF KidInv, KidTypeOK, KidType, Handles

\* A step that moves one handle on, past its spawning, and leaves the reaper alone.
LEMMA MovesOn ==
    ASSUME KidInv, NEW k \in Kids, NEW s \in {"open", "closing", "killing", "closed", "failed"},
           kid' = [kid EXCEPT ![k].st = s], kid[k].st \notin {"none", "armed"},
           s = "closing" => kid[k].st = "closing" \/ kid[k].exit = "none",
           UNCHANGED <<kidScenario, reaper, daemonUp>>, DOMAIN grp' = Pids
    PROVE  Steady
<1>1. kid \in [Kids -> KidType] /\ reaper \in ReaperType
  BY Zenon DEF KidInv, KidTypeOK
<1>2. /\ kid' \in [Kids -> KidType]
      /\ \A j \in Kids : kid'[j].pid = kid[j].pid /\ kid'[j].exit = kid[j].exit
      /\ kid'[k].st = s /\ \A j \in Kids : j # k => kid'[j].st = kid[j].st
  <2>1. s \in {"none", "armed", "forked", "watched", "open", "closing", "killing", "closed", "failed"}
    BY Zenon
  <2> QED BY <1>1, <2>1, SetSt, Zenon
<1> QED BY <1>1, <1>2, Zenon DEF Steady

LEMMA SameHandles ==
    ASSUME KidInv, UNCHANGED <<kidScenario, kid, reaper, daemonUp>>, DOMAIN grp' = Pids
    PROVE  Steady
BY Zenon DEF Steady, KidInv, KidTypeOK

LEMMA RegisterKeeps ==
    ASSUME KidInv, NEW k \in Kids, Register(k)
    PROVE  KidInv'
<1>1. kid[k].st = "watched" /\ UNCHANGED <<kidScenario, reaper, daemonUp>>
  BY Zenon DEF Register
<1>2. kid[k].pid \in Pids /\ Spawning(k) /\ daemonUp
  BY <1>1, HasPid, Zenon DEF KidInv, Handles, Spawning
<1>3. CASE /\ kid' = [kid EXCEPT ![k].st = "open"] /\ UNCHANGED <<kidLeft, proc, grp, stray>>
  <2>1. DOMAIN grp' = Pids
    BY <1>3, Zenon DEF KidInv, KidTypeOK
  <2>2. Steady
    BY <1>1, <1>3, <2>1, MovesOn, Zenon
  <2>3. Gentle
    BY <1>3, UnchangedProcesses, Zenon
  <2> QED BY <1>3, <2>2, <2>3, SteadyKeeps, Zenon
<1>4. CASE /\ kid' = [kid EXCEPT ![k].st = "failed"] /\ SignalGroup(k, kid[k].pid, <<"KILL">>, "spawn")
  <2>1. Kill(k, kid[k].pid, <<"KILL">>, "spawn")
    BY <1>4, Zenon DEF SignalGroup
  <2>2. Gentle /\ DOMAIN grp' = Pids
    BY <1>2, <2>1, KillIsGentle, Zenon
  <2>3. \A s \in stray' : s \in stray \/ s[2] = "sent" \/ Foreign(s[1])
    BY <1>2, <2>1, KillIsSafe, Zenon
  <2>4. Steady
    BY <1>1, <1>4, <2>2, MovesOn, Zenon
  <2> QED BY <2>2, <2>3, <2>4, SteadyKeeps, Zenon
<1> QED BY <1>3, <1>4, Zenon DEF Register

LEMMA CloseKeeps ==
    ASSUME KidInv, NEW k \in Kids, Close(k)
    PROVE  KidInv'
<1>1. kid[k].st = "open" /\ daemonUp /\ UNCHANGED <<kidScenario, reaper, daemonUp>>
  BY Zenon DEF Close
<1>2. kid[k].pid \in Pids
  BY <1>1, HasPid, Zenon
<1>3. CASE kid[k].exit # "none"
  <2>1. kid' = [kid EXCEPT ![k].st = "closed"] /\ UNCHANGED <<proc, grp, stray>>
    BY <1>3, Zenon DEF Close
  <2>2. DOMAIN grp' = Pids
    BY <2>1, Zenon DEF KidInv, KidTypeOK
  <2>3. Steady
    BY <1>1, <2>1, <2>2, MovesOn, Zenon
  <2>4. Gentle
    BY <2>1, UnchangedProcesses, Zenon
  <2> QED BY <2>1, <2>3, <2>4, SteadyKeeps, Zenon
<1>4. CASE kid[k].exit = "none"
  <2>1. kid' = [kid EXCEPT ![k].st = "closing"] /\ Kill(k, kid[k].pid, <<"HUP", "TERM">>, "close")
    BY <1>4, Zenon DEF Close, SignalGroup
  <2>2. Gentle /\ DOMAIN grp' = Pids
    BY <1>2, <2>1, KillIsGentle, Zenon
  <2>3. \A s \in stray' : s \in stray \/ s[2] = "sent" \/ Foreign(s[1])
    BY <1>1, <1>2, <1>4, <2>1, KillIsSafe, Zenon
  <2>4. Steady
    BY <1>1, <1>4, <2>1, <2>2, MovesOn, Zenon
  <2> QED BY <2>2, <2>3, <2>4, SteadyKeeps, Zenon
<1> QED BY <1>3, <1>4, Zenon

LEMMA ExitSeenKeeps ==
    ASSUME KidInv, NEW k \in Kids, ExitSeen(k)
    PROVE  KidInv'
<1>1. /\ kid[k].st = "closing" /\ daemonUp /\ UNCHANGED <<kidScenario, reaper, daemonUp>>
      /\ kid' = [kid EXCEPT ![k].st = "closed"] /\ GroupOnly(k, kid[k].pid, <<"KILL">>, "close")
  BY Zenon DEF ExitSeen
<1>2. kid[k].pid \in Pids
  BY <1>1, HasPid, Zenon
<1>3. CASE UNCHANGED <<proc, grp, stray>>
  <2>2. DOMAIN grp' = Pids
    BY <1>3, Zenon DEF KidInv, KidTypeOK
  <2>3. Steady
    BY <1>1, <2>2, MovesOn, Zenon
  <2>4. Gentle
    BY <1>3, UnchangedProcesses, Zenon
  <2> QED BY <1>3, <2>3, <2>4, SteadyKeeps, Zenon
<1>4. CASE Kill(k, kid[k].pid, <<"KILL">>, "close")
  <2>2. Gentle /\ DOMAIN grp' = Pids
    BY <1>2, <1>4, KillIsGentle, Zenon
  <2>3. \A s \in stray' : s \in stray \/ s[2] = "sent" \/ Foreign(s[1])
    BY <1>1, <1>2, <1>4, KillIsSafe, Zenon
  <2>4. Steady
    BY <1>1, <2>2, MovesOn, Zenon
  <2> QED BY <2>2, <2>3, <2>4, SteadyKeeps, Zenon
<1> QED BY <1>1, <1>3, <1>4, Zenon DEF GroupOnly

LEMMA GraceEndsKeeps ==
    ASSUME KidInv, NEW k \in Kids, GraceEnds(k)
    PROVE  KidInv'
<1>1. /\ kid[k].st = "closing" /\ kid[k].exit = "none" /\ daemonUp /\ UNCHANGED <<kidScenario, reaper, daemonUp>>
      /\ kid' = [kid EXCEPT ![k].st = "killing"] /\ Kill(k, kid[k].pid, <<"KILL">>, "close")
  BY Zenon DEF GraceEnds, SignalGroup
<1>2. kid[k].pid \in Pids
  BY <1>1, HasPid, Zenon
<1>3. Gentle /\ DOMAIN grp' = Pids
  BY <1>1, <1>2, KillIsGentle, Zenon
<1>4. \A s \in stray' : s \in stray \/ s[2] = "sent" \/ Foreign(s[1])
  BY <1>1, <1>2, KillIsSafe, Zenon
<1>5. Steady
  BY <1>1, <1>3, MovesOn, Zenon
<1> QED BY <1>3, <1>4, <1>5, SteadyKeeps, Zenon

LEMMA KillSeenKeeps ==
    ASSUME KidInv, NEW k \in Kids, KillSeen(k)
    PROVE  KidInv'
<1>1. /\ kid[k].st = "killing" /\ daemonUp /\ UNCHANGED <<kidScenario, reaper, daemonUp>>
      /\ kid' = [kid EXCEPT ![k].st = "closed"]
  BY Zenon DEF KillSeen
<1>2. kid[k].pid \in Pids
  BY <1>1, HasPid, Zenon
<1>3. CASE kid[k].exit # "none"
  <2>1. UNCHANGED <<proc, grp, stray>>
    BY <1>3, Zenon DEF KillSeen
  <2>2. DOMAIN grp' = Pids
    BY <2>1, Zenon DEF KidInv, KidTypeOK
  <2>3. Steady
    BY <1>1, <2>2, MovesOn, Zenon
  <2>4. Gentle
    BY <2>1, UnchangedProcesses, Zenon
  <2> QED BY <2>1, <2>3, <2>4, SteadyKeeps, Zenon
<1>4. CASE kid[k].exit = "none"
  <2>1. Kill(k, kid[k].pid, <<"KILL">>, "drop")
    BY <1>4, Zenon DEF KillSeen, SignalGroup
  <2>2. Gentle /\ DOMAIN grp' = Pids
    BY <1>2, <2>1, KillIsGentle, Zenon
  <2>3. \A s \in stray' : s \in stray \/ s[2] = "sent" \/ Foreign(s[1])
    BY <1>1, <1>2, <1>4, <2>1, KillIsSafe, Zenon
  <2>4. Steady
    BY <1>1, <2>2, MovesOn, Zenon
  <2> QED BY <2>2, <2>3, <2>4, SteadyKeeps, Zenon
<1> QED BY <1>3, <1>4, Zenon

LEMMA SendSignalKeeps ==
    ASSUME KidInv, NEW k \in Kids, SendSignal(k)
    PROVE  KidInv'
<1> DEFINE pid == kid[k].pid
           new == Struck(k, proc[pid], "INT")
<1>1. /\ kid[k].st = "open" /\ UNCHANGED <<kidScenario, kid, grp, reaper, daemonUp>>
      /\ proc' = [proc EXCEPT ![pid] = new]
      /\ stray' = IF Alien(k, proc[pid]) THEN stray \cup {<<k, "sent">>} ELSE stray
  BY Zenon DEF SendSignal
<1>2. pid \in Pids
  BY <1>1, HasPid, Zenon
<1>3. proc[pid] \in ProcType /\ Ending(proc[pid])
  BY <1>2, Zenon DEF KidInv, KidTypeOK
<1>4. /\ new \in ProcType /\ Ending(new) /\ new.of = proc[pid].of
      /\ proc[pid].st \in Lives => new.st \in Lives
      /\ proc[pid].st = "free" => new.st = "free"
  BY <1>3, StruckType, Zenon
<1> HIDE DEF new, pid
<1>5. Gentle
  BY <1>1, <1>2, <1>4, OneProcess, Zenon
<1>6. Steady
  <2>1. DOMAIN grp' = Pids
    BY <1>1, Zenon DEF KidInv, KidTypeOK
  <2> QED BY <1>1, <2>1, SameHandles, Zenon
<1>7. \A s \in stray' : s \in stray \/ s[2] = "sent" \/ Foreign(s[1])
  <2>1. \A s \in stray' : s \in stray \/ s = <<k, "sent">>
    BY <1>1, Zenon
  <2>2. <<k, "sent">>[2] = "sent"
    BY Zenon
  <2> QED BY <2>1, <2>2, Zenon
<1> QED BY <1>5, <1>6, <1>7, SteadyKeeps, Zenon

\* The child and its group by themselves.
LEMMA ProcessStepKeeps ==
    ASSUME KidInv, NEW pid \in Pids, Exec(pid) \/ StartsJob(pid) \/ JobEnds(pid) \/ Quits(pid)
    PROVE  KidInv'
<1>1. UNCHANGED <<kidScenario, kid, reaper, daemonUp, stray>> /\ DOMAIN grp' = Pids
  BY Zenon DEF KidInv, KidTypeOK, Exec, StartsJob, JobEnds, Quits
<1>2. Steady
  BY <1>1, SameHandles, Zenon
<1>3. Gentle
  <2>0. proc[pid] \in ProcType
    BY Zenon DEF KidInv, KidTypeOK
  <2>1. CASE UNCHANGED proc
    BY <2>1, UnchangedProcesses, Zenon
  <2>2. CASE proc[pid].st \in {"fork", "run"} /\ proc' = [proc EXCEPT ![pid].st = "run"]
    <3> DEFINE new == [proc[pid] EXCEPT !.st = "run"]
    <3>1. new \in ProcType /\ new.st = "run" /\ new.of = proc[pid].of
      BY <2>0, Zenon DEF ProcType, Lives
    <3>2. proc' = [proc EXCEPT ![pid] = new]
      BY <2>2, Zenon
    <3> HIDE DEF new
    <3> QED BY <2>2, <3>1, <3>2, OneProcess, Zenon DEF Ending, Lives
  <2>3. CASE proc[pid].st \in {"fork", "run"} /\ proc' = [proc EXCEPT ![pid].st = "dying", ![pid].how = "code"]
    <3> DEFINE new == [proc[pid] EXCEPT !.st = "dying", !.how = "code"]
    <3>1. new \in ProcType /\ new.st = "dying" /\ new.of = proc[pid].of /\ new.how = "code"
      BY <2>0, Zenon DEF ProcType, Lives
    <3>2. proc' = [proc EXCEPT ![pid] = new]
      BY <2>3, Zenon DEF KidInv, KidTypeOK
    <3> HIDE DEF new
    <3> QED BY <2>3, <3>1, <3>2, OneProcess, Zenon DEF Ending, Lives
  <2> QED BY <2>1, <2>2, <2>3, Zenon DEF Exec, StartsJob, JobEnds, Quits
<1> QED BY <1>1, <1>2, <1>3, SteadyKeeps, Zenon

LEMMA ScanKeeps ==
    ASSUME KidInv, Scan
    PROVE  KidInv'
<1>1. /\ UNCHANGED <<kidScenario, kid, proc, grp, daemonUp, stray>> /\ reaper \in ReaperType
      /\ reaper' = [reaper EXCEPT !.st = IF reaper.watched = {} THEN "idle" ELSE "scan",
                                  !.sigchld = FALSE, !.todo = reaper.watched]
  BY Zenon DEF Scan, KidInv, KidTypeOK
<1>2. reaper' \in ReaperType /\ reaper'.watched = reaper.watched /\ reaper'.todo = reaper.watched
  BY <1>1, Zenon DEF ReaperType
<1>3. Steady
  BY <1>1, <1>2, Zenon DEF Steady, KidInv, KidTypeOK
<1>4. Gentle
  BY <1>1, UnchangedProcesses, Zenon
<1> QED BY <1>1, <1>3, <1>4, SteadyKeeps, Zenon

LEMMA KeepAliveKeeps ==
    ASSUME KidInv, KeepAlive
    PROVE  KidInv'
<1>1. /\ UNCHANGED <<kidScenario, proc, grp, reaper, daemonUp, stray>>
      /\ kid' = [k \in Kids |-> IF k \in Registered THEN [kid[k] EXCEPT !.keep = TRUE] ELSE kid[k]]
  BY Zenon DEF KeepAlive
<1>2. ASSUME NEW k \in Kids
      PROVE  /\ kid'[k] \in KidType /\ kid'[k].pid = kid[k].pid /\ kid'[k].exit = kid[k].exit
             /\ kid'[k].st = kid[k].st
  <2>1. kid[k] \in KidType
    BY Zenon DEF KidInv, KidTypeOK
  <2>2. /\ [kid[k] EXCEPT !.keep = TRUE] \in KidType /\ [kid[k] EXCEPT !.keep = TRUE].pid = kid[k].pid
        /\ [kid[k] EXCEPT !.keep = TRUE].exit = kid[k].exit /\ [kid[k] EXCEPT !.keep = TRUE].st = kid[k].st
    BY <2>1, Zenon DEF KidType
  <2>3. kid'[k] = [kid[k] EXCEPT !.keep = TRUE] \/ kid'[k] = kid[k]
    BY <1>1, Zenon
  <2> QED BY <2>1, <2>2, <2>3, Zenon
<1>3. kid' \in [Kids -> KidType]
  BY <1>1, <1>2, Zenon
<1>4. Steady
  BY <1>1, <1>2, <1>3, Zenon DEF Steady, KidInv, KidTypeOK
<1>5. Gentle
  BY <1>1, UnchangedProcesses, Zenon
<1> QED BY <1>1, <1>4, <1>5, SteadyKeeps, Zenon

(***************************************************************************)
(* The steps that free a pid, take one or publish an exit.                 *)
(***************************************************************************)

\* The reaper's scan leaves the list as it is.
LEMMA OnlyProcesses ==
    ASSUME KidInv, UNCHANGED <<kidScenario, kid, grp, daemonUp, stray>>,
           proc' \in [Pids -> ProcType], \A pid \in Pids : Ending(proc'[pid]),
           reaper' \in ReaperType, reaper'.watched = reaper.watched, reaper'.todo = reaper.todo,
           daemonUp => \A k \in Kids : ~Foreign(k) => Owns(k)' /\ Recent(k)'
    PROVE  KidInv'
<1>1. KidTypeOK' /\ Handles' /\ NoStrangerSignalled'
  BY Zenon DEF KidInv, KidTypeOK, Handles, NoStrangerSignalled, Foreign, Spawning
<1>2. \A pid \in Pids : Ending(proc[pid])'
  BY Zenon DEF Ending
<1>3. daemonUp' => \A k \in Kids : ~Foreign(k)' => Owns(k)' /\ Recent(k)'
  BY Zenon DEF Foreign
<1>4. daemonUp' => Watchers'
  BY ZenonT(120) DEF KidInv, Watchers, Foreign
<1> QED BY <1>1, <1>2, <1>3, <1>4, ZenonT(30) DEF KidInv

LEMMA FreeType ==
    /\ Free \in ProcType /\ Free.st = "free" /\ Ending(Free)
    /\ Stranger \in ProcType /\ Stranger.st = "stranger" /\ Ending(Stranger)
<1>1. << >> \in Seq({"HUP", "TERM", "KILL"})
  OBVIOUS
<1>2. Free \in ProcType /\ Free.st = "free"
  BY <1>1, Zenon DEF Free, ProcType, Lives
<1>3. Stranger \in ProcType /\ Stranger.st = "stranger"
  BY <1>1, Zenon DEF Free, Stranger, ProcType, Lives
<1> QED BY <1>2, <1>3, Zenon DEF Ending

LEMMA ChildType ==
    ASSUME NEW k \in Kids, NEW s \in {"fork", "run"}
    PROVE  Child(k, s) \in ProcType /\ Child(k, s).st = s /\ Child(k, s).of = k /\ Ending(Child(k, s))
<1>1. << >> \in Seq({"HUP", "TERM", "KILL"})
  OBVIOUS
<1>2. Child(k, s) \in ProcType /\ Child(k, s).st = s /\ Child(k, s).of = k
  BY <1>1, Zenon DEF Free, Child, ProcType, Lives
<1> QED BY <1>2, Zenon DEF Ending

LEMMA ExitsKeeps ==
    ASSUME KidInv, NEW pid \in Pids, Exits(pid)
    PROVE  KidInv'
<1>1. proc[pid].st = "dying" /\ UNCHANGED <<kidScenario, kid, grp, daemonUp, stray>>
  BY Zenon DEF Exits
<1>2. proc[pid] \in ProcType /\ reaper \in ReaperType /\ proc \in [Pids -> ProcType] /\ Ending(proc[pid])
  BY Zenon DEF KidInv, KidTypeOK
<1>3. CASE Foreign(proc[pid].of) \/ ~daemonUp
  <2>1. proc' = [proc EXCEPT ![pid] = Free] /\ reaper' = reaper
    BY <1>3, Zenon DEF Exits
  <2>2. proc' \in [Pids -> ProcType] /\ \A q \in Pids : Ending(proc'[q])
    BY <1>2, <2>1, FreeType, Zenon DEF KidInv
  <2>3. ASSUME daemonUp, NEW k \in Kids, ~Foreign(k)
        PROVE  Owns(k)' /\ Recent(k)'
    <3>1. Owns(k) /\ Recent(k)
      BY <2>3, Zenon DEF KidInv
    <3>2. kid[k].pid # NoPid => kid[k].pid \in Pids
      BY Zenon DEF KidInv, KidTypeOK, KidType
    <3>3. Owns(k)'
      BY <1>1, <1>2, <1>3, <2>1, <2>3, <3>1, <3>2, Zenon DEF Owns
    <3>4. Recent(k)'
      BY <1>1, <1>2, <2>1, <3>1, <3>2, FreeType, Zenon DEF Recent, Spawning
    <3> QED BY <3>3, <3>4, Zenon
  <2> QED BY <1>1, <1>2, <2>1, <2>2, <2>3, OnlyProcesses, Zenon
<1>4. CASE ~(Foreign(proc[pid].of) \/ ~daemonUp)
  <2> DEFINE new == [proc[pid] EXCEPT !.st = "zombie"]
  <2>1. proc' = [proc EXCEPT ![pid] = new] /\ reaper' = [reaper EXCEPT !.sigchld = TRUE]
    BY <1>4, Zenon DEF Exits
  <2>2. new \in ProcType /\ new.of = proc[pid].of /\ new.st = "zombie" /\ Ending(new)
    BY <1>1, <1>2, Zenon DEF ProcType, Lives, Ending
  <2> HIDE DEF new
  <2>3. Gentle
    BY <1>1, <2>1, <2>2, OneProcess, Zenon DEF Lives
  <2>4. reaper' \in ReaperType /\ reaper'.watched = reaper.watched /\ reaper'.todo = reaper.todo
    BY <1>2, <2>1, Zenon DEF ReaperType
  <2>5. Steady
    BY <1>1, <2>4, Zenon DEF Steady, KidInv, KidTypeOK
  <2> QED BY <1>1, <2>3, <2>5, SteadyKeeps, Zenon
<1> QED BY <1>3, <1>4, Zenon

LEMMA RecycleKeeps ==
    ASSUME KidInv, NEW pid \in Pids, Recycle(pid)
    PROVE  KidInv'
<1>1. /\ proc[pid].st = "free" /\ ~TooRecent(pid) /\ UNCHANGED <<kidScenario, kid, grp, reaper, daemonUp, stray>>
      /\ proc' = [proc EXCEPT ![pid] = Stranger]
  BY Zenon DEF Recycle, PidFree
<1>2. proc' \in [Pids -> ProcType] /\ \A q \in Pids : Ending(proc'[q])
  BY <1>1, FreeType, Zenon DEF KidInv, KidTypeOK
<1>3. ASSUME daemonUp, NEW k \in Kids, ~Foreign(k)
      PROVE  Owns(k)' /\ Recent(k)'
  <2>1. Owns(k) /\ Recent(k)
    BY <1>3, Zenon DEF KidInv
  <2>2. kid[k].pid # NoPid => kid[k].pid \in Pids
    BY Zenon DEF KidInv, KidTypeOK, KidType
  <2>3. \A q \in Pids : q # pid => proc'[q] = proc[q]
    BY <1>1
  <2>4. Owns(k)'
    BY <1>1, <2>1, <2>2, <2>3, Zenon DEF Owns, Lives
  <2>5. Recent(k)'
    BY <1>1, <2>1, <2>2, <2>3, Zenon DEF Recent, Spawning, TooRecent
  <2> QED BY <2>4, <2>5, Zenon
<1> QED BY <1>1, <1>2, <1>3, OnlyProcesses, Zenon DEF KidInv, KidTypeOK

\* A step of one handle, whatever it does to the process under its pid.
LEMMA OneHandle ==
    ASSUME KidInv, daemonUp, NEW k \in Kids, NEW new \in KidType, kid' = [kid EXCEPT ![k] = new],
           UNCHANGED <<kidScenario, grp, daemonUp, stray>>,
           proc' \in [Pids -> ProcType], \A pid \in Pids : Ending(proc'[pid]), reaper' \in ReaperType,
           new.pid = NoPid <=> new.st \in {"none", "armed"},
           new.st \in {"none", "armed", "forked"} => new.exit = "none",
           new.st \in {"armed", "forked", "watched"} => ~Foreign(k),
           \A j \in Kids : ~Foreign(j) => Owns(j)' /\ Recent(j)',
           Watchers'
    PROVE  KidInv'
<1>1. KidTypeOK' /\ NoStrangerSignalled'
  BY Zenon DEF KidInv, KidTypeOK, NoStrangerSignalled, Foreign
<1>2. \A pid \in Pids : Ending(proc[pid])'
  BY Zenon DEF Ending
<1>3. \A j \in Kids : kid'[j] = IF j = k THEN new ELSE kid[j]
  BY Zenon DEF KidInv, KidTypeOK
<1>4. Handles'
  <2>1. ASSUME NEW j \in Kids
        PROVE  /\ kid'[j].pid = NoPid <=> kid'[j].st \in {"none", "armed"}
               /\ kid'[j].st \in {"none", "armed", "forked"} => kid'[j].exit = "none"
               /\ kid'[j].st \in {"armed", "forked", "watched"} => ~Foreign(j) /\ daemonUp
    <3>1. CASE j = k
      BY <1>3, <3>1, Zenon
    <3>2. CASE j # k
      BY <1>3, <3>2, ZenonT(60) DEF KidInv, Handles, Spawning
    <3> QED BY <3>1, <3>2, Zenon
  <2> QED BY <2>1, Zenon DEF Handles, Spawning, Foreign
<1>5. daemonUp' => \A j \in Kids : ~Foreign(j)' => Owns(j)' /\ Recent(j)'
  BY Zenon DEF Foreign
<1> QED BY <1>1, <1>2, <1>4, <1>5, Zenon DEF KidInv

\* What the other handles rest on is left as it was.
LEMMA OtherHandles ==
    ASSUME KidInv, daemonUp, NEW j \in Kids, ~Foreign(j), kid'[j] = kid[j],
           kid[j].pid \in Pids => \/ proc'[kid[j].pid] = proc[kid[j].pid]
                                  \/ kid[j].exit # "none" /\ ~TooRecent(kid[j].pid)
                                  \/ kid[j].exit # "none" /\ proc'[kid[j].pid].st = "free"
    PROVE  Owns(j)' /\ Recent(j)'
<1>1. Owns(j) /\ Recent(j)
  BY Zenon DEF KidInv
<1>2. kid[j].pid # NoPid => kid[j].pid \in Pids
  BY Zenon DEF KidInv, KidTypeOK, KidType
<1>3. Owns(j)'
  BY <1>1, <1>2, Zenon DEF Owns
<1>4. Recent(j)'
  BY <1>1, <1>2, Zenon DEF Recent, Spawning, TooRecent
<1> QED BY <1>3, <1>4, Zenon

LEMMA GetReaperKeeps ==
    ASSUME KidInv, NEW k \in Kids, GetReaper(k)
    PROVE  KidInv'
<1>1. /\ daemonUp /\ ~Foreign(k) /\ kid[k] = NoHandle /\ reaper \in ReaperType /\ kid \in [Kids -> KidType]
      /\ UNCHANGED <<kidScenario, proc, grp, daemonUp, stray>> /\ DOMAIN grp = Pids
  BY Zenon DEF GetReaper, KidInv, KidTypeOK
<1>2. CASE UNCHANGED <<kid, reaper>>
  <2>1. Steady
    BY <1>1, <1>2, SameHandles, Zenon
  <2>2. Gentle
    BY <1>1, UnchangedProcesses, Zenon
  <2> QED BY <1>1, <2>1, <2>2, SteadyKeeps, Zenon
<1>3. CASE /\ kid' = [kid EXCEPT ![k].st = "armed"]
           /\ reaper' = IF reaper.st = "off" THEN [reaper EXCEPT !.st = "idle"] ELSE reaper
  <2> DEFINE new == [kid[k] EXCEPT !.st = "armed"]
  <2>1. kid' = [kid EXCEPT ![k] = new]
    BY <1>3, Zenon
  <2>2. new \in KidType /\ new.st = "armed" /\ new.pid = NoPid /\ new.exit = "none"
    <3>1. kid[k] \in KidType
      BY <1>1, Zenon
    <3>2. new \in KidType /\ new.st = "armed" /\ new.pid = kid[k].pid /\ new.exit = kid[k].exit
      BY <3>1, Zenon DEF KidType
    <3>3. kid[k].pid = NoPid /\ kid[k].exit = "none"
      BY <1>1 DEF NoHandle
    <3> QED BY <3>2, <3>3, Zenon
  <2>3. reaper' \in ReaperType /\ reaper'.watched = reaper.watched /\ reaper'.todo = reaper.todo
    <3>1. /\ [reaper EXCEPT !.st = "idle"] \in ReaperType /\ [reaper EXCEPT !.st = "idle"].watched = reaper.watched
          /\ [reaper EXCEPT !.st = "idle"].todo = reaper.todo
      BY <1>1, Zenon DEF ReaperType
    <3>2. reaper' = [reaper EXCEPT !.st = "idle"] \/ reaper' = reaper
      BY <1>3, Zenon
    <3> QED BY <1>1, <3>1, <3>2, Zenon
  <2> HIDE DEF new
  <2>4. ASSUME NEW j \in Kids, ~Foreign(j) PROVE Owns(j)' /\ Recent(j)'
    <3>1. CASE j = k
      BY <1>1, <2>1, <2>2, <3>1, Zenon DEF Owns, Recent
    <3>2. CASE j # k
      <4>1. kid'[j] = kid[j]
        BY <1>1, <2>1, <3>2, Zenon
      <4> QED BY <1>1, <2>4, <4>1, OtherHandles, Zenon
    <3> QED BY <3>1, <3>2, Zenon
  <2>5. Watchers'
    <3>1. ASSUME NEW pid \in reaper'.watched
          PROVE  \E j \in Kids : ~Foreign(j)' /\ kid'[j].pid = pid /\ kid'[j].exit = "none" /\ kid'[j].st # "forked"
      <4>1. PICK j \in Kids : ~Foreign(j) /\ kid[j].pid = pid /\ kid[j].exit = "none" /\ kid[j].st # "forked"
        BY <1>1, <2>3, Zenon DEF KidInv, Watchers
      <4>2. pid \in Pids
        BY <2>3, Zenon DEF ReaperType
      <4>3. kid[k].pid = NoPid
        BY <1>1 DEF NoHandle
      <4>4. j # k
        BY <4>1, <4>2, <4>3, KidAssumption, Zenon
      <4> QED BY <1>1, <2>1, <4>1, <4>4, Zenon DEF Foreign
    <3>2. reaper'.todo \subseteq reaper'.watched
      BY <1>1, <2>3, Zenon DEF KidInv, Watchers
    <3> QED BY <3>1, <3>2, Zenon DEF Watchers
  <2>6. proc' \in [Pids -> ProcType] /\ \A pid \in Pids : Ending(proc'[pid])
    BY <1>1, Zenon DEF KidInv, KidTypeOK
  <2> QED BY <1>1, <2>1, <2>2, <2>3, <2>4, <2>5, <2>6, OneHandle, Zenon
<1> QED BY <1>2, <1>3, Zenon DEF GetReaper

LEMMA ForkKeeps ==
    ASSUME KidInv, NEW k \in Kids, Fork(k)
    PROVE  KidInv'
<1>1. /\ kid[k].st = "armed" /\ kid[k] \in KidType /\ reaper \in ReaperType /\ kid \in [Kids -> KidType]
      /\ UNCHANGED <<kidScenario, grp, reaper, daemonUp, stray>> /\ proc \in [Pids -> ProcType]
  BY Zenon DEF Fork, KidInv, KidTypeOK
<1>2. daemonUp /\ ~Foreign(k) /\ kid[k].pid = NoPid /\ kid[k].exit = "none"
  BY <1>1, Zenon DEF KidInv, Handles, Spawning
<1>3. Watchers
  BY <1>2, Zenon DEF KidInv
<1>4. ASSUME \A j \in Kids : j # k => kid'[j] = kid[j]
      PROVE  Watchers'
  <2>1. ASSUME NEW pid \in reaper'.watched
        PROVE  \E j \in Kids : ~Foreign(j)' /\ kid'[j].pid = pid /\ kid'[j].exit = "none" /\ kid'[j].st # "forked"
    <3>1. PICK j \in Kids : ~Foreign(j) /\ kid[j].pid = pid /\ kid[j].exit = "none" /\ kid[j].st # "forked"
      BY <1>1, <1>3, Zenon DEF Watchers
    <3>2. pid \in Pids
      BY <1>1, Zenon DEF ReaperType
    <3>3. j # k
      BY <1>2, <3>1, <3>2, KidAssumption, Zenon
    <3> QED BY <1>1, <1>4, <3>1, <3>3, Zenon DEF Foreign
  <2> QED BY <1>1, <1>3, <2>1, Zenon DEF Watchers
<1>5. CASE kid' = [kid EXCEPT ![k] = NoHandle] /\ UNCHANGED proc
  <2>1. NoHandle \in KidType /\ NoHandle.st = "none" /\ NoHandle.pid = NoPid /\ NoHandle.exit = "none"
    BY Zenon DEF NoHandle, KidType
  <2>2. \A j \in Kids : j # k => kid'[j] = kid[j]
    BY <1>1, <1>5, Zenon
  <2>3. ASSUME NEW j \in Kids, ~Foreign(j) PROVE Owns(j)' /\ Recent(j)'
    <3>1. CASE j = k
      BY <1>1, <1>5, <2>1, <3>1, Zenon DEF Owns, Recent
    <3>2. CASE j # k
      BY <1>2, <1>5, <2>2, <2>3, <3>2, OtherHandles, Zenon
    <3> QED BY <3>1, <3>2, Zenon
  <2>4. proc' \in [Pids -> ProcType] /\ \A pid \in Pids : Ending(proc'[pid])
    BY <1>5, Zenon DEF KidInv, KidTypeOK
  <2> QED BY <1>1, <1>2, <1>4, <1>5, <2>1, <2>2, <2>3, <2>4, OneHandle, Zenon
<1>6. ASSUME NEW pid \in Pids, PidFree(pid), ~TooRecent(pid), proc' = [proc EXCEPT ![pid] = Child(k, "fork")],
             kid' = [kid EXCEPT ![k].st = "forked", ![k].pid = pid]
      PROVE  KidInv'
  <2> DEFINE new == [kid[k] EXCEPT !.st = "forked", !.pid = pid]
             child == Child(k, "fork")
  <2>1. kid' = [kid EXCEPT ![k] = new] /\ proc' = [proc EXCEPT ![pid] = child]
    BY <1>1, <1>6, Zenon
  <2>2. new \in KidType /\ new.st = "forked" /\ new.pid = pid /\ new.exit = "none"
    BY <1>1, <1>2, Zenon DEF KidType
  <2>3. child \in ProcType /\ child.st = "fork" /\ child.of = k /\ Ending(child)
    BY ChildType, Zenon
  <2> HIDE DEF new, child
  <2>4. kid'[k] = new /\ \A j \in Kids : j # k => kid'[j] = kid[j]
    BY <1>1, <2>1, Zenon
  <2>5. proc'[pid] = child /\ (\A q \in Pids : q # pid => proc'[q] = proc[q]) /\ proc' \in [Pids -> ProcType]
    BY <1>1, <2>1, <2>3, Zenon
  <2>6. ASSUME NEW j \in Kids, ~Foreign(j) PROVE Owns(j)' /\ Recent(j)'
    <3>1. CASE j = k
      BY <2>2, <2>3, <2>4, <2>5, <3>1, Zenon DEF Owns, Recent, Lives
    <3>2. CASE j # k
      <4>1. CASE kid[j].pid = pid
        <5>1. kid[j].exit # "none"
          BY <1>2, <1>6, <2>6, <4>1, KidAssumption, Zenon DEF KidInv, Owns, PidFree, Lives
        <5> QED BY <1>2, <1>6, <2>4, <2>6, <3>2, <4>1, <5>1, OtherHandles, Zenon
      <4>2. CASE kid[j].pid # pid
        BY <1>2, <2>4, <2>5, <2>6, <3>2, <4>2, OtherHandles, Zenon
      <4> QED BY <4>1, <4>2, Zenon
    <3> QED BY <3>1, <3>2, Zenon
  <2>7. \A q \in Pids : Ending(proc'[q])
    BY <2>3, <2>5, Zenon DEF KidInv
  <2>8. new.pid # NoPid
    BY <2>2, KidAssumption, Zenon
  <2> QED BY <1>1, <1>2, <1>4, <2>1, <2>2, <2>4, <2>5, <2>6, <2>7, <2>8, OneHandle, Zenon
<1> QED BY <1>5, <1>6, Zenon DEF Fork

LEMMA WatchKeeps ==
    ASSUME KidInv, NEW k \in Kids, Watch(k)
    PROVE  KidInv'
<1> DEFINE pid == kid[k].pid
<1>1. /\ kid[k].st = "forked" /\ kid[k] \in KidType /\ reaper \in ReaperType /\ kid \in [Kids -> KidType]
      /\ UNCHANGED <<kidScenario, grp, daemonUp, stray>> /\ proc \in [Pids -> ProcType]
  BY Zenon DEF Watch, KidInv, KidTypeOK
<1>2. daemonUp /\ ~Foreign(k) /\ pid # NoPid /\ pid \in Pids /\ kid[k].exit = "none"
  BY <1>1, HasPid, KidAssumption, Zenon DEF KidInv, Handles, Spawning
<1>3. Watchers /\ proc[pid].of = k /\ proc[pid].st \in Lives
  BY <1>2, Zenon DEF KidInv, Owns
<1>4. ASSUME NEW q \in reaper.watched, UNCHANGED kidScenario, \A j \in Kids : j # k => kid'[j] = kid[j]
      PROVE  \E j \in Kids : ~Foreign(j)' /\ kid'[j].pid = q /\ kid'[j].exit = "none" /\ kid'[j].st # "forked"
  <2>1. PICK j \in Kids : ~Foreign(j) /\ kid[j].pid = q /\ kid[j].exit = "none" /\ kid[j].st # "forked"
    BY <1>3, Zenon DEF Watchers
  <2>2. j # k
    BY <1>1, <2>1, Zenon
  <2> QED BY <1>4, <2>1, <2>2, Zenon DEF Foreign
<1>5. CASE proc[pid].st = "zombie"
  <2> DEFINE how == proc[pid].how
             new == [kid[k] EXCEPT !.exit = how, !.st = "watched"]
  <2>1. /\ kid' = [Reaped(k) EXCEPT ![k].st = "watched"]
        /\ proc' = [proc EXCEPT ![pid] = Free] /\ reaper' = reaper
    BY <1>5, Zenon DEF Watch
  <2>2. kid' = [kid EXCEPT ![k] = new]
    BY <1>1, <2>1, Zenon DEF Reaped
  <2>3. how \in {"code", "signal"}
    BY <1>1, <1>2, <1>5, Zenon DEF KidInv, Ending, ProcType
  <2> HIDE DEF how
  <2>4. new \in KidType /\ new.st = "watched" /\ new.pid = pid /\ new.exit = how
    BY <1>1, <2>3, Zenon DEF KidType
  <2> HIDE DEF new, pid
  <2>5. kid'[k] = new /\ \A j \in Kids : j # k => kid'[j] = kid[j]
    BY <1>1, <2>2, Zenon
  <2>6. proc'[pid] = Free /\ (\A q \in Pids : q # pid => proc'[q] = proc[q]) /\ proc' \in [Pids -> ProcType]
    BY <1>1, <1>2, <2>1, FreeType, Zenon
  <2>7. ASSUME NEW j \in Kids, ~Foreign(j) PROVE Owns(j)' /\ Recent(j)'
    <3>1. CASE j = k
      BY <2>3, <2>4, <2>5, <2>6, <3>1, FreeType, Zenon DEF Owns, Recent
    <3>2. CASE j # k
      <4>1. CASE kid[j].pid = pid
        <5>1. kid[j].exit # "none"
          BY <1>2, <1>3, <2>7, <3>2, <4>1, Zenon DEF KidInv, Owns
        <5> QED BY <1>2, <2>5, <2>6, <2>7, <3>2, <4>1, <5>1, OtherHandles, FreeType, Zenon
      <4>2. CASE kid[j].pid # pid
        BY <1>2, <2>5, <2>6, <2>7, <3>2, <4>2, OtherHandles, Zenon
      <4> QED BY <4>1, <4>2, Zenon
    <3> QED BY <3>1, <3>2, Zenon
  <2>8. \A q \in Pids : Ending(proc'[q])
    BY <2>6, FreeType, Zenon DEF KidInv
  <2>9. Watchers'
    BY <1>1, <1>3, <1>4, <2>1, <2>5, ZenonT(60) DEF Watchers
  <2> QED BY <1>1, <1>2, <2>1, <2>2, <2>4, <2>6, <2>7, <2>8, <2>9, OneHandle, ZenonT(120)
<1>6. CASE proc[pid].st # "zombie"
  <2> DEFINE new == [kid[k] EXCEPT !.st = "watched"]
  <2>1. /\ kid' = [kid EXCEPT ![k] = new] /\ proc' = proc
        /\ reaper' = [reaper EXCEPT !.watched = @ \cup {pid}]
    BY <1>6, Zenon DEF Watch
  <2>2. new \in KidType /\ new.st = "watched" /\ new.pid = pid /\ new.exit = "none"
    BY <1>1, <1>2, Zenon DEF KidType
  <2> HIDE DEF new, pid
  <2>3. kid'[k] = new /\ \A j \in Kids : j # k => kid'[j] = kid[j]
    BY <1>1, <2>1, Zenon
  <2>4. reaper' \in ReaperType /\ reaper'.watched = reaper.watched \cup {pid} /\ reaper'.todo = reaper.todo
    BY <1>1, <1>2, <2>1, Zenon DEF ReaperType
  <2>5. ASSUME NEW j \in Kids, ~Foreign(j) PROVE Owns(j)' /\ Recent(j)'
    <3>1. CASE j = k
      BY <1>3, <2>1, <2>2, <2>3, <3>1, Zenon DEF Owns, Recent
    <3>2. CASE j # k
      BY <1>2, <2>1, <2>3, <2>5, <3>2, OtherHandles, Zenon
    <3> QED BY <3>1, <3>2, Zenon
  <2>6. Watchers'
    <3>1. ~Foreign(k)' /\ kid'[k].pid = pid /\ kid'[k].exit = "none" /\ kid'[k].st # "forked"
      BY <1>1, <1>2, <2>2, <2>3, Zenon DEF Foreign
    <3>2. \A q \in reaper'.watched : \E j \in Kids :
              ~Foreign(j)' /\ kid'[j].pid = q /\ kid'[j].exit = "none" /\ kid'[j].st # "forked"
      BY <1>1, <1>4, <2>3, <2>4, <3>1, Zenon
    <3>3. reaper'.todo \subseteq reaper'.watched
      BY <1>3, <2>4, Zenon DEF Watchers
    <3> QED BY <3>2, <3>3, Zenon DEF Watchers
  <2>7. proc' \in [Pids -> ProcType] /\ \A q \in Pids : Ending(proc'[q])
    BY <2>1, Zenon DEF KidInv, KidTypeOK
  <2> QED BY <1>1, <1>2, <2>1, <2>2, <2>4, <2>5, <2>6, <2>7, OneHandle, Zenon
<1> QED BY <1>5, <1>6, Zenon

LEMMA ReapOneKeeps ==
    ASSUME KidInv, NEW pid \in Pids, ReapOne(pid)
    PROVE  KidInv'
<1> DEFINE done == proc[pid].st = "zombie"
<1>1. /\ daemonUp /\ pid \in reaper.todo /\ reaper \in ReaperType /\ kid \in [Kids -> KidType]
      /\ UNCHANGED <<kidScenario, grp, daemonUp, stray>> /\ proc \in [Pids -> ProcType]
  BY Zenon DEF ReapOne, KidInv, KidTypeOK
<1>2. /\ reaper' = [reaper EXCEPT !.todo = @ \ {pid},
                                  !.st = IF reaper.todo = {pid} THEN "idle" ELSE @,
                                  !.watched = IF done THEN @ \ {pid} ELSE @]
      /\ kid' = (IF done THEN Reaped(WatcherOf(pid)) ELSE kid)
      /\ proc' = IF done THEN [proc EXCEPT ![pid] = Free] ELSE proc
  BY Zenon DEF ReapOne
<1>3. Watchers
  BY <1>1, Zenon DEF KidInv
<1>4. reaper' \in ReaperType /\ reaper'.todo = reaper.todo \ {pid}
  BY <1>1, <1>2, Zenon DEF ReaperType
<1>5. CASE ~done
  <2>1. reaper'.watched = reaper.watched /\ UNCHANGED <<kid, proc>>
    BY <1>1, <1>2, <1>5, Zenon DEF ReaperType
  <2>2. Steady
    BY <1>1, <1>3, <1>4, <2>1, Zenon DEF Steady, KidInv, KidTypeOK, Watchers
  <2>3. Gentle
    BY <2>1, UnchangedProcesses, Zenon
  <2> QED BY <1>1, <2>2, <2>3, SteadyKeeps, Zenon
<1>6. CASE done
  <2> DEFINE w == WatcherOf(pid)
             how == proc[pid].how
             new == [kid[w] EXCEPT !.exit = how]
  <2>1. PICK k \in Kids : ~Foreign(k) /\ kid[k].pid = pid /\ kid[k].exit = "none" /\ kid[k].st # "forked"
    BY <1>1, <1>3, Zenon DEF Watchers
  <2>2. w \in Kids /\ kid[w].pid = pid /\ kid[w].exit = "none" /\ ~Foreign(w)
    BY <2>1, Zenon DEF WatcherOf
  <2>3. pid # NoPid
    BY KidAssumption, Zenon
  <2>4. \A j \in Kids : ~Foreign(j) /\ kid[j].pid = pid /\ kid[j].exit = "none" => proc[pid].of = j
    BY <1>1, <2>3, Zenon DEF KidInv, Owns
  <2> HIDE DEF w
  <2>5. w = k
    BY <2>1, <2>2, <2>4, Zenon
  <2>6. /\ kid' = [kid EXCEPT ![w] = new] /\ proc' = [proc EXCEPT ![pid] = Free]
        /\ reaper'.watched = reaper.watched \ {pid}
    <3>1. kid' = Reaped(w) /\ proc' = [proc EXCEPT ![pid] = Free]
      BY <1>2, <1>6, Zenon DEF w
    <3>2. reaper'.watched = reaper.watched \ {pid}
      BY <1>1, <1>2, <1>6, Zenon DEF ReaperType
    <3> QED BY <2>2, <3>1, <3>2, Zenon DEF Reaped
  <2>7. how \in {"code", "signal"}
    BY <1>1, <1>6, Zenon DEF KidInv, Ending, ProcType
  <2> HIDE DEF how
  <2>8. new \in KidType /\ new.st = kid[w].st /\ new.pid = pid /\ new.exit = how
    BY <1>1, <2>2, <2>7, Zenon DEF KidType
  <2> HIDE DEF new
  <2>9. kid'[w] = new /\ \A j \in Kids : j # w => kid'[j] = kid[j]
    BY <1>1, <2>2, <2>6, Zenon
  <2>10. proc'[pid] = Free /\ (\A q \in Pids : q # pid => proc'[q] = proc[q]) /\ proc' \in [Pids -> ProcType]
    BY <1>1, <2>6, FreeType, Zenon
  <2>11. ASSUME NEW j \in Kids, ~Foreign(j) PROVE Owns(j)' /\ Recent(j)'
    <3>1. CASE j = w
      BY <2>7, <2>8, <2>9, <2>10, <3>1, FreeType, Zenon DEF Owns, Recent
    <3>2. CASE j # w
      <4>1. CASE kid[j].pid = pid
        <5>1. kid[j].exit # "none"
          BY <2>2, <2>4, <2>11, <3>2, <4>1, Zenon
        <5> QED BY <1>1, <2>9, <2>10, <2>11, <3>2, <4>1, <5>1, OtherHandles, FreeType, Zenon
      <4>2. CASE kid[j].pid # pid
        BY <1>1, <2>9, <2>10, <2>11, <3>2, <4>2, OtherHandles, Zenon
      <4> QED BY <4>1, <4>2, Zenon
    <3> QED BY <3>1, <3>2, Zenon
  <2>12. \A q \in Pids : Ending(proc'[q])
    BY <2>10, FreeType, Zenon DEF KidInv
  <2>13. Watchers'
    <3>1. ASSUME NEW q \in reaper'.watched
          PROVE  \E j \in Kids : ~Foreign(j)' /\ kid'[j].pid = q /\ kid'[j].exit = "none" /\ kid'[j].st # "forked"
      <4>1. q \in reaper.watched /\ q # pid
        BY <2>6, Zenon
      <4>2. PICK j \in Kids : ~Foreign(j) /\ kid[j].pid = q /\ kid[j].exit = "none" /\ kid[j].st # "forked"
        BY <1>3, <4>1, Zenon DEF Watchers
      <4>3. j # w
        BY <2>2, <4>1, <4>2, Zenon
      <4> QED BY <1>1, <2>9, <4>2, <4>3, Zenon DEF Foreign
    <3>2. reaper'.todo \subseteq reaper'.watched
      BY <1>3, <1>4, <2>6, Zenon DEF Watchers
    <3> QED BY <3>1, <3>2, Zenon DEF Watchers
  <2>14. new.st \notin {"none", "armed", "forked"} /\ (new.st = "watched" => ~Foreign(w))
    BY <2>1, <2>2, <2>3, <2>5, <2>8, Zenon DEF KidInv, Handles
  <2> QED BY <1>1, <1>4, <2>2, <2>3, <2>6, <2>8, <2>10, <2>11, <2>12, <2>13, <2>14, OneHandle, Zenon
<1> QED BY <1>5, <1>6, Zenon

LEMMA PollKeeps ==
    ASSUME KidInv, NEW k \in Kids, Poll(k)
    PROVE  KidInv'
<1> DEFINE new == [kid[k] EXCEPT !.exit = "unknown"]
<1>1. /\ daemonUp /\ Foreign(k) /\ kid[k].pid # NoPid
      /\ kid' = [kid EXCEPT ![k] = new] /\ UNCHANGED <<kidScenario, proc, grp, reaper, daemonUp, stray>>
      /\ reaper \in ReaperType /\ kid \in [Kids -> KidType] /\ proc \in [Pids -> ProcType]
  BY Zenon DEF Poll, KidInv, KidTypeOK
<1>2. kid[k].st \notin {"none", "armed", "forked", "watched"}
  BY <1>1, Zenon DEF KidInv, Handles, Spawning
<1>3. new \in KidType /\ new.st = kid[k].st /\ new.pid = kid[k].pid
  BY <1>1, Zenon DEF KidType
<1> HIDE DEF new
<1>4. \A j \in Kids : j # k => kid'[j] = kid[j]
  BY <1>1, Zenon
<1>5. ASSUME NEW j \in Kids, ~Foreign(j) PROVE Owns(j)' /\ Recent(j)'
  BY <1>1, <1>4, <1>5, OtherHandles, Zenon
<1>6. Watchers'
  <2>1. ASSUME NEW pid \in reaper'.watched
        PROVE  \E j \in Kids : ~Foreign(j)' /\ kid'[j].pid = pid /\ kid'[j].exit = "none" /\ kid'[j].st # "forked"
    <3>1. PICK j \in Kids : ~Foreign(j) /\ kid[j].pid = pid /\ kid[j].exit = "none" /\ kid[j].st # "forked"
      BY <1>1, Zenon DEF KidInv, Watchers
    <3>2. j # k
      BY <1>1, <3>1, Zenon
    <3> QED BY <1>1, <1>4, <3>1, <3>2, Zenon DEF Foreign
  <2> QED BY <1>1, <2>1, Zenon DEF KidInv, Watchers
<1>7. \A q \in Pids : Ending(proc'[q])
  BY <1>1, Zenon DEF KidInv
<1> QED BY <1>1, <1>2, <1>3, <1>5, <1>6, <1>7, OneHandle, Zenon

LEMMA DaemonExitsKeeps ==
    ASSUME KidInv, DaemonExits
    PROVE  KidInv'
<1> DEFINE victims == {k \in Kids : Dropped(k)}
           owner(pid) == {k \in victims : kid[k].pid = pid}
<1>1. /\ daemonUp /\ NoneSpawning /\ daemonUp' = FALSE /\ UNCHANGED <<kidScenario, kid>>
      /\ proc' = [pid \in Pids |->
              IF proc[pid].st = "zombie" THEN Free
              ELSE IF owner(pid) = {} THEN proc[pid]
              ELSE Struck(CHOOSE k \in owner(pid) : TRUE, proc[pid], "KILL")]
      /\ DOMAIN grp' = Pids
      /\ stray' = stray \cup {<<k, "drop">> : k \in {k \in victims : Alien(k, proc[kid[k].pid])}}
      /\ reaper' = [reaper EXCEPT !.st = "off", !.watched = {}, !.todo = {}]
  BY Zenon DEF DaemonExits
<1>2. \A pid \in Pids : proc[pid] \in ProcType /\ Ending(proc[pid])
  BY Zenon DEF KidInv, KidTypeOK
<1>3. ASSUME NEW pid \in Pids
      PROVE  proc'[pid] \in ProcType /\ Ending(proc'[pid])
  <2> DEFINE k == CHOOSE k \in owner(pid) : TRUE
  <2>1. proc'[pid] = Free \/ proc'[pid] = proc[pid] \/ proc'[pid] = Struck(k, proc[pid], "KILL")
    BY <1>1, Zenon
  <2> HIDE DEF k
  <2>2. Struck(k, proc[pid], "KILL") \in ProcType /\ Ending(Struck(k, proc[pid], "KILL"))
    BY <1>2, StruckType, Zenon
  <2> QED BY <1>2, <2>1, <2>2, FreeType, Zenon
<1>4. proc' \in [Pids -> ProcType]
  <2>1. DOMAIN proc' = Pids /\ proc' = [pid \in Pids |-> proc'[pid]]
    BY <1>1
  <2> QED BY <1>3, <2>1, Zenon
<1>5. reaper' \in ReaperType
  BY <1>1, Zenon DEF KidInv, KidTypeOK, ReaperType
<1>6. NoStrangerSignalled'
  <2>1. ASSUME NEW k \in victims, Alien(k, proc[kid[k].pid])
        PROVE  Foreign(k)
    <3>1. kid[k].exit = "none" /\ k \in Kids /\ kid[k].st \in {"open", "closing", "killing"}
      BY Zenon DEF Dropped
    <3>2. kid[k].pid # NoPid
      BY <3>1, Zenon DEF KidInv, Handles
    <3> QED BY <1>1, <2>1, <3>1, <3>2, Zenon DEF KidInv, Owns, Alien
  <2>2. ASSUME NEW s \in stray' PROVE s[2] = "sent" \/ Foreign(s[1])
    <3>1. CASE s \in stray
      BY <3>1, Zenon DEF KidInv, NoStrangerSignalled
    <3>2. CASE s \notin stray
      <4>1. PICK k \in {k \in victims : Alien(k, proc[kid[k].pid])} : s = <<k, "drop">>
        BY <1>1, <3>2, Zenon
      <4> QED BY <2>1, <4>1, Zenon
    <3> QED BY <3>1, <3>2, Zenon
  <2> QED BY <1>1, <2>2, Zenon DEF NoStrangerSignalled, Foreign
<1>7. Handles'
  BY <1>1, Zenon DEF KidInv, Handles, NoneSpawning, Spawning, Foreign
<1>8. KidTypeOK'
  BY <1>1, <1>4, <1>5, ZenonT(30) DEF KidInv, KidTypeOK
<1>9. \A pid \in Pids : Ending(proc[pid])'
  BY <1>3, Zenon DEF Ending
<1> QED BY <1>1, <1>6, <1>7, <1>8, <1>9, Zenon DEF KidInv

LEMMA KidInitKeeps == KidInit => KidInv
<1> SUFFICES ASSUME KidInit PROVE KidInv
  BY Zenon
<1>1. PICK pidOf \in [kidScenario.foreign -> Pids] :
        /\ kid = [k \in Kids |-> IF k \in kidScenario.foreign
                                 THEN [NoHandle EXCEPT !.st = "open", !.pid = pidOf[k]]
                                 ELSE NoHandle]
        /\ proc = [pid \in Pids |->
                IF \E k \in kidScenario.foreign : pidOf[k] = pid
                THEN Child(CHOOSE k \in kidScenario.foreign : pidOf[k] = pid, "run")
                ELSE Free]
  BY Zenon DEF KidInit
<1>2. /\ kidScenario \in KidScenarios /\ DOMAIN grp = Pids /\ daemonUp = TRUE /\ stray = {}
      /\ reaper = [st |-> "off", sigchld |-> FALSE, watched |-> {}, todo |-> {}]
  BY Zenon DEF KidInit
<1>3. kidScenario.foreign \subseteq Kids
  BY <1>2, KidAssumption, Zenon
<1>4. ASSUME NEW k \in Kids
      PROVE  /\ kid[k] \in KidType /\ kid[k].exit = "none"
             /\ kid[k].pid = NoPid <=> kid[k].st \in {"none", "armed"}
             /\ ~Foreign(k) => kid[k].pid = NoPid
             /\ ~Spawning(k)
  <2>1. CASE k \in kidScenario.foreign
    <3>1. kid[k] = [NoHandle EXCEPT !.st = "open", !.pid = pidOf[k]] /\ pidOf[k] \in Pids
      BY <1>1, <2>1, Zenon
    <3>2. kid[k] \in KidType /\ kid[k].exit = "none" /\ kid[k].pid = pidOf[k] /\ kid[k].st = "open"
      BY <3>1, Zenon DEF NoHandle, KidType
    <3> QED BY <2>1, <3>1, <3>2, KidAssumption, Zenon DEF Foreign, Spawning
  <2>2. CASE k \notin kidScenario.foreign
    <3>1. kid[k] = NoHandle
      BY <1>1, <2>2, Zenon
    <3> QED BY <3>1 DEF NoHandle, KidType, Spawning
  <2> QED BY <2>1, <2>2, Zenon
<1>5. ASSUME NEW pid \in Pids PROVE proc[pid] \in ProcType /\ Ending(proc[pid])
  <2>1. CASE \E k \in kidScenario.foreign : pidOf[k] = pid
    <3> DEFINE k == CHOOSE k \in kidScenario.foreign : pidOf[k] = pid
    <3>1. k \in Kids /\ proc[pid] = Child(k, "run")
      BY <1>1, <1>3, <2>1, Zenon
    <3> HIDE DEF k
    <3> QED BY <3>1, ChildType, Zenon
  <2>2. CASE ~\E k \in kidScenario.foreign : pidOf[k] = pid
    <3>1. proc[pid] = Free
      BY <1>1, <2>2, Zenon
    <3> QED BY <3>1, FreeType, Zenon
  <2> QED BY <2>1, <2>2, Zenon
<1>6. kid \in [Kids -> KidType] /\ proc \in [Pids -> ProcType]
  <2>1. kid = [k \in Kids |-> kid[k]] /\ proc = [pid \in Pids |-> proc[pid]]
    BY <1>1, Zenon
  <2> QED BY <1>4, <1>5, <2>1, Zenon
<1>7. KidTypeOK
  BY <1>2, <1>6, Zenon DEF KidTypeOK, ReaperType
<1>8. Handles
  BY <1>4, Zenon DEF Handles
<1>9. \A k \in Kids : ~Foreign(k) => Owns(k) /\ Recent(k)
  BY <1>4, Zenon DEF Owns, Recent
<1>10. Watchers
  BY <1>2, Zenon DEF Watchers
<1> QED BY <1>2, <1>5, <1>7, <1>8, <1>9, <1>10, Zenon DEF KidInv, NoStrangerSignalled

LEMMA KidStepKeeps == KidInv /\ [KidNext]_kidVars => KidInv'
<1> SUFFICES ASSUME KidInv, [KidNext]_kidVars PROVE KidInv'
  BY Zenon
<1>1. ASSUME NEW k \in Kids, Spawn(k) \/ Poll(k) \/ Close(k) \/ Shutdown(k) \/ SendSignal(k)
      PROVE  KidInv'
  BY <1>1, GetReaperKeeps, ForkKeeps, WatchKeeps, RegisterKeeps, PollKeeps, CloseKeeps, ExitSeenKeeps,
     GraceEndsKeeps, KillSeenKeeps, SendSignalKeeps, Zenon DEF Spawn, Shutdown
<1>2. ASSUME NEW pid \in Pids, Kernel(pid) \/ StartsJob(pid) \/ Quits(pid) \/ Recycle(pid)
      PROVE  KidInv'
  BY <1>2, ProcessStepKeeps, ExitsKeeps, RecycleKeeps, Zenon DEF Kernel
<1>3. CASE Reap
  BY <1>3, ScanKeeps, ReapOneKeeps, Zenon DEF Reap
<1>4. CASE UNCHANGED kidVars
  <2>1. Steady
    BY <1>4, SameHandles, Zenon DEF kidVars, KidInv, KidTypeOK
  <2>2. Gentle
    BY <1>4, UnchangedProcesses, Zenon DEF kidVars
  <2> QED BY <1>4, <2>1, <2>2, SteadyKeeps, Zenon DEF kidVars
<1> QED BY <1>1, <1>2, <1>3, <1>4, KeepAliveKeeps, DaemonExitsKeeps, Zenon DEF KidNext

\* No close (graceful_shutdown), failed spawn or drop of a handle (PtyProcess::
\* drop) ever signals a process that is not the pane's own child: however pids
\* are recycled, whatever the order of exits, the reaper's scans and the closes,
\* and for any number of panes.
THEOREM NoStrangerSignalledAlways == KidSpec => []NoStrangerSignalled
<1>1. KidInv => NoStrangerSignalled
  BY Zenon DEF KidInv
<1> QED BY <1>1, KidInitKeeps, KidStepKeeps, PTL DEF KidSpec
=============================================================================
