---------------------------- MODULE PtyHandover ----------------------------
(***************************************************************************)
(* What a handoff promises of a PTY, with no daemon, socket or checkpoint  *)
(* in sight: at any moment it has at most one reader, the old daemon's or  *)
(* the new one's; it changes hands only while nobody reads it and all that *)
(* was read is shown; and once new it is never old again.                  *)
(***************************************************************************)
EXTENDS Integers

CONSTANTS Panes, MaxOut

VARIABLES
  holder,  \* who reads the PTY: "old", "new", or "nobody"
  taken,   \* bytes that have left the kernel's buffer
  shown    \* bytes the holder's (or last holder's) emulator shows

vars == <<holder, taken, shown>>

Init ==
  /\ holder \in [Panes -> {"old", "nobody"}]
  /\ taken = [p \in Panes |-> 0]
  /\ shown = taken

Read(p) ==
  /\ holder[p] = "old" /\ taken[p] < MaxOut
  /\ taken' = [taken EXCEPT ![p] = @ + 1]
  /\ UNCHANGED <<holder, shown>>

Show(p) ==
  /\ holder[p] = "old" /\ shown[p] < taken[p]
  /\ shown' = [shown EXCEPT ![p] = @ + 1]
  /\ UNCHANGED <<holder, taken>>

(* The new holder reads and shows in one step.                             *)
ReadOn(p) ==
  /\ holder[p] = "new" /\ taken[p] < MaxOut
  /\ taken' = [taken EXCEPT ![p] = @ + 1]
  /\ shown' = [shown EXCEPT ![p] = @ + 1]
  /\ UNCHANGED holder

(* The old daemon starts or stops reading some PTYs.                       *)
OldReads(S) ==
  /\ \A p \in S : holder[p] # "new"
  /\ holder' \in [Panes -> {"old", "nobody", "new"}]
  /\ \A p \in Panes : IF p \in S THEN holder'[p] # "new" ELSE holder'[p] = holder[p]
  /\ UNCHANGED <<taken, shown>>

(* The new daemon adopts some PTYs nobody reads, showing all of each.      *)
Adopt(S) ==
  /\ \A p \in S : holder[p] = "nobody" /\ shown[p] = taken[p]
  /\ holder' = [p \in Panes |-> IF p \in S THEN "new" ELSE holder[p]]
  /\ UNCHANGED <<taken, shown>>

Next ==
  \/ \E p \in Panes : Read(p) \/ Show(p) \/ ReadOn(p)
  \/ \E S \in SUBSET Panes : OldReads(S) \/ Adopt(S)

Spec == Init /\ [][Next]_vars

=============================================================================
