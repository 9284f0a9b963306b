------------------------------ MODULE MCEngine ------------------------------
(* Instances of Engine for TLC: each scenario is a set of budgets.         *)
EXTENDS Engine, TLC

None == [boot |-> 0, type |-> 0, wedge |-> 0, crash |-> 0, corrupt |-> 0,
         window |-> 0, handoff |-> 0, resize |-> 0, close |-> 0, out |-> 0,
         sleep |-> 0, exit |-> 0, flood |-> 0, garble |-> 0, reap |-> 0]

Case(budget) == [budget |-> budget @@ None]

\* A handoff's hold against input, and a shell that writes and may not read.
Holding ==
    {Case([handoff |-> 2, type |-> 2]),
     Case([handoff |-> 1, type |-> 2, sleep |-> 1]),
     Case([handoff |-> 2, type |-> 1, out |-> 1, exit |-> 1])}

\* Crashes and hangs, respawns, their budgets.
Faulting ==
    {Case([crash |-> 2, out |-> 2, window |-> 1]),
     Case([wedge |-> 2, out |-> 2, type |-> 1]),
     Case([wedge |-> 1, crash |-> 1, out |-> 1, exit |-> 1]),
     Case([crash |-> 1, boot |-> 1, out |-> 1, exit |-> 1]),
     Case([corrupt |-> 1, crash |-> 1, out |-> 2]),
     Case([flood |-> 1, out |-> 2, type |-> 1]),
     Case([garble |-> 1, out |-> 1, type |-> 1]),
     Case([crash |-> 1, reap |-> 1, out |-> 1])}

\* Faults under a handoff, a resize or the close of the pane.
Crossing ==
    {Case([handoff |-> 1, crash |-> 1, out |-> 2]),
     Case([handoff |-> 1, corrupt |-> 1, out |-> 1]),
     Case([handoff |-> 1, wedge |-> 1, out |-> 2]),
     Case([crash |-> 1, resize |-> 1, out |-> 2]),
     Case([handoff |-> 1, resize |-> 1, out |-> 2]),
     Case([handoff |-> 1, flood |-> 1, out |-> 2]),
     Case([close |-> 1, crash |-> 1, type |-> 1]),
     Case([close |-> 1, handoff |-> 1, wedge |-> 1, out |-> 1])}

\* A worker that never comes up, a shell that does not read.
Falling ==
    {Case([boot |-> 1, type |-> 2, out |-> 2, exit |-> 1]),
     Case([type |-> 2, sleep |-> 1, close |-> 1])}

MCScenarios == Holding \cup Faulting \cup Crossing \cup Falling

=============================================================================
