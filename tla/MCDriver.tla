------------------------------ MODULE MCDriver ------------------------------
(* Instances of Driver for TLC. *)
EXTENDS Driver

Budgets == {"keys", "reconnects", "cancels", "disconnects", "pauses", "windows", "exemptions", "resizes",
            "closes", "undos", "expands", "collapses", "fails", "refusals", "drops", "dies", "stalls",
            "output", "elapse"}

None == [b \in Budgets |-> 0]

Case(local, budget) ==
  [local |-> local, desired |-> FALSE, peer_errors |-> {}, left |-> budget @@ None]

\* With a remote that fails to open, by name or not, and that --server asks for or not.
Remote(desired, errors, budget) ==
  [Case(TRUE, budget) EXCEPT !.desired = desired, !.peer_errors = errors]

\* Typing through an outage: a dropped link, a daemon that restarts, one that hangs; a
\* retry that fails; input too old or too much to hold.
Typing ==
  {Case(TRUE, [keys |-> 3, drops |-> 1]),
   Case(TRUE, [keys |-> 2, drops |-> 1, fails |-> 1, elapse |-> 2]),
   Case(TRUE, [keys |-> 2, drops |-> 1, dies |-> 1]),
   Case(TRUE, [keys |-> 2, stalls |-> 1, elapse |-> 2])}

\* A user who does not wait: manual reconnects, cancelled and refused bootstraps, leaving.
Impatient ==
  {Case(TRUE, [keys |-> 1, reconnects |-> 2, cancels |-> 1]),
   Case(TRUE, [reconnects |-> 1, refusals |-> 1, fails |-> 1, drops |-> 1]),
   Case(TRUE, [keys |-> 1, disconnects |-> 1, drops |-> 1])}

\* Pausing, by hand or with the window, and output meanwhile.
Pausing ==
  {Case(FALSE, [pauses |-> 1, windows |-> 2, output |-> 2, keys |-> 1]),
   Case(FALSE, [windows |-> 2, exemptions |-> 1, output |-> 2]),
   Case(FALSE, [pauses |-> 1, windows |-> 1, output |-> 1, drops |-> 1]),
   Case(TRUE, [windows |-> 2, output |-> 1])}

\* What the next link must be told again: sizes, a close whose grace ends, remotes.
Retelling ==
  {Case(TRUE, [resizes |-> 2, drops |-> 1, dies |-> 1]),
   Case(TRUE, [resizes |-> 1, stalls |-> 1, elapse |-> 2, fails |-> 1]),
   Case(TRUE, [closes |-> 2, undos |-> 1, drops |-> 1]),
   Remote(FALSE, {TRUE}, [expands |-> 2, collapses |-> 1, drops |-> 1]),
   Case(TRUE, [expands |-> 1, collapses |-> 1, dies |-> 1]),
   Remote(TRUE, {TRUE}, [collapses |-> 1, dies |-> 1]),
   Remote(TRUE, {TRUE, FALSE}, [reconnects |-> 1, keys |-> 1])}

MCScenarios == Typing \union Impatient \union Pausing \union Retelling
=============================================================================
