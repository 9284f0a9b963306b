----------------------------- MODULE MCSessions -----------------------------
(***************************************************************************)
(* Small instances of Sessions and SessionView.  A scenario gives the tasks  *)
(* at work, the sessions at the start and how many operations of each kind  *)
(* may happen; the task "a" belongs to a client that is followed to its     *)
(* screen, "b" and "c" are other connections of the daemon.                 *)
(***************************************************************************)
EXTENDS SessionView

None0 == [create |-> 0, tab |-> 0, split |-> 0, nudge |-> 0, close |-> 0, close_pane |-> 0,
          close_tab |-> 0, restore |-> 0, fail |-> 0, age |-> 0, tick |-> 0, crash |-> 0,
          full |-> 0, lag |-> 0, look |-> 0, join |-> 0]

Two == Split("v", <<500, 500>>, <<Leaf(0), Leaf(1)>>)

Run(actors, start, events) == [actors |-> actors, start |-> start, events |-> events]

\* Several tasks of the daemon, nobody looking.
Daemon == {
  Run({"b"}, "w1" :> <<Leaf(0)>>,
      [None0 EXCEPT !.split = 3, !.nudge = 1, !.close_pane = 2]),
  Run({"b", "c"}, "w1" :> <<Leaf(0), Leaf(1)>>,
      [None0 EXCEPT !.split = 1, !.close_tab = 1, !.close_pane = 1]),
  Run({"b", "c"}, "w1" :> <<Leaf(0), Leaf(1)>>,
      [None0 EXCEPT !.close = 1, !.close_tab = 1]),
  Run({"b", "c"}, "w1" :> <<Leaf(0)>>,
      [None0 EXCEPT !.close = 1, !.close_pane = 1, !.restore = 1, !.fail = 1]),
  Run({"b", "c"}, "w1" :> <<Leaf(0)>> @@ "w2" :> <<Leaf(0)>>,
      [None0 EXCEPT !.close = 2, !.restore = 1, !.age = 1, !.tick = 1, !.crash = 1]),
  Run({"b", "c"}, "w1" :> <<Leaf(0)>>,
      [None0 EXCEPT !.close = 1, !.split = 1, !.restore = 1, !.tab = 1]),
  Run({"b", "c"}, "w1" :> <<Leaf(0)>>,
      [None0 EXCEPT !.create = 2, !.fail = 1, !.close = 1, !.crash = 1]),
  Run({"b"}, "w1" :> <<Leaf(0)>> @@ "w2" :> <<Leaf(0)>>,
      [None0 EXCEPT !.close = 2, !.restore = 1, !.age = 1, !.tick = 1, !.crash = 1, !.full = 1]),
  Run({"b", "c"}, "w1" :> <<Two>>,
      [None0 EXCEPT !.close_pane = 1, !.close_tab = 1, !.nudge = 1, !.split = 1])}

\* One client looking on.
Looking == {
  Run({"a"}, "w1" :> <<Leaf(0), Leaf(1)>>,
      [None0 EXCEPT !.tab = 1, !.close_tab = 1]),
  Run({"a"}, "w1" :> <<Leaf(0)>>,
      [None0 EXCEPT !.create = 1, !.lag = 1]),
  Run({"a", "b"}, "w1" :> <<Two>>,
      [None0 EXCEPT !.split = 1, !.close_pane = 1]),
  Run({"a", "b"}, "w1" :> <<Two, Leaf(2)>>,
      [None0 EXCEPT !.nudge = 1, !.look = 1, !.lag = 1]),
  Run({"a", "b"}, "w1" :> <<Leaf(0), Leaf(1)>>,
      [None0 EXCEPT !.close_tab = 1, !.lag = 1, !.look = 1]),
  Run({"a", "b"}, "w1" :> <<Leaf(0)>> @@ "w2" :> <<Leaf(0)>>,
      [None0 EXCEPT !.close = 1, !.look = 1, !.create = 1]),
  Run({"a", "b"}, "w1" :> <<Leaf(0)>>,
      [None0 EXCEPT !.close_pane = 1, !.tab = 1]),
  Run({"a", "b"}, "w1" :> <<Two>>,
      [None0 EXCEPT !.close_pane = 1, !.look = 2]),
  Run({"a", "b"}, "w1" :> <<Leaf(0)>>,
      [None0 EXCEPT !.close = 1, !.restore = 1, !.join = 1]),
  Run({"a", "b"}, "w1" :> <<Leaf(0)>>,
      [None0 EXCEPT !.close = 1, !.restore = 1, !.look = 1, !.lag = 1]),
  Run({"a", "b"}, "w1" :> <<Leaf(0)>>,
      [None0 EXCEPT !.split = 1, !.close_pane = 1, !.lag = 1]),
  Run({"a", "b"}, "w1" :> <<Two>>,
      [None0 EXCEPT !.close_pane = 1, !.lag = 2]),
  Run({"a", "b"}, "w1" :> <<Leaf(0)>>,
      [None0 EXCEPT !.split = 1, !.join = 1]),
  Run({"a", "b"}, "w1" :> <<Leaf(0)>> @@ "w2" :> <<Leaf(0)>>,
      [None0 EXCEPT !.close = 1, !.restore = 1, !.lag = 1])}

MCScenarios == Daemon \union Looking

=============================================================================
