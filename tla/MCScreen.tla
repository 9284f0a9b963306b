------------------------------ MODULE MCScreen ------------------------------
(* Instances of Screen for TLC. *)
EXTENDS Screen, GridCases

Left(out, resize, link, view, forget) ==
    [out |-> out, resize |-> resize, link |-> link, view |-> view, forget |-> forget]

Case(ops, burst, left) == [ops |-> ops, burst |-> burst, wide |-> FALSE, left |-> left]

Off == Case({"print"}, 1, Left(0, 0, 0, 0, 0))

MCScenarios ==
    { Off,
      Case({"print", "last", "erase", "cursor"}, 1, Left(2, 0, 0, 0, 0)),
      Case({"scroll", "wipe", "flip", "restart"}, 2, Left(3, 0, 0, 0, 0)),
      Case({"scroll", "erase"}, 1, Left(2, 1, 0, 0, 0)),
      Case({"print", "cursor"}, 1, Left(2, 1, 0, 0, 0)),
      Case({"cursor"}, 1, Left(3, 1, 0, 0, 0)),
      Case({"scroll"}, 1, Left(3, 0, 1, 0, 0)),
      Case({"scroll", "wipe"}, 2, Left(4, 0, 0, 0, 0)),
      Case({"scroll", "wipe"}, 2, Left(3, 0, 0, 1, 0)),
      Case({"last"}, 1, Left(2, 0, 0, 0, 1)) }

MCShapes == UNION {[1..n -> {0, 1, 2, 4, 5}] : n \in 0..2}

MCInit ==
    /\ ScInit
    /\ GcInit
    /\ scScenario = Off \/ gc = GcNone

MCNext == ScNext /\ UNCHANGED gc

MCSpec == MCInit /\ [][MCNext]_<<scVars, gc>>

=============================================================================
