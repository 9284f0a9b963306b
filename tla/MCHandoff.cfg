CONSTANTS
  p1 = p1
  p2 = p2
  Panes = {p1}
  MaxOut = 1
  MaxAttempts = 2
  Stalls = {"successor", "reader", "checkpoint", "predecessor"}
  Events = {"crash_o", "crash_n", "hang_n", "create", "exit", "close", "tick", "sigterm", "stop"}
SPECIFICATION Spec
INVARIANTS OneServer NoSplitRead NothingLost ShellsSurvive ServingIsWhole
CHECK_DEADLOCK FALSE
