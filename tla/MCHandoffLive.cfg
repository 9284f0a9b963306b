CONSTANTS
  p1 = p1
  p2 = p2
  Panes = {p1, p2}
  MaxOut = 1
  MaxAttempts = 1
  Stalls = {"successor", "reader"}
  Events = {"create", "close", "sigterm", "hang_n"}
SPECIFICATION FairSpec
PROPERTIES HandsOverEachPty HandoffEnds CommitIsTakenOver
CHECK_DEADLOCK FALSE
