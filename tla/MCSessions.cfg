SPECIFICATION ViewSpec
CONSTANTS
  Words = {"w1", "w2", "w3"}
  Actors = {"a", "b", "c"}
  Watchers = {"a"}
  MaxSessions = 2
  ClosedKeep = 1
  Scenarios <- MCScenarios
CHECK_DEADLOCK FALSE
INVARIANTS SessionsWhole PtysAreOwned WordsAreKept ClosedIsDurable ClientFollows
