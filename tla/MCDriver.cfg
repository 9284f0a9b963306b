CONSTANTS
  MaxGen = 4
  Capacity = 3
  MaxAge = 1
  Silence = 1
  Batches = {1, 2}
  Sizes = {1, 2}
  Scenarios <- MCScenarios
SPECIFICATION Spec
INVARIANTS InputIsKept ViewIsRestored
PROPERTIES LinkComesBack
CHECK_DEADLOCK FALSE
