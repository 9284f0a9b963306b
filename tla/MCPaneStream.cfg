CONSTANTS
  c1 = c1
  c2 = c2
  Cells = {c1}
  MaxFeeds = 1
  DigestEvery = 2
  Retained = 2
  MaxDelta = 1
  ChanCap = 1
  Capacity = 6
  MaxAttaches = 3
  MaxScrolls = 1
  MaxOther = 0
  OtherFrom = 0
  MaxLinks = 2
  MaxResizes = 1
  Windows = {"abort", "reap", "overlap"}
  Events = {"drop", "swap"}
SPECIFICATION Spec
SYMMETRY CellSymmetry
INVARIANTS SyncedIsWhole
CHECK_DEADLOCK FALSE
