CONSTANTS
  c1 = c1
  c2 = c2
  Cells = {c1}
  MaxFeeds = 2
  DigestEvery = 2
  Retained = 2
  MaxDelta = 1
  ChanCap = 1
  Capacity = 6
  MaxAttaches = 5
  MaxScrolls = 1
  MaxOther = 1
  OtherFrom = 4
  MaxLinks = 2
  MaxResizes = 0
  Windows = {}
  Events = {"drop"}
SPECIFICATION FairSpec
INVARIANTS DataLeavesReserve NoFrameSkipped
PROPERTIES CatchesUp
CHECK_DEADLOCK FALSE
