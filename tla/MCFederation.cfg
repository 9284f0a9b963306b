CONSTANTS
  c1 = c1
  c2 = c2
  Clients = {c1, c2}
  MaxChannels = 2
  Sizes = {1, 2}
  Scenarios <- MCScenarios
  hostP = hostP
  hostQ = hostQ
  rem1 = rem1
  rem2 = rem2
  wordA = wordA
  wordB = wordB
  wordC = wordC
  wordD = wordD
  gui1 = gui1
  gui2 = gui2
  Peers = {hostP, hostQ}
  Remotes = {rem1, rem2}
  Words = {wordA, wordB, wordC, wordD}
  Guis = {gui1, gui2}
  FpScenarios <- MCFpScenarios
SPECIFICATION MCSpec
SYMMETRY ClientSymmetry
INVARIANTS AnswerReachesAsker PaneAgrees WordOwnedOnce NoTunnelLeak ListingConverges
CHECK_DEADLOCK FALSE
