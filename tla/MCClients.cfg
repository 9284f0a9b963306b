\* Two clients, three channels: a reconnect or a probe beside another client.
CONSTANTS
  u1 = u1
  u2 = u2
  Users = {u1, u2}
  MaxChannels = 3
  Sizes <- MCSizes
  Events = {"lock", "kick", "reap", "resize", "abandon", "idle"}
SPECIFICATION Spec
VIEW WhatMatters
SYMMETRY UserSymmetry
INVARIANTS NewestIsRegistered NoGhosts AttachedThroughCurrent SmallestWins
CHECK_DEADLOCK FALSE
