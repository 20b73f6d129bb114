\* A server is lost with a player on it whom another server watches.
CONSTANTS
  s1 = s1
  s2 = s2
  u1 = u1
  u2 = u2
  w1 = w1
  w2 = w2
  Users = {u1, u2}
  Servers = {s1, s2}
  Worlds = {w1, w2}
  SavedMonitors <- MCSaved
  SameId <- MCSameId
  NoServer = NoServer
  NoUser = NoUser
  MaxMonitors = 3
  MaxOps = 3
  MaxLosses = 1
SPECIFICATION Spec
SYMMETRY Symmetry
CHECK_DEADLOCK FALSE
INVARIANT
  SeesLogout
