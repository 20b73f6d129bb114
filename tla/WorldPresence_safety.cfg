\* Two servers, two worlds; counts change twice, one link or process is lost.
CONSTANTS
  s1 = s1
  s2 = s2
  w1 = w1
  w2 = w2
  w3 = w3
  Servers = {s1, s2}
  Worlds = {w1, w2}
  Infos = {0, 1}
  NewInfo = 0
  NoInfo = NoInfo
  NoServer = NoServer
  MaxElements = 2
  MaxChanges = 2
  MaxLosses = 1
SPECIFICATION Spec
SYMMETRY Symmetry
CHECK_DEADLOCK FALSE
INVARIANTS
  TypeOK
  QueueCompletesList
  ReportsReachMaster
  DirtyListed
  ListedOnline
