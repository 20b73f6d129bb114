\* Two servers, two worlds; counts change once, one link or process is lost.
CONSTANTS
  s1 = s1
  s2 = s2
  w1 = w1
  w2 = w2
  w3 = w3
  Servers = {s1, s2}
  Worlds = {w1, w2}
  Infos = {0, 1}
  NewInfo = 0
  NoInfo = NoInfo
  NoServer = NoServer
  MaxElements = 2
  MaxChanges = 1
  MaxLosses = 1
SPECIFICATION FairVSpec
CHECK_DEADLOCK FALSE
PROPERTIES
  ListsSettle
  ImplementsWorldList
