\* Two users, one of them logged in, two servers, two worlds; no server is lost.
CONSTANTS
  s1 = s1
  s2 = s2
  u1 = u1
  u2 = u2
  n1 = n1
  n2 = n2
  Users = {u1, u2}
  Servers = {s1, s2}
  Names = {n1, n2}
  NoServer = NoServer
  NoName = NoName
  MaxInst = 2
  MaxCmds = 3
  MaxLosses = 0
SPECIFICATION MCFairSpec
CHECK_DEADLOCK FALSE
PROPERTIES
  JoinAnswered
  OneAnswerPerRequest
