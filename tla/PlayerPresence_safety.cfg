\* Two servers, two users, two worlds; one link or process is lost.
CONSTANTS
  s1 = s1
  s2 = s2
  u1 = u1
  u2 = u2
  w1 = w1
  w2 = w2
  Users = {u1, u2}
  Servers = {s1, s2}
  Worlds = {w1, w2}
  SavedMonitors <- MCSaved
  SameId <- MCSameId
  NoServer = NoServer
  NoUser = NoUser
  MaxMonitors = 3
  MaxOps = 5
  MaxLosses = 1
SPECIFICATION Spec
SYMMETRY Symmetry
CHECK_DEADLOCK FALSE
INVARIANTS
  TypeOK
  SubscribersRegistered
  DirtyWatched
  NoForgottenSubscription
  SubscriptionAgrees
  SeesLogin
  AwaitedIsAsked
