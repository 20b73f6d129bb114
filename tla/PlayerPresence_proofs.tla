----------------------- MODULE PlayerPresence_proofs -----------------------
(***************************************************************************)
(* Proofs about PlayerPresence for any users, servers, worlds and bounds.  *)
(* The Master's invariant, the type of the queues and the invariant of the *)
(* game servers are inductive each on its own; that a world waits only for *)
(* what is asked for relates all three.                                    *)
(***************************************************************************)
EXTENDS PlayerPresence, FiniteSetTheorems, TLAPS

(* The Master.                                                             *)

MasterInv == MasterTypeOK /\ SubscribersRegistered /\ DirtyWatched

LEMMA MasterInit == Init => MasterInv
BY DEF Init, MasterInv, MasterTypeOK, SubscribersRegistered, DirtyWatched

LEMMA MasterUnchanged == MasterInv /\ UNCHANGED masterVars => MasterInv'
BY DEF MasterInv, masterVars, MasterTypeOK, SubscribersRegistered, DirtyWatched

LEMMA SubscriptionStep ==
  ASSUME MasterInv, NEW s \in Servers, NEW U \in SUBSET Users,
         PlayerSubscribe(s, U) \/ PlayerUnSubscribe(s, U)
  PROVE  MasterInv'
<1>1. CASE PlayerSubscribe(s, U)
  BY <1>1 DEF MasterInv, MasterTypeOK, SubscribersRegistered, DirtyWatched, PlayerSubscribe, FromServer
<1>2. CASE PlayerUnSubscribe(s, U)
  BY <1>2 DEF MasterInv, MasterTypeOK, SubscribersRegistered, DirtyWatched, PlayerUnSubscribe, Unsubscribed, LastLeft
<1> QED BY <1>1, <1>2

LEMMA SessionStep == ASSUME MasterInv, Sessions PROVE MasterInv'
<1>1. UNCHANGED <<registered, subs>>
  BY DEF Sessions, CreateSession, MoveSession, EndSession
<1>2. dirty' \subseteq Users /\ \A u \in dirty' : u \in dirty \/ subs[u] # {}
  BY DEF MasterInv, MasterTypeOK, Sessions, CreateSession, MoveSession, EndSession, OnPlayerStatusChanged
<1>3. session' \in [Users -> Servers \cup {NoServer}]
  BY DEF MasterInv, MasterTypeOK, Sessions, CreateSession, MoveSession, EndSession
<1> QED BY <1>1, <1>2, <1>3 DEF MasterInv, MasterTypeOK, SubscribersRegistered, DirtyWatched

LEMMA ServerStep ==
  ASSUME MasterInv, NEW s \in Servers, AddServer(s) \/ RemoveServer(s)
  PROVE  MasterInv'
<1>1. CASE AddServer(s)
  BY <1>1 DEF MasterInv, MasterTypeOK, SubscribersRegistered, DirtyWatched, AddServer
<1>2. CASE RemoveServer(s)
  <2>1. registered' = [registered EXCEPT ![s] = FALSE] /\ subs' = [u \in Users |-> subs[u] \ {s}]
    BY <1>2 DEF RemoveServer, Unsubscribed
  <2>2. session' \in [Users -> Servers \cup {NoServer}]
    BY <1>2 DEF MasterInv, MasterTypeOK, RemoveServer, EndSessionsByServer, Reported
  <2>3. dirty' \subseteq Users /\ \A u \in dirty' : (u \in dirty /\ u \notin LastLeft(s, Users)) \/ subs[u] \ {s} # {}
    BY <1>2 DEF MasterInv, MasterTypeOK, RemoveServer, EndSessionsByServer, Reported
  <2>4. \A u \in dirty' : subs[u] \ {s} # {}
    BY <2>3 DEF MasterInv, MasterTypeOK, DirtyWatched, LastLeft
  <2> QED BY <2>1, <2>2, <2>3, <2>4 DEF MasterInv, MasterTypeOK, SubscribersRegistered, DirtyWatched
<1> QED BY <1>1, <1>2

LEMMA MasterNext == MasterInv /\ [Next]_vars => MasterInv'
<1> SUFFICES ASSUME MasterInv, [Next]_vars PROVE MasterInv'
  OBVIOUS
<1>1. CASE FlushPresence
  BY <1>1 DEF FlushPresence, MasterInv, MasterTypeOK, SubscribersRegistered, DirtyWatched
<1>2. CASE Sessions
  BY <1>2, SessionStep
<1>3. ASSUME NEW s \in Servers, FromServerHandlers(s) PROVE MasterInv'
  BY <1>3, SubscriptionStep DEF FromServerHandlers
<1>4. ASSUME NEW s \in Servers, AddServer(s) \/ RemoveServer(s) PROVE MasterInv'
  BY <1>4, ServerStep
<1>5. ASSUME NEW s \in Servers,
             FromMasterHandlers(s) \/ UpdateSubscribe(s) \/ UpdateUnsubscribe(s) \/ WorldSteps(s)
               \/ LoseLink(s) \/ Crash(s)
      PROVE  MasterInv'
  <2>1. UNCHANGED masterVars
    BY <1>5, Zenon DEF FromMasterHandlers, OnUpdate, OnSnapshot, UpdateSubscribe, UpdateUnsubscribe, WorldSteps,
       StartWorldLoad, OnHeartMonitorAdded, OnHeartMonitorRemoved, LoseLink, Crash
  <2> QED BY <2>1, MasterUnchanged
<1>6. CASE UNCHANGED vars
  BY <1>6, MasterUnchanged DEF vars
<1> QED BY <1>1, <1>2, <1>3, <1>4, <1>5, <1>6, Zenon DEF Next

(* The Master's part: types, known subscribers and watched changes.        *)
THEOREM MasterCorrect == Spec => []MasterInv
<1>1. MasterInv /\ [Next]_vars => MasterInv'
  BY MasterNext
<1> QED BY MasterInit, <1>1, PTL DEF Spec

(* The Master only ever names servers it knows as subscribers.             *)
THEOREM SubscribersAreRegistered == Spec => []SubscribersRegistered
<1>1. MasterInv => SubscribersRegistered
  BY DEF MasterInv
<1> QED BY <1>1, MasterCorrect, PTL

(* A status change is kept only while somebody is subscribed to the user.  *)
THEOREM ChangesAreWatched == Spec => []DirtyWatched
<1>1. MasterInv => DirtyWatched
  BY DEF MasterInv
<1> QED BY <1>1, MasterCorrect, PTL

-----------------------------------------------------------------------------
(* The queues.                                                             *)

LEMMA PacketsTyped ==
  /\ \A U \in SUBSET Users : Subscribe(U) \in UpMsg /\ Unsubscribe(U) \in UpMsg
  /\ \A U \in SUBSET Users : Snapshot(BuildElements(U)) \in DownMsg /\ Update(BuildElements(U)) \in DownMsg
<1>1. \A U \in SUBSET Users : Subscribe(U) \in UpMsg /\ Unsubscribe(U) \in UpMsg
  BY DEF Subscribe, Unsubscribe, UpMsg
<1>2. \A U \in SUBSET Users : BuildElements(U) \in [U -> BOOLEAN]
  BY DEF BuildElements, Online
<1>3. \A U \in SUBSET Users : BuildElements(U) \in UNION {[V -> BOOLEAN] : V \in SUBSET Users}
  BY <1>2
<1> QED BY <1>1, <1>3 DEF Snapshot, Update, DownMsg

LEMMA ToMasterTyped ==
  ASSUME QueuesTypeOK, NEW s \in Servers, NEW U, NEW m \in UpMsg, ToMaster(s, U, m)
  PROVE  up' \in [Servers -> Seq(UpMsg)]
BY DEF QueuesTypeOK, ToMaster

LEMMA TailTyped == ASSUME NEW S, NEW q \in Seq(S), q # <<>> PROVE Tail(q) \in Seq(S)
OBVIOUS

LEMMA FromServerTyped ==
  ASSUME QueuesTypeOK, NEW s \in Servers, NEW m, FromServer(s, m)
  PROVE  up' \in [Servers -> Seq(UpMsg)]
<1>1. Tail(up[s]) \in Seq(UpMsg) /\ up' = [up EXCEPT ![s] = Tail(up[s])]
  BY TailTyped DEF FromServer, QueuesTypeOK
<1> QED BY <1>1 DEF QueuesTypeOK

LEMMA FromMasterTyped ==
  ASSUME QueuesTypeOK, NEW s \in Servers, NEW m, FromMaster(s, m)
  PROVE  down' \in [Servers -> Seq(DownMsg)]
<1>1. Tail(down[s]) \in Seq(DownMsg) /\ down' = [down EXCEPT ![s] = Tail(down[s])]
  BY TailTyped DEF FromMaster, QueuesTypeOK
<1> QED BY <1>1 DEF QueuesTypeOK

LEMMA QueuesNext ==
  ASSUME MasterTypeOK, QueuesTypeOK, GameTypeOK, [Next]_vars
  PROVE  QueuesTypeOK'
<1>1. CASE FlushPresence
  <2>1. \A s \in Servers : ChangedFor(s) \in SUBSET Users
    BY DEF MasterTypeOK, ChangedFor
  <2>2. \A s \in Servers : Append(down[s], Update(BuildElements(ChangedFor(s)))) \in Seq(DownMsg)
    BY <2>1, PacketsTyped DEF QueuesTypeOK
  <2> QED BY <1>1, <2>2 DEF FlushPresence, QueuesTypeOK
<1>2. CASE Sessions
  BY <1>2 DEF Sessions, CreateSession, MoveSession, EndSession, QueuesTypeOK
<1>3. ASSUME NEW s \in Servers, FromServerHandlers(s) PROVE QueuesTypeOK'
  <2>1. PICK U \in SUBSET Users : PlayerSubscribe(s, U) \/ PlayerUnSubscribe(s, U)
    BY <1>3 DEF FromServerHandlers
  <2>2. up' \in [Servers -> Seq(UpMsg)]
    BY <2>1, FromServerTyped DEF PlayerSubscribe, PlayerUnSubscribe
  <2>3. Append(down[s], Snapshot(BuildElements(U))) \in Seq(DownMsg)
    BY PacketsTyped DEF QueuesTypeOK
  <2>4. down' \in [Servers -> Seq(DownMsg)]
    BY <2>1, <2>3 DEF PlayerSubscribe, PlayerUnSubscribe, QueuesTypeOK
  <2> QED BY <1>3, <2>2, <2>4 DEF FromServerHandlers, QueuesTypeOK
<1>4. ASSUME NEW s \in Servers, FromMasterHandlers(s) PROVE QueuesTypeOK'
  <2>1. down' \in [Servers -> Seq(DownMsg)] /\ UNCHANGED <<up, proc>>
    BY <1>4, FromMasterTyped DEF FromMasterHandlers, OnUpdate, OnSnapshot
  <2> QED BY <2>1 DEF QueuesTypeOK
<1>5. ASSUME NEW s \in Servers, UpdateSubscribe(s) \/ UpdateUnsubscribe(s) PROVE QueuesTypeOK'
  <2>1. PICK U \in SUBSET Users : ToMaster(s, U, Subscribe(U)) \/ ToMaster(s, U, Unsubscribe(U))
    BY <1>5 DEF UpdateSubscribe, UpdateUnsubscribe, GameTypeOK
  <2>2. up' \in [Servers -> Seq(UpMsg)]
    BY <2>1, PacketsTyped, ToMasterTyped
  <2> QED BY <1>5, <2>2 DEF UpdateSubscribe, UpdateUnsubscribe, QueuesTypeOK
<1>6. ASSUME NEW s \in Servers, WorldSteps(s) PROVE QueuesTypeOK'
  <2>1. UNCHANGED <<down, proc>>
    BY <1>6, Zenon DEF WorldSteps, StartWorldLoad, OnHeartMonitorAdded, OnHeartMonitorRemoved
  <2>2. up' = up \/ \E U \in SUBSET Users : ToMaster(s, U, Subscribe(U))
    <3>1. \A n : NewlyNeeded(s, n) \in SUBSET Users
      BY DEF NewlyNeeded
    <3> QED BY <1>6, <3>1, Zenon DEF WorldSteps, StartWorldLoad, OnHeartMonitorAdded, OnHeartMonitorRemoved,
              RequestPresenceAsap, RequestPresenceLater
  <2>3. up' \in [Servers -> Seq(UpMsg)]
    BY <2>2, PacketsTyped, ToMasterTyped DEF QueuesTypeOK
  <2> QED BY <2>1, <2>3 DEF QueuesTypeOK
<1>7. ASSUME NEW s \in Servers, AddServer(s) \/ RemoveServer(s) \/ LoseLink(s) \/ Crash(s) PROVE QueuesTypeOK'
  <2>1. up' = up \/ up' = [up EXCEPT ![s] = <<>>]
    BY <1>7, Zenon DEF AddServer, RemoveServer, LoseLink, Crash
  <2>2. down' = down \/ down' = [down EXCEPT ![s] = <<>>]
    BY <1>7, Zenon DEF AddServer, RemoveServer, LoseLink, Crash
  <2>3. proc' = proc \/ \E st \in {"down", "linked", "cut"} : proc' = [proc EXCEPT ![s] = st]
    BY <1>7, Zenon DEF AddServer, RemoveServer, LoseLink, Crash
  <2>4. <<>> \in Seq(UpMsg) /\ <<>> \in Seq(DownMsg)
    OBVIOUS
  <2>5. up' \in [Servers -> Seq(UpMsg)]
    BY <2>1, <2>4 DEF QueuesTypeOK
  <2>6. down' \in [Servers -> Seq(DownMsg)]
    BY <2>2, <2>4 DEF QueuesTypeOK
  <2>7. proc' \in [Servers -> {"down", "linked", "cut"}]
    BY <2>3 DEF QueuesTypeOK
  <2> QED BY <2>5, <2>6, <2>7 DEF QueuesTypeOK
<1>8. CASE UNCHANGED vars
  BY <1>8 DEF vars, QueuesTypeOK
<1> QED BY <1>1, <1>2, <1>3, <1>4, <1>5, <1>6, <1>7, <1>8, Zenon DEF Next

-----------------------------------------------------------------------------
(* The game servers.                                                       *)

Watch == PresenceRecord \cup {NoPresence}

WatchInv ==
  /\ presence \in [Servers -> [Users -> Watch]]
  /\ toSub \in [Servers -> SUBSET Users]
  /\ toUnsub \in [Servers -> SUBSET Users]
  /\ NoForgottenSubscription
WorldsTyped ==
  /\ world \in [Servers -> [Worlds -> {"none", "loading", "ready"}]]
  /\ awaited \in [Servers -> [Worlds -> SUBSET Users]]
  /\ monitors \in [Servers -> [Worlds -> [Users -> Nat]]]
GameInv == WatchInv /\ WorldsTyped

LEMMA GameInvTyped == GameInv => GameTypeOK /\ NoForgottenSubscription
BY DEF GameInv, WatchInv, WorldsTyped, GameTypeOK, Watch

LEMMA GameInit == Init => GameInv
<1> SUFFICES ASSUME Init PROVE GameInv
  OBVIOUS
<1>1. NoPresence \in Watch /\ NoPresence.ref = -1
  BY DEF Watch, NoPresence
<1>2. WatchInv
  BY <1>1 DEF Init, WatchInv, NoForgottenSubscription
<1>3. WorldsTyped
  BY DEF Init, WorldsTyped
<1> QED BY <1>2, <1>3 DEF GameInv

(* The count of a watched user is a number, that of another is -1.         *)
LEMMA WatchFields ==
  ASSUME NEW p \in Watch
  PROVE  /\ p.ref \in Nat \cup {-1} /\ p.on \in BOOLEAN
         /\ p.ref = -1 <=> p = NoPresence
         /\ p # NoPresence => p \in PresenceRecord
<1>1. CASE p \in PresenceRecord
  <2>1. p.ref \in Nat /\ p.on \in BOOLEAN
    BY <1>1 DEF PresenceRecord
  <2>2. NoPresence.ref = -1
    BY DEF NoPresence
  <2> QED BY <1>1, <2>1, <2>2
<1>2. CASE p = NoPresence
  BY <1>2 DEF NoPresence
<1> QED BY <1>1, <1>2 DEF Watch

LEMMA RefField ==
  ASSUME NEW a, NEW b, NEW n
  PROVE  [[ref |-> a, on |-> b] EXCEPT !.ref = n] = [ref |-> n, on |-> b]
OBVIOUS

LEMMA RefUpdate ==
  ASSUME NEW p \in Watch, NEW n \in Nat
  PROVE  [p EXCEPT !.ref = n] \in Watch /\ [p EXCEPT !.ref = n].ref = n
<1>1. CASE p \in PresenceRecord
  BY <1>1 DEF Watch, PresenceRecord
<1>2. CASE p = NoPresence
  <2>1. [p EXCEPT !.ref = n] = [ref |-> n, on |-> FALSE]
    BY <1>2, RefField DEF NoPresence
  <2> QED BY <2>1 DEF Watch, PresenceRecord
<1> QED BY <1>1, <1>2 DEF Watch

LEMMA OnUpdateTyped ==
  ASSUME NEW p \in Watch, p # NoPresence, NEW b \in BOOLEAN
  PROVE  [p EXCEPT !.on = b] \in Watch /\ [p EXCEPT !.on = b].ref = p.ref
<1>1. p \in PresenceRecord
  BY WatchFields
<1> QED BY <1>1 DEF Watch, PresenceRecord

LEMMA NeededTyped ==
  ASSUME WatchInv, NEW s \in Servers, NEW n \in [Users -> Nat]
  PROVE  /\ Needed(s, n) \in [Users -> Watch]
         /\ \A u \in Users : /\ n[u] = 0 => Needed(s, n)[u] = presence[s][u]
                             /\ n[u] > 0 => Needed(s, n)[u].ref > 0
<1>1. ASSUME NEW u \in Users
      PROVE  /\ Needed(s, n)[u] \in Watch
             /\ n[u] = 0 => Needed(s, n)[u] = presence[s][u]
             /\ n[u] > 0 => Needed(s, n)[u].ref > 0
  <2> DEFINE p == presence[s][u]
             k == IF p.ref = -1 THEN n[u] ELSE p.ref + n[u]
  <2>1. p \in Watch /\ p.ref \in Nat \cup {-1}
    BY WatchFields DEF WatchInv
  <2>2. k \in Nat /\ (n[u] > 0 => k > 0)
    BY <2>1
  <2>3. Needed(s, n)[u] = IF n[u] = 0 THEN p ELSE [p EXCEPT !.ref = k]
    BY DEF Needed
  <2> HIDE DEF k, p
  <2>4. [p EXCEPT !.ref = k] \in Watch /\ [p EXCEPT !.ref = k].ref = k
    BY <2>1, <2>2, RefUpdate
  <2>5. n[u] \in Nat
    OBVIOUS
  <2>6. CASE n[u] = 0
    BY <2>1, <2>3, <2>6 DEF p
  <2>7. CASE n[u] > 0
    BY <2>2, <2>3, <2>4, <2>7
  <2> QED BY <2>5, <2>6, <2>7
<1> QED BY <1>1 DEF Needed

LEMMA RequestStep ==
  ASSUME WatchInv, NEW s \in Servers, NEW n \in [Users -> Nat],
         presence' = [presence EXCEPT ![s] = Needed(s, n)],
         \/ toSub' = [toSub EXCEPT ![s] = @ \cup NewlyNeeded(s, n)]
         \/ toSub' = [toSub EXCEPT ![s] = @ \ NewlyNeeded(s, n)],
         toUnsub' = [toUnsub EXCEPT ![s] = @ \ NewlyNeeded(s, n)]
  PROVE  WatchInv'
<1>1. NewlyNeeded(s, n) \subseteq Users
  BY DEF NewlyNeeded
<1>2. /\ presence' \in [Servers -> [Users -> Watch]]
      /\ toSub' \in [Servers -> SUBSET Users]
      /\ toUnsub' \in [Servers -> SUBSET Users]
  <2>1. presence' \in [Servers -> [Users -> Watch]]
    BY NeededTyped DEF WatchInv
  <2>2. toSub' \in [Servers -> SUBSET Users]
    BY <1>1 DEF WatchInv
  <2>3. toUnsub' \in [Servers -> SUBSET Users]
    BY <1>1 DEF WatchInv
  <2> QED BY <2>1, <2>2, <2>3
<1>3. ASSUME NEW t \in Servers, NEW u \in Users
      PROVE  /\ presence'[t][u].ref = 0 => u \in toUnsub'[t]
             /\ u \in toSub'[t] => presence'[t][u].ref > 0 /\ u \notin toUnsub'[t]
  <2>1. CASE t # s
    BY <2>1 DEF WatchInv, NoForgottenSubscription
  <2>2. CASE t = s /\ n[u] = 0
    <3>1. presence'[t][u] = presence[s][u] /\ u \notin NewlyNeeded(s, n)
      BY <2>2, NeededTyped DEF WatchInv, NewlyNeeded
    <3> QED BY <2>2, <3>1 DEF WatchInv, NoForgottenSubscription
  <2>3. CASE t = s /\ n[u] > 0
    <3>1. presence'[t][u].ref > 0 /\ presence'[t][u].ref # 0
      BY <2>3, NeededTyped DEF WatchInv
    <3>2. u \in NewlyNeeded(s, n) \/ presence[s][u].ref > 0
      BY <2>3, WatchFields DEF WatchInv, NewlyNeeded
    <3> QED BY <2>3, <3>1, <3>2 DEF WatchInv, NoForgottenSubscription
  <2>4. n[u] \in Nat
    OBVIOUS
  <2> QED BY <2>1, <2>2, <2>3, <2>4
<1> QED BY <1>2, <1>3, Zenon DEF WatchInv, NoForgottenSubscription

LEMMA ReleaseStep ==
  ASSUME WatchInv, NEW s \in Servers, NEW u \in Users, ReleasePresence(s, u)
  PROVE  WatchInv'
<1> DEFINE p == presence[s][u]
<1>1. p \in Watch /\ p.ref \in Nat \cup {-1}
  BY WatchFields DEF WatchInv
<1>2. CASE p.ref > 0
  <2> DEFINE q == [p EXCEPT !.ref = p.ref - 1]
  <2>0. p.ref - 1 \in Nat
    BY <1>1, <1>2
  <2> HIDE DEF p
  <2>1. q \in Watch /\ q.ref = p.ref - 1
    BY <1>1, <2>0, RefUpdate
  <2> USE DEF p
  <2>2. presence' = [presence EXCEPT ![s][u] = q]
    BY <1>2 DEF ReleasePresence
  <2>3. /\ toSub' = IF p.ref = 1 THEN [toSub EXCEPT ![s] = @ \ {u}] ELSE toSub
        /\ toUnsub' = IF p.ref = 1 THEN [toUnsub EXCEPT ![s] = @ \cup {u}] ELSE toUnsub
    BY <1>1, <1>2 DEF ReleasePresence
  <2> HIDE DEF q
  <2>4. /\ presence' \in [Servers -> [Users -> Watch]]
        /\ toSub' \in [Servers -> SUBSET Users]
        /\ toUnsub' \in [Servers -> SUBSET Users]
    BY <2>1, <2>2, <2>3 DEF WatchInv
  <2>5. ASSUME NEW t \in Servers, NEW v \in Users
        PROVE  /\ presence'[t][v].ref = 0 => v \in toUnsub'[t]
               /\ v \in toSub'[t] => presence'[t][v].ref > 0 /\ v \notin toUnsub'[t]
    <3>1. CASE t = s /\ v = u
      <4>1. presence'[t][v] = q
        BY <2>2, <3>1 DEF WatchInv
      <4> QED BY <1>1, <1>2, <2>1, <2>3, <3>1, <4>1 DEF WatchInv, NoForgottenSubscription
    <3>2. CASE ~(t = s /\ v = u)
      <4>1. presence'[t][v] = presence[t][v]
        BY <2>2, <3>2 DEF WatchInv
      <4>2. (v \in toSub'[t] <=> v \in toSub[t]) /\ (v \in toUnsub'[t] <=> v \in toUnsub[t])
        BY <2>3, <3>2 DEF WatchInv
      <4> QED BY <4>1, <4>2 DEF WatchInv, NoForgottenSubscription
    <3> QED BY <3>1, <3>2
  <2> QED BY <2>4, <2>5 DEF WatchInv, NoForgottenSubscription
<1>3. CASE ~(p.ref > 0)
  <2>1. presence' = presence
    BY <1>3 DEF ReleasePresence
  <2>2. /\ toSub' = toSub \/ (p.ref = 0 /\ toSub' = [toSub EXCEPT ![s] = @ \ {u}])
        /\ toUnsub' = toUnsub \/ (p.ref = 0 /\ toUnsub' = [toUnsub EXCEPT ![s] = @ \cup {u}])
    BY <1>1, <1>3 DEF ReleasePresence
  <2>3. p.ref = 0 => u \in toUnsub[s]
    BY DEF WatchInv, NoForgottenSubscription
  <2>4. toSub' \in [Servers -> SUBSET Users]
    BY <2>2 DEF WatchInv
  <2>6. toUnsub' = toUnsub
    <3> SUFFICES ASSUME p.ref = 0, toUnsub' = [toUnsub EXCEPT ![s] = @ \cup {u}] PROVE toUnsub' = toUnsub
      BY <2>2
    <3>1. toUnsub[s] \cup {u} = toUnsub[s]
      BY <2>3
    <3> QED BY <3>1 DEF WatchInv
  <2>5. \A t \in Servers : toSub'[t] \subseteq toSub[t]
    BY <2>2 DEF WatchInv
  <2> QED BY <2>1, <2>4, <2>5, <2>6 DEF WatchInv, NoForgottenSubscription
<1> QED BY <1>2, <1>3

LEMMA UpdateSubscribeStep ==
  ASSUME WatchInv, NEW s \in Servers, UpdateSubscribe(s)
  PROVE  WatchInv'
<1>1. toSub' = [toSub EXCEPT ![s] = {}] /\ UNCHANGED <<presence, toUnsub>>
  BY DEF UpdateSubscribe
<1> QED BY <1>1 DEF WatchInv, NoForgottenSubscription

LEMMA UpdateUnsubscribeStep ==
  ASSUME WatchInv, NEW s \in Servers, UpdateUnsubscribe(s)
  PROVE  WatchInv'
<1> DEFINE list == {u \in toUnsub[s] : presence[s][u].ref = 0}
           left == [u \in Users |-> IF u \in list THEN NoPresence ELSE presence[s][u]]
<1>1. /\ presence' = [presence EXCEPT ![s] = left]
      /\ toUnsub' = [toUnsub EXCEPT ![s] = {}]
      /\ toSub' = toSub
  BY DEF UpdateUnsubscribe, WatchInv
<1>2. NoPresence \in Watch /\ NoPresence.ref = -1
  BY DEF Watch, NoPresence
<1>3. left \in [Users -> Watch]
  BY <1>2 DEF WatchInv
<1>4. \A u \in Users : left[u].ref # 0
  BY <1>2 DEF WatchInv, NoForgottenSubscription
<1>5. \A u \in toSub[s] : u \in Users /\ left[u].ref > 0
  BY DEF WatchInv, NoForgottenSubscription
<1> HIDE DEF left
<1>6. presence' \in [Servers -> [Users -> Watch]] /\ toUnsub' \in [Servers -> SUBSET Users]
  BY <1>1, <1>3 DEF WatchInv
<1>7. ASSUME NEW t \in Servers, NEW u \in Users
      PROVE  /\ presence'[t][u].ref = 0 => u \in toUnsub'[t]
             /\ u \in toSub'[t] => presence'[t][u].ref > 0 /\ u \notin toUnsub'[t]
  <2>1. CASE t = s
    BY <1>1, <1>4, <1>5, <2>1 DEF WatchInv
  <2>2. CASE t # s
    BY <1>1, <2>2 DEF WatchInv, NoForgottenSubscription
  <2> QED BY <2>1, <2>2
<1> QED BY <1>1, <1>6, <1>7 DEF WatchInv, NoForgottenSubscription

(* A packet changes what is known of a user, never how often it is needed. *)
LEMMA NotedStep ==
  ASSUME WatchInv, NEW s \in Servers, NEW m \in DownMsg,
         presence' = [presence EXCEPT ![s] = Noted(s, m.status)],
         UNCHANGED <<toSub, toUnsub>>
  PROVE  WatchInv'
<1>1. \A u \in DOMAIN m.status : m.status[u] \in BOOLEAN
  BY DEF DownMsg
<1>2. ASSUME NEW u \in Users
      PROVE  Noted(s, m.status)[u] \in Watch /\ Noted(s, m.status)[u].ref = presence[s][u].ref
  <2>1. presence[s][u] \in Watch
    BY DEF WatchInv
  <2>2. CASE u \in DOMAIN m.status /\ Known(s, u)
    <3>1. Noted(s, m.status)[u] = [presence[s][u] EXCEPT !.on = m.status[u]]
      BY <2>2 DEF Noted
    <3> QED BY <1>1, <2>1, <2>2, <3>1, OnUpdateTyped DEF Known
  <2>3. CASE ~(u \in DOMAIN m.status /\ Known(s, u))
    BY <2>1, <2>3 DEF Noted
  <2> QED BY <2>2, <2>3
<1>3. Noted(s, m.status) \in [Users -> Watch]
  BY <1>2 DEF Noted
<1>4. presence' \in [Servers -> [Users -> Watch]]
  BY <1>3 DEF WatchInv
<1>5. \A t \in Servers, u \in Users : presence'[t][u].ref = presence[t][u].ref
  BY <1>2 DEF WatchInv
<1> QED BY <1>4, <1>5 DEF WatchInv, NoForgottenSubscription

(* How often a loading world adds a need is a number.                      *)
LEMMA PositionsFinite ==
  ASSUME NEW q \in SavedMonitors, NEW P \in SUBSET DOMAIN q
  PROVE  IsFiniteSet(P) /\ Cardinality(P) \in Nat
<1>1. Len(q) \in Nat /\ DOMAIN q = 1..Len(q)
  BY SavedAssumption
<1>2. IsFiniteSet(DOMAIN q)
  BY <1>1, FS_Interval
<1>3. IsFiniteSet(P)
  BY <1>2, FS_Subset
<1> QED BY <1>3, FS_CardinalityType

LEMMA RequiredTimesTyped ==
  ASSUME NEW s \in Servers, NEW q \in SavedMonitors
  PROVE  RequiredTimes(s, q) \in [Users -> Nat]
<1>1. \A u : Again(s, q, u) \in SUBSET DOMAIN q
  BY DEF Again, Required
<1>2. \A u : Cardinality(Again(s, q, u)) \in Nat
  BY <1>1, PositionsFinite
<1> QED BY <1>2 DEF RequiredTimes

LEMMA WorldStepsWatch ==
  ASSUME WatchInv, NEW s \in Servers, WorldSteps(s)
  PROVE  WatchInv'
<1>1. ASSUME NEW w \in Worlds, NEW q \in SavedMonitors, StartWorldLoad(s, w, q)
      PROVE  WatchInv'
  <2>1. CASE UNCHANGED <<presence, toSub, toUnsub>>
    BY <2>1 DEF WatchInv, NoForgottenSubscription
  <2>2. CASE RequestPresenceAsap(s, RequiredTimes(s, q))
    BY <2>2, RequiredTimesTyped, RequestStep DEF RequestPresenceAsap
  <2> QED BY <1>1, <2>1, <2>2, Zenon DEF StartWorldLoad
<1>2. ASSUME NEW w \in Worlds, NEW u \in Users, OnHeartMonitorAdded(s, w, u)
      PROVE  WatchInv'
  <2>1. [v \in Users |-> IF v = u THEN 1 ELSE 0] \in [Users -> Nat]
    OBVIOUS
  <2>2. RequestPresenceLater(s, [v \in Users |-> IF v = u THEN 1 ELSE 0])
    BY <1>2, Zenon DEF OnHeartMonitorAdded
  <2> QED BY <2>1, <2>2, RequestStep DEF RequestPresenceLater
<1>3. ASSUME NEW w \in Worlds, NEW u \in Users, OnHeartMonitorRemoved(s, w, u)
      PROVE  WatchInv'
  BY <1>3, ReleaseStep, Zenon DEF OnHeartMonitorRemoved
<1> QED BY <1>1, <1>2, <1>3, Zenon DEF WorldSteps

LEMMA WatchNext == WatchInv /\ [Next]_vars => WatchInv'
<1> SUFFICES ASSUME WatchInv, [Next]_vars PROVE WatchInv'
  OBVIOUS
<1>1. CASE UNCHANGED gameVars
  BY <1>1 DEF gameVars, WatchInv, NoForgottenSubscription
<1>2. ASSUME NEW s \in Servers, FromMasterHandlers(s) PROVE WatchInv'
  BY <1>2, NotedStep, Zenon DEF FromMasterHandlers, OnUpdate, OnSnapshot
<1>3. ASSUME NEW s \in Servers, WorldSteps(s) PROVE WatchInv'
  BY <1>3, WorldStepsWatch
<1>4. ASSUME NEW s \in Servers, UpdateSubscribe(s) PROVE WatchInv'
  BY <1>4, UpdateSubscribeStep
<1>5. ASSUME NEW s \in Servers, UpdateUnsubscribe(s) PROVE WatchInv'
  BY <1>5, UpdateUnsubscribeStep
<1>6. ASSUME NEW s \in Servers, Crash(s) PROVE WatchInv'
  <2>1. /\ presence' = [presence EXCEPT ![s] = [u \in Users |-> NoPresence]]
        /\ toSub' = [toSub EXCEPT ![s] = {}]
        /\ toUnsub' = [toUnsub EXCEPT ![s] = {}]
    BY <1>6 DEF Crash
  <2>2. NoPresence \in Watch /\ NoPresence.ref = -1
    BY DEF Watch, NoPresence
  <2> QED BY <2>1, <2>2 DEF WatchInv, NoForgottenSubscription
<1>7. FlushPresence \/ Sessions \/ UNCHANGED vars => UNCHANGED gameVars
  BY Zenon DEF FlushPresence, Sessions, CreateSession, MoveSession, EndSession, vars
<1>8. \A s \in Servers : FromServerHandlers(s) \/ AddServer(s) \/ RemoveServer(s) \/ LoseLink(s) => UNCHANGED gameVars
  BY Zenon DEF FromServerHandlers, AddServer, RemoveServer, LoseLink
<1> QED BY <1>1, <1>2, <1>3, <1>4, <1>5, <1>6, <1>7, <1>8, Zenon DEF Next

(* What a game server counts and is due to send for it, as one invariant.  *)
THEOREM WatchCorrect == Spec => []WatchInv
<1>1. Init => WatchInv
  BY GameInit DEF GameInv
<1> QED BY <1>1, WatchNext, PTL DEF Spec

(* However often owners are needed and released by loading worlds and by   *)
(* monitors placed and broken, a user nothing needs is due to be           *)
(* unsubscribed, and one due to be subscribed is needed.                   *)
THEOREM NoSubscriptionForgotten == Spec => []NoForgottenSubscription
<1>1. WatchInv => NoForgottenSubscription
  BY DEF WatchInv
<1> QED BY <1>1, WatchCorrect, PTL

-----------------------------------------------------------------------------
(* Types.                                                                  *)

LEMMA MonitorsCounted ==
  ASSUME NEW q \in SavedMonitors
  PROVE  [u \in Users |-> Cardinality({i \in DOMAIN q : q[i] = u})] \in [Users -> Nat]
<1>1. \A u : {i \in DOMAIN q : q[i] = u} \in SUBSET DOMAIN q
  OBVIOUS
<1>2. \A u : Cardinality({i \in DOMAIN q : q[i] = u}) \in Nat
  BY <1>1, PositionsFinite
<1> QED BY <1>2

LEMMA OwnersTyped == ASSUME NEW s, NEW q \in SavedMonitors PROVE Owners(s, q) \in SUBSET Users
<1>1. \A i \in DOMAIN q : q[i] \in Users
  BY SavedAssumption
<1> QED BY <1>1 DEF Owners, Required

LEMMA WorldStepsTyped ==
  ASSUME WorldsTyped, NEW s \in Servers, WorldSteps(s)
  PROVE  WorldsTyped'
<1>1. ASSUME NEW w \in Worlds, NEW q \in SavedMonitors, StartWorldLoad(s, w, q)
      PROVE  WorldsTyped'
  <2>1. /\ monitors' = [monitors EXCEPT ![s][w] = [u \in Users |-> Cardinality({i \in DOMAIN q : q[i] = u})]]
        /\ awaited' = [awaited EXCEPT ![s][w] = Owners(s, q)]
    BY <1>1, Zenon DEF StartWorldLoad
  <2>2. \E st \in {"ready", "loading"} : world' = [world EXCEPT ![s][w] = st]
    BY <1>1, Zenon DEF StartWorldLoad
  <2>3. monitors' \in [Servers -> [Worlds -> [Users -> Nat]]]
    BY <2>1, MonitorsCounted DEF WorldsTyped
  <2>4. awaited' \in [Servers -> [Worlds -> SUBSET Users]]
    BY <2>1, OwnersTyped DEF WorldsTyped
  <2>5. world' \in [Servers -> [Worlds -> {"none", "loading", "ready"}]]
    BY <2>2 DEF WorldsTyped
  <2> QED BY <2>3, <2>4, <2>5 DEF WorldsTyped
<1>2. ASSUME NEW w \in Worlds, NEW u \in Users, OnHeartMonitorAdded(s, w, u)
      PROVE  WorldsTyped'
  <2>1. monitors' = [monitors EXCEPT ![s][w][u] = @ + 1] /\ UNCHANGED <<world, awaited>>
    BY <1>2, Zenon DEF OnHeartMonitorAdded
  <2>2. monitors' \in [Servers -> [Worlds -> [Users -> Nat]]]
    BY <2>1 DEF WorldsTyped
  <2> QED BY <2>1, <2>2 DEF WorldsTyped
<1>3. ASSUME NEW w \in Worlds, NEW u \in Users, OnHeartMonitorRemoved(s, w, u)
      PROVE  WorldsTyped'
  <2>1. /\ monitors' = [monitors EXCEPT ![s][w][u] = @ - 1]
        /\ monitors[s][w][u] > 0
        /\ UNCHANGED <<world, awaited>>
    BY <1>3, Zenon DEF OnHeartMonitorRemoved
  <2>2. monitors[s][w][u] - 1 \in Nat
    BY <2>1 DEF WorldsTyped
  <2>3. monitors' \in [Servers -> [Worlds -> [Users -> Nat]]]
    BY <2>1, <2>2 DEF WorldsTyped
  <2> QED BY <2>1, <2>3 DEF WorldsTyped
<1> QED BY <1>1, <1>2, <1>3, Zenon DEF WorldSteps

LEMMA SnapshotTyped ==
  ASSUME WorldsTyped, NEW s \in Servers, NEW m, OnSnapshot(s, m)
  PROVE  WorldsTyped'
<1> DEFINE left(w) == awaited[s][w] \ DOMAIN m.status
           made == [w \in Worlds |-> IF awaited[s][w] # {} /\ left(w) = {} THEN "ready" ELSE world[s][w]]
<1>1. /\ awaited' = [awaited EXCEPT ![s] = [w \in Worlds |-> left(w)]]
      /\ monitors' = monitors
  BY DEF OnSnapshot
<1>2. world' = [world EXCEPT ![s] = made]
  BY DEF OnSnapshot, WorldsTyped
<1>3. made \in [Worlds -> {"none", "loading", "ready"}]
  BY DEF WorldsTyped
<1>4. [w \in Worlds |-> left(w)] \in [Worlds -> SUBSET Users]
  BY DEF WorldsTyped
<1> HIDE DEF made, left
<1>5. world' \in [Servers -> [Worlds -> {"none", "loading", "ready"}]]
  BY <1>2, <1>3 DEF WorldsTyped
<1>6. awaited' \in [Servers -> [Worlds -> SUBSET Users]]
  BY <1>1, <1>4 DEF WorldsTyped
<1> QED BY <1>1, <1>5, <1>6 DEF WorldsTyped

LEMMA WorldsNext == WorldsTyped /\ [Next]_vars => WorldsTyped'
<1> SUFFICES ASSUME WorldsTyped, [Next]_vars PROVE WorldsTyped'
  OBVIOUS
<1>1. CASE UNCHANGED <<world, awaited, monitors>>
  BY <1>1 DEF WorldsTyped
<1>2. ASSUME NEW s \in Servers, NEW m, OnSnapshot(s, m) PROVE WorldsTyped'
  BY <1>2, SnapshotTyped
<1>3. ASSUME NEW s \in Servers, WorldSteps(s) PROVE WorldsTyped'
  BY <1>3, WorldStepsTyped
<1>4. ASSUME NEW s \in Servers, Crash(s) PROVE WorldsTyped'
  <2>1. /\ world' = [world EXCEPT ![s] = [w \in Worlds |-> "none"]]
        /\ awaited' = [awaited EXCEPT ![s] = [w \in Worlds |-> {}]]
        /\ monitors' = [monitors EXCEPT ![s] = [w \in Worlds |-> [u \in Users |-> 0]]]
    BY <1>4 DEF Crash
  <2> QED BY <2>1 DEF WorldsTyped
<1>5. FlushPresence \/ Sessions \/ UNCHANGED vars => UNCHANGED gameVars
  BY Zenon DEF FlushPresence, Sessions, CreateSession, MoveSession, EndSession, vars
<1>6. \A s \in Servers : FromServerHandlers(s) \/ AddServer(s) \/ RemoveServer(s) \/ LoseLink(s) => UNCHANGED gameVars
  BY Zenon DEF FromServerHandlers, AddServer, RemoveServer, LoseLink
<1>7. \A s \in Servers : \A m : UpdateSubscribe(s) \/ UpdateUnsubscribe(s) \/ OnUpdate(s, m)
        => UNCHANGED <<world, awaited, monitors>>
  BY Zenon DEF UpdateSubscribe, UpdateUnsubscribe, OnUpdate
<1>8. UNCHANGED gameVars => UNCHANGED <<world, awaited, monitors>>
  BY DEF gameVars
<1> QED BY <1>1, <1>2, <1>3, <1>4, <1>5, <1>6, <1>7, <1>8, Zenon DEF Next, FromMasterHandlers

CountersOK == ops \in 0..MaxOps /\ losses \in 0..MaxLosses

LEMMA CountersNext == CountersOK /\ [Next]_vars => CountersOK'
<1> SUFFICES ASSUME CountersOK, [Next]_vars PROVE CountersOK'
  OBVIOUS
<1>1. \/ UNCHANGED <<ops, losses>>
      \/ Operation /\ UNCHANGED losses
      \/ losses < MaxLosses /\ losses' = losses + 1 /\ UNCHANGED ops
  <2>1. FlushPresence \/ UNCHANGED vars => UNCHANGED <<ops, losses>>
    BY Zenon DEF FlushPresence, vars
  <2>2. Sessions => Operation /\ UNCHANGED losses
    BY Zenon DEF Sessions, CreateSession, MoveSession, EndSession
  <2>3. \A s \in Servers : FromServerHandlers(s) \/ FromMasterHandlers(s) \/ UpdateSubscribe(s)
          \/ UpdateUnsubscribe(s) \/ AddServer(s) \/ RemoveServer(s) => UNCHANGED <<ops, losses>>
    <3> TAKE s \in Servers
    <3>1. FromServerHandlers(s) \/ FromMasterHandlers(s) => UNCHANGED <<ops, losses>>
      BY Zenon DEF FromServerHandlers, FromMasterHandlers, OnUpdate, OnSnapshot
    <3>2. UpdateSubscribe(s) \/ UpdateUnsubscribe(s) => UNCHANGED <<ops, losses>>
      BY Zenon DEF UpdateSubscribe, UpdateUnsubscribe
    <3>3. AddServer(s) \/ RemoveServer(s) => UNCHANGED <<ops, losses>>
      BY Zenon DEF AddServer, RemoveServer
    <3> QED BY <3>1, <3>2, <3>3
  <2>4. \A s \in Servers : WorldSteps(s) => Operation /\ UNCHANGED losses
    <3> TAKE s \in Servers
    <3>1. \A w, q : StartWorldLoad(s, w, q) => Operation /\ UNCHANGED losses
      BY Zenon DEF StartWorldLoad
    <3>2. \A w, u : OnHeartMonitorAdded(s, w, u) => Operation /\ UNCHANGED losses
      BY Zenon DEF OnHeartMonitorAdded
    <3>3. \A w, u : OnHeartMonitorRemoved(s, w, u) => Operation /\ UNCHANGED losses
      BY Zenon DEF OnHeartMonitorRemoved
    <3> QED BY <3>1, <3>2, <3>3, Zenon DEF WorldSteps
  <2>5. \A s \in Servers : LoseLink(s) \/ Crash(s) =>
          UNCHANGED ops /\ (UNCHANGED losses \/ (losses < MaxLosses /\ losses' = losses + 1))
    BY Zenon DEF LoseLink, Crash
  <2> QED BY <2>1, <2>2, <2>3, <2>4, <2>5, Zenon DEF Next
<1> QED BY <1>1, BoundsAssumption DEF CountersOK, Operation

(* The inductive invariant: each part is preserved by every step given the *)
(* parts before it.                                                        *)
TypesInv == MasterInv /\ WatchInv /\ WorldsTyped /\ QueuesTypeOK /\ CountersOK

LEMMA TypesCorrect == Spec => []TypesInv
<1>1. Init => TypesInv
  <2>1. Init => QueuesTypeOK /\ CountersOK
    BY BoundsAssumption DEF Init, QueuesTypeOK, CountersOK
  <2> QED BY <2>1, MasterInit, GameInit DEF TypesInv, GameInv
<1>2. TypesInv /\ [Next]_vars => TypesInv'
  <2> SUFFICES ASSUME TypesInv, [Next]_vars PROVE TypesInv'
    OBVIOUS
  <2>1. GameTypeOK /\ MasterTypeOK /\ QueuesTypeOK
    BY GameInvTyped DEF TypesInv, GameInv, MasterInv
  <2>2. QueuesTypeOK'
    BY <2>1, QueuesNext
  <2> QED BY <2>2, MasterNext, WatchNext, WorldsNext, CountersNext DEF TypesInv
<1> QED BY <1>1, <1>2, PTL DEF Spec

(* Every variable keeps its type; the part with content is that a use      *)
(* count is never negative and a user not watched has no status.           *)
THEOREM TypeCorrect == Spec => []TypeOK
<1>1. TypesInv => TypeOK
  BY GameInvTyped DEF TypesInv, GameInv, MasterInv, TypeOK, CountersOK
<1> QED BY <1>1, TypesCorrect, PTL

-----------------------------------------------------------------------------
(* A world waits only for what is asked for.  The question may be on its   *)
(* way to the Master or the answer on its way back; handling the question  *)
(* turns one into the other, and the answer ends the wait of every world.  *)

AskedUp(q, u) == \E i \in DOMAIN q : q[i].kind = "sub" /\ u \in q[i].users
AnswerDown(q, u) == \E i \in DOMAIN q : q[i].kind = "snapshot" /\ u \in DOMAIN q[i].status

AwaitOf(s) ==
  /\ proc[s] = "down" => \A w \in Worlds : awaited[s][w] = {}
  /\ \A w \in Worlds : world[s][w] = "loading" <=> awaited[s][w] # {}
  /\ proc[s] = "linked" /\ registered[s] =>
       \A w \in Worlds : \A u \in awaited[s][w] : AskedUp(up[s], u) \/ AnswerDown(down[s], u)
AwaitInv == \A s \in Servers : AwaitOf(s)

LEMMA AppendKeeps ==
  ASSUME NEW S, NEW q \in Seq(S), NEW e \in S
  PROVE  /\ \A i \in DOMAIN q : i \in DOMAIN Append(q, e) /\ Append(q, e)[i] = q[i]
         /\ Len(q) + 1 \in DOMAIN Append(q, e) /\ Append(q, e)[Len(q) + 1] = e
OBVIOUS

LEMMA TailKeeps ==
  ASSUME NEW S, NEW q \in Seq(S), q # <<>>, NEW i \in DOMAIN q, q[i] # Head(q)
  PROVE  i - 1 \in DOMAIN Tail(q) /\ Tail(q)[i - 1] = q[i]
<1>1. Head(q) = q[1]
  OBVIOUS
<1>2. i # 1 /\ i \in 1..Len(q)
  BY <1>1
<1>3. Tail(q) \in Seq(S) /\ Len(Tail(q)) = Len(q) - 1
  OBVIOUS
<1>4. i - 1 \in 1..Len(Tail(q))
  BY <1>2, <1>3
<1> QED BY <1>2, <1>3, <1>4

LEMMA AskedAppend ==
  ASSUME NEW q \in Seq(UpMsg), NEW e \in UpMsg, NEW u
  PROVE  /\ AskedUp(q, u) => AskedUp(Append(q, e), u)
         /\ e.kind = "sub" /\ u \in e.users => AskedUp(Append(q, e), u)
BY AppendKeeps DEF AskedUp

LEMMA AnswerAppend ==
  ASSUME NEW q \in Seq(DownMsg), NEW e \in DownMsg, NEW u
  PROVE  /\ AnswerDown(q, u) => AnswerDown(Append(q, e), u)
         /\ e.kind = "snapshot" /\ u \in DOMAIN e.status => AnswerDown(Append(q, e), u)
BY AppendKeeps DEF AnswerDown

LEMMA AskedTail ==
  ASSUME NEW q \in Seq(UpMsg), q # <<>>, NEW u, AskedUp(q, u)
  PROVE  AskedUp(Tail(q), u) \/ (Head(q).kind = "sub" /\ u \in Head(q).users)
<1>1. PICK i \in DOMAIN q : q[i].kind = "sub" /\ u \in q[i].users
  BY DEF AskedUp
<1>2. CASE q[i] # Head(q)
  BY <1>1, <1>2, TailKeeps DEF AskedUp
<1> QED BY <1>1, <1>2

LEMMA AnswerTail ==
  ASSUME NEW q \in Seq(DownMsg), q # <<>>, NEW u, AnswerDown(q, u)
  PROVE  AnswerDown(Tail(q), u) \/ (Head(q).kind = "snapshot" /\ u \in DOMAIN Head(q).status)
<1>1. PICK i \in DOMAIN q : q[i].kind = "snapshot" /\ u \in DOMAIN q[i].status
  BY DEF AnswerDown
<1>2. CASE q[i] # Head(q)
  BY <1>1, <1>2, TailKeeps DEF AnswerDown
<1> QED BY <1>1, <1>2

LEMMA AwaitSame ==
  ASSUME NEW s, AwaitOf(s), proc'[s] = proc[s], registered'[s] = registered[s],
         world'[s] = world[s], awaited'[s] = awaited[s],
         \A u : AskedUp(up[s], u) \/ AnswerDown(down[s], u) => AskedUp(up'[s], u) \/ AnswerDown(down'[s], u)
  PROVE  AwaitOf(s)'
BY DEF AwaitOf, AskedUp, AnswerDown

LEMMA AwaitSubscription ==
  ASSUME TypesInv, AwaitInv, NEW s \in Servers, FromServerHandlers(s)
  PROVE  AwaitInv'
<1>1. PICK U \in SUBSET Users : PlayerSubscribe(s, U) \/ PlayerUnSubscribe(s, U)
  BY DEF FromServerHandlers
<1>2. UNCHANGED <<proc, world, awaited, registered>>
  BY <1>1 DEF FromServerHandlers, gameVars, PlayerSubscribe, PlayerUnSubscribe
<1>3. up[s] \in Seq(UpMsg) /\ up[s] # <<>> /\ up' = [up EXCEPT ![s] = Tail(@)]
  BY <1>1 DEF PlayerSubscribe, PlayerUnSubscribe, FromServer, TypesInv, QueuesTypeOK
<1>4. up \in [Servers -> Seq(UpMsg)] /\ down \in [Servers -> Seq(DownMsg)]
  BY DEF TypesInv, QueuesTypeOK
<1>5. ASSUME NEW t \in Servers, t # s PROVE AwaitOf(t)'
  <2>1. up'[t] = up[t] /\ down'[t] = down[t]
    BY <1>1, <1>3, <1>4, <1>5 DEF PlayerSubscribe, PlayerUnSubscribe
  <2> QED BY <1>2, <2>1, AwaitSame DEF AwaitInv
<1>6. CASE PlayerSubscribe(s, U) /\ proc[s] = "linked"
  <2> DEFINE m == Snapshot(BuildElements(U))
  <2>1. Head(up[s]) = Subscribe(U) /\ down'[s] = Append(down[s], m)
    BY <1>4, <1>6 DEF PlayerSubscribe, FromServer
  <2>2. m \in DownMsg /\ m.kind = "snapshot" /\ DOMAIN m.status = U
    BY PacketsTyped DEF Snapshot, BuildElements
  <2> HIDE DEF m
  <2>3. ASSUME NEW u, AskedUp(up[s], u) \/ AnswerDown(down[s], u)
        PROVE  AskedUp(up'[s], u) \/ AnswerDown(down'[s], u)
    <3>1. AskedUp(up[s], u) => AskedUp(Tail(up[s]), u) \/ u \in U
      BY <1>3, <2>1, AskedTail DEF Subscribe
    <3>2. u \in U \/ AnswerDown(down[s], u) => AnswerDown(down'[s], u)
      BY <1>4, <2>1, <2>2, AnswerAppend
    <3> QED BY <1>3, <1>4, <2>3, <3>1, <3>2
  <2>4. AwaitOf(s)'
    BY <1>2, <2>3, AwaitSame DEF AwaitInv
  <2> QED BY <1>5, <2>4 DEF AwaitInv
<1>7. CASE PlayerUnSubscribe(s, U)
  <2>1. Head(up[s]) = Unsubscribe(U) /\ down' = down
    BY <1>7 DEF PlayerUnSubscribe, FromServer
  <2>2. \A u : AskedUp(up[s], u) => AskedUp(up'[s], u)
    BY <1>3, <1>4, <2>1, AskedTail DEF Unsubscribe
  <2>3. AwaitOf(s)'
    BY <1>2, <2>1, <2>2, AwaitSame DEF AwaitInv
  <2> QED BY <1>5, <2>3 DEF AwaitInv
<1>8. CASE proc[s] # "linked"
  <2>1. AwaitOf(s)'
    BY <1>2, <1>8 DEF AwaitInv, AwaitOf
  <2> QED BY <1>5, <2>1 DEF AwaitInv
<1> QED BY <1>1, <1>6, <1>7, <1>8

LEMMA AwaitPacket ==
  ASSUME TypesInv, AwaitInv, NEW s \in Servers, NEW m \in DownMsg, OnUpdate(s, m) \/ OnSnapshot(s, m)
  PROVE  AwaitInv'
<1>1. UNCHANGED <<proc, up, registered>>
  BY DEF OnUpdate, OnSnapshot, masterVars
<1>2. /\ down[s] \in Seq(DownMsg) /\ down[s] # <<>> /\ Head(down[s]) = m
      /\ down' = [down EXCEPT ![s] = Tail(@)] /\ down \in [Servers -> Seq(DownMsg)]
  BY DEF OnUpdate, OnSnapshot, FromMaster, TypesInv, QueuesTypeOK
<1>3. ASSUME NEW t \in Servers, t # s PROVE AwaitOf(t)'
  <2>1. down'[t] = down[t] /\ world'[t] = world[t] /\ awaited'[t] = awaited[t]
    BY <1>2, <1>3 DEF OnUpdate, OnSnapshot, TypesInv, WorldsTyped
  <2> QED BY <1>1, <2>1, AwaitSame DEF AwaitInv
<1>4. CASE OnUpdate(s, m)
  <2>1. m.kind = "update" /\ UNCHANGED <<world, awaited>>
    BY <1>4 DEF OnUpdate
  <2>2. \A u : AnswerDown(down[s], u) => AnswerDown(down'[s], u)
    BY <1>2, <2>1, AnswerTail
  <2>3. AwaitOf(s)'
    BY <1>1, <2>1, <2>2, AwaitSame DEF AwaitInv
  <2> QED BY <1>3, <2>3 DEF AwaitInv
<1>5. CASE OnSnapshot(s, m)
  <2>1. \A w \in Worlds : awaited'[s][w] = awaited[s][w] \ DOMAIN m.status
    BY <1>5 DEF OnSnapshot, TypesInv, WorldsTyped
  <2>2. \A w \in Worlds : world'[s][w] =
          IF awaited[s][w] # {} /\ awaited[s][w] \ DOMAIN m.status = {} THEN "ready" ELSE world[s][w]
    BY <1>5 DEF OnSnapshot, TypesInv, WorldsTyped
  <2>3. \A u : AnswerDown(down[s], u) /\ u \notin DOMAIN m.status => AnswerDown(down'[s], u)
    BY <1>2, AnswerTail
  <2>4. \A w \in Worlds : world'[s][w] = "loading" <=> awaited'[s][w] # {}
    BY <2>1, <2>2 DEF AwaitInv, AwaitOf
  <2>5. AwaitOf(s)'
    BY <1>1, <2>1, <2>3, <2>4 DEF AwaitInv, AwaitOf, AskedUp, AnswerDown
  <2> QED BY <1>3, <2>5 DEF AwaitInv
<1> QED BY <1>4, <1>5

(* What a loading world asks for is all of what it waits for.              *)
LEMMA OwnersAsked ==
  ASSUME TypesInv, NEW s \in Servers, NEW q \in SavedMonitors
  PROVE  Owners(s, q) \subseteq NewlyNeeded(s, RequiredTimes(s, q))
<1> SUFFICES ASSUME NEW u \in Owners(s, q) PROVE u \in NewlyNeeded(s, RequiredTimes(s, q))
  OBVIOUS
<1>1. u \in Users /\ RequiredTimes(s, q) \in [Users -> Nat]
  BY OwnersTyped, RequiredTimesTyped
<1>2. Again(s, q, u) \in SUBSET DOMAIN q
  BY DEF Again, Required
<1>3. Cardinality(Again(s, q, u)) \in Nat
  BY <1>2, PositionsFinite
<1>4. RequiredTimes(s, q)[u] > 0
  BY <1>1, <1>3 DEF RequiredTimes
<1>5. presence[s][u] = NoPresence
  BY DEF Owners, Required, Known
<1> QED BY <1>1, <1>4, <1>5 DEF NewlyNeeded, NoPresence

LEMMA AwaitLoad ==
  ASSUME TypesInv, AwaitInv, NEW s \in Servers, NEW w \in Worlds, NEW q \in SavedMonitors,
         StartWorldLoad(s, w, q)
  PROVE  AwaitInv'
<1> DEFINE new == NewlyNeeded(s, RequiredTimes(s, q))
<1>1. UNCHANGED <<proc, down, registered>> /\ proc[s] = "linked"
  BY DEF StartWorldLoad, masterVars
<1>2. up \in [Servers -> Seq(UpMsg)] /\ new \in SUBSET Users /\ Subscribe(new) \in UpMsg
  BY PacketsTyped DEF TypesInv, QueuesTypeOK, NewlyNeeded
<1>3. (Required(s, q) = {}) <=> (Owners(s, q) = {})
  BY DEF Owners
<1>4. /\ awaited' = [awaited EXCEPT ![s][w] = Owners(s, q)]
      /\ world' = [world EXCEPT ![s][w] = IF Owners(s, q) = {} THEN "ready" ELSE "loading"]
  BY <1>3, Zenon DEF StartWorldLoad
<1>5. IF Owners(s, q) = {} THEN up' = up ELSE up' = [up EXCEPT ![s] = Append(@, Subscribe(new))]
  <2>1. Owners(s, q) # {} => new # {}
    BY OwnersAsked
  <2>2. \/ Required(s, q) = {} /\ up' = up
        \/ Required(s, q) # {} /\ ToMaster(s, new, Subscribe(new))
    BY Zenon DEF StartWorldLoad, RequestPresenceAsap
  <2> QED BY <1>1, <1>3, <2>1, <2>2 DEF ToMaster
<1>6. Subscribe(new).kind = "sub" /\ Subscribe(new).users = new /\ Owners(s, q) \subseteq new
  BY OwnersAsked DEF Subscribe
<1> HIDE DEF new
<1>7. ASSUME NEW t \in Servers, t # s PROVE AwaitOf(t)'
  <2>1. up'[t] = up[t] /\ world'[t] = world[t] /\ awaited'[t] = awaited[t]
    BY <1>2, <1>4, <1>5, <1>7 DEF TypesInv, WorldsTyped
  <2> QED BY <1>1, <2>1, AwaitSame DEF AwaitInv
<1>8. ASSUME NEW u PROVE /\ AskedUp(up[s], u) => AskedUp(up'[s], u)
                         /\ u \in Owners(s, q) => AskedUp(up'[s], u)
  <2>1. CASE Owners(s, q) = {}
    BY <1>5, <2>1
  <2>2. CASE Owners(s, q) # {}
    <3>1. up[s] \in Seq(UpMsg) /\ up'[s] = Append(up[s], Subscribe(new))
      BY <1>2, <1>5, <2>2
    <3>2. /\ AskedUp(up[s], u) => AskedUp(Append(up[s], Subscribe(new)), u)
          /\ u \in new => AskedUp(Append(up[s], Subscribe(new)), u)
      BY <1>2, <1>6, <3>1, AskedAppend
    <3> QED BY <1>6, <3>1, <3>2
  <2> QED BY <2>1, <2>2
<1>9. ASSUME NEW v \in Worlds
      PROVE  /\ world'[s][v] = "loading" <=> awaited'[s][v] # {}
             /\ awaited'[s][v] \subseteq awaited[s][v] \cup Owners(s, q)
  <2>1. CASE v = w
    BY <1>4, <2>1 DEF TypesInv, WorldsTyped
  <2>2. CASE v # w
    BY <1>4, <2>2 DEF TypesInv, WorldsTyped, AwaitInv, AwaitOf
  <2> QED BY <2>1, <2>2
<1>10. AwaitOf(s)'
  <2>1. ASSUME NEW v \in Worlds, NEW u \in awaited'[s][v], registered[s]
        PROVE  AskedUp(up'[s], u) \/ AnswerDown(down'[s], u)
    BY <1>1, <1>8, <1>9, <2>1 DEF AwaitInv, AwaitOf
  <2>2. proc'[s] # "down"
    BY <1>1
  <2> QED BY <1>1, <1>9, <2>1, <2>2 DEF AwaitOf, AskedUp, AnswerDown
<1> QED BY <1>7, <1>10 DEF AwaitInv

LEMMA AwaitTimer ==
  ASSUME TypesInv, AwaitInv, NEW s \in Servers, UpdateSubscribe(s) \/ UpdateUnsubscribe(s)
  PROVE  AwaitInv'
<1>1. UNCHANGED <<proc, down, registered, world, awaited>>
  BY DEF UpdateSubscribe, UpdateUnsubscribe, masterVars
<1>2. PICK U \in SUBSET Users : ToMaster(s, U, Subscribe(U)) \/ ToMaster(s, U, Unsubscribe(U))
  BY DEF UpdateSubscribe, UpdateUnsubscribe, TypesInv, WatchInv
<1>3. up \in [Servers -> Seq(UpMsg)] /\ Subscribe(U) \in UpMsg /\ Unsubscribe(U) \in UpMsg
  BY PacketsTyped DEF TypesInv, QueuesTypeOK
<1>4. \A t \in Servers : \A u : AskedUp(up[t], u) => AskedUp(up'[t], u)
  <2> SUFFICES ASSUME NEW t \in Servers, NEW u, AskedUp(up[t], u) PROVE AskedUp(up'[t], u)
    OBVIOUS
  <2>1. up[t] \in Seq(UpMsg)
    BY <1>3
  <2>2. \/ up'[t] = up[t]
        \/ up'[t] = Append(up[t], Subscribe(U))
        \/ up'[t] = Append(up[t], Unsubscribe(U))
    BY <1>2, <1>3 DEF ToMaster
  <2>3. AskedUp(Append(up[t], Subscribe(U)), u) /\ AskedUp(Append(up[t], Unsubscribe(U)), u)
    BY <1>3, <2>1, AskedAppend
  <2> QED BY <2>2, <2>3
<1> QED BY <1>1, <1>4, AwaitSame DEF AwaitInv

LEMMA AwaitNext == TypesInv /\ AwaitInv /\ [Next]_vars => AwaitInv'
<1> SUFFICES ASSUME TypesInv, AwaitInv, [Next]_vars PROVE AwaitInv'
  OBVIOUS
<1>1. CASE UNCHANGED <<proc, up, down, registered, world, awaited>>
  BY <1>1, AwaitSame DEF AwaitInv
<1>2. CASE FlushPresence
  <2>1. UNCHANGED <<proc, up, registered, world, awaited>>
    BY <1>2 DEF FlushPresence, gameVars
  <2>2. \A t \in Servers : down[t] \in Seq(DownMsg) /\ Update(BuildElements(ChangedFor(t))) \in DownMsg
    BY PacketsTyped DEF TypesInv, QueuesTypeOK, MasterInv, MasterTypeOK, ChangedFor
  <2>3. \A t \in Servers : down'[t] = down[t] \/ down'[t] = Append(down[t], Update(BuildElements(ChangedFor(t))))
    BY <1>2 DEF FlushPresence
  <2>4. \A t \in Servers : \A u : AnswerDown(down[t], u) => AnswerDown(down'[t], u)
    <3> SUFFICES ASSUME NEW t \in Servers, NEW u, AnswerDown(down[t], u) PROVE AnswerDown(down'[t], u)
      OBVIOUS
    <3>1. AnswerDown(Append(down[t], Update(BuildElements(ChangedFor(t)))), u)
      BY <2>2, AnswerAppend
    <3> QED BY <2>3, <3>1
  <2> QED BY <2>1, <2>4, AwaitSame DEF AwaitInv
<1>3. ASSUME NEW s \in Servers, FromServerHandlers(s) PROVE AwaitInv'
  BY <1>3, AwaitSubscription
<1>4. ASSUME NEW s \in Servers, FromMasterHandlers(s) PROVE AwaitInv'
  BY <1>4, AwaitPacket DEF FromMasterHandlers
<1>5. ASSUME NEW s \in Servers, UpdateSubscribe(s) \/ UpdateUnsubscribe(s) PROVE AwaitInv'
  BY <1>5, AwaitTimer
<1>6. ASSUME NEW s \in Servers, NEW w \in Worlds, NEW q \in SavedMonitors, StartWorldLoad(s, w, q) PROVE AwaitInv'
  BY <1>6, AwaitLoad
<1>7. ASSUME NEW s \in Servers, AddServer(s) \/ RemoveServer(s) \/ LoseLink(s) \/ Crash(s) PROVE AwaitInv'
  <2>1. ASSUME NEW t \in Servers, t # s PROVE AwaitOf(t)'
    <3>1. /\ proc'[t] = proc[t] /\ registered'[t] = registered[t] /\ up'[t] = up[t] /\ down'[t] = down[t]
          /\ world'[t] = world[t] /\ awaited'[t] = awaited[t]
      BY <1>7, <2>1 DEF AddServer, RemoveServer, LoseLink, Crash, gameVars, masterVars, TypesInv, QueuesTypeOK,
         MasterInv, MasterTypeOK, WorldsTyped
    <3> QED BY <3>1, AwaitSame DEF AwaitInv
  <2>2. AwaitOf(s)'
    <3>1. CASE AddServer(s)
      BY <3>1 DEF AddServer, gameVars, AwaitInv, AwaitOf
    <3>2. CASE RemoveServer(s)
      BY <3>2 DEF RemoveServer, gameVars, AwaitInv, AwaitOf
    <3>3. CASE LoseLink(s)
      <4>1. proc'[s] = "cut" /\ UNCHANGED <<world, awaited>>
        BY <3>3 DEF LoseLink, gameVars, TypesInv, QueuesTypeOK
      <4> QED BY <4>1 DEF AwaitInv, AwaitOf
    <3>4. CASE Crash(s)
      <4>1. /\ proc'[s] = "down"
            /\ \A w \in Worlds : world'[s][w] = "none" /\ awaited'[s][w] = {}
        BY <3>4 DEF Crash, TypesInv, QueuesTypeOK, WorldsTyped
      <4> QED BY <4>1 DEF AwaitOf
    <3> QED BY <1>7, <3>1, <3>2, <3>3, <3>4
  <2> QED BY <2>1, <2>2 DEF AwaitInv
<1>8. Sessions \/ UNCHANGED vars => UNCHANGED <<proc, up, down, registered, world, awaited>>
  BY Zenon DEF Sessions, CreateSession, MoveSession, EndSession, vars, gameVars, masterVars
<1>9. \A s \in Servers, w \in Worlds, u \in Users :
        OnHeartMonitorAdded(s, w, u) \/ OnHeartMonitorRemoved(s, w, u)
          => UNCHANGED <<proc, up, down, registered, world, awaited>>
  <2> TAKE s \in Servers, w \in Worlds, u \in Users
  <2>1. OnHeartMonitorAdded(s, w, u) => UNCHANGED <<masterVars, down, proc, world, awaited, losses>> /\ UNCHANGED up
    BY Zenon DEF OnHeartMonitorAdded, RequestPresenceLater
  <2>2. OnHeartMonitorRemoved(s, w, u) => UNCHANGED <<masterVars, up, down, proc, world, awaited, losses>>
    BY Zenon DEF OnHeartMonitorRemoved
  <2> QED BY <2>1, <2>2, Zenon DEF masterVars
<1> QED BY <1>1, <1>2, <1>3, <1>4, <1>5, <1>6, <1>7, <1>8, <1>9, Zenon DEF Next, WorldSteps

(* No world waits for an answer that will not come while its server is     *)
(* linked: LOADING means waiting, and every awaited user has a question or *)
(* an answer on its way, however worlds, timers and packets interleave.    *)
THEOREM AwaitedAreAsked == Spec => []AwaitedIsAsked
<1>1. Init => AwaitInv
  BY DEF Init, AwaitInv, AwaitOf
<1>2. AwaitInv => AwaitedIsAsked
  BY DEF AwaitInv, AwaitOf, AwaitedIsAsked, AskedUp, AnswerDown, About
<1> QED BY <1>1, <1>2, AwaitNext, TypesCorrect, PTL DEF Spec
=============================================================================
