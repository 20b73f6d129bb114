--------------------------- MODULE PlayerPresence ---------------------------
(***************************************************************************)
(* Who is online.  Worlds with heart monitors on a game server need the    *)
(* online status of the monitors' owners.  The game server counts what its *)
(* worlds need, subscribes at the Master, and the Master answers with a    *)
(* snapshot and sends an update when a session starts or ends.  A world    *)
(* that is being loaded waits for the snapshots of owners that nobody on   *)
(* its server watched before (OnWorldPresenceReady in WorldSessions).      *)
(*                                                                         *)
(* Subscriptions and changes are gathered and sent by timers; a timer may  *)
(* fire at any moment here.  Names shown with a status come in the same    *)
(* packets and are left out.                                               *)
(*                                                                         *)
(* Bounds: MaxOps caps the sessions started, moved and ended, the worlds   *)
(* loaded and the monitors placed and removed; MaxLosses the lost links    *)
(* and processes.  MaxMonitors is 30 in the code.                          *)
(***************************************************************************)
EXTENDS Integers, Sequences, FiniteSets, Functions

CONSTANTS
  Users, Servers, Worlds,
  SavedMonitors,   \* what saved worlds contain: the owners of their monitors, in tile order
  SameId,          \* the user whose id is the number of server s, or NoUser
  NoServer, NoUser, MaxMonitors, MaxOps, MaxLosses

ASSUME NoServerAssumption == NoServer \notin Servers
ASSUME NoUserAssumption == NoUser \notin Users
ASSUME SavedAssumption == SavedMonitors \subseteq Seq(Users)
ASSUME SameIdAssumption == SameId \in [Servers -> Users \cup {NoUser}]
ASSUME BoundsAssumption == MaxMonitors \in Nat /\ MaxOps \in Nat /\ MaxLosses \in Nat

VARIABLES
  registered,   \* Master m_servers
  session,      \* Master m_sessions: the server of each user's session, or NoServer
  subs,         \* Master m_playerSubs: the servers subscribed to each user
  dirty,        \* Master m_dirtyUsers
  up,           \* packets from each game server to the Master
  down,         \* packets from the Master to each game server
  proc,         \* game process: "down", "linked" to the Master, or "cut" off from it
  presence,     \* game server m_presences: how often needed, last known status
  toSub,        \* game server m_pendingSubscribeBatch
  toUnsub,      \* game server m_pendingUnsubscribeBatch
  world,        \* state of each world on each server
  awaited,      \* game server m_pendingPresenceWorlds: the users a loading world waits for
  monitors,     \* how many monitors of each user each world has
  ops, losses

masterVars == <<registered, session, subs, dirty>>
gameVars == <<presence, toSub, toUnsub, world, awaited, monitors>>
vars == <<masterVars, up, down, proc, gameVars, ops, losses>>

NoPresence == [ref |-> -1, on |-> FALSE]
Subscribe(U)    == [kind |-> "sub", users |-> U]
Unsubscribe(U)  == [kind |-> "unsub", users |-> U]
Snapshot(f)     == [kind |-> "snapshot", status |-> f]
Update(f)       == [kind |-> "update", status |-> f]

UpMsg == [kind : {"sub", "unsub"}, users : SUBSET Users]
DownMsg == [kind : {"snapshot", "update"}, status : UNION {[U -> BOOLEAN] : U \in SUBSET Users}]

Operation == ops < MaxOps /\ ops' = ops + 1

(* A packet is lost when the link is; SendArray sends nothing for nobody.  *)
ToMaster(s, U, m) ==
  up' = IF U # {} /\ proc[s] = "linked" THEN [up EXCEPT ![s] = Append(@, m)] ELSE up

FromServer(s, m) ==
  /\ registered[s]
  /\ up[s] # <<>> /\ Head(up[s]) = m
  /\ up' = [up EXCEPT ![s] = Tail(@)]

FromMaster(s, m) ==
  /\ proc[s] = "linked"
  /\ down[s] # <<>> /\ Head(down[s]) = m
  /\ down' = [down EXCEPT ![s] = Tail(@)]

-----------------------------------------------------------------------------
(* The Master.                                                             *)

Online(u) == session[u] # NoServer
BuildElements(U) == [u \in U |-> Online(u)]

(* A defect: the subscriber is told nothing until something changes. *)
PlayerSubscribeSilent(s, U) ==
  /\ FromServer(s, Subscribe(U))
  /\ subs' = [u \in Users |-> IF u \in U THEN subs[u] \cup {s} ELSE subs[u]]
  /\ UNCHANGED <<registered, session, dirty, down>>

PlayerSubscribe(s, U) ==
  /\ FromServer(s, Subscribe(U))
  /\ subs' = [u \in Users |-> IF u \in U THEN subs[u] \cup {s} ELSE subs[u]]
  /\ down' = IF proc[s] = "linked" THEN [down EXCEPT ![s] = Append(@, Snapshot(BuildElements(U)))] ELSE down
  /\ UNCHANGED <<registered, session, dirty>>

(* A change nobody is subscribed to any more is forgotten. *)
Unsubscribed(s, U) == [u \in Users |-> IF u \in U THEN subs[u] \ {s} ELSE subs[u]]
LastLeft(s, U) == {u \in U : subs[u] # {} /\ subs[u] \ {s} = {}}

(* A defect: changes of users nobody watches are kept. *)
PlayerUnSubscribeKeepDirty(s, U) ==
  /\ FromServer(s, Unsubscribe(U))
  /\ subs' = Unsubscribed(s, U)
  /\ UNCHANGED <<registered, session, dirty, down>>

PlayerUnSubscribe(s, U) ==
  /\ FromServer(s, Unsubscribe(U))
  /\ subs' = Unsubscribed(s, U)
  /\ dirty' = dirty \ LastLeft(s, U)
  /\ UNCHANGED <<registered, session, down>>

OnPlayerStatusChanged(u) == dirty' = IF subs[u] # {} THEN dirty \cup {u} ELSE dirty

(* A defect: nobody is told. *)
CreateSessionQuiet(u, s) ==
  /\ Operation /\ registered[s]
  /\ session' = [session EXCEPT ![u] = s]
  /\ UNCHANGED <<registered, subs, dirty, up, down, proc, gameVars, losses>>

(* PlayerManager::CreateSession, at a login. *)
CreateSession(u, s) ==
  /\ Operation /\ registered[s]
  /\ session' = [session EXCEPT ![u] = s]
  /\ OnPlayerStatusChanged(u)
  /\ UNCHANGED <<registered, subs, up, down, proc, gameVars, losses>>

(* A route sends the player to another server; it stays online. *)
MoveSession(u, s) ==
  /\ Operation /\ registered[s] /\ session[u] \notin {NoServer, s}
  /\ session' = [session EXCEPT ![u] = s]
  /\ UNCHANGED <<registered, subs, dirty, up, down, proc, gameVars, losses>>

(* PlayerManager::EndSessionByID. *)
EndSession(u) ==
  /\ Operation
  /\ session' = [session EXCEPT ![u] = NoServer]
  /\ OnPlayerStatusChanged(u)
  /\ UNCHANGED <<registered, subs, up, down, proc, gameVars, losses>>

(* Update: each subscribed server gets the present status of the users     *)
(* whose status changed.                                                   *)
ChangedFor(s) == {u \in dirty : s \in subs[u]}
FlushPresence ==
  /\ dirty # {}
  /\ dirty' = {}
  /\ down' = [s \in Servers |->
       IF ChangedFor(s) # {} /\ registered[s] /\ proc[s] = "linked"
       THEN Append(down[s], Update(BuildElements(ChangedFor(s)))) ELSE down[s]]
  /\ UNCHANGED <<registered, session, subs, up, proc, gameVars, ops, losses>>

(* PlayerManager::EndSessionsByServer reports the server's number as the   *)
(* user whose status changed.                                              *)
EndSessionsByServer(s) == [u \in Users |-> IF session[u] = s THEN NoServer ELSE session[u]]
Reported(s) == {v \in Users : v = SameId[s] /\ \E u \in Users : session[u] = s}

(* A defect: the subscriptions of the server are left. *)
RemoveServerKeepSubs(s) ==
  /\ registered[s] /\ proc[s] # "linked"
  /\ registered' = [registered EXCEPT ![s] = FALSE]
  /\ session' = EndSessionsByServer(s)
  /\ up' = [up EXCEPT ![s] = <<>>]
  /\ UNCHANGED <<subs, dirty, down, proc, gameVars, ops, losses>>

(* RemoveServer: OnGameServerDisconnect, then EndSessionsByServer. *)
RemoveServer(s) ==
  /\ registered[s] /\ proc[s] # "linked"
  /\ registered' = [registered EXCEPT ![s] = FALSE]
  /\ subs' = Unsubscribed(s, Users)
  /\ session' = EndSessionsByServer(s)
  /\ dirty' = (dirty \ LastLeft(s, Users)) \cup {u \in Reported(s) : subs[u] \ {s} # {}}
  /\ up' = [up EXCEPT ![s] = <<>>]
  /\ UNCHANGED <<down, proc, gameVars, ops, losses>>

(* The server is started again and the Master accepts it. *)
AddServer(s) ==
  /\ ~registered[s] /\ proc[s] = "down"
  /\ registered' = [registered EXCEPT ![s] = TRUE]
  /\ proc' = [proc EXCEPT ![s] = "linked"]
  /\ UNCHANGED <<session, subs, dirty, up, down, gameVars, ops, losses>>

-----------------------------------------------------------------------------
(* The game servers.                                                       *)

Known(s, u) == presence[s][u] # NoPresence

(* RequestPresence adds n[u] needs of u.  Users that nobody needed before  *)
(* are subscribed at once, or by the timer.  NewlyNeededFirst is a defect: *)
(* a user that is needed again is taken to be subscribed.                  *)
NewlyNeededFirst(s, n) == {u \in Users : n[u] > 0 /\ presence[s][u].ref = -1}
NewlyNeeded(s, n) == {u \in Users : n[u] > 0 /\ presence[s][u].ref \in {-1, 0}}
Needed(s, n) ==
  [u \in Users |-> IF n[u] = 0 THEN presence[s][u]
                   ELSE [presence[s][u] EXCEPT !.ref = IF @ = -1 THEN n[u] ELSE @ + n[u]]]

RequestPresenceLater(s, n) ==
  /\ presence' = [presence EXCEPT ![s] = Needed(s, n)]
  /\ toSub' = [toSub EXCEPT ![s] = @ \cup NewlyNeeded(s, n)]
  /\ toUnsub' = [toUnsub EXCEPT ![s] = @ \ NewlyNeeded(s, n)]
  /\ UNCHANGED up
RequestPresenceAsap(s, n) ==
  LET new == NewlyNeeded(s, n) IN
  /\ presence' = [presence EXCEPT ![s] = Needed(s, n)]
  /\ toSub' = [toSub EXCEPT ![s] = @ \ new]
  /\ toUnsub' = [toUnsub EXCEPT ![s] = @ \ new]
  /\ ToMaster(s, new, Subscribe(new))

(* Defects: nobody is unsubscribed, or the count goes below 0. *)
ReleasePresenceUnguarded(s, u) ==
  LET ref == presence[s][u].ref IN
  /\ presence' = [presence EXCEPT ![s][u].ref = @ - 1]
  /\ toSub' = IF ref \in {0, 1} THEN [toSub EXCEPT ![s] = @ \ {u}] ELSE toSub
  /\ toUnsub' = IF ref \in {0, 1} THEN [toUnsub EXCEPT ![s] = @ \cup {u}] ELSE toUnsub
ReleasePresenceOnly(s, u) ==
  /\ presence' = IF presence[s][u].ref > 0 THEN [presence EXCEPT ![s][u].ref = @ - 1] ELSE presence
  /\ UNCHANGED <<toSub, toUnsub>>
ReleasePresence(s, u) ==
  LET ref == presence[s][u].ref IN
  /\ presence' = IF ref > 0 THEN [presence EXCEPT ![s][u].ref = @ - 1] ELSE presence
  /\ toSub' = IF ref \in {0, 1} THEN [toSub EXCEPT ![s] = @ \ {u}] ELSE toSub
  /\ toUnsub' = IF ref \in {0, 1} THEN [toUnsub EXCEPT ![s] = @ \cup {u}] ELSE toUnsub

(* A defect: every owner is waited for. *)
RequiredAll(s, q) == DOMAIN q

(* GetRequiredPresenceUserIDs: the monitors of owners nobody here watches  *)
(* yet.  Only neighbours of one owner are merged, the list is not sorted   *)
(* first: an owner that comes again after another is needed once more.     *)
Required(s, q) == {i \in DOMAIN q : ~Known(s, q[i])}
Owners(s, q) == {q[i] : i \in Required(s, q)}
Again(s, q, u) ==
  {i \in Required(s, q) :
    /\ q[i] = u
    /\ \E j \in Required(s, q) : j < i /\ q[j] = u
    /\ \E j \in Required(s, q) : j < i /\ q[j] # u /\ \A k \in Required(s, q) : k <= j \/ i <= k}
RequiredTimes(s, q) ==
  [u \in Users |-> IF u \in Owners(s, q) THEN 1 + Cardinality(Again(s, q, u)) ELSE 0]

(* StartWorldLoad of a world the Master placed here; w stands for its      *)
(* instance.  RequestPresenceForWorld when it must wait.                   *)
StartWorldLoad(s, w, q) ==
  /\ Operation
  /\ proc[s] = "linked" /\ world[s][w] = "none"
  /\ monitors' = [monitors EXCEPT ![s][w] = [u \in Users |-> Cardinality({i \in DOMAIN q : q[i] = u})]]
  /\ awaited' = [awaited EXCEPT ![s][w] = Owners(s, q)]
  /\ \/ /\ Required(s, q) = {}
        /\ world' = [world EXCEPT ![s][w] = "ready"]
        /\ UNCHANGED <<presence, toSub, toUnsub, up>>
     \/ /\ Required(s, q) # {}
        /\ world' = [world EXCEPT ![s][w] = "loading"]
        /\ RequestPresenceAsap(s, RequiredTimes(s, q))
  /\ UNCHANGED <<masterVars, down, proc, losses>>

(* A player of a ready world places a heart monitor, or breaks one. *)
OnHeartMonitorAdded(s, w, u) ==
  /\ Operation
  /\ world[s][w] = "ready"
  /\ FoldFunction(LAMBDA a, b : a + b, 0, monitors[s][w]) < MaxMonitors
  /\ monitors' = [monitors EXCEPT ![s][w][u] = @ + 1]
  /\ RequestPresenceLater(s, [v \in Users |-> IF v = u THEN 1 ELSE 0])
  /\ UNCHANGED <<masterVars, down, proc, world, awaited, losses>>
OnHeartMonitorRemoved(s, w, u) ==
  /\ Operation
  /\ world[s][w] = "ready" /\ monitors[s][w][u] > 0
  /\ monitors' = [monitors EXCEPT ![s][w][u] = @ - 1]
  /\ ReleasePresence(s, u)
  /\ UNCHANGED <<masterVars, up, down, proc, world, awaited, losses>>

(* The subscribe timer: who is still needed is subscribed. *)
UpdateSubscribe(s) ==
  LET list == {u \in toSub[s] : presence[s][u].ref > 0} IN
  /\ toSub[s] # {}
  /\ toSub' = [toSub EXCEPT ![s] = {}]
  /\ ToMaster(s, list, Subscribe(list))
  /\ UNCHANGED <<masterVars, down, proc, presence, toUnsub, world, awaited, monitors, ops, losses>>

(* The unsubscribe timer: who is needed no more is forgotten. *)
UpdateUnsubscribe(s) ==
  LET list == {u \in toUnsub[s] : presence[s][u].ref = 0} IN
  /\ toUnsub[s] # {}
  /\ toUnsub' = [toUnsub EXCEPT ![s] = {}]
  /\ presence' = [presence EXCEPT ![s] = [u \in Users |-> IF u \in list THEN NoPresence ELSE @[u]]]
  /\ ToMaster(s, list, Unsubscribe(list))
  /\ UNCHANGED <<masterVars, down, proc, toSub, world, awaited, monitors, ops, losses>>

(* What a packet says is noted for the users that are still watched. *)
Noted(s, f) ==
  [u \in Users |-> IF u \in DOMAIN f /\ Known(s, u) THEN [presence[s][u] EXCEPT !.on = f[u]]
                   ELSE presence[s][u]]

OnUpdate(s, m) ==
  /\ FromMaster(s, m) /\ m.kind = "update"
  /\ presence' = [presence EXCEPT ![s] = Noted(s, m.status)]
  /\ UNCHANGED <<masterVars, up, proc, toSub, toUnsub, world, awaited, monitors, ops, losses>>

(* HandleSnapshot: a world that waits for nobody any more becomes READY;   *)
(* any snapshot counts, whoever asked for it.                              *)
OnSnapshot(s, m) ==
  LET left(w) == awaited[s][w] \ DOMAIN m.status IN
  /\ FromMaster(s, m) /\ m.kind = "snapshot"
  /\ presence' = [presence EXCEPT ![s] = Noted(s, m.status)]
  /\ awaited' = [awaited EXCEPT ![s] = [w \in Worlds |-> left(w)]]
  /\ world' = [world EXCEPT ![s] = [w \in Worlds |->
       IF awaited[s][w] # {} /\ left(w) = {} THEN "ready" ELSE @[w]]]
  /\ UNCHANGED <<masterVars, up, proc, toSub, toUnsub, monitors, ops, losses>>

-----------------------------------------------------------------------------
LoseLink(s) ==
  /\ proc[s] = "linked" /\ losses < MaxLosses
  /\ proc' = [proc EXCEPT ![s] = "cut"]
  /\ losses' = losses + 1
  /\ down' = [down EXCEPT ![s] = <<>>]
  /\ UNCHANGED <<masterVars, up, gameVars, ops>>
Crash(s) ==
  /\ \/ proc[s] = "linked" /\ losses < MaxLosses /\ losses' = losses + 1
     \/ proc[s] = "cut" /\ UNCHANGED losses
  /\ proc' = [proc EXCEPT ![s] = "down"]
  /\ down' = [down EXCEPT ![s] = <<>>]
  /\ presence' = [presence EXCEPT ![s] = [u \in Users |-> NoPresence]]
  /\ toSub' = [toSub EXCEPT ![s] = {}]
  /\ toUnsub' = [toUnsub EXCEPT ![s] = {}]
  /\ world' = [world EXCEPT ![s] = [w \in Worlds |-> "none"]]
  /\ awaited' = [awaited EXCEPT ![s] = [w \in Worlds |-> {}]]
  /\ monitors' = [monitors EXCEPT ![s] = [w \in Worlds |-> [u \in Users |-> 0]]]
  /\ UNCHANGED <<masterVars, up, ops>>

Init ==
  /\ registered = [s \in Servers |-> TRUE]
  /\ session = [u \in Users |-> NoServer]
  /\ subs = [u \in Users |-> {}]
  /\ dirty = {}
  /\ up = [s \in Servers |-> <<>>]
  /\ down = [s \in Servers |-> <<>>]
  /\ proc = [s \in Servers |-> "linked"]
  /\ presence = [s \in Servers |-> [u \in Users |-> NoPresence]]
  /\ toSub = [s \in Servers |-> {}]
  /\ toUnsub = [s \in Servers |-> {}]
  /\ world = [s \in Servers |-> [w \in Worlds |-> "none"]]
  /\ awaited = [s \in Servers |-> [w \in Worlds |-> {}]]
  /\ monitors = [s \in Servers |-> [w \in Worlds |-> [u \in Users |-> 0]]]
  /\ ops = 0
  /\ losses = 0

FromServerHandlers(s) ==
  /\ \E U \in SUBSET Users : PlayerSubscribe(s, U) \/ PlayerUnSubscribe(s, U)
  /\ UNCHANGED <<proc, gameVars, ops, losses>>
FromMasterHandlers(s) == \E m \in DownMsg : OnUpdate(s, m) \/ OnSnapshot(s, m)

Sessions ==
  \E u \in Users : EndSession(u) \/ \E s \in Servers : CreateSession(u, s) \/ MoveSession(u, s)
WorldSteps(s) ==
  \E w \in Worlds :
    \/ \E q \in SavedMonitors : StartWorldLoad(s, w, q)
    \/ \E u \in Users : OnHeartMonitorAdded(s, w, u) \/ OnHeartMonitorRemoved(s, w, u)

Next ==
  \/ FlushPresence
  \/ Sessions
  \/ \E s \in Servers :
       \/ FromServerHandlers(s)
       \/ FromMasterHandlers(s)
       \/ UpdateSubscribe(s) \/ UpdateUnsubscribe(s)
       \/ WorldSteps(s)
       \/ AddServer(s) \/ RemoveServer(s)
       \/ LoseLink(s) \/ Crash(s)

Spec == Init /\ [][Next]_vars

(* The loops serve their queues and the timers fire. *)
Fairness ==
  /\ WF_vars(FlushPresence)
  /\ \A s \in Servers :
       /\ WF_vars(FromServerHandlers(s))
       /\ WF_vars(FromMasterHandlers(s))
       /\ WF_vars(UpdateSubscribe(s))
       /\ WF_vars(UpdateUnsubscribe(s))
FairSpec == Spec /\ Fairness

-----------------------------------------------------------------------------
(* Properties.                                                             *)

PresenceRecord == [ref : Nat, on : BOOLEAN]

MasterTypeOK ==
  /\ registered \in [Servers -> BOOLEAN]
  /\ session \in [Users -> Servers \cup {NoServer}]
  /\ subs \in [Users -> SUBSET Servers]
  /\ dirty \subseteq Users

QueuesTypeOK ==
  /\ up \in [Servers -> Seq(UpMsg)]
  /\ down \in [Servers -> Seq(DownMsg)]
  /\ proc \in [Servers -> {"down", "linked", "cut"}]

GameTypeOK ==
  /\ presence \in [Servers -> [Users -> PresenceRecord \cup {NoPresence}]]
  /\ toSub \in [Servers -> SUBSET Users]
  /\ toUnsub \in [Servers -> SUBSET Users]
  /\ world \in [Servers -> [Worlds -> {"none", "loading", "ready"}]]
  /\ awaited \in [Servers -> [Worlds -> SUBSET Users]]
  /\ monitors \in [Servers -> [Worlds -> [Users -> Nat]]]

TypeOK ==
  /\ MasterTypeOK
  /\ QueuesTypeOK
  /\ GameTypeOK
  /\ ops \in 0..MaxOps
  /\ losses \in 0..MaxLosses

(* Only servers the Master knows are subscribed to a user: when a server   *)
(* comes back under its old number it inherits no subscription, and every  *)
(* subscriber of a changed user can be sent the change.                    *)
SubscribersRegistered == \A u \in Users : \A s \in subs[u] : registered[s]

(* A change waits to be sent only while somebody is subscribed to the      *)
(* user: unsubscribing and losing servers leave no change behind.          *)
DirtyWatched == \A u \in dirty : subs[u] # {}

(* A watched user that nothing needs any more is due to be unsubscribed,   *)
(* however often it was needed and released in between: no subscription    *)
(* is forgotten.  A needed one that is not subscribed is due to be.        *)
NoForgottenSubscription ==
  \A s \in Servers, u \in Users :
    /\ presence[s][u].ref = 0 => u \in toUnsub[s]
    /\ u \in toSub[s] => presence[s][u].ref > 0 /\ u \notin toUnsub[s]

About(q, u) == {i \in DOMAIN q : u \in q[i].users}
(* Whether s is subscribed to u once the Master has read what is in up[s]. *)
WillBeSubscribed(s, u) ==
  \/ About(up[s], u) = {} /\ s \in subs[u]
  \/ \E i \in About(up[s], u) : up[s][i].kind = "sub" /\ \A j \in About(up[s], u) : j <= i

(* Both sides agree on what is subscribed: what is needed is subscribed,   *)
(* or about to be, and what is not watched is not, whatever subscriptions  *)
(* and unsubscriptions of the user follow one another on their way.        *)
SubscriptionAgrees ==
  \A s \in Servers, u \in Users :
    proc[s] = "linked" /\ registered[s] =>
      /\ presence[s][u].ref > 0 /\ u \notin toSub[s] => WillBeSubscribed(s, u)
      /\ ~Known(s, u) => ~WillBeSubscribed(s, u)

(* Nothing about u is on its way between s and the Master. *)
Settled(s, u) ==
  /\ proc[s] = "linked" /\ registered[s] /\ Known(s, u)
  /\ u \notin toSub[s] /\ u \notin dirty /\ s \in subs[u]
  /\ About(up[s], u) = {}
  /\ \A i \in DOMAIN down[s] : u \notin DOMAIN down[s][i].status

(* A game server never goes on showing a player as offline who is online.  *)
SeesLogin == \A s \in Servers, u \in Users : Settled(s, u) /\ Online(u) => presence[s][u].on

(* OnPlayerStatusChanged takes the id of the user whose session ended, so  *)
(* that a game server does not go on showing as online who is offline.     *)
(* EndSessionsByServer gives it the number of the server instead.          *)
SeesLogout == \A s \in Servers, u \in Users : Settled(s, u) /\ presence[s][u].on => Online(u)

(* A world is LOADING exactly while it waits for a snapshot, and for each  *)
(* user it waits for the question or the answer is on its way: a world     *)
(* does not wait for an answer that another world used up.                 *)
AwaitedIsAsked ==
  \A s \in Servers, w \in Worlds :
    /\ world[s][w] = "loading" <=> awaited[s][w] # {}
    /\ proc[s] = "linked" /\ registered[s] =>
         \A u \in awaited[s][w] :
           \/ \E i \in About(up[s], u) : up[s][i].kind = "sub"
           \/ \E i \in DOMAIN down[s] : down[s][i].kind = "snapshot" /\ u \in DOMAIN down[s][i].status

(* Every world that waits for presence becomes READY unless its server is  *)
(* cut off: what WorldSessions assumes of OnWorldPresenceReady.            *)
WorldBecomesReady ==
  \A s \in Servers, w \in Worlds :
    world[s][w] = "loading" ~> (world[s][w] = "ready" \/ proc[s] # "linked")

(* Whoever logs in and stays is shown online by every server that goes on  *)
(* needing to know.                                                        *)
LoginIsShown ==
  \A s \in Servers, u \in Users :
    (Online(u) /\ presence[s][u].ref > 0)
      ~> (presence[s][u].on \/ ~Online(u) \/ presence[s][u].ref \in {-1, 0} \/ proc[s] # "linked")
=============================================================================
