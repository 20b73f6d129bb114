--------------------------- MODULE WorldPresence ---------------------------
(***************************************************************************)
(* The list of worlds every game server shows in its world menu.  A game   *)
(* server counts the players of its own worlds and reports what changed;   *)
(* the Master keeps the list of all worlds, tells every registered game    *)
(* server of each new world at once and of changed counts by a timer, and  *)
(* takes the worlds of a lost server off all lists.  A server that becomes *)
(* ready is sent the whole list.                                           *)
(*                                                                         *)
(* An info is what the packets say of a world: its player count and        *)
(* whether a signal jammer is on.  How a world is placed on a server and   *)
(* loaded is the matter of WorldSessions; here a world becomes READY on a  *)
(* ready server at some moment.  A timer may fire at any moment.           *)
(*                                                                         *)
(* Nothing sends WORLD_REMOVE to the Master: RemoveLocalWorld has no       *)
(* caller.  Unloading a world, which follows an hour without players,      *)
(* takes its server down (UpdateWorlds reads the deleted world): a Crash.  *)
(*                                                                         *)
(* Bounds: each of Worlds is an instance id and used once; MaxChanges caps *)
(* the changes of counts, MaxLosses the lost links and processes.          *)
(* MaxElements is PRESENCE_MAX_ELEMENTS, 4096 in the code.                 *)
(***************************************************************************)
EXTENDS Integers, Sequences, FiniteSets

CONSTANTS Servers, Worlds, Infos, NewInfo, NoInfo, NoServer, MaxElements, MaxChanges, MaxLosses

ASSUME NoServerAssumption == NoServer \notin Servers
ASSUME InfoAssumption == NewInfo \in Infos /\ NoInfo \notin Infos
ASSUME BoundsAssumption == MaxElements \in Nat /\ MaxChanges \in Nat /\ MaxLosses \in Nat

VARIABLES
  srv,          \* Master m_servers: "none", "authed" (AddServer) or "ready" (READY received)
  worldSubs,    \* Master m_worldSubs
  dirtyWorlds,  \* Master m_dirtyWorlds
  up,           \* packets from each game server to the Master
  down,         \* packets from the Master to each game server
  proc,         \* game process: "down", "linked" to the Master, or "cut" off from it
  world,        \* the true info of each READY world of each server
  local,        \* game server m_localWorldUpdates, whose entries start as NewInfo
  dirtyLocal,   \* game server m_dirtyLocalWorlds
  list,         \* game server m_worldPresences
  used,         \* the instance ids given so far
  changes, losses

masterVars == <<srv, worldSubs, dirtyWorlds>>
gameVars == <<world, local, dirtyLocal, list>>
vars == <<masterVars, up, down, proc, gameVars, used, changes, losses>>

Unlisted == [server |-> NoServer, info |-> NoInfo]
Listed == {w \in Worlds : worldSubs[w] # Unlisted}

(* The packets say something about some worlds.  A created and a list      *)
(* packet are both a TCP_PACKET_WORLD_SNAPSHOT, and treated alike.         *)
InitOK(w)  == [kind |-> "init", about |-> [v \in {w} |-> NewInfo]]
Created(w) == [kind |-> "created", about |-> [v \in {w} |-> NewInfo]]
List(f)    == [kind |-> "list", about |-> f]
Update(f)  == [kind |-> "update", about |-> f]
Remove(W)  == [kind |-> "remove", about |-> [w \in W |-> NoInfo]]

InfosAbout == UNION {[W -> Infos] : W \in SUBSET Worlds}
Removals == UNION {[W -> {NoInfo}] : W \in SUBSET Worlds}
UpMsg == [kind : {"init", "update"}, about : InfosAbout]
DownMsg ==
  [kind : {"created", "list", "update"}, about : InfosAbout] \cup [kind : {"remove"}, about : Removals]

(* ReadPresenceElements drops a packet that is too long as a whole. *)
Readable(m) == Cardinality(DOMAIN m.about) <= MaxElements

(* The element about w, if the packet is read; else the value so far. *)
Said(m, w, else) == IF w \in DOMAIN m.about /\ Readable(m) THEN m.about[w] ELSE else

ToMaster(s, m) ==
  up' = IF proc[s] = "linked" THEN [up EXCEPT ![s] = Append(@, m)] ELSE up

FromServer(s, m) ==
  /\ srv[s] # "none"
  /\ up[s] # <<>> /\ Head(up[s]) = m
  /\ up' = [up EXCEPT ![s] = Tail(@)]

FromMaster(s, m) ==
  /\ proc[s] = "linked"
  /\ down[s] # <<>> /\ Head(down[s]) = m
  /\ down' = [down EXCEPT ![s] = Tail(@)]

(* BroadcastPresence: every registered game server, ready or not; who has  *)
(* lost the link gets nothing.                                             *)
Registered(s) == srv[s] # "none"
Broadcast(m) ==
  down' = [s \in Servers |->
             IF Registered(s) /\ proc[s] = "linked" THEN Append(down[s], m) ELSE down[s]]

-----------------------------------------------------------------------------
(* The Master.                                                             *)

(* A defect: the server that runs the world is not told. *)
OnWorldCreatedOthers(s, w) ==
  /\ FromServer(s, InitOK(w))
  /\ worldSubs' = [worldSubs EXCEPT ![w] = [server |-> s, info |-> NewInfo]]
  /\ down' = [t \in Servers |->
               IF Registered(t) /\ proc[t] = "linked" /\ t # s THEN Append(down[t], Created(w)) ELSE down[t]]
  /\ UNCHANGED <<srv, dirtyWorlds, proc, gameVars, used, changes, losses>>

(* The end of HandleWorldInit: the world its server reports is listed with *)
(* no players, until that server says more, and all servers are told.      *)
OnWorldCreated(s, w) ==
  /\ FromServer(s, InitOK(w))
  /\ worldSubs' = [worldSubs EXCEPT ![w] = [server |-> s, info |-> NewInfo]]
  /\ Broadcast(Created(w))
  /\ UNCHANGED <<srv, dirtyWorlds, proc, gameVars, used, changes, losses>>

(* The worlds of an update that the Master lists.                          *)
Reported(m) == {w \in Listed : w \in DOMAIN m.about /\ Readable(m)}

(* A defect: the change is noted and not passed on. *)
WorldUpdateQuiet(s, m) ==
  /\ FromServer(s, m) /\ m.kind = "update"
  /\ worldSubs' = [w \in Worlds |->
       IF w \in Reported(m) THEN [server |-> worldSubs[w].server, info |-> m.about[w]] ELSE worldSubs[w]]
  /\ UNCHANGED <<srv, dirtyWorlds, down, proc, gameVars, used, changes, losses>>

(* OnTCPPacket, TCP_PACKET_WORLD_UPDATE. *)
WorldUpdate(s, m) ==
  /\ FromServer(s, m) /\ m.kind = "update"
  /\ worldSubs' = [w \in Worlds |->
       IF w \in Reported(m) THEN [server |-> worldSubs[w].server, info |-> m.about[w]] ELSE worldSubs[w]]
  /\ dirtyWorlds' = dirtyWorlds \cup Reported(m)
  /\ UNCHANGED <<srv, down, proc, gameVars, used, changes, losses>>

ListedInfo(W) == [w \in W |-> worldSubs[w].info]

(* Update: the present info of the worlds that changed. *)
FlushWorlds ==
  LET W == dirtyWorlds \cap Listed IN
  /\ dirtyWorlds # {}
  /\ dirtyWorlds' = {}
  /\ IF W # {} THEN Broadcast(Update(ListedInfo(W))) ELSE UNCHANGED down
  /\ UNCHANGED <<srv, worldSubs, up, proc, gameVars, used, changes, losses>>

(* TCPEvent_Auth with AddServer, of a server that has been started. *)
AddServer(s) ==
  /\ srv[s] = "none" /\ proc[s] = "down"
  /\ srv' = [srv EXCEPT ![s] = "authed"]
  /\ proc' = [proc EXCEPT ![s] = "linked"]
  /\ UNCHANGED <<worldSubs, dirtyWorlds, up, down, gameVars, used, changes, losses>>

(* A defect: a server that becomes ready is told nothing. *)
ServerReadySilent(s) ==
  /\ srv[s] = "authed" /\ proc[s] = "linked"
  /\ srv' = [srv EXCEPT ![s] = "ready"]
  /\ UNCHANGED <<worldSubs, dirtyWorlds, up, down, proc, gameVars, used, changes, losses>>

(* TCPEvent_Ready with OnGameServerConnected. *)
ServerReady(s) ==
  /\ srv[s] = "authed" /\ proc[s] = "linked"
  /\ srv' = [srv EXCEPT ![s] = "ready"]
  /\ down' = IF Listed = {} THEN down ELSE [down EXCEPT ![s] = Append(@, List(ListedInfo(Listed)))]
  /\ UNCHANGED <<worldSubs, dirtyWorlds, up, proc, gameVars, used, changes, losses>>

WorldsOf(s) == {w \in Listed : worldSubs[w].server = s}
Without(W) == [w \in Worlds |-> IF w \in W THEN Unlisted ELSE worldSubs[w]]

(* Defects: the worlds of the lost server stay, the other servers are not  *)
(* told, or changes of its worlds stay to be passed on.                    *)
RemoveServerWith(s, ws, dirty, told) ==
  /\ srv[s] # "none" /\ proc[s] # "linked"
  /\ srv' = [srv EXCEPT ![s] = "none"]
  /\ worldSubs' = ws
  /\ dirtyWorlds' = dirty
  /\ IF told THEN Broadcast(Remove(WorldsOf(s))) ELSE UNCHANGED down
  /\ up' = [up EXCEPT ![s] = <<>>]
  /\ UNCHANGED <<proc, gameVars, used, changes, losses>>
RemoveServerKeepWorlds(s) == RemoveServerWith(s, worldSubs, dirtyWorlds, FALSE)
RemoveServerSilent(s) == RemoveServerWith(s, Without(WorldsOf(s)), dirtyWorlds \ WorldsOf(s), FALSE)
RemoveServerKeepDirty(s) ==
  RemoveServerWith(s, Without(WorldsOf(s)), dirtyWorlds, WorldsOf(s) # {})

(* RemoveServer with OnGameServerDisconnect, once the connection is gone;  *)
(* packets of the server that are still queued are skipped.                *)
RemoveServer(s) ==
  LET W == WorldsOf(s) IN
  /\ srv[s] # "none" /\ proc[s] # "linked"
  /\ srv' = [srv EXCEPT ![s] = "none"]
  /\ worldSubs' = Without(W)
  /\ dirtyWorlds' = dirtyWorlds \ W
  /\ IF W # {} THEN Broadcast(Remove(W)) ELSE UNCHANGED down
  /\ up' = [up EXCEPT ![s] = <<>>]
  /\ UNCHANGED <<proc, gameVars, used, changes, losses>>

-----------------------------------------------------------------------------
(* The game servers.                                                       *)

Hosted(s) == {w \in Worlds : world[s][w] # NoInfo}

(* A world the Master placed on s becomes READY and s reports it: the last *)
(* steps of StartWorldLoad and of OnWorldPresenceReady.  A jammer may be   *)
(* on in a saved world.                                                    *)
WorldReady(s, w, i) ==
  /\ srv[s] = "ready" /\ proc[s] = "linked" /\ w \notin used
  /\ used' = used \cup {w}
  /\ world' = [world EXCEPT ![s][w] = i]
  /\ ToMaster(s, InitOK(w))
  /\ UNCHANGED <<masterVars, down, proc, local, dirtyLocal, list, changes, losses>>

(* Players come and go, a jammer is switched. *)
WorldChanges(s, w, i) ==
  /\ changes < MaxChanges /\ changes' = changes + 1
  /\ w \in Hosted(s) /\ world[s][w] # i
  /\ world' = [world EXCEPT ![s][w] = i]
  /\ UNCHANGED <<masterVars, up, down, proc, local, dirtyLocal, list, used, losses>>

(* What UpdateLocalWorldPresence finds changed. *)
Changed(s) == {w \in Hosted(s) : local[s][w] # world[s][w]}

(* Defects: a world that is not READY is looked at too; a change back to   *)
(* what was reported first is taken for none.                              *)
UpdateWorldsAll(s) ==
  /\ \E w \in Worlds : local[s][w] # world[s][w]
  /\ local' = [local EXCEPT ![s] = world[s]]
  /\ dirtyLocal' = [dirtyLocal EXCEPT ![s] = @ \cup {w \in Worlds : local[s][w] # world[s][w]}]
  /\ UNCHANGED <<masterVars, up, down, proc, world, list, used, changes, losses>>
UpdateWorldsNotBack(s) ==
  /\ Changed(s) # {}
  /\ local' = [local EXCEPT ![s] = [w \in Worlds |-> IF w \in Changed(s) THEN world[s][w] ELSE @[w]]]
  /\ dirtyLocal' = [dirtyLocal EXCEPT ![s] = @ \cup {w \in Changed(s) : world[s][w] # NewInfo}]
  /\ UNCHANGED <<masterVars, up, down, proc, world, list, used, changes, losses>>

(* A game tick: World::Update of every READY world ends with               *)
(* UpdateLocalWorldPresence.                                               *)
UpdateWorlds(s) ==
  /\ Changed(s) # {}
  /\ local' = [local EXCEPT ![s] = [w \in Worlds |-> IF w \in Changed(s) THEN world[s][w] ELSE @[w]]]
  /\ dirtyLocal' = [dirtyLocal EXCEPT ![s] = @ \cup Changed(s)]
  /\ UNCHANGED <<masterVars, up, down, proc, world, list, used, changes, losses>>

(* Update: the local worlds that changed are reported. *)
FlushLocal(s) ==
  /\ dirtyLocal[s] # {}
  /\ dirtyLocal' = [dirtyLocal EXCEPT ![s] = {}]
  /\ ToMaster(s, Update([w \in dirtyLocal[s] |-> local[s][w]]))
  /\ UNCHANGED <<masterVars, down, proc, world, local, list, used, changes, losses>>

(* What the list says of w once m is handled: a snapshot sets its worlds,  *)
(* an update sets those that are shown, a remove takes its worlds off.     *)
Shown(s, m, w) ==
  IF m.kind = "update" /\ list[s][w] = NoInfo THEN NoInfo ELSE Said(m, w, list[s][w])

(* OnTCPPacket, TCP_PACKET_WORLD_SNAPSHOT, _UPDATE and _REMOVE. *)
OnTCPPacket(s, m) ==
  /\ FromMaster(s, m)
  /\ list' = [list EXCEPT ![s] = [w \in Worlds |-> Shown(s, m, w)]]
  /\ UNCHANGED <<masterVars, up, proc, world, local, dirtyLocal, used, changes, losses>>

-----------------------------------------------------------------------------
(* Losses, as in WorldSessions: who loses the Master never reconnects, and *)
(* a process that ends takes its worlds and its list with it.              *)
LoseLink(s) ==
  /\ proc[s] = "linked" /\ losses < MaxLosses
  /\ proc' = [proc EXCEPT ![s] = "cut"]
  /\ losses' = losses + 1
  /\ down' = [down EXCEPT ![s] = <<>>]
  /\ UNCHANGED <<masterVars, up, gameVars, used, changes>>
Crash(s) ==
  /\ \/ proc[s] = "linked" /\ losses < MaxLosses /\ losses' = losses + 1
     \/ proc[s] = "cut" /\ UNCHANGED losses
  /\ proc' = [proc EXCEPT ![s] = "down"]
  /\ down' = [down EXCEPT ![s] = <<>>]
  /\ world' = [world EXCEPT ![s] = [w \in Worlds |-> NoInfo]]
  /\ local' = [local EXCEPT ![s] = [w \in Worlds |-> NewInfo]]
  /\ dirtyLocal' = [dirtyLocal EXCEPT ![s] = {}]
  /\ list' = [list EXCEPT ![s] = [w \in Worlds |-> NoInfo]]
  /\ UNCHANGED <<masterVars, up, used, changes>>

Init ==
  /\ srv = [s \in Servers |-> "none"]
  /\ worldSubs = [w \in Worlds |-> Unlisted]
  /\ dirtyWorlds = {}
  /\ up = [s \in Servers |-> <<>>]
  /\ down = [s \in Servers |-> <<>>]
  /\ proc = [s \in Servers |-> "down"]
  /\ world = [s \in Servers |-> [w \in Worlds |-> NoInfo]]
  /\ local = [s \in Servers |-> [w \in Worlds |-> NewInfo]]
  /\ dirtyLocal = [s \in Servers |-> {}]
  /\ list = [s \in Servers |-> [w \in Worlds |-> NoInfo]]
  /\ used = {}
  /\ changes = 0
  /\ losses = 0

(* Each loop handles the packet at the head of its queue. *)
MasterHandles(s) ==
  \/ \E w \in Worlds : OnWorldCreated(s, w)
  \/ up[s] # <<>> /\ WorldUpdate(s, Head(up[s]))
GameHandles(s) == down[s] # <<>> /\ OnTCPPacket(s, Head(down[s]))

Next ==
  \/ FlushWorlds
  \/ \E s \in Servers :
       \/ MasterHandles(s)
       \/ GameHandles(s)
       \/ AddServer(s) \/ ServerReady(s) \/ RemoveServer(s)
       \/ \E w \in Worlds, i \in Infos : WorldReady(s, w, i) \/ WorldChanges(s, w, i)
       \/ UpdateWorlds(s) \/ FlushLocal(s)
       \/ LoseLink(s) \/ Crash(s)

Spec == Init /\ [][Next]_vars

(* The loops of the Master and of the game servers go on: packets are      *)
(* handled, timers fire, worlds are updated.  TCP reports a lost link.     *)
Fairness ==
  /\ WF_vars(FlushWorlds)
  /\ \A s \in Servers :
       /\ WF_vars(MasterHandles(s)) /\ WF_vars(GameHandles(s))
       /\ WF_vars(RemoveServer(s))
       /\ WF_vars(UpdateWorlds(s)) /\ WF_vars(FlushLocal(s))

-----------------------------------------------------------------------------
(* Properties.                                                             *)

InfoOrNone == Infos \cup {NoInfo}

(* The state is well typed: every listed world has a server and an info,   *)
(* and a game server reports nothing of a world it does not have ready.    *)
TypeOK ==
  /\ srv \in [Servers -> {"none", "authed", "ready"}]
  /\ worldSubs \in [Worlds -> [server : Servers, info : Infos] \cup {Unlisted}]
  /\ dirtyWorlds \subseteq Worlds
  /\ up \in [Servers -> Seq(UpMsg)]
  /\ down \in [Servers -> Seq(DownMsg)]
  /\ proc \in [Servers -> {"down", "linked", "cut"}]
  /\ world \in [Servers -> [Worlds -> InfoOrNone]]
  /\ local \in [Servers -> [Worlds -> Infos]]
  /\ dirtyLocal \in [Servers -> SUBSET Worlds]
  /\ list \in [Servers -> [Worlds -> InfoOrNone]]
  /\ used \subseteq Worlds
  /\ changes \in 0..MaxChanges
  /\ losses \in 0..MaxLosses

(* The Master passes on changes of listed worlds only: whatever order      *)
(* creations, reports and losses of servers come in, the flush never meets *)
(* a world that has left m_worldSubs.                                      *)
DirtyListed == dirtyWorlds \subseteq Listed

(* A listed world is on a registered server, and as long as that server is *)
(* connected it does run the world: neither a late report nor a restart    *)
(* under the same number leaves a list pointing at a world that is gone.   *)
ListedOnline ==
  \A w \in Listed : LET s == worldSubs[w].server IN
    Registered(s) /\ (proc[s] = "linked" => w \in Hosted(s))

(* No packet is too long to be read.  PRESENCE_MAX_ELEMENTS allows 4096    *)
(* worlds, and the list is sent in one packet however long it is.          *)
AllReadable == IsFiniteSet(Worlds) /\ Cardinality(Worlds) <= MaxElements

(* The packets of q that say something of w, all of them or those that     *)
(* decide whether it is shown; and that i is the last of some of them.     *)
About(q, w) == {i \in DOMAIN q : w \in DOMAIN q[i].about}
Deciding(q, w) == {i \in About(q, w) : q[i].kind # "update"}
IsLast(i, I) == i \in I /\ \A j \in I : j <= i

(* Once the packets of q are handled by a server that now shows x for w,   *)
(* it shows w, and what it shows is the info i.                            *)
WillShow(q, x, w) ==
  \/ Deciding(q, w) = {} /\ x # NoInfo
  \/ \E k \in DOMAIN q : IsLast(k, Deciding(q, w)) /\ q[k].kind # "remove"
WillSay(q, x, w, i) ==
  \/ About(q, w) = {} /\ x = i
  \/ \E k \in DOMAIN q : IsLast(k, About(q, w)) /\ q[k].about[w] = i

(* The queue to a ready server always completes its list: once all packets *)
(* on their way are handled, exactly the worlds the Master lists are shown *)
(* with the Master's info, except for changes not flushed yet.  A server   *)
(* that is not ready shows none that are not listed.                       *)
Completes(s, w) ==
  LET shows == WillShow(down[s], list[s][w], w) IN
  /\ shows => w \in Listed
  /\ w \in Listed /\ srv[s] = "ready" => shows
  /\ shows /\ w \notin dirtyWorlds => WillSay(down[s], list[s][w], w, worldSubs[w].info)
QueueCompletesList ==
  AllReadable => \A s \in Servers, w \in Worlds : proc[s] = "linked" => Completes(s, w)

(* What a connected server last noted of a READY world reaches the Master: *)
(* it is in the Master's list, or the last packet about the world says it, *)
(* or the timer will send it.  The report of the world itself comes first, *)
(* so no count is lost for being reported before the world is listed.      *)
Reaches(s, w) ==
  LET said == About(up[s], w) IN
  /\ w \in Listed \/ \E i \in said : up[s][i].kind = "init" /\ \A j \in said : i <= j
  /\ w \in dirtyLocal[s] \/ WillSay(up[s], worldSubs[w].info, w, local[s][w])
ReportsReachMaster ==
  AllReadable => \A s \in Servers : proc[s] = "linked" => \A w \in Hosted(s) : Reaches(s, w)

(* When no more worlds are loaded, no counts change and no links are lost, *)
(* every ready server comes to show exactly the worlds the connected       *)
(* servers run, each with its true info.                                   *)
Running(w) == {t \in Servers : proc[t] = "linked" /\ w \in Hosted(t)}
Settled ==
  \A s \in Servers : srv[s] = "ready" /\ proc[s] = "linked" =>
    \A w \in Worlds :
      /\ Running(w) = {} => list[s][w] = NoInfo
      /\ \A t \in Running(w) : list[s][w] = world[t][w]
ListsSettle == <>[]Settled
=============================================================================
