--------------------------- MODULE WorldSessions ---------------------------
(***************************************************************************)
(* How a player gets into a world.  The Master keeps the directory of      *)
(* worlds (which game server runs which instance) and the directory of     *)
(* player sessions; the game servers run the worlds and hold the players.  *)
(* They talk over one TCP connection per game server, FIFO in each         *)
(* direction: up[s] from server s to the Master, down[s] back.  The Master *)
(* asks its database whether a world exists before it places it.           *)
(*                                                                         *)
(* Handlers run to completion on the one game-loop thread of their         *)
(* process, so each is one action.  RemoveServer runs on the Master's      *)
(* event thread; it is modelled as atomic too.                             *)
(*                                                                         *)
(* Bounds: MaxInst caps the world instances ever created, MaxCmds the      *)
(* commands all clients give, MaxLosses the lost links and processes.      *)
(***************************************************************************)
EXTENDS Integers, Sequences, FiniteSets

CONSTANTS Users, Servers, Names, MaxInst, MaxCmds, MaxLosses, NoServer, NoName

ASSUME NoServerAssumption == NoServer \notin Servers
ASSUME NoNameAssumption == NoName \notin Names
ASSUME BoundsAssumption == MaxInst \in Nat /\ MaxCmds \in Nat /\ MaxLosses \in Nat

VARIABLES
  srv,       \* Master m_servers: "none", "authed" (AddServer) or "ready" (READY received)
  session,   \* Master m_sessions: server and world of each user
  worlds,    \* Master m_worldSessionsByInstance
  byName,    \* Master m_worldInstanceByName, 0 when the name has no entry
  nextInst,  \* the next id NetEntity gives to a world
  dbq,       \* Master database tasks, served and answered in order
  dbRows,    \* names with a row in table Worlds
  up,        \* packets from each game server to the Master
  down,      \* packets from the Master to each game server
  proc,      \* game process: "down", "linked" to the Master, or "cut" off from it
  gw,        \* game server m_worlds, with the members of each world
  obj,       \* the GamePlayer object of each user on each server
  client,    \* what each user's game client is doing
  cmds,      \* commands the clients have given
  losses     \* links and processes lost so far

masterVars == <<srv, session, worlds, byName, nextInst, dbq, dbRows>>
gameVars == <<gw, obj>>
clientVars == <<client, cmds>>
vars == <<masterVars, up, down, proc, gameVars, clientVars, losses>>

Inst == 1..MaxInst
InstOrNone == 0..MaxInst

NoSession == [server |-> NoServer, world |-> 0]
NoWorld == [state |-> "none", name |-> NoName, server |-> NoServer, waiting |-> <<>>, count |-> 0]
NoGameWorld == [state |-> "none", name |-> NoName, players |-> [u \in Users |-> 0]]
NoPlayer == [st |-> "none", mode |-> "welcome", world |-> 0, id |-> 0]
Offline == [st |-> "off", at |-> NoServer, mode |-> "welcome"]

-----------------------------------------------------------------------------
(* The packets.  A login token is not modelled: a user has one client, so  *)
(* the token of a session it just obtained always matches.                 *)

Join(u, n)           == [kind |-> "join", user |-> u, name |-> n]
InitOK(w)            == [kind |-> "init", inst |-> w]
Joined(u, w)         == [kind |-> "joined", user |-> u, inst |-> w]
Left(u, w)           == [kind |-> "left", user |-> u, inst |-> w]
EndPlayer(u)         == [kind |-> "end", user |-> u]
Check(u, id)         == [kind |-> "check", user |-> u, id |-> id]

InitWorld(n, w)      == [kind |-> "winit", name |-> n, inst |-> w]
JoinFail(u)          == [kind |-> "fail", user |-> u]
Route(u, t, w)       == [kind |-> "route", user |-> u, server |-> t, inst |-> w]
Checked(u, id, ok, w) == [kind |-> "checked", user |-> u, id |-> id, ok |-> ok, inst |-> w]

UpMsg ==
  [kind : {"join"}, user : Users, name : Names]
    \cup [kind : {"init"}, inst : Inst]
    \cup [kind : {"joined", "left"}, user : Users, inst : Inst]
    \cup [kind : {"end"}, user : Users]
    \cup [kind : {"check"}, user : Users, id : 0..MaxCmds]

DownMsg ==
  [kind : {"winit"}, name : Names, inst : Inst]
    \cup [kind : {"fail"}, user : Users]
    \cup [kind : {"route"}, user : Users, server : Servers, inst : Inst]
    \cup [kind : {"checked"}, user : Users, id : 0..MaxCmds, ok : BOOLEAN, inst : InstOrNone]

Waiting == [user : Users, source : Servers]
DBTask == [kind : {"exists", "create"}, user : Users, source : Servers, name : Names]

(* A client gives one more command.  The count also numbers connections: a *)
(* client gives a command before each one, so none of its numbers recurs.  *)
Command == cmds < MaxCmds /\ cmds' = cmds + 1

(* The packet at the head of a queue. *)
Arrives(q, m) == q # <<>> /\ Head(q) = m

(* Only a connected game server receives what the Master sends it, and     *)
(* MasterBroadway drops what it sends once m_pNetClient is null.           *)
ToServer(s, m) ==
  down' = IF proc[s] = "linked" THEN [down EXCEPT ![s] = Append(@, m)] ELSE down
ToMaster(s, ms) ==
  up' = IF proc[s] = "linked" THEN [up EXCEPT ![s] = @ \o ms] ELSE up

(* The Master takes m off the queue of server s.  Packets of a client that *)
(* has no ServerInfo any more are discarded by UpdateTCPLogic.             *)
FromServer(s, m) ==
  /\ srv[s] # "none"
  /\ Arrives(up[s], m)
  /\ up' = [up EXCEPT ![s] = Tail(@)]

(* Server s takes m off its queue. *)
FromMaster(s, m) ==
  /\ proc[s] = "linked"
  /\ Arrives(down[s], m)
  /\ down' = [down EXCEPT ![s] = Tail(@)]

-----------------------------------------------------------------------------
(* The Master.                                                             *)

Registered(s) == srv[s] # "none"
GetWorldByName(n) ==
  IF byName[n] # 0 /\ worlds[byName[n]].state # "none" THEN byName[n] ELSE 0

(* A defect: the list is not searched for the player first. *)
AttachPendingAlways(w, s, u) ==
  /\ UNCHANGED down
  /\ worlds' = [worlds EXCEPT ![w].waiting = Append(@, [user |-> u, source |-> s])]
  /\ session' = IF session[u] = NoSession THEN session
                ELSE [session EXCEPT ![u] = [server |-> s, world |-> w]]

(* A waiting player is not queued twice in one world; its session follows  *)
(* the world it waits for, still on the server it asks from.               *)
AttachPending(w, s, u) ==
  /\ UNCHANGED down
  /\ IF \E i \in DOMAIN worlds[w].waiting : worlds[w].waiting[i].user = u
     THEN UNCHANGED <<worlds, session>>
     ELSE /\ worlds' = [worlds EXCEPT ![w].waiting = Append(@, [user |-> u, source |-> s])]
          /\ session' = IF session[u] = NoSession THEN session
                        ELSE [session EXCEPT ![u] = [server |-> s, world |-> w]]

(* The branch for an offline target server is left out: WorldServerOnline  *)
(* shows it is never taken.                                                *)
RoutePlayerToExistingWorld(w, s, u) ==
  /\ session' = IF session[u] = NoSession THEN session
                ELSE [session EXCEPT ![u] = [server |-> worlds[w].server, world |-> w]]
  /\ ToServer(s, Route(u, worlds[w].server, w))
  /\ UNCHANGED worlds

(* A defect: a world that is still loading is taken for a ready one. *)
HandlePlayerJoinRequestEarly(s, u, n) ==
  LET w == GetWorldByName(n) IN
  /\ FromServer(s, Join(u, n))
  /\ UNCHANGED <<srv, byName, nextInst, dbRows>>
  /\ \/ /\ w = 0
        /\ dbq' = Append(dbq, [kind |-> "exists", user |-> u, source |-> s, name |-> n])
        /\ UNCHANGED <<worlds, session, down>>
     \/ /\ w # 0
        /\ RoutePlayerToExistingWorld(w, s, u)
        /\ UNCHANGED dbq

(* IsUserLocked is always false and no world of the Master ever enters     *)
(* WORLD_STATE_DELETE, so FailPlayerJoin has no reachable call here.       *)
HandlePlayerJoinRequest(s, u, n) ==
  LET w == GetWorldByName(n) IN
  /\ FromServer(s, Join(u, n))
  /\ UNCHANGED <<srv, byName, nextInst, dbRows>>
  /\ \/ /\ w = 0
        /\ dbq' = Append(dbq, [kind |-> "exists", user |-> u, source |-> s, name |-> n])
        /\ UNCHANGED <<worlds, session, down>>
     \/ /\ w # 0 /\ worlds[w].state = "loading"
        /\ AttachPending(w, s, u)
        /\ UNCHANGED dbq
     \/ /\ w # 0 /\ worlds[w].state = "ready"
        /\ RoutePlayerToExistingWorld(w, s, u)
        /\ UNCHANGED dbq

(* GetBestGameServer compares loads that heartbeats report; any ready game *)
(* server may come out best.                                               *)
ReadyServers == {t \in Servers : srv[t] = "ready"}

(* The instance is entered under its name whether or not another instance  *)
(* took that name while the database was asked.                            *)
CreateWorldSessionAndNotice(n, u, s) ==
  \/ /\ ReadyServers = {}
     /\ ToServer(s, JoinFail(u))
     /\ UNCHANGED <<worlds, byName, nextInst>>
  \/ /\ nextInst <= MaxInst
     /\ \E t \in ReadyServers :
          /\ worlds' = [worlds EXCEPT ![nextInst] =
               [state |-> "loading", name |-> n, server |-> t,
                waiting |-> <<[user |-> u, source |-> s]>>, count |-> 0]]
          /\ ToServer(t, InitWorld(n, nextInst))
     /\ byName' = [byName EXCEPT ![n] = nextInst]
     /\ nextInst' = nextInst + 1

(* CheckWorldExistCB: a failed query fails the join, a row places the      *)
(* world, no row creates one first.                                        *)
CheckWorldExistCB(t) ==
  /\ UNCHANGED <<srv, session, dbRows, up>>
  /\ dbq # <<>> /\ Head(dbq) = t /\ t.kind = "exists"
  /\ \/ /\ ~Registered(t.source)
        /\ dbq' = Tail(dbq)
        /\ UNCHANGED <<worlds, byName, nextInst, down>>
     \/ /\ Registered(t.source)
        /\ dbq' = Tail(dbq)
        /\ ToServer(t.source, JoinFail(t.user))
        /\ UNCHANGED <<worlds, byName, nextInst>>
     \/ /\ Registered(t.source) /\ t.name \in dbRows
        /\ dbq' = Tail(dbq)
        /\ CreateWorldSessionAndNotice(t.name, t.user, t.source)
     \/ /\ Registered(t.source) /\ t.name \notin dbRows
        /\ dbq' = Append(Tail(dbq), [t EXCEPT !.kind = "create"])
        /\ UNCHANGED <<worlds, byName, nextInst, down>>

(* CreateWorldCB: the insert either gave an id or failed; table Worlds has *)
(* no unique key on Name, so a second row of a name is no failure.  The    *)
(* row is there even when the asking server has gone.                      *)
CreateWorldCB(t) ==
  /\ UNCHANGED <<srv, session, up>>
  /\ dbq # <<>> /\ Head(dbq) = t /\ t.kind = "create"
  /\ dbq' = Tail(dbq)
  /\ \/ /\ dbRows' = dbRows \cup {t.name}
        /\ ~Registered(t.source)
        /\ UNCHANGED <<worlds, byName, nextInst, down>>
     \/ /\ dbRows' = dbRows \cup {t.name}
        /\ Registered(t.source)
        /\ CreateWorldSessionAndNotice(t.name, t.user, t.source)
     \/ /\ UNCHANGED <<dbRows, worlds, byName, nextInst>>
        /\ IF Registered(t.source) THEN ToServer(t.source, JoinFail(t.user)) ELSE UNCHANGED down

(* The places in the waiting list of w of those who asked from server s    *)
(* and still have a session.                                               *)
Waiters(s, w) ==
  {i \in DOMAIN worlds[w].waiting :
     worlds[w].waiting[i].source = s /\ session[worlds[w].waiting[i].user] # NoSession}

(* The replies HandleWorldInit sends to server s, in waiting order. *)
RepliesTo(s, w) ==
  LET place(k) == CHOOSE i \in Waiters(s, w) : Cardinality({j \in Waiters(s, w) : j <= i}) = k
  IN  [k \in 1..Cardinality(Waiters(s, w)) |->
         Route(worlds[w].waiting[place(k)].user, worlds[w].server, w)]

(* A defect: the waiting list is not cleared. *)
HandleWorldInitNoClear(s, w) ==
  /\ FromServer(s, InitOK(w))
  /\ IF worlds[w].state = "none"
     THEN UNCHANGED <<worlds, session, down>>
     ELSE /\ worlds' = [worlds EXCEPT ![w].state = "ready"]
          /\ UNCHANGED session
          /\ down' = [t \in Servers |->
               IF proc[t] = "linked" /\ Registered(t) THEN down[t] \o RepliesTo(t, w) ELSE down[t]]
  /\ UNCHANGED <<srv, byName, nextInst, dbq, dbRows>>

(* HandleWorldInit: everyone who waited and still has a session is routed, *)
(* the others are forgotten.  Game servers only ever report success.       *)
HandleWorldInit(s, w) ==
  /\ FromServer(s, InitOK(w))
  /\ IF worlds[w].state = "none"
     THEN UNCHANGED <<worlds, session, down>>
     ELSE /\ worlds' = [worlds EXCEPT ![w].state = "ready", ![w].waiting = <<>>]
          /\ session' = [u \in Users |->
               IF session[u] # NoSession /\ \E i \in DOMAIN worlds[w].waiting : worlds[w].waiting[i].user = u
               THEN [server |-> worlds[w].server, world |-> w] ELSE session[u]]
          /\ down' = [t \in Servers |->
               IF proc[t] = "linked" /\ Registered(t) THEN down[t] \o RepliesTo(t, w) ELSE down[t]]
  /\ UNCHANGED <<srv, byName, nextInst, dbq, dbRows>>

(* Defects: the handler stops when the user has no session, or does not    *)
(* look whether it has one.                                                *)
WorldPlayerJoinSessionOnly(s, u, w) ==
  /\ FromServer(s, Joined(u, w))
  /\ worlds' = IF worlds[w].state = "none" \/ session[u] = NoSession THEN worlds
               ELSE [worlds EXCEPT ![w].count = @ + 1]
  /\ session' = IF session[u] = NoSession THEN session ELSE [session EXCEPT ![u].world = w]
  /\ UNCHANGED <<srv, byName, nextInst, dbq, dbRows, down>>
WorldPlayerJoinUnchecked(s, u, w) ==
  /\ FromServer(s, Joined(u, w))
  /\ worlds' = IF worlds[w].state = "none" THEN worlds ELSE [worlds EXCEPT ![w].count = @ + 1]
  /\ session' = [session EXCEPT ![u].world = w]
  /\ UNCHANGED <<srv, byName, nextInst, dbq, dbRows, down>>

(* TCPEvent_WorldPlayerSession, JOIN. *)
WorldPlayerJoin(s, u, w) ==
  /\ FromServer(s, Joined(u, w))
  /\ worlds' = IF worlds[w].state = "none" THEN worlds ELSE [worlds EXCEPT ![w].count = @ + 1]
  /\ session' = IF session[u] = NoSession THEN session ELSE [session EXCEPT ![u].world = w]
  /\ UNCHANGED <<srv, byName, nextInst, dbq, dbRows, down>>

(* TCPEvent_WorldPlayerSession, LEAVE: the session forgets its world,      *)
(* whichever world that is.                                                *)
WorldPlayerLeave(s, u, w) ==
  /\ FromServer(s, Left(u, w))
  /\ worlds' = IF worlds[w].state = "none" \/ worlds[w].count = 0 THEN worlds
               ELSE [worlds EXCEPT ![w].count = @ - 1]
  /\ session' = IF session[u] = NoSession THEN session ELSE [session EXCEPT ![u].world = 0]
  /\ UNCHANGED <<srv, byName, nextInst, dbq, dbRows, down>>

(* TCPEvent_PlayerEndSession: whoever sends it ends the user's session. *)
PlayerEndSession(s, u) ==
  /\ FromServer(s, EndPlayer(u))
  /\ session' = [session EXCEPT ![u] = NoSession]
  /\ UNCHANGED <<srv, worlds, byName, nextInst, dbq, dbRows, down>>

(* TCPEvent_PlayerCheckSession. *)
PlayerCheckSession(s, u, id) ==
  LET has == session[u].server = s IN
  /\ FromServer(s, Check(u, id))
  /\ ToServer(s, Checked(u, id, has, IF has THEN session[u].world ELSE 0))
  /\ UNCHANGED masterVars

(* TCPEvent_Auth with AddServer: the id must be free.  TCPEvent_Ready.     *)
AddServer(s) ==
  /\ srv[s] = "none" /\ proc[s] = "down"
  /\ srv' = [srv EXCEPT ![s] = "authed"]
  /\ proc' = [proc EXCEPT ![s] = "linked"]
  /\ UNCHANGED <<session, worlds, byName, nextInst, dbq, dbRows, up, down, gameVars, clientVars, losses>>
ServerReady(s) ==
  /\ srv[s] = "authed" /\ proc[s] = "linked"
  /\ srv' = [srv EXCEPT ![s] = "ready"]
  /\ UNCHANGED <<session, worlds, byName, nextInst, dbq, dbRows, up, down, proc, gameVars, clientVars, losses>>

(* Defects: the sessions, the worlds or the names of the server are left.  *)
RemoveServerWith(s, ss, ws, ns) ==
  /\ Registered(s) /\ proc[s] # "linked"
  /\ srv' = [srv EXCEPT ![s] = "none"]
  /\ session' = ss /\ worlds' = ws /\ byName' = ns
  /\ up' = [up EXCEPT ![s] = <<>>]
  /\ UNCHANGED <<nextInst, dbq, dbRows, down, proc, gameVars, clientVars, losses>>

(* EndSessionsByServer and EndSessionsByServerID. *)
SessionsWithout(s) == [u \in Users |-> IF session[u].server = s THEN NoSession ELSE session[u]]
WorldsWithout(s) == [w \in Inst |-> IF worlds[w].server = s THEN NoWorld ELSE worlds[w]]
NamesWithout(s) ==
  [n \in Names |-> IF \E w \in Inst : worlds[w].server = s /\ worlds[w].name = n THEN 0 ELSE byName[n]]

RemoveServerKeepSessions(s) == RemoveServerWith(s, session, WorldsWithout(s), NamesWithout(s))
RemoveServerKeepWorlds(s) == RemoveServerWith(s, SessionsWithout(s), worlds, byName)
RemoveServerKeepNames(s) == RemoveServerWith(s, SessionsWithout(s), WorldsWithout(s), byName)

(* RemoveServer, on the event thread once the connection is gone: its      *)
(* sessions and its worlds go with it, and its queued packets are skipped. *)
(* A name is dropped with each of its worlds, even when it leads to        *)
(* another instance by now.                                                *)
RemoveServer(s) ==
  /\ Registered(s) /\ proc[s] # "linked"
  /\ srv' = [srv EXCEPT ![s] = "none"]
  /\ session' = SessionsWithout(s)
  /\ worlds' = WorldsWithout(s)
  /\ byName' = NamesWithout(s)
  /\ up' = [up EXCEPT ![s] = <<>>]
  /\ UNCHANGED <<nextInst, dbq, dbRows, down, proc, gameVars, clientVars, losses>>

(* The Master's part of a login: GamePlayer::SendToGame sends the client   *)
(* to the server of its session, or else to the best one, and replaces the *)
(* session.  worldInstanceID starts uninitialised there; a welcome login   *)
(* never reads it and every route writes it, so 0 stands for it.           *)
SendToGame(u, s) ==
  /\ client[u].st = "off" /\ Command
  /\ IF session[u] = NoSession THEN s \in ReadyServers ELSE s = session[u].server
  /\ session' = [session EXCEPT ![u] = [server |-> s, world |-> 0]]
  /\ client' = [client EXCEPT ![u] = [st |-> "dial", at |-> s, mode |-> "welcome"]]
  /\ UNCHANGED <<srv, worlds, byName, nextInst, dbq, dbRows, up, down, proc, gameVars, losses>>

-----------------------------------------------------------------------------
(* The game servers.                                                       *)

Hosts(s, w) == w # 0 /\ gw[s][w].state # "none"

(* m_worldNameCache holds the instance added last under a name; ids grow   *)
(* and the Master's packets arrive in order, so that is the largest id.    *)
Named(s, n, w) == Hosts(s, w) /\ gw[s][w].name = n
LocalWorld(s, n, w) == Named(s, n, w) /\ \A v \in Inst : Named(s, n, v) => v <= w

(* A defect: a world that waits for presence is reported at once. *)
GameHandleWorldInitEarly(s, n, w) ==
  /\ FromMaster(s, InitWorld(n, w))
  /\ \E st \in {"ready", "loading"} :
       gw' = [gw EXCEPT ![s][w] = [NoGameWorld EXCEPT !.state = st, !.name = n]]
  /\ ToMaster(s, <<InitOK(w)>>)
  /\ UNCHANGED <<masterVars, proc, obj, clientVars, losses>>

(* HandleWorldInit and StartWorldLoad: the world is READY at once unless   *)
(* it waits for the presence of the owners of its heart monitors.          *)
GameHandleWorldInit(s, n, w) ==
  /\ FromMaster(s, InitWorld(n, w))
  /\ \/ /\ gw' = [gw EXCEPT ![s][w] = [NoGameWorld EXCEPT !.state = "ready", !.name = n]]
        /\ ToMaster(s, <<InitOK(w)>>)
     \/ /\ gw' = [gw EXCEPT ![s][w] = [NoGameWorld EXCEPT !.state = "loading", !.name = n]]
        /\ UNCHANGED up
  /\ UNCHANGED <<masterVars, proc, obj, clientVars, losses>>

(* A defect: the Master is not told. *)
OnWorldPresenceReadySilent(s, w) ==
  /\ proc[s] = "linked" /\ gw[s][w].state = "loading"
  /\ gw' = [gw EXCEPT ![s][w].state = "ready"]
  /\ UNCHANGED <<masterVars, up, down, proc, obj, clientVars, losses>>

(* OnWorldPresenceReady: all snapshots are here.                           *)
OnWorldPresenceReady(s, w) ==
  /\ proc[s] = "linked" /\ gw[s][w].state = "loading"
  /\ gw' = [gw EXCEPT ![s][w].state = "ready"]
  /\ ToMaster(s, <<InitOK(w)>>)
  /\ UNCHANGED <<masterVars, down, proc, obj, clientVars, losses>>

(* PlayerLeaveWorld takes u out of the member list once, if it is there.   *)
IsMember(s, w, u) == Hosts(s, w) /\ gw[s][w].players[u] > 0
WithoutPlayer(ws, w, u) == [ws EXCEPT ![w].players[u] = @ - 1]
WithPlayer(ws, w, u) == [ws EXCEPT ![w].players[u] = @ + 1]

(* PlayerLeaveWorld, hard: p is the player object once the caller is done. *)
PlayerLeaveWorld(s, u, w, p, after) ==
  IF IsMember(s, w, u)
  THEN /\ gw' = [gw EXCEPT ![s] = WithoutPlayer(@, w, u)]
       /\ obj' = [obj EXCEPT ![s][u] = IF p = NoPlayer THEN p ELSE [p EXCEPT !.world = 0]]
       /\ ToMaster(s, <<Left(u, w)>> \o after)
  ELSE /\ obj' = [obj EXCEPT ![s][u] = p]
       /\ ToMaster(s, after)
       /\ UNCHANGED gw

(* OnPlayerJoinRequest and AddPlayer: p, the object of u, enters w.        *)
EnterWorld(s, u, w, p) ==
  LET leaves == IsMember(s, p.world, u) IN
  IF gw[s][w].state # "ready" \/ p.world = w
  THEN obj' = [obj EXCEPT ![s][u] = p] /\ UNCHANGED <<gw, up>>
  ELSE /\ gw' = [gw EXCEPT ![s] =
            WithPlayer(IF leaves THEN WithoutPlayer(@, p.world, u) ELSE @, w, u)]
       /\ obj' = [obj EXCEPT ![s][u] = [p EXCEPT !.world = w]]
       /\ ToMaster(s, (IF leaves THEN <<Left(u, p.world)>> ELSE <<>>) \o <<Joined(u, w)>>)

(* PlayerJoinRequest of p for a valid name: a local world is entered       *)
(* directly, unless it is still loading; another is the Master's business. *)
JoinByName(s, u, n, p) ==
  \/ /\ \A w \in Inst : ~Named(s, n, w)
     /\ ToMaster(s, <<Join(u, n)>>)
     /\ obj' = [obj EXCEPT ![s][u] = p]
     /\ UNCHANGED gw
  \/ \E w \in Inst : LocalWorld(s, n, w) /\ EnterWorld(s, u, w, p)

Playing(s, u) == client[u].st = "on" /\ client[u].at = s /\ obj[s][u].st = "game"

(* GameMessage_JoinRequest and the PlayerJoinRequest of the next tick.     *)
PlayerJoinRequest(s, u, n) ==
  /\ Playing(s, u) /\ Command
  /\ JoinByName(s, u, n, obj[s][u])
  /\ UNCHANGED <<masterVars, down, proc, client, losses>>

(* GameMessage_QuitToExit, and a join request for EXIT. *)
QuitToExit(s, u) ==
  /\ Playing(s, u) /\ Command
  /\ Hosts(s, obj[s][u].world)
  /\ PlayerLeaveWorld(s, u, obj[s][u].world, obj[s][u], <<>>)
  /\ UNCHANGED <<masterVars, down, proc, client, losses>>

(* LogOff of object p: only the first call leaves the world, and only a    *)
(* player in the game does; last is what it tells the Master, then is the  *)
(* object it leaves behind.                                                *)
LogOff(s, u, then, last) ==
  LET p == obj[s][u] IN
  IF p.st = "deleted"
  THEN obj' = [obj EXCEPT ![s][u] = then] /\ UNCHANGED <<gw, up>>
  ELSE IF p.st = "game"
  THEN PlayerLeaveWorld(s, u, p.world, then, last)
  ELSE /\ obj' = [obj EXCEPT ![s][u] = then]
       /\ ToMaster(s, last)
       /\ UNCHANGED gw

Deleted(p) == [p EXCEPT !.st = "deleted"]

(* GameMessage_Quit: LogOff(true, true, true). *)
Quit(s, u) ==
  /\ client[u].st = "on" /\ client[u].at = s
  /\ obj[s][u].st \in {"entering", "game"}
  /\ Command
  /\ LogOff(s, u, Deleted(obj[s][u]), <<EndPlayer(u)>>)
  /\ client' = [client EXCEPT ![u] = Offline]
  /\ UNCHANGED <<masterVars, down, proc, losses>>

(* OnEventDisconnect: LogOff(true, true, true, false) and the object goes. *)
(* A refused client leaves by itself, at no command's cost.                *)
OnEventDisconnect(s, u) ==
  /\ client[u].st = "on" /\ client[u].at = s
  /\ \/ obj[s][u].st = "refused" /\ UNCHANGED cmds
     \/ obj[s][u].st # "refused" /\ Command
  /\ IF obj[s][u].st = "none" THEN UNCHANGED <<gw, obj, up>>
     ELSE LogOff(s, u, NoPlayer, <<EndPlayer(u)>>)
  /\ client' = [client EXCEPT ![u] = Offline]
  /\ UNCHANGED <<masterVars, down, proc, losses>>

(* UpdatePlayers erases an object in PLAYER_STATE_DELETE. *)
UpdatePlayers(s, u) ==
  /\ obj[s][u].st = "deleted"
  /\ obj' = [obj EXCEPT ![s][u] = NoPlayer]
  /\ UNCHANGED <<masterVars, up, down, proc, gw, clientVars, losses>>

(* The client connects and StartLoginRequest asks the Master about it.  It *)
(* takes longer than a game tick, so an old object of u is gone by then.   *)
StartLoginRequest(s, u) ==
  /\ client[u].st = "dial" /\ client[u].at = s
  /\ proc[s] # "down" /\ obj[s][u].st = "none"
  /\ obj' = [obj EXCEPT ![s][u] = [st |-> "check", mode |-> client[u].mode, world |-> 0, id |-> cmds]]
  /\ client' = [client EXCEPT ![u].st = "on"]
  /\ ToMaster(s, <<Check(u, cmds)>>)
  /\ UNCHANGED <<masterVars, down, proc, gw, cmds, losses>>

(* Nobody answers at that address any more. *)
ConnectFails(u) ==
  /\ client[u].st = "dial" /\ proc[client[u].at] = "down"
  /\ client' = [client EXCEPT ![u] = Offline]
  /\ UNCHANGED <<masterVars, up, down, proc, gameVars, cmds, losses>>

(* HandleCheckSession and TransferToGame.  The reply names the connection, *)
(* so a reply for a connection that has gone is dropped.                   *)
HandleCheckSession(s, u, id, ok, w) ==
  LET p == obj[s][u] IN
  /\ FromMaster(s, Checked(u, id, ok, w))
  /\ obj' = IF p.st # "check" \/ p.id # id THEN obj
            ELSE IF ~ok THEN [obj EXCEPT ![s][u].st = "refused"]
            ELSE [obj EXCEPT ![s][u] =
                   [p EXCEPT !.st = "entering", !.world = IF p.mode = "transfer" THEN w ELSE @]]
  /\ UNCHANGED <<masterVars, up, proc, gw, clientVars, losses>>

(* OnEnterGameCB: a transferred player asks at once for the world the      *)
(* check named, if it is here; anyone else gets the world menu.            *)
EnterGame(s, u) ==
  LET p == [obj[s][u] EXCEPT !.st = "game", !.world = 0]
      w == obj[s][u].world
  IN
  /\ obj[s][u].st = "entering"
  /\ IF Hosts(s, w) THEN JoinByName(s, u, gw[s][w].name, p)
     ELSE obj' = [obj EXCEPT ![s][u] = p] /\ UNCHANGED <<gw, up>>
  /\ UNCHANGED <<masterVars, down, proc, clientVars, losses>>

(* HandlePlayerJoin, refused: the player is told. *)
HandleJoinFail(s, u) ==
  /\ FromMaster(s, JoinFail(u))
  /\ UNCHANGED <<masterVars, up, proc, gameVars, clientVars, losses>>

(* HandlePlayerJoin: a player routed elsewhere is sent there and logged    *)
(* off, LogOff(true, false, false, false); one routed here enters.  The    *)
(* player is looked up by user id, whatever state its object is in.        *)
HandlePlayerJoin(s, u, t, w) ==
  LET p == obj[s][u] IN
  /\ FromMaster(s, Route(u, t, w))
  /\ \/ /\ p.st = "none"
        /\ UNCHANGED <<up, gameVars, client>>
     \/ /\ p.st # "none" /\ t # s
        /\ LogOff(s, u, Deleted(p), <<>>)
        /\ client' = IF client[u].st = "on" /\ client[u].at = s
                     THEN [client EXCEPT ![u] = [st |-> "dial", at |-> t, mode |-> "transfer"]]
                     ELSE client
     \/ /\ p.st # "none" /\ t = s
        /\ EnterWorld(s, u, w, p)
        /\ UNCHANGED client
  /\ UNCHANGED <<masterVars, proc, cmds, losses>>

-----------------------------------------------------------------------------
(* Losses.  A game server that loses the Master keeps running without it   *)
(* and never reconnects; one that crashes, which deleting an empty world   *)
(* makes it do (UpdateWorlds reads the world it just freed), takes its     *)
(* worlds and players with it.                                             *)
LoseLink(s) ==
  /\ proc[s] = "linked" /\ losses < MaxLosses
  /\ proc' = [proc EXCEPT ![s] = "cut"]
  /\ losses' = losses + 1
  /\ down' = [down EXCEPT ![s] = <<>>]
  /\ UNCHANGED <<masterVars, up, gameVars, clientVars>>
Crash(s) ==
  /\ \/ proc[s] = "linked" /\ losses < MaxLosses /\ losses' = losses + 1
     \/ proc[s] = "cut" /\ UNCHANGED losses
  /\ proc' = [proc EXCEPT ![s] = "down"]
  /\ down' = [down EXCEPT ![s] = <<>>]
  /\ gw' = [gw EXCEPT ![s] = [w \in Inst |-> NoGameWorld]]
  /\ obj' = [obj EXCEPT ![s] = [u \in Users |-> NoPlayer]]
  /\ client' = [u \in Users |-> IF client[u].st = "on" /\ client[u].at = s THEN Offline ELSE client[u]]
  /\ UNCHANGED <<masterVars, up, cmds>>

-----------------------------------------------------------------------------
Init ==
  /\ srv = [s \in Servers |-> "ready"]
  /\ session = [u \in Users |-> NoSession]
  /\ worlds = [w \in Inst |-> NoWorld]
  /\ byName = [n \in Names |-> 0]
  /\ nextInst = 1
  /\ dbq = <<>>
  /\ dbRows = {}
  /\ up = [s \in Servers |-> <<>>]
  /\ down = [s \in Servers |-> <<>>]
  /\ proc = [s \in Servers |-> "linked"]
  /\ gw = [s \in Servers |-> [w \in Inst |-> NoGameWorld]]
  /\ obj = [s \in Servers |-> [u \in Users |-> NoPlayer]]
  /\ client = [u \in Users |-> Offline]
  /\ cmds = 0
  /\ losses = 0

(* What the Master does with the packet at the head of up[s]. *)
FromServerHandlers(s) ==
  /\ \/ \E u \in Users, n \in Names : HandlePlayerJoinRequest(s, u, n)
     \/ \E w \in Inst : HandleWorldInit(s, w)
     \/ \E u \in Users, w \in Inst : WorldPlayerJoin(s, u, w) \/ WorldPlayerLeave(s, u, w)
     \/ \E u \in Users : PlayerEndSession(s, u)
     \/ \E u \in Users, id \in 0..MaxCmds : PlayerCheckSession(s, u, id)
  /\ UNCHANGED <<proc, gameVars, clientVars, losses>>

DatabaseResults ==
  /\ \E t \in DBTask : CheckWorldExistCB(t) \/ CreateWorldCB(t)
  /\ UNCHANGED <<srv, session, up, proc, gameVars, clientVars, losses>>

(* What game server s does with the packet at the head of down[s]. *)
FromMasterHandlers(s) ==
  \/ \E n \in Names, w \in Inst : GameHandleWorldInit(s, n, w)
  \/ \E u \in Users : HandleJoinFail(s, u)
  \/ \E u \in Users, t \in Servers, w \in Inst : HandlePlayerJoin(s, u, t, w)
  \/ \E u \in Users, id \in 0..MaxCmds, ok \in BOOLEAN, w \in InstOrNone :
       HandleCheckSession(s, u, id, ok, w)

Clients(s) ==
  \E u \in Users :
    \/ SendToGame(u, s)
    \/ \E n \in Names : PlayerJoinRequest(s, u, n)
    \/ QuitToExit(s, u)
    \/ Quit(s, u)
    \/ OnEventDisconnect(s, u)

Losses(s) == LoseLink(s) \/ Crash(s)

Next ==
  \/ DatabaseResults
  \/ \E u \in Users : ConnectFails(u)
  \/ \E s \in Servers :
       \/ FromServerHandlers(s)
       \/ FromMasterHandlers(s)
       \/ Clients(s)
       \/ \E u \in Users : UpdatePlayers(s, u) \/ StartLoginRequest(s, u) \/ EnterGame(s, u)
       \/ \E w \in Inst : OnWorldPresenceReady(s, w)
       \/ AddServer(s) \/ ServerReady(s) \/ RemoveServer(s)
       \/ Losses(s)

Spec == Init /\ [][Next]_vars

(* The loops of the Master and of each server keep serving their queues,   *)
(* the database answers, and a presence snapshot that was asked for comes. *)
Fairness ==
  /\ WF_vars(DatabaseResults)
  /\ \A s \in Servers :
       /\ WF_vars(FromServerHandlers(s))
       /\ WF_vars(FromMasterHandlers(s))
       /\ \A w \in Inst : WF_vars(OnWorldPresenceReady(s, w))
FairSpec == Spec /\ Fairness

-----------------------------------------------------------------------------
(* Properties.                                                             *)

SessionRecord == [server : Servers, world : InstOrNone]
WorldRecord ==
  [state : {"loading", "ready"}, name : Names, server : Servers, waiting : Seq(Waiting), count : Nat]

(* The state of the Master, then of the game servers and clients.          *)
MasterTypeOK ==
  /\ srv \in [Servers -> {"none", "authed", "ready"}]
  /\ session \in [Users -> SessionRecord \cup {NoSession}]
  /\ worlds \in [Inst -> WorldRecord \cup {NoWorld}]
  /\ byName \in [Names -> InstOrNone]
  /\ nextInst \in 1..MaxInst + 1
  /\ dbq \in Seq(DBTask)
  /\ dbRows \subseteq Names

GameWorldRecord == [state : {"loading", "ready"}, name : Names, players : [Users -> Nat]]
PlayerRecord ==
  [st : {"check", "refused", "entering", "game", "deleted"},
   mode : {"welcome", "transfer"}, world : InstOrNone, id : 0..MaxCmds]
ClientRecord == [st : {"dial", "on"}, at : Servers, mode : {"welcome", "transfer"}]

GameTypeOK ==
  /\ up \in [Servers -> Seq(UpMsg)]
  /\ proc \in [Servers -> {"down", "linked", "cut"}]
  /\ gw \in [Servers -> [Inst -> GameWorldRecord \cup {NoGameWorld}]]
  /\ obj \in [Servers -> [Users -> PlayerRecord \cup {NoPlayer}]]
  /\ client \in [Users -> ClientRecord \cup {Offline}]
  /\ cmds \in 0..MaxCmds
  /\ losses \in 0..MaxLosses

(* The whole state is well typed: a session, a world or a player object is *)
(* complete or not there at all, so no handler writes through a null one.  *)
TypeOK == MasterTypeOK /\ GameTypeOK /\ down \in [Servers -> Seq(DownMsg)]

(* Every world of the directory is on a game server that is still          *)
(* registered, whatever went away while the database was asked or while    *)
(* the world was loading: RemoveServer leaves none behind.                 *)
WorldServerOnline ==
  \A w \in Inst : worlds[w] # NoWorld => Registered(worlds[w].server)

(* Every session names a registered server, though AttachPending, routing, *)
(* world initialisation and login all move sessions between servers: a     *)
(* login that finds a session can always be sent to its server.            *)
SessionServerOnline ==
  \A u \in Users : session[u] # NoSession => Registered(session[u].server)

(* A name leads to a world of that name or to nothing: no entry of         *)
(* m_worldInstanceByName dangles, also after duplicates and removals.      *)
NameMapSound ==
  \A n \in Names : byName[n] # 0 => worlds[byName[n]].state # "none" /\ worlds[byName[n]].name = n

(* Nobody waits for a world that is ready, and nobody waits twice in one.  *)
WaitingListsSound ==
  \A w \in Inst :
    /\ worlds[w].state = "ready" => worlds[w].waiting = <<>>
    /\ \A i, j \in DOMAIN worlds[w].waiting :
         worlds[w].waiting[i].user = worlds[w].waiting[j].user => i = j

CountIn(q, m) == Cardinality({i \in DOMAIN q : q[i] = m})

(* The entries of a member list: a user is in it as often as it was added. *)
Entries(players) == UNION {{u} \X (1..players[u]) : u \in DOMAIN players}
Members(s, w) == Cardinality(Entries(gw[s][w].players))

(* While its server is connected, a world's playerCount at the Master is   *)
(* the number of members it has there, once the JOIN and LEAVE packets on  *)
(* their way are counted: none is lost, doubled or clamped away.           *)
PlayerCountConserved ==
  \A w \in Inst : LET s == worlds[w].server IN
    worlds[w].state # "none" /\ proc[s] = "linked" =>
      worlds[w].count
        + Cardinality({i \in DOMAIN up[s] : up[s][i].kind = "joined" /\ up[s][i].inst = w})
        - Cardinality({i \in DOMAIN up[s] : up[s][i].kind = "left" /\ up[s][i].inst = w})
      = Members(s, w)

(* A loading world is being initialised exactly once: the order is on its  *)
(* way to the server, or the server loads it, or the answer is on its way  *)
(* back.  A ready one has none of these.                                   *)
InitInProgress ==
  \A w \in Inst : LET s == worlds[w].server IN
    worlds[w].state # "none" /\ proc[s] = "linked" =>
      CountIn(down[s], InitWorld(worlds[w].name, w)) + CountIn(up[s], InitOK(w))
        + (IF gw[s][w].state = "loading" THEN 1 ELSE 0)
      = IF worlds[w].state = "loading" THEN 1 ELSE 0

(* A player is only ever routed to a world that its server has ready: as   *)
(* long as that server is connected and the Master still lists the world,  *)
(* nobody gets "lost between servers".                                     *)
RouteReachesReadyWorld ==
  \A s \in Servers : \A i \in DOMAIN down[s] :
    LET m == down[s][i] IN
    m.kind = "route" /\ worlds[m.inst].state # "none" /\ proc[m.server] = "linked" =>
      worlds[m.inst].server = m.server /\ gw[m.server][m.inst].state = "ready"

(* WorldManager.h takes it that two servers cannot have a world of the     *)
(* same name.  Two joins whose database checks overlap give it two         *)
(* instances, and these may be placed on two servers.                      *)
OneServerPerName ==
  \A v, w \in Inst :
    worlds[v].state # "none" /\ worlds[w].state # "none" /\ worlds[v].name = worlds[w].name =>
      worlds[v].server = worlds[w].server

(* A request of u for n that the Master has not handled yet, and all that  *)
(* stands for a request of u from s before the reply to it.                *)
HasAsked(u, s, n) == \E i \in DOMAIN up[s] : up[s][i] = Join(u, n)
IsWaiting(u, s) ==
  \/ \E n \in Names : HasAsked(u, s, n)
  \/ \E i \in DOMAIN dbq : dbq[i].user = u /\ dbq[i].source = s
  \/ \E w \in Inst : \E i \in DOMAIN worlds[w].waiting :
       worlds[w].waiting[i] = [user |-> u, source |-> s]
IsAnswered(u, s) == \E i \in DOMAIN down[s] : down[s][i].kind \in {"fail", "route"} /\ down[s][i].user = u

(* u asks from s for a world on whose waiting list it already is under     *)
(* another server: AttachPending drops such a request, and HandleWorldInit *)
(* answers the server on the list.                                         *)
WaitsElsewhere(u, s) ==
  \E w \in Inst : \E i \in DOMAIN worlds[w].waiting :
    /\ HasAsked(u, s, worlds[w].name)
    /\ worlds[w].waiting[i].user = u /\ worlds[w].waiting[i].source # s

(* The places of the queues q where something of T stands.                 *)
Spots(q, T) == {i \in DOMAIN q : q[i] \in T}
Places(q, T) == UNION {{d} \X Spots(q[d], T) : d \in DOMAIN q}

(* The requests of u the Master has not seen yet, and all that stands for  *)
(* a request of u: a packet, a database task, a place in a list, a reply.  *)
RequestsOf(u) == [kind : {"join"}, user : {u}, name : Names]
TasksOf(u) == [kind : {"exists", "create"}, user : {u}, source : Servers, name : Names]
WaitingOf(u) == [user : {u}, source : Servers]
RepliesOf(u) ==
  [kind : {"fail"}, user : {u}] \cup [kind : {"route"}, user : {u}, server : Servers, inst : Inst]
WaitingLists == [w \in Inst |-> worlds[w].waiting]

Asking(u) == Cardinality(Places(up, RequestsOf(u)))
Asked(u) == Cardinality(Spots(dbq, TasksOf(u)))
Listed(u) == Cardinality(Places(WaitingLists, WaitingOf(u)))
Replies(u) == Cardinality(Places(down, RepliesOf(u)))
Requests(u) == Asking(u) + Asked(u) + Listed(u) + Replies(u)

(* A request is never answered twice: only a player that asks adds to what *)
(* stands for its requests; every other step passes one on or drops it.    *)
OneAnswerPerRequest ==
  [][\A u \in Users : Asking(u)' <= Asking(u) => Requests(u)' <= Requests(u)]_vars

(* With no server lost, a player that asks from a server gets an answer    *)
(* there, through two queues, the database, a waiting list and the load of *)
(* the world: unless its session ends first, or it asks for a world it     *)
(* already waits for under another server, the one it came from.           *)
JoinAnswered ==
  \A u \in Users, s \in Servers :
    IsWaiting(u, s) ~> (IsAnswered(u, s) \/ session[u] = NoSession \/ WaitsElsewhere(u, s))
=============================================================================
