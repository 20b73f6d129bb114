----------------------- MODULE WorldSessions_proofs -----------------------
(***************************************************************************)
(* Proofs about WorldSessions for any users, servers, names and bounds.    *)
(* Game servers and clients never touch the Master's own state, and the    *)
(* Master's handlers read nothing of theirs: the invariant of the Master   *)
(* and the type of the rest are inductive each on its own.  The packets to *)
(* the game servers come next, their type and then how many of them, with  *)
(* all else that stands for a request, a player's request can become.      *)
(***************************************************************************)
EXTENDS WorldSessions, SequenceTheorems, FiniteSetTheorems, WellFoundedInduction, TLAPS

(* Instance ids not given yet belong to no world.                          *)
NextInstFresh == \A w \in Inst : w >= nextInst => worlds[w] = NoWorld

MasterInv ==
  /\ MasterTypeOK
  /\ NextInstFresh
  /\ WorldServerOnline
  /\ SessionServerOnline
  /\ NameMapSound
  /\ WaitingListsSound

USE DEF Inst, InstOrNone, Registered

(* Null records are told from complete ones by their fields.               *)
LEMMA NullRecords ==
  /\ NoSession \notin SessionRecord
  /\ NoWorld \notin WorldRecord
  /\ \A r \in WorldRecord : r # NoWorld
  /\ \A r \in SessionRecord : r # NoSession
BY NoServerAssumption DEF NoSession, NoWorld, SessionRecord, WorldRecord

LEMMA MasterInit == Init => MasterInv
BY BoundsAssumption DEF Init, MasterInv, MasterTypeOK, NextInstFresh, WorldServerOnline,
   SessionServerOnline, NameMapSound, WaitingListsSound, NoWorld, NoSession, DBTask

LEMMA MasterUnchanged == MasterInv /\ UNCHANGED masterVars => MasterInv'
BY DEF masterVars, MasterInv, MasterTypeOK, NextInstFresh, WorldServerOnline,
   SessionServerOnline, NameMapSound, WaitingListsSound, SessionRecord, NoSession, WorldRecord, NoWorld,
   DBTask, Waiting

(* What an update of one field does to a complete world record.            *)
LEMMA WaitingUpdate ==
  ASSUME NEW r \in WorldRecord, NEW q \in Seq(Waiting), NEW x, x = [r EXCEPT !.waiting = q]
  PROVE  x \in WorldRecord /\ x.waiting = q /\ x.state = r.state /\ x.name = r.name /\ x.server = r.server
BY DEF WorldRecord

LEMMA CountUpdate ==
  ASSUME NEW r \in WorldRecord, NEW c \in Nat, NEW x, x = [r EXCEPT !.count = c]
  PROVE  x \in WorldRecord /\ x.waiting = r.waiting /\ x.state = r.state /\ x.name = r.name
           /\ x.server = r.server
BY DEF WorldRecord

LEMMA ReadyUpdate ==
  ASSUME NEW r \in WorldRecord, NEW x, x = [r EXCEPT !.state = "ready", !.waiting = <<>>]
  PROVE  x \in WorldRecord /\ x.waiting = <<>> /\ x.state = "ready" /\ x.name = r.name
           /\ x.server = r.server
<1> DEFINE y == [r EXCEPT !.state = "ready"]
<1>1. y \in WorldRecord /\ y.state = "ready" /\ y.name = r.name /\ y.server = r.server
  BY DEF WorldRecord
<1>2. x = [y EXCEPT !.waiting = <<>>] /\ <<>> \in Seq(Waiting)
  OBVIOUS
<1> HIDE DEF y
<1> QED BY <1>1, <1>2 DEF WorldRecord

SessionsSound ==
  /\ session \in [Users -> SessionRecord \cup {NoSession}]
  /\ SessionServerOnline

(* A step that only moves sessions and queues database tasks.              *)
LEMMA SessionStep ==
  ASSUME MasterInv, UNCHANGED <<srv, worlds, byName, nextInst>>,
         SessionsSound', dbq' \in Seq(DBTask), dbRows' \subseteq Names
  PROVE  MasterInv'
BY DEF MasterInv, SessionsSound, MasterTypeOK, NextInstFresh, WorldServerOnline, SessionServerOnline,
   NameMapSound, WaitingListsSound, SessionRecord, NoSession, WorldRecord, NoWorld, DBTask

NoneTwice(q) == \A i, j \in DOMAIN q : q[i].user = q[j].user => i = j

(* A step that rewrites the record of one world but not its name and       *)
(* server, and may move sessions.                                          *)
LEMMA WorldStep ==
  ASSUME MasterInv, NEW w \in Inst, NEW r \in WorldRecord, worlds[w] # NoWorld,
         r.name = worlds[w].name, r.server = worlds[w].server,
         r.state = "ready" => r.waiting = <<>>, NoneTwice(r.waiting),
         worlds' = [worlds EXCEPT ![w] = r], UNCHANGED <<srv, byName, nextInst, dbq, dbRows>>, SessionsSound'
  PROVE  MasterInv'
<1>1. worlds' \in [Inst -> WorldRecord \cup {NoWorld}] /\ worlds'[w] = r
      /\ \A v \in Inst : v # w => worlds'[v] = worlds[v]
  BY DEF MasterInv, MasterTypeOK
<1>2. r # NoWorld /\ r.state # "none"
  BY NullRecords DEF WorldRecord
<1>3. MasterTypeOK'
  BY <1>1 DEF MasterInv, MasterTypeOK, SessionsSound
<1>4. NextInstFresh'
  BY <1>1, <1>2 DEF MasterInv, NextInstFresh
<1>5. WorldServerOnline'
  BY <1>1, <1>2 DEF MasterInv, WorldServerOnline
<1>6. NameMapSound'
  BY <1>1, <1>2 DEF MasterInv, MasterTypeOK, NameMapSound
<1>7. WaitingListsSound'
  BY <1>1, <1>2 DEF MasterInv, WaitingListsSound, NoneTwice
<1> QED BY <1>3, <1>4, <1>5, <1>6, <1>7 DEF MasterInv, SessionsSound

(* What is known of a world of the directory.                              *)
LEMMA KnownWorld ==
  ASSUME MasterInv, NEW w \in Inst, worlds[w].state # "none"
  PROVE  /\ worlds[w] \in WorldRecord /\ worlds[w] # NoWorld
         /\ worlds[w].server \in Servers /\ Registered(worlds[w].server)
         /\ worlds[w].state \in {"loading", "ready"}
         /\ worlds[w].waiting \in Seq(Waiting) /\ NoneTwice(worlds[w].waiting)
         /\ worlds[w].state = "ready" => worlds[w].waiting = <<>>
<1>1. worlds[w] \in WorldRecord /\ worlds[w] # NoWorld
  BY DEF MasterInv, MasterTypeOK, NoWorld
<1> QED BY <1>1 DEF MasterInv, WorldServerOnline, WaitingListsSound, NoneTwice, WorldRecord

LEMMA JoinRequestStep ==
  ASSUME MasterInv, NEW s \in Servers, NEW u \in Users, NEW n \in Names, HandlePlayerJoinRequest(s, u, n)
  PROVE  MasterInv'
<1> DEFINE w == GetWorldByName(n)
           t == [kind |-> "exists", user |-> u, source |-> s, name |-> n]
           p == [user |-> u, source |-> s]
<1>1. w \in InstOrNone
  BY BoundsAssumption DEF MasterInv, MasterTypeOK, GetWorldByName
<1>0. /\ Registered(s)
      /\ UNCHANGED <<srv, byName, nextInst, dbRows>>
      /\ \/ w = 0 /\ dbq' = Append(dbq, t) /\ UNCHANGED <<worlds, session>>
         \/ w # 0 /\ worlds[w].state = "loading" /\ AttachPending(w, s, u) /\ UNCHANGED dbq
         \/ w # 0 /\ worlds[w].state = "ready" /\ RoutePlayerToExistingWorld(w, s, u) /\ UNCHANGED dbq
  BY Zenon DEF HandlePlayerJoinRequest, FromServer
<1>2. t \in DBTask /\ p \in Waiting
  BY DEF DBTask, Waiting
<1>3. dbq \in Seq(DBTask) /\ dbRows \subseteq Names /\ SessionsSound
  BY DEF MasterInv, MasterTypeOK, SessionsSound
<1> HIDE DEF w, t, p
<1>4. CASE w = 0
  <2>1. dbq' \in Seq(DBTask) /\ UNCHANGED <<worlds, session>>
    BY <1>1, <1>0, <1>2, <1>3, <1>4
  <2>2. SessionsSound'
    BY <1>1, <1>0, <1>3, <2>1 DEF SessionsSound, SessionServerOnline, SessionRecord, NoSession
  <2> QED BY <1>1, <1>0, <1>3, <2>1, <2>2, SessionStep
<1>5. CASE w # 0 /\ worlds[w].state = "loading"
  <2>1. AttachPending(w, s, u) /\ UNCHANGED dbq /\ w \in Inst
    BY <1>1, <1>0, <1>5
  <2>2. CASE \E i \in DOMAIN worlds[w].waiting : worlds[w].waiting[i].user = u
    BY <1>1, <1>0, <2>1, <2>2, MasterUnchanged DEF AttachPending, masterVars
  <2>3. CASE ~\E i \in DOMAIN worlds[w].waiting : worlds[w].waiting[i].user = u
    <3> DEFINE q == Append(worlds[w].waiting, p)
               r == [worlds[w] EXCEPT !.waiting = q]
    <3>1. /\ worlds' = [worlds EXCEPT ![w] = r]
          /\ session' = IF session[u] = NoSession THEN session
                        ELSE [session EXCEPT ![u] = [server |-> s, world |-> w]]
      BY <2>1, <2>3 DEF AttachPending, p
    <3>2. worlds[w] \in WorldRecord /\ worlds[w] # NoWorld
          /\ worlds[w].waiting \in Seq(Waiting) /\ NoneTwice(worlds[w].waiting)
      BY <1>5, <2>1, KnownWorld
    <3>3. q \in Seq(Waiting)
      BY <1>2, <3>2
    <3>4. NoneTwice(q)
      <4>1. p.user = u
        BY DEF p
      <4> DEFINE k == Len(worlds[w].waiting)
      <4>2. /\ k \in Nat /\ DOMAIN q = 1..k + 1 /\ q[k + 1] = p
            /\ DOMAIN worlds[w].waiting = 1..k
            /\ \A i \in 1..k : q[i] = worlds[w].waiting[i]
        BY <1>2, <3>2
      <4> HIDE DEF q, k
      <4> SUFFICES ASSUME NEW i \in DOMAIN q, NEW j \in DOMAIN q, q[i].user = q[j].user
                   PROVE  i = j
        BY DEF NoneTwice
      <4>3. CASE i \in 1..k /\ j \in 1..k
        BY <3>2, <4>2, <4>3 DEF NoneTwice
      <4>4. CASE i = k + 1 \/ j = k + 1
        BY <2>3, <4>1, <4>2, <4>4
      <4>5. (i \in 1..k \/ i = k + 1) /\ (j \in 1..k \/ j = k + 1)
        BY <4>2
      <4> QED BY <4>3, <4>4, <4>5
    <3> HIDE DEF q
    <3>5. r \in WorldRecord /\ r.waiting = q /\ r.state = "loading" /\ r.name = worlds[w].name
          /\ r.server = worlds[w].server
      BY <1>5, <3>2, <3>3, WaitingUpdate
    <3> HIDE DEF r
    <3>6. SessionsSound'
      BY <1>1, <1>0, <1>3, <2>1, <3>1 DEF SessionsSound, SessionServerOnline, SessionRecord
    <3> QED BY <1>1, <1>0, <2>1, <3>1, <3>2, <3>4, <3>5, <3>6, WorldStep
  <2> QED BY <2>2, <2>3
<1>6. CASE w # 0 /\ worlds[w].state = "ready"
  <2>1. UNCHANGED <<dbq, worlds>> /\ w \in Inst
        /\ session' = IF session[u] = NoSession THEN session
                      ELSE [session EXCEPT ![u] = [server |-> worlds[w].server, world |-> w]]
    BY <1>1, <1>0, <1>6 DEF RoutePlayerToExistingWorld
  <2>2. Registered(worlds[w].server) /\ worlds[w].server \in Servers
    BY <1>6, <2>1, KnownWorld
  <2>3. SessionsSound'
    BY <1>1, <1>0, <1>3, <2>1, <2>2 DEF SessionsSound, SessionServerOnline, SessionRecord
  <2> QED BY <1>1, <1>0, <1>3, <2>1, <2>3, SessionStep
<1> QED BY <1>1, <1>0, <1>4, <1>5, <1>6

LEMMA CreateWorldStep ==
  ASSUME MasterInv, NEW n \in Names, NEW u \in Users, NEW s \in Servers, CreateWorldSessionAndNotice(n, u, s),
         UNCHANGED <<srv, session>>, dbq' \in Seq(DBTask), dbRows' \subseteq Names
  PROVE  MasterInv'
<1>1. SessionsSound'
  BY DEF MasterInv, MasterTypeOK, SessionsSound, SessionServerOnline, SessionRecord, NoSession
<1>2. CASE UNCHANGED <<worlds, byName, nextInst>>
  BY <1>1, <1>2, SessionStep
<1>3. ASSUME nextInst <= MaxInst, NEW t \in ReadyServers,
             worlds' = [worlds EXCEPT ![nextInst] =
               [state |-> "loading", name |-> n, server |-> t,
                waiting |-> <<[user |-> u, source |-> s]>>, count |-> 0]],
             byName' = [byName EXCEPT ![n] = nextInst], nextInst' = nextInst + 1
      PROVE  MasterInv'
  <2> DEFINE q == <<[user |-> u, source |-> s]>>
             r == [state |-> "loading", name |-> n, server |-> t, waiting |-> q, count |-> 0]
  <2>1. q \in Seq(Waiting) /\ NoneTwice(q)
    BY DEF Waiting, NoneTwice
  <2>2. t \in Servers /\ Registered(t)
    BY DEF ReadyServers
  <2> HIDE DEF q
  <2>3. r \in WorldRecord /\ r.state = "loading" /\ r.name = n /\ r.server = t /\ r.waiting = q
    BY <2>1, <2>2 DEF WorldRecord
  <2>4. worlds' = [worlds EXCEPT ![nextInst] = r]
    BY <1>3 DEF q
  <2> HIDE DEF r
  <2>5. nextInst \in Inst /\ worlds' \in [Inst -> WorldRecord \cup {NoWorld}] /\ worlds'[nextInst] = r
        /\ \A v \in Inst : v # nextInst => worlds'[v] = worlds[v]
    <3>1. nextInst \in Inst
      BY <1>3, BoundsAssumption DEF MasterInv, MasterTypeOK
    <3>2. worlds \in [Inst -> WorldRecord \cup {NoWorld}]
      BY DEF MasterInv, MasterTypeOK
    <3> QED BY <2>3, <2>4, <3>1, <3>2
  <2>6. worlds[nextInst] = NoWorld /\ \A m \in Names : byName[m] # nextInst
    BY <2>5 DEF MasterInv, MasterTypeOK, NextInstFresh, NameMapSound, NoWorld
  <2>7. byName' \in [Names -> InstOrNone] /\ byName'[n] = nextInst
        /\ \A m \in Names : m # n => byName'[m] = byName[m]
    BY <1>3, <2>5 DEF MasterInv, MasterTypeOK
  <2>8. MasterTypeOK'
    BY <1>1, <1>3, <2>5, <2>7, BoundsAssumption DEF MasterInv, MasterTypeOK, SessionsSound
  <2>9. NextInstFresh'
    BY <1>3, <2>5 DEF MasterInv, MasterTypeOK, NextInstFresh
  <2>10. WorldServerOnline'
    BY <2>2, <2>3, <2>5 DEF MasterInv, WorldServerOnline
  <2>11. NameMapSound'
    <3>1. nextInst # 0 /\ \A m \in Names : byName[m] # 0 => byName[m] \in Inst
      BY <2>5 DEF MasterInv, MasterTypeOK
    <3>2. \A m \in Names : m # n /\ byName[m] # 0 => worlds'[byName[m]] = worlds[byName[m]]
      BY <2>5, <2>6, <3>1
    <3>3. \A m \in Names : m # n /\ byName'[m] # 0 =>
            worlds'[byName'[m]].state # "none" /\ worlds'[byName'[m]].name = m
      BY <2>7, <3>2 DEF MasterInv, NameMapSound
    <3>4. worlds'[byName'[n]].state # "none" /\ worlds'[byName'[n]].name = n
      BY <2>3, <2>5, <2>7
    <3> QED BY <3>3, <3>4 DEF NameMapSound
  <2>12. WaitingListsSound'
    BY <2>1, <2>3, <2>5 DEF MasterInv, WaitingListsSound, NoneTwice
  <2> QED BY <1>1, <2>8, <2>9, <2>10, <2>11, <2>12 DEF MasterInv, SessionsSound
<1> QED BY <1>2, <1>3 DEF CreateWorldSessionAndNotice

LEMMA DatabaseStep ==
  ASSUME MasterInv, DatabaseResults
  PROVE  MasterInv'
<1>1. SessionsSound' /\ UNCHANGED <<srv, session>>
  BY DEF MasterInv, MasterTypeOK, SessionsSound, SessionServerOnline, SessionRecord, NoSession, DatabaseResults
<1>2. PICK t \in DBTask : CheckWorldExistCB(t) \/ CreateWorldCB(t)
  BY DEF DatabaseResults
<1>3. t.user \in Users /\ t.source \in Servers /\ t.name \in Names
      /\ [t EXCEPT !.kind = "create"] \in DBTask
  BY <1>2 DEF DBTask
<1>4. dbq \in Seq(DBTask) /\ dbRows \subseteq Names
  BY DEF MasterInv, MasterTypeOK
<1>5. CASE CheckWorldExistCB(t)
  <2>1. dbq # <<>> /\ dbRows' = dbRows
    BY <1>5 DEF CheckWorldExistCB
  <2>2. Tail(dbq) \in Seq(DBTask)
    BY <1>4, <2>1
  <2>3. Append(Tail(dbq), [t EXCEPT !.kind = "create"]) \in Seq(DBTask)
    BY <1>3, <2>2
  <2>4. dbq' \in Seq(DBTask)
    BY <1>5, <2>2, <2>3, Zenon DEF CheckWorldExistCB
  <2>5. UNCHANGED <<worlds, byName, nextInst>> \/ CreateWorldSessionAndNotice(t.name, t.user, t.source)
    BY <1>5 DEF CheckWorldExistCB
  <2> QED BY <1>1, <1>3, <1>4, <2>1, <2>4, <2>5, SessionStep, CreateWorldStep
<1>6. CASE CreateWorldCB(t)
  <2>1. dbq # <<>> /\ dbq' = Tail(dbq)
    BY <1>6 DEF CreateWorldCB
  <2>2. dbq' \in Seq(DBTask)
    BY <1>4, <2>1
  <2>3. dbRows' \subseteq Names
    BY <1>3, <1>4, <1>6 DEF CreateWorldCB
  <2>4. UNCHANGED <<worlds, byName, nextInst>> \/ CreateWorldSessionAndNotice(t.name, t.user, t.source)
    BY <1>6 DEF CreateWorldCB
  <2> QED BY <1>1, <1>3, <2>2, <2>3, <2>4, SessionStep, CreateWorldStep
<1> QED BY <1>2, <1>5, <1>6

LEMMA WorldInitStep ==
  ASSUME MasterInv, NEW s \in Servers, NEW w \in Inst, HandleWorldInit(s, w)
  PROVE  MasterInv'
<1>1. UNCHANGED <<srv, byName, nextInst, dbq, dbRows>>
  BY DEF HandleWorldInit
<1>2. CASE worlds[w].state = "none"
  BY <1>1, <1>2, MasterUnchanged DEF HandleWorldInit, masterVars
<1>3. CASE worlds[w].state # "none"
  <2> DEFINE r == [worlds[w] EXCEPT !.state = "ready", !.waiting = <<>>]
  <2>1. worlds' = [worlds EXCEPT ![w] = r]
    BY <1>3 DEF HandleWorldInit
  <2>2. worlds[w] \in WorldRecord /\ worlds[w] # NoWorld
        /\ worlds[w].server \in Servers /\ Registered(worlds[w].server)
    BY <1>3, KnownWorld
  <2>3. r \in WorldRecord /\ r.waiting = <<>> /\ r.name = worlds[w].name /\ r.server = worlds[w].server
    BY <2>2, ReadyUpdate
  <2> HIDE DEF r
  <2>4. NoneTwice(r.waiting)
    BY <2>3 DEF NoneTwice
  <2>5. \A u \in Users : session'[u] = session[u] \/ session'[u] = [server |-> worlds[w].server, world |-> w]
    BY <1>3 DEF HandleWorldInit
  <2>6. session' \in [Users -> SessionRecord \cup {NoSession}]
    <3>1. [server |-> worlds[w].server, world |-> w] \in SessionRecord
      BY <2>2 DEF SessionRecord
    <3>2. session' = [u \in Users |-> session'[u]]
      BY <1>3 DEF HandleWorldInit
    <3> QED BY <2>5, <3>1, <3>2 DEF MasterInv, MasterTypeOK
  <2>7. SessionsSound'
    BY <1>1, <2>2, <2>5, <2>6 DEF MasterInv, SessionServerOnline, SessionsSound
  <2> QED BY <1>1, <2>1, <2>2, <2>3, <2>4, <2>7, WorldStep
<1> QED BY <1>2, <1>3

LEMMA PlayerPacketStep ==
  ASSUME MasterInv, NEW s \in Servers, NEW u \in Users, NEW w \in Inst,
         WorldPlayerJoin(s, u, w) \/ WorldPlayerLeave(s, u, w)
  PROVE  MasterInv'
<1>1. UNCHANGED <<srv, byName, nextInst, dbq, dbRows>>
  BY DEF WorldPlayerJoin, WorldPlayerLeave
<1>2. SessionsSound'
  <2>1. PICK v \in InstOrNone :
          session' = IF session[u] = NoSession THEN session ELSE [session EXCEPT ![u].world = v]
    BY BoundsAssumption DEF WorldPlayerJoin, WorldPlayerLeave
  <2> QED BY <1>1, <2>1 DEF MasterInv, MasterTypeOK, SessionServerOnline, SessionsSound, SessionRecord
<1>3. CASE worlds' = worlds
  BY <1>1, <1>2, <1>3, SessionStep DEF MasterInv, MasterTypeOK
<1>4. CASE worlds' # worlds
  <2>1. worlds[w].state # "none"
    BY <1>4 DEF WorldPlayerJoin, WorldPlayerLeave
  <2>2. worlds[w] \in WorldRecord /\ worlds[w] # NoWorld /\ NoneTwice(worlds[w].waiting)
        /\ (worlds[w].state = "ready" => worlds[w].waiting = <<>>)
    BY <2>1, KnownWorld
  <2>3. worlds[w].count \in Nat
    BY <2>2 DEF WorldRecord
  <2>4. PICK c \in Nat : worlds' = [worlds EXCEPT ![w] = [worlds[w] EXCEPT !.count = c]]
    <3>1. CASE WorldPlayerJoin(s, u, w)
      <4>1. worlds' = [worlds EXCEPT ![w] = [worlds[w] EXCEPT !.count = worlds[w].count + 1]]
        BY <1>4, <3>1 DEF WorldPlayerJoin
      <4>2. worlds[w].count + 1 \in Nat
        BY <2>3
      <4> QED BY <4>1, <4>2, Zenon
    <3>2. CASE WorldPlayerLeave(s, u, w)
      <4>1. worlds' = [worlds EXCEPT ![w] = [worlds[w] EXCEPT !.count = worlds[w].count - 1]]
            /\ worlds[w].count # 0
        BY <1>4, <3>2 DEF WorldPlayerLeave
      <4>2. worlds[w].count - 1 \in Nat
        BY <2>3, <4>1
      <4> QED BY <4>1, <4>2, Zenon
    <3> QED BY <3>1, <3>2
  <2> DEFINE r == [worlds[w] EXCEPT !.count = c]
  <2>5. r \in WorldRecord /\ r.waiting = worlds[w].waiting /\ r.state = worlds[w].state
        /\ r.name = worlds[w].name /\ r.server = worlds[w].server
    BY <2>2, CountUpdate
  <2>6. worlds' = [worlds EXCEPT ![w] = r]
    BY <2>4
  <2> HIDE DEF r
  <2> QED BY <1>1, <1>2, <2>2, <2>5, <2>6, WorldStep
<1> QED BY <1>3, <1>4

(* Login, the end of a session, a check, a server's arrival: no world      *)
(* changes and no server goes.                                             *)
LEMMA SessionPacketStep ==
  ASSUME MasterInv, NEW s \in Servers,
         \/ \E u \in Users : PlayerEndSession(s, u) \/ SendToGame(u, s)
         \/ \E u \in Users, id \in 0..MaxCmds : PlayerCheckSession(s, u, id)
         \/ AddServer(s) \/ ServerReady(s)
  PROVE  MasterInv'
<1>1. UNCHANGED <<worlds, byName, nextInst, dbq, dbRows>>
  BY DEF PlayerEndSession, PlayerCheckSession, SendToGame, AddServer, ServerReady, masterVars
<1>2. srv' \in [Servers -> {"none", "authed", "ready"}] /\ \A t \in Servers : Registered(t) => Registered(t)'
  BY DEF MasterInv, MasterTypeOK, PlayerEndSession, PlayerCheckSession, SendToGame, AddServer, ServerReady,
         masterVars
<1>3. \A v \in Users :
        \/ session'[v] = session[v] \/ session'[v] = NoSession
        \/ \E t \in Servers : Registered(t) /\ session'[v] = [server |-> t, world |-> 0]
  <2>1. CASE \E u \in Users : SendToGame(u, s)
    BY <2>1 DEF MasterInv, MasterTypeOK, SendToGame, ReadyServers, SessionServerOnline
  <2> QED BY <2>1 DEF MasterInv, MasterTypeOK, PlayerEndSession, PlayerCheckSession, AddServer, ServerReady,
            masterVars
<1>4. session' \in [Users -> SessionRecord \cup {NoSession}]
  <2>1. session' = [v \in Users |-> session'[v]]
    <3>1. CASE \E u \in Users : PlayerEndSession(s, u)
      BY <3>1 DEF MasterInv, MasterTypeOK, PlayerEndSession
    <3>2. CASE \E u \in Users : SendToGame(u, s)
      BY <3>2 DEF MasterInv, MasterTypeOK, SendToGame
    <3>3. CASE session' = session
      BY <3>3 DEF MasterInv, MasterTypeOK
    <3> QED BY <3>1, <3>2, <3>3 DEF PlayerCheckSession, AddServer, ServerReady, masterVars
  <2>2. \A t \in Servers : [server |-> t, world |-> 0] \in SessionRecord
    BY BoundsAssumption DEF SessionRecord
  <2>3. \A v \in Users : session[v] \in SessionRecord \cup {NoSession}
    BY DEF MasterInv, MasterTypeOK
  <2>4. \A v \in Users : session'[v] \in SessionRecord \cup {NoSession}
    BY <1>3, <2>2, <2>3, Zenon
  <2> QED BY <2>1, <2>4, Zenon
<1>5. SessionServerOnline'
  <2> SUFFICES ASSUME NEW v \in Users, session'[v] # NoSession
               PROVE  srv'[session'[v].server] # "none"
    BY Zenon DEF SessionServerOnline
  <2>1. CASE session'[v] = session[v]
    BY <1>2, <2>1 DEF MasterInv, MasterTypeOK, SessionServerOnline, SessionRecord
  <2>2. CASE \E t \in Servers : Registered(t) /\ session'[v] = [server |-> t, world |-> 0]
    BY <1>2, <2>2
  <2> QED BY <1>3, <2>1, <2>2
<1>6. WorldServerOnline'
  BY <1>1, <1>2, KnownWorld DEF MasterInv, MasterTypeOK, WorldServerOnline, WorldRecord
<1>7. MasterTypeOK'
  BY <1>1, <1>2, <1>4 DEF MasterInv, MasterTypeOK
<1> QED BY <1>1, <1>5, <1>6, <1>7 DEF MasterInv, NextInstFresh, NameMapSound, WaitingListsSound

LEMMA RemoveServerStep ==
  ASSUME MasterInv, NEW s \in Servers, RemoveServer(s)
  PROVE  MasterInv'
<1>1. /\ srv' = [srv EXCEPT ![s] = "none"]
      /\ session' = [u \in Users |-> IF session[u].server = s THEN NoSession ELSE session[u]]
      /\ worlds' = [w \in Inst |-> IF worlds[w].server = s THEN NoWorld ELSE worlds[w]]
      /\ byName' = [n \in Names |->
           IF \E w \in Inst : worlds[w].server = s /\ worlds[w].name = n THEN 0 ELSE byName[n]]
      /\ UNCHANGED <<nextInst, dbq, dbRows>>
  BY DEF RemoveServer, SessionsWithout, WorldsWithout, NamesWithout
<1>2. MasterTypeOK'
  BY <1>1, BoundsAssumption DEF MasterInv, MasterTypeOK
<1>3. NextInstFresh'
  BY <1>1 DEF MasterInv, NextInstFresh
<1>4. WorldServerOnline'
  BY <1>1 DEF MasterInv, MasterTypeOK, WorldServerOnline, WorldRecord
<1>5. SessionServerOnline'
  BY <1>1 DEF MasterInv, MasterTypeOK, SessionServerOnline, SessionRecord
<1>6. NameMapSound'
  <2> SUFFICES ASSUME NEW n \in Names, byName'[n] # 0
               PROVE  worlds'[byName'[n]].state # "none" /\ worlds'[byName'[n]].name = n
    BY DEF NameMapSound
  <2>1. byName'[n] = byName[n] /\ byName[n] \in Inst
        /\ ~\E w \in Inst : worlds[w].server = s /\ worlds[w].name = n
    BY <1>1 DEF MasterInv, MasterTypeOK
  <2>2. worlds[byName[n]].name = n /\ worlds[byName[n]].state # "none"
    BY <2>1 DEF MasterInv, NameMapSound
  <2> QED BY <1>1, <2>1, <2>2
<1>7. WaitingListsSound'
  BY <1>1 DEF MasterInv, WaitingListsSound, NoWorld
<1> QED BY <1>2, <1>3, <1>4, <1>5, <1>6, <1>7 DEF MasterInv

(* The steps of game servers and of clients leave the Master alone.        *)
LEMMA GameStep ==
  ASSUME NEW s \in Servers,
         \/ FromMasterHandlers(s)
         \/ \E u \in Users, n \in Names : PlayerJoinRequest(s, u, n)
         \/ \E u \in Users : \/ QuitToExit(s, u) \/ Quit(s, u) \/ OnEventDisconnect(s, u)
                            \/ UpdatePlayers(s, u) \/ StartLoginRequest(s, u) \/ EnterGame(s, u)
         \/ \E w \in Inst : OnWorldPresenceReady(s, w)
         \/ Losses(s)
  PROVE  UNCHANGED masterVars
<1>1. CASE FromMasterHandlers(s)
  BY <1>1, Zenon DEF FromMasterHandlers, GameHandleWorldInit, HandleJoinFail, HandlePlayerJoin, HandleCheckSession
<1>2. CASE \E u \in Users, n \in Names : PlayerJoinRequest(s, u, n)
  BY <1>2, Zenon DEF PlayerJoinRequest
<1>3. ASSUME NEW u \in Users,
             \/ QuitToExit(s, u) \/ Quit(s, u) \/ OnEventDisconnect(s, u)
             \/ UpdatePlayers(s, u) \/ StartLoginRequest(s, u) \/ EnterGame(s, u)
      PROVE  UNCHANGED masterVars
  BY <1>3, Zenon DEF QuitToExit, Quit, OnEventDisconnect, UpdatePlayers, StartLoginRequest, EnterGame
<1>4. CASE (\E w \in Inst : OnWorldPresenceReady(s, w)) \/ Losses(s)
  BY <1>4, Zenon DEF OnWorldPresenceReady, Losses, LoseLink, Crash
<1> QED BY <1>1, <1>2, <1>3, <1>4

LEMMA FromServerStep ==
  ASSUME MasterInv, NEW s \in Servers, FromServerHandlers(s)
  PROVE  MasterInv'
<1>1. ASSUME NEW u \in Users, NEW n \in Names, HandlePlayerJoinRequest(s, u, n) PROVE MasterInv'
  BY <1>1, JoinRequestStep
<1>2. ASSUME NEW w \in Inst, HandleWorldInit(s, w) PROVE MasterInv'
  BY <1>2, WorldInitStep
<1>3. ASSUME NEW u \in Users, NEW w \in Inst, WorldPlayerJoin(s, u, w) \/ WorldPlayerLeave(s, u, w)
      PROVE  MasterInv'
  BY <1>3, PlayerPacketStep
<1>4. ASSUME NEW u \in Users, PlayerEndSession(s, u) \/ \E id \in 0..MaxCmds : PlayerCheckSession(s, u, id)
      PROVE  MasterInv'
  BY <1>4, SessionPacketStep
<1> QED BY <1>1, <1>2, <1>3, <1>4, Zenon DEF FromServerHandlers

LEMMA MasterNext == MasterInv /\ [Next]_vars => MasterInv'
<1> SUFFICES ASSUME MasterInv, [Next]_vars PROVE MasterInv'
  OBVIOUS
<1>1. CASE UNCHANGED vars
  BY <1>1, MasterUnchanged DEF vars
<1>2. CASE DatabaseResults
  BY <1>2, DatabaseStep
<1>3. ASSUME NEW s \in Servers, FromServerHandlers(s) PROVE MasterInv'
  BY <1>3, FromServerStep
<1>4. ASSUME NEW s \in Servers,
             (\E u \in Users : SendToGame(u, s)) \/ AddServer(s) \/ ServerReady(s)
      PROVE  MasterInv'
  BY <1>4, SessionPacketStep
<1>5. ASSUME NEW s \in Servers, RemoveServer(s) PROVE MasterInv'
  BY <1>5, RemoveServerStep
<1>6. ASSUME NEW u \in Users, ConnectFails(u) PROVE MasterInv'
  BY <1>6, MasterUnchanged, Zenon DEF ConnectFails
<1>7. ASSUME NEW s \in Servers,
             \/ FromMasterHandlers(s)
             \/ \E u \in Users, n \in Names : PlayerJoinRequest(s, u, n)
             \/ \E u \in Users : \/ QuitToExit(s, u) \/ Quit(s, u) \/ OnEventDisconnect(s, u)
                                \/ UpdatePlayers(s, u) \/ StartLoginRequest(s, u) \/ EnterGame(s, u)
             \/ \E w \in Inst : OnWorldPresenceReady(s, w)
             \/ Losses(s)
      PROVE  MasterInv'
  BY <1>7, GameStep, MasterUnchanged
<1>8. CASE Next
  BY <1>2, <1>3, <1>4, <1>5, <1>6, <1>7, <1>8, Zenon DEF Next, Clients
<1> QED BY <1>1, <1>8

(* The directory of worlds and sessions stays sound for any number of      *)
(* users, servers, names and instances, whatever order packets, database   *)
(* results, logins and losses come in.                                     *)
THEOREM MasterCorrect == Spec => []MasterInv
<1>1. Init => MasterInv
  BY MasterInit
<1>2. MasterInv /\ [Next]_vars => MasterInv'
  BY MasterNext
<1> QED BY <1>1, <1>2, PTL DEF Spec

(* Every world of the directory is on a server that is still registered:   *)
(* RemoveServer leaves none behind, whatever was in flight.                *)
THEOREM WorldsAreOnline == Spec => []WorldServerOnline
<1>1. MasterInv => WorldServerOnline
  BY DEF MasterInv
<1> QED BY <1>1, MasterCorrect, PTL

(* Every session names a registered server, so SendToGame always finds the *)
(* server of the session it found.                                         *)
THEOREM SessionsAreOnline == Spec => []SessionServerOnline
<1>1. MasterInv => SessionServerOnline
  BY DEF MasterInv
<1> QED BY <1>1, MasterCorrect, PTL

(* No entry of m_worldInstanceByName dangles or leads to another name.     *)
THEOREM NamesAreSound == Spec => []NameMapSound
<1>1. MasterInv => NameMapSound
  BY DEF MasterInv
<1> QED BY <1>1, MasterCorrect, PTL

(* A ready world has nobody waiting and no list holds a player twice.      *)
THEOREM WaitingListsAreSound == Spec => []WaitingListsSound
<1>1. MasterInv => WaitingListsSound
  BY DEF MasterInv
<1> QED BY <1>1, MasterCorrect, PTL

-----------------------------------------------------------------------------
(* The game servers and the clients.                                       *)

ServerWorlds == [Inst -> GameWorldRecord \cup {NoGameWorld}]
Player == PlayerRecord \cup {NoPlayer}

(* What the operations on worlds and players change.                       *)
WorldsAndPlayersTyped ==
  /\ up \in [Servers -> Seq(UpMsg)]
  /\ gw \in [Servers -> ServerWorlds]
  /\ obj \in [Servers -> [Users -> Player]]

LEMMA GameInit == Init => GameTypeOK
BY BoundsAssumption DEF Init, GameTypeOK

LEMMA FieldsTyped == GameTypeOK => WorldsAndPlayersTyped
BY DEF GameTypeOK, WorldsAndPlayersTyped, ServerWorlds, Player

LEMMA HostedWorld ==
  ASSUME NEW ws \in ServerWorlds, NEW w \in InstOrNone, w # 0, ws[w].state # "none"
  PROVE  w \in Inst /\ ws[w] \in GameWorldRecord /\ ws[w].players \in [Users -> Nat]
<1>1. w \in Inst /\ ws[w] \in GameWorldRecord
  BY DEF ServerWorlds, NoGameWorld
<1> QED BY <1>1 DEF GameWorldRecord

LEMMA MembersTyped ==
  ASSUME NEW ws \in ServerWorlds, NEW w \in InstOrNone, w # 0, ws[w].state # "none", NEW u \in Users
  PROVE  /\ WithPlayer(ws, w, u) \in ServerWorlds
         /\ ws[w].players[u] > 0 => /\ WithoutPlayer(ws, w, u) \in ServerWorlds
                                   /\ \A v \in Inst : WithoutPlayer(ws, w, u)[v].state = ws[v].state
<1>1. w \in Inst /\ ws[w] \in GameWorldRecord /\ ws[w].players \in [Users -> Nat]
  BY HostedWorld
<1>2. ASSUME NEW f \in [Users -> Nat]
      PROVE  [ws[w] EXCEPT !.players = f] \in GameWorldRecord
             /\ [ws[w] EXCEPT !.players = f].state = ws[w].state
  BY <1>1 DEF GameWorldRecord
<1>3. WithPlayer(ws, w, u) \in ServerWorlds
  <2> DEFINE r == [ws[w] EXCEPT !.players = [ws[w].players EXCEPT ![u] = ws[w].players[u] + 1]]
  <2>1. r \in GameWorldRecord /\ WithPlayer(ws, w, u) = [ws EXCEPT ![w] = r]
    BY <1>1, <1>2 DEF WithPlayer
  <2> HIDE DEF r
  <2> QED BY <2>1 DEF ServerWorlds
<1>4. ASSUME ws[w].players[u] > 0
      PROVE  WithoutPlayer(ws, w, u) \in ServerWorlds
             /\ \A v \in Inst : WithoutPlayer(ws, w, u)[v].state = ws[v].state
  <2> DEFINE f == [ws[w].players EXCEPT ![u] = ws[w].players[u] - 1]
             r == [ws[w] EXCEPT !.players = f]
  <2>1. f \in [Users -> Nat]
    BY <1>1, <1>4
  <2>2. WithoutPlayer(ws, w, u) = [ws EXCEPT ![w] = r]
    BY DEF WithoutPlayer
  <2> HIDE DEF f
  <2>3. r \in GameWorldRecord /\ r.state = ws[w].state
    BY <1>2, <2>1
  <2> HIDE DEF r
  <2> QED BY <1>1, <2>2, <2>3 DEF ServerWorlds
<1> QED BY <1>3, <1>4

LEMMA ToMasterTyped ==
  ASSUME WorldsAndPlayersTyped, NEW s \in Servers, NEW ms \in Seq(UpMsg), ToMaster(s, ms)
  PROVE  up' \in [Servers -> Seq(UpMsg)]
<1>1. up[s] \o ms \in Seq(UpMsg)
  BY DEF WorldsAndPlayersTyped
<1> QED BY <1>1 DEF WorldsAndPlayersTyped, ToMaster

(* A step on server s that gives u the object p.                           *)
LEMMA PlayerTyped ==
  ASSUME WorldsAndPlayersTyped, NEW s \in Servers, NEW u \in Users, NEW p \in Player,
         obj' = [obj EXCEPT ![s][u] = p]
  PROVE  obj' \in [Servers -> [Users -> Player]]
BY DEF WorldsAndPlayersTyped

LEMMA PlayerLeaveWorldTyped ==
  ASSUME WorldsAndPlayersTyped, NEW s \in Servers, NEW u \in Users, NEW w \in InstOrNone, NEW p \in Player,
         NEW ms \in Seq(UpMsg), PlayerLeaveWorld(s, u, w, p, ms)
  PROVE  WorldsAndPlayersTyped'
<1>1. CASE IsMember(s, w, u)
  <2> DEFINE q == IF p = NoPlayer THEN p ELSE [p EXCEPT !.world = 0]
  <2>1. gw[s] \in ServerWorlds /\ w # 0 /\ gw[s][w].state # "none" /\ gw[s][w].players[u] > 0
    BY <1>1 DEF IsMember, Hosts, WorldsAndPlayersTyped
  <2>2. WithoutPlayer(gw[s], w, u) \in ServerWorlds /\ w \in Inst
    BY <2>1, MembersTyped, HostedWorld
  <2>3. gw' = [gw EXCEPT ![s] = WithoutPlayer(gw[s], w, u)] /\ obj' = [obj EXCEPT ![s][u] = q]
        /\ ToMaster(s, <<Left(u, w)>> \o ms)
    BY <1>1 DEF PlayerLeaveWorld
  <2>4. gw' \in [Servers -> ServerWorlds]
    BY <2>2, <2>3 DEF WorldsAndPlayersTyped
  <2>5. q \in Player
    BY BoundsAssumption DEF Player, PlayerRecord
  <2> HIDE DEF q
  <2>6. obj' \in [Servers -> [Users -> Player]]
    BY <2>3, <2>5, PlayerTyped
  <2>7. <<Left(u, w)>> \o ms \in Seq(UpMsg)
    BY <2>2 DEF Left, UpMsg
  <2>8. up' \in [Servers -> Seq(UpMsg)]
    BY <2>3, <2>7, ToMasterTyped
  <2> QED BY <2>4, <2>6, <2>8 DEF WorldsAndPlayersTyped
<1>2. CASE ~IsMember(s, w, u)
  <2>1. obj' = [obj EXCEPT ![s][u] = p] /\ ToMaster(s, ms) /\ gw' = gw
    BY <1>2 DEF PlayerLeaveWorld
  <2>2. up' \in [Servers -> Seq(UpMsg)] /\ obj' \in [Servers -> [Users -> Player]]
    BY <2>1, ToMasterTyped, PlayerTyped
  <2> QED BY <2>1, <2>2 DEF WorldsAndPlayersTyped
<1> QED BY <1>1, <1>2

LEMMA EnterWorldTyped ==
  ASSUME WorldsAndPlayersTyped, NEW s \in Servers, NEW u \in Users, NEW w \in Inst, NEW p \in PlayerRecord,
         EnterWorld(s, u, w, p)
  PROVE  WorldsAndPlayersTyped'
<1> DEFINE leaves == IsMember(s, p.world, u)
           ws == IF leaves THEN WithoutPlayer(gw[s], p.world, u) ELSE gw[s]
           ms == (IF leaves THEN <<Left(u, p.world)>> ELSE <<>>) \o <<Joined(u, w)>>
           q == [p EXCEPT !.world = w]
<1>1. p \in Player /\ q \in Player
  BY DEF Player, PlayerRecord
<1>2. CASE gw[s][w].state # "ready" \/ p.world = w
  <2>1. obj' = [obj EXCEPT ![s][u] = p] /\ UNCHANGED <<gw, up>>
    BY <1>2 DEF EnterWorld
  <2>2. obj' \in [Servers -> [Users -> Player]]
    BY <1>1, <2>1, PlayerTyped
  <2> QED BY <2>1, <2>2 DEF WorldsAndPlayersTyped
<1>3. CASE ~(gw[s][w].state # "ready" \/ p.world = w)
  <2>1. gw[s] \in ServerWorlds /\ gw[s][w].state # "none" /\ w # 0 /\ p.world \in InstOrNone
    BY <1>3 DEF WorldsAndPlayersTyped, PlayerRecord
  <2>2. leaves => /\ p.world \in Inst
                  /\ WithoutPlayer(gw[s], p.world, u) \in ServerWorlds
                  /\ WithoutPlayer(gw[s], p.world, u)[w].state = gw[s][w].state
    BY <2>1, MembersTyped, HostedWorld DEF IsMember, Hosts
  <2>3. ws \in ServerWorlds /\ ws[w].state # "none"
    BY <2>1, <2>2
  <2>4. ms \in Seq(UpMsg)
    <3>1. Joined(u, w) \in UpMsg /\ (leaves => Left(u, p.world) \in UpMsg)
      BY <2>2 DEF Left, Joined, UpMsg
    <3> HIDE DEF leaves
    <3>2. <<Joined(u, w)>> \in Seq(UpMsg) /\ (IF leaves THEN <<Left(u, p.world)>> ELSE <<>>) \in Seq(UpMsg)
      BY <3>1
    <3> QED BY <3>2
  <2>5. /\ gw' = [gw EXCEPT ![s] = WithPlayer(ws, w, u)]
        /\ obj' = [obj EXCEPT ![s][u] = q]
        /\ ToMaster(s, ms)
    BY <1>3, Zenon DEF EnterWorld
  <2> HIDE DEF ws, ms, q
  <2>6. WithPlayer(ws, w, u) \in ServerWorlds
    BY <2>1, <2>3, MembersTyped
  <2>7. up' \in [Servers -> Seq(UpMsg)] /\ obj' \in [Servers -> [Users -> Player]]
    BY <1>1, <2>4, <2>5, ToMasterTyped, PlayerTyped
  <2> QED BY <2>5, <2>6, <2>7 DEF WorldsAndPlayersTyped
<1> QED BY <1>2, <1>3

LEMMA JoinByNameTyped ==
  ASSUME WorldsAndPlayersTyped, NEW s \in Servers, NEW u \in Users, NEW n \in Names, NEW p \in PlayerRecord,
         JoinByName(s, u, n, p)
  PROVE  WorldsAndPlayersTyped'
<1>1. CASE ToMaster(s, <<Join(u, n)>>) /\ obj' = [obj EXCEPT ![s][u] = p] /\ UNCHANGED gw
  <2>1. <<Join(u, n)>> \in Seq(UpMsg) /\ p \in Player
    BY DEF Join, UpMsg, Player
  <2>2. up' \in [Servers -> Seq(UpMsg)] /\ obj' \in [Servers -> [Users -> Player]]
    BY <1>1, <2>1, ToMasterTyped, PlayerTyped
  <2> QED BY <1>1, <2>2 DEF WorldsAndPlayersTyped
<1>2. CASE \E w \in Inst : LocalWorld(s, n, w) /\ EnterWorld(s, u, w, p)
  BY <1>2, EnterWorldTyped
<1> QED BY <1>1, <1>2 DEF JoinByName

LEMMA LogOffTyped ==
  ASSUME WorldsAndPlayersTyped, NEW s \in Servers, NEW u \in Users, NEW p \in Player,
         NEW ms \in Seq(UpMsg), LogOff(s, u, p, ms)
  PROVE  WorldsAndPlayersTyped'
<1>1. CASE obj[s][u].st = "game"
  <2>1. obj[s][u].world \in InstOrNone
    BY <1>1 DEF WorldsAndPlayersTyped, Player, PlayerRecord, NoPlayer
  <2>2. PlayerLeaveWorld(s, u, obj[s][u].world, p, ms)
    BY <1>1 DEF LogOff
  <2> QED BY <2>1, <2>2, PlayerLeaveWorldTyped
<1>2. CASE obj[s][u].st # "game"
  <2>1. obj' = [obj EXCEPT ![s][u] = p] /\ UNCHANGED gw /\ (UNCHANGED up \/ ToMaster(s, ms))
    BY <1>2 DEF LogOff
  <2>2. up' \in [Servers -> Seq(UpMsg)]
    BY <2>1, ToMasterTyped DEF WorldsAndPlayersTyped
  <2>3. obj' \in [Servers -> [Users -> Player]]
    BY <2>1, PlayerTyped
  <2> QED BY <2>1, <2>2, <2>3 DEF WorldsAndPlayersTyped
<1> QED BY <1>1, <1>2

OthersTyped ==
  /\ proc \in [Servers -> {"down", "linked", "cut"}]
  /\ client \in [Users -> ClientRecord \cup {Offline}]
  /\ cmds \in 0..MaxCmds
  /\ losses \in 0..MaxLosses

LEMMA GameTypeParts == GameTypeOK <=> WorldsAndPlayersTyped /\ OthersTyped
BY DEF GameTypeOK, WorldsAndPlayersTyped, OthersTyped, ServerWorlds, Player

LEMMA OthersUnchanged == OthersTyped /\ UNCHANGED <<proc, client, cmds, losses>> => OthersTyped'
BY DEF OthersTyped

(* The player object of a user, while it has one.                          *)
LEMMA KnownPlayer ==
  ASSUME WorldsAndPlayersTyped, NEW s \in Servers, NEW u \in Users, obj[s][u].st # "none"
  PROVE  obj[s][u] \in PlayerRecord
BY DEF WorldsAndPlayersTyped, Player, NoPlayer

LEMMA PlayerFields ==
  ASSUME NEW p \in PlayerRecord
  PROVE  p \in Player /\ p.world \in InstOrNone /\ Deleted(p) \in Player
BY DEF PlayerRecord, Player, Deleted

-----------------------------------------------------------------------------
(* One lemma per action of a game server or a client.                      *)

LEMMA PlayerJoinRequestTyped ==
  ASSUME GameTypeOK, NEW s \in Servers, NEW u \in Users, NEW n \in Names, PlayerJoinRequest(s, u, n)
  PROVE  GameTypeOK'
<1>1. WorldsAndPlayersTyped /\ OthersTyped
  BY GameTypeParts
<1>2. obj[s][u] \in PlayerRecord /\ JoinByName(s, u, n, obj[s][u])
  BY <1>1, KnownPlayer DEF PlayerJoinRequest, Playing
<1>3. WorldsAndPlayersTyped'
  BY <1>1, <1>2, JoinByNameTyped
<1>4. OthersTyped'
  BY <1>1, BoundsAssumption DEF OthersTyped, PlayerJoinRequest, Command
<1> QED BY <1>3, <1>4, GameTypeParts, PTL

LEMMA QuitToExitTyped ==
  ASSUME GameTypeOK, NEW s \in Servers, NEW u \in Users, QuitToExit(s, u)
  PROVE  GameTypeOK'
<1>1. WorldsAndPlayersTyped /\ OthersTyped
  BY GameTypeParts
<1>2. obj[s][u] \in PlayerRecord
  BY <1>1, KnownPlayer DEF QuitToExit, Playing
<1>3. obj[s][u].world \in InstOrNone /\ obj[s][u] \in Player /\ <<>> \in Seq(UpMsg)
  BY <1>2, PlayerFields
<1>4. WorldsAndPlayersTyped'
  BY <1>1, <1>3, PlayerLeaveWorldTyped DEF QuitToExit
<1>5. OthersTyped'
  BY <1>1, BoundsAssumption DEF OthersTyped, QuitToExit, Command
<1> QED BY <1>4, <1>5, GameTypeParts, PTL

LEMMA LeaveTyped ==
  ASSUME GameTypeOK, NEW s \in Servers, NEW u \in Users, Quit(s, u) \/ OnEventDisconnect(s, u)
  PROVE  GameTypeOK'
<1>1. WorldsAndPlayersTyped /\ OthersTyped
  BY GameTypeParts
<1>2. <<EndPlayer(u)>> \in Seq(UpMsg) /\ NoPlayer \in Player
  BY DEF EndPlayer, UpMsg, Player
<1>3. ASSUME Quit(s, u) PROVE WorldsAndPlayersTyped'
  <2>1. obj[s][u] \in PlayerRecord /\ LogOff(s, u, Deleted(obj[s][u]), <<EndPlayer(u)>>)
    BY <1>1, <1>3, KnownPlayer DEF Quit
  <2> QED BY <1>1, <1>2, <2>1, PlayerFields, LogOffTyped
<1>4. ASSUME OnEventDisconnect(s, u) PROVE WorldsAndPlayersTyped'
  BY <1>1, <1>2, <1>4, LogOffTyped DEF OnEventDisconnect, WorldsAndPlayersTyped
<1>5. OthersTyped'
  BY <1>1, BoundsAssumption DEF OthersTyped, Quit, OnEventDisconnect, Command
<1>6. WorldsAndPlayersTyped'
  BY <1>3, <1>4
<1> QED BY <1>5, <1>6, GameTypeParts, PTL

LEMMA LoginTyped ==
  ASSUME GameTypeOK, NEW s \in Servers, NEW u \in Users, StartLoginRequest(s, u)
  PROVE  GameTypeOK'
<1>1. WorldsAndPlayersTyped /\ OthersTyped
  BY GameTypeParts
<1> DEFINE p == [st |-> "check", mode |-> client[u].mode, world |-> 0, id |-> cmds]
<1>2. client[u] \in ClientRecord /\ cmds \in 0..MaxCmds
  BY <1>1 DEF StartLoginRequest, OthersTyped, Offline
<1>3. p \in Player /\ <<Check(u, cmds)>> \in Seq(UpMsg)
  BY <1>2, BoundsAssumption DEF Player, PlayerRecord, ClientRecord, Check, UpMsg
<1>4. WorldsAndPlayersTyped'
  BY <1>1, <1>3, ToMasterTyped, PlayerTyped DEF StartLoginRequest, WorldsAndPlayersTyped
<1>5. OthersTyped'
  BY <1>1, <1>2 DEF OthersTyped, StartLoginRequest, ClientRecord
<1> QED BY <1>4, <1>5, GameTypeParts, PTL

LEMMA EnterGameTyped ==
  ASSUME GameTypeOK, NEW s \in Servers, NEW u \in Users, EnterGame(s, u)
  PROVE  GameTypeOK'
<1>1. WorldsAndPlayersTyped /\ OthersTyped
  BY GameTypeParts
<1> DEFINE p == [obj[s][u] EXCEPT !.st = "game", !.world = 0]
           w == obj[s][u].world
<1>2. obj[s][u] \in PlayerRecord
  BY <1>1, KnownPlayer DEF EnterGame
<1>3. w \in InstOrNone
  BY <1>2, PlayerFields
<1>4. p \in PlayerRecord
  <2>1. 0 \in InstOrNone
    BY BoundsAssumption
  <2> QED BY <1>2, <2>1 DEF PlayerRecord
<1>5. UNCHANGED <<proc, client, cmds, losses>>
      /\ IF Hosts(s, w) THEN JoinByName(s, u, gw[s][w].name, p)
         ELSE obj' = [obj EXCEPT ![s][u] = p] /\ UNCHANGED <<gw, up>>
  BY DEF EnterGame, clientVars
<1> HIDE DEF p, w
<1>6. ASSUME Hosts(s, w) PROVE WorldsAndPlayersTyped'
  <2>1. gw[s] \in ServerWorlds
    BY <1>1 DEF WorldsAndPlayersTyped
  <2>2. gw[s][w].name \in Names
    BY <1>3, <1>6, <2>1, HostedWorld DEF Hosts, GameWorldRecord
  <2> QED BY <1>1, <1>4, <1>5, <1>6, <2>2, JoinByNameTyped
<1>7. ASSUME ~Hosts(s, w) PROVE WorldsAndPlayersTyped'
  <2>1. p \in Player
    BY <1>4 DEF Player
  <2> QED BY <1>1, <1>5, <1>7, <2>1, PlayerTyped DEF WorldsAndPlayersTyped
<1>8. WorldsAndPlayersTyped' /\ OthersTyped'
  BY <1>1, <1>5, <1>6, <1>7, OthersUnchanged
<1> QED BY <1>8, GameTypeParts, PTL

LEMMA UpdatePlayersTyped ==
  ASSUME GameTypeOK, NEW s \in Servers, NEW u \in Users, UpdatePlayers(s, u)
  PROVE  GameTypeOK'
<1>1. WorldsAndPlayersTyped /\ OthersTyped
  BY GameTypeParts
<1>2. WorldsAndPlayersTyped'
  BY <1>1, PlayerTyped DEF UpdatePlayers, WorldsAndPlayersTyped, Player
<1>3. OthersTyped'
  BY <1>1 DEF UpdatePlayers, OthersTyped, clientVars
<1> QED BY <1>2, <1>3, GameTypeParts, PTL

LEMMA HandleCheckSessionTyped ==
  ASSUME GameTypeOK, NEW s \in Servers, NEW u \in Users, NEW id \in 0..MaxCmds, NEW ok \in BOOLEAN,
         NEW w \in InstOrNone, HandleCheckSession(s, u, id, ok, w)
  PROVE  GameTypeOK'
<1>1. WorldsAndPlayersTyped /\ OthersTyped
  BY GameTypeParts
<1>2. UNCHANGED <<up, gw, proc, client, cmds, losses>>
  BY DEF HandleCheckSession, clientVars
<1>3. PICK p \in Player : obj' = obj \/ obj' = [obj EXCEPT ![s][u] = p]
  <2>1. CASE obj' = obj
    BY <2>1 DEF Player
  <2>2. CASE obj' # obj
    <3>1. obj[s][u] \in PlayerRecord
      BY <1>1, <2>2, KnownPlayer DEF HandleCheckSession
    <3>2. CASE ~ok
      <4>1. [obj[s][u] EXCEPT !.st = "refused"] \in Player
        BY <3>1 DEF Player, PlayerRecord
      <4> QED BY <2>2, <3>2, <4>1, Zenon DEF HandleCheckSession
    <3>3. CASE ok
      <4> DEFINE v == IF obj[s][u].mode = "transfer" THEN w ELSE obj[s][u].world
                 q == [obj[s][u] EXCEPT !.st = "entering", !.world = v]
      <4>1. v \in InstOrNone
        BY <3>1 DEF PlayerRecord
      <4>2. obj' = [obj EXCEPT ![s][u] = q]
        BY <2>2, <3>3 DEF HandleCheckSession
      <4> HIDE DEF v
      <4>3. q \in Player
        BY <3>1, <4>1 DEF Player, PlayerRecord
      <4> HIDE DEF q
      <4> QED BY <4>2, <4>3, Zenon
    <3> QED BY <3>2, <3>3
  <2> QED BY <2>1, <2>2
<1>4. WorldsAndPlayersTyped' /\ OthersTyped'
  BY <1>1, <1>2, <1>3, PlayerTyped, OthersUnchanged DEF WorldsAndPlayersTyped
<1> QED BY <1>4, GameTypeParts, PTL

LEMMA HandlePlayerJoinTyped ==
  ASSUME GameTypeOK, NEW s \in Servers, NEW u \in Users, NEW t \in Servers, NEW w \in Inst,
         HandlePlayerJoin(s, u, t, w)
  PROVE  GameTypeOK'
<1>1. WorldsAndPlayersTyped /\ OthersTyped
  BY GameTypeParts
<1>2. UNCHANGED <<proc, cmds, losses>>
      /\ (client' = client \/ client' = [client EXCEPT ![u] = [st |-> "dial", at |-> t, mode |-> "transfer"]])
  BY DEF HandlePlayerJoin
<1>3. OthersTyped'
  BY <1>1, <1>2 DEF OthersTyped, ClientRecord
<1>4. CASE obj[s][u].st = "none"
  <2>1. UNCHANGED <<up, gw, obj>>
    BY <1>4 DEF HandlePlayerJoin, gameVars
  <2>2. WorldsAndPlayersTyped'
    BY <1>1, <2>1 DEF WorldsAndPlayersTyped
  <2> QED BY <1>3, <2>2, GameTypeParts, PTL
<1>5. CASE obj[s][u].st # "none"
  <2>1. obj[s][u] \in PlayerRecord /\ <<>> \in Seq(UpMsg)
    BY <1>1, <1>5, KnownPlayer
  <2>2. Deleted(obj[s][u]) \in Player
    BY <2>1, PlayerFields
  <2>3. LogOff(s, u, Deleted(obj[s][u]), <<>>) \/ EnterWorld(s, u, w, obj[s][u])
    BY <1>5 DEF HandlePlayerJoin
  <2>4. WorldsAndPlayersTyped'
    BY <1>1, <2>1, <2>2, <2>3, LogOffTyped, EnterWorldTyped
  <2> QED BY <1>3, <2>4, GameTypeParts, PTL
<1> QED BY <1>4, <1>5

LEMMA WorldInitTyped ==
  ASSUME GameTypeOK, NEW s \in Servers, NEW w \in Inst,
         (\E n \in Names : GameHandleWorldInit(s, n, w)) \/ OnWorldPresenceReady(s, w)
  PROVE  GameTypeOK'
<1>1. WorldsAndPlayersTyped /\ OthersTyped
  BY GameTypeParts
<1>2. UNCHANGED <<obj, proc, client, cmds, losses>> /\ (UNCHANGED up \/ ToMaster(s, <<InitOK(w)>>))
  BY DEF GameHandleWorldInit, OnWorldPresenceReady, clientVars
<1>3. <<InitOK(w)>> \in Seq(UpMsg)
  BY DEF InitOK, UpMsg
<1>4. PICK r \in GameWorldRecord : gw' = [gw EXCEPT ![s] = [gw[s] EXCEPT ![w] = r]]
  <2>1. ASSUME NEW n \in Names, GameHandleWorldInit(s, n, w)
        PROVE  \E r \in GameWorldRecord : gw' = [gw EXCEPT ![s] = [gw[s] EXCEPT ![w] = r]]
    <3>1. PICK st \in {"loading", "ready"} :
            gw' = [gw EXCEPT ![s] = [gw[s] EXCEPT ![w] = [NoGameWorld EXCEPT !.state = st, !.name = n]]]
      BY <2>1 DEF GameHandleWorldInit
    <3>2. [NoGameWorld EXCEPT !.state = st, !.name = n] \in GameWorldRecord
      BY DEF NoGameWorld, GameWorldRecord
    <3> QED BY <3>1, <3>2, Zenon
  <2>2. CASE OnWorldPresenceReady(s, w)
    <3>1. gw' = [gw EXCEPT ![s] = [gw[s] EXCEPT ![w] = [gw[s][w] EXCEPT !.state = "ready"]]]
      BY <2>2 DEF OnWorldPresenceReady
    <3>2. gw[s] \in ServerWorlds /\ gw[s][w].state = "loading"
      BY <1>1, <2>2 DEF OnWorldPresenceReady, WorldsAndPlayersTyped
    <3>3. gw[s][w] \in GameWorldRecord
      BY <3>2, HostedWorld
    <3>4. [gw[s][w] EXCEPT !.state = "ready"] \in GameWorldRecord
      BY <3>3 DEF GameWorldRecord
    <3> QED BY <3>1, <3>4, Zenon
  <2> QED BY <2>1, <2>2
<1>5. gw' \in [Servers -> ServerWorlds]
  BY <1>1, <1>4 DEF WorldsAndPlayersTyped, ServerWorlds
<1>6. WorldsAndPlayersTyped' /\ OthersTyped'
  BY <1>1, <1>2, <1>3, <1>5, ToMasterTyped, OthersUnchanged DEF WorldsAndPlayersTyped
<1> QED BY <1>6, GameTypeParts, PTL

(* Losses and refusals, and the steps of the Master: they take packets off *)
(* a queue, bring a server up, send a client somewhere.                    *)
LEMMA LossesTyped ==
  ASSUME GameTypeOK, NEW s \in Servers, Losses(s)
  PROVE  GameTypeOK'
<1>1. WorldsAndPlayersTyped /\ OthersTyped
  BY GameTypeParts
<1>2. OthersTyped'
  BY <1>1, BoundsAssumption DEF OthersTyped, Losses, LoseLink, Crash, clientVars
<1>3. [w \in Inst |-> NoGameWorld] \in ServerWorlds /\ [u \in Users |-> NoPlayer] \in [Users -> Player]
  BY DEF ServerWorlds, Player
<1>4. WorldsAndPlayersTyped'
  BY <1>1, <1>3 DEF WorldsAndPlayersTyped, Losses, LoseLink, Crash, gameVars
<1> QED BY <1>2, <1>4, GameTypeParts, PTL

LEMMA MasterStepTyped ==
  ASSUME GameTypeOK,
         \/ DatabaseResults
         \/ \E s \in Servers : \/ FromServerHandlers(s)
                             \/ AddServer(s) \/ ServerReady(s) \/ RemoveServer(s)
                             \/ \E u \in Users : SendToGame(u, s)
  PROVE  GameTypeOK'
<1>1. WorldsAndPlayersTyped /\ OthersTyped
  BY GameTypeParts
<1>2. CASE DatabaseResults
  <2>1. UNCHANGED <<up, proc, gw, obj, client, cmds, losses>>
    BY <1>2 DEF DatabaseResults, gameVars, clientVars
  <2> QED BY <2>1 DEF GameTypeOK
<1>3. ASSUME NEW s \in Servers, FromServerHandlers(s)
      PROVE  GameTypeOK'
  <2>1. up' = [up EXCEPT ![s] = Tail(@)] /\ up[s] # <<>>
    BY <1>3, Zenon DEF FromServerHandlers, HandlePlayerJoinRequest, HandleWorldInit, WorldPlayerJoin,
       WorldPlayerLeave, PlayerEndSession, PlayerCheckSession, FromServer, Arrives
  <2>2. UNCHANGED <<gw, obj, proc, client, cmds, losses>>
    BY <1>3 DEF FromServerHandlers, gameVars, clientVars
  <2>3. Tail(up[s]) \in Seq(UpMsg)
    BY <1>1, <2>1 DEF WorldsAndPlayersTyped
  <2>4. WorldsAndPlayersTyped' /\ OthersTyped'
    BY <1>1, <2>1, <2>2, <2>3, OthersUnchanged DEF WorldsAndPlayersTyped
  <2> QED BY <2>4, GameTypeParts, PTL
<1>4. ASSUME NEW s \in Servers, AddServer(s) \/ ServerReady(s) \/ RemoveServer(s)
      PROVE  GameTypeOK'
  <2>1. UNCHANGED <<gw, obj, client, cmds, losses>>
        /\ (up' = up \/ up' = [up EXCEPT ![s] = <<>>])
        /\ (proc' = proc \/ proc' = [proc EXCEPT ![s] = "linked"])
    BY <1>4 DEF AddServer, ServerReady, RemoveServer, gameVars, clientVars
  <2>2. up' \in [Servers -> Seq(UpMsg)]
    <3>1. <<>> \in Seq(UpMsg)
      OBVIOUS
    <3> QED BY <1>1, <2>1, <3>1 DEF WorldsAndPlayersTyped
  <2>3. OthersTyped'
    BY <1>1, <2>1 DEF OthersTyped
  <2>4. WorldsAndPlayersTyped' /\ OthersTyped'
    BY <1>1, <2>1, <2>2, <2>3 DEF WorldsAndPlayersTyped
  <2> QED BY <2>4, GameTypeParts, PTL
<1>5. ASSUME NEW s \in Servers, NEW u \in Users, SendToGame(u, s)
      PROVE  GameTypeOK'
  <2>1. UNCHANGED <<up, gw, obj, proc, losses>> /\ cmds < MaxCmds /\ cmds' = cmds + 1
        /\ client' = [client EXCEPT ![u] = [st |-> "dial", at |-> s, mode |-> "welcome"]]
    BY <1>5 DEF SendToGame, Command, gameVars
  <2>2. WorldsAndPlayersTyped' /\ OthersTyped'
    BY <1>1, <2>1, BoundsAssumption DEF WorldsAndPlayersTyped, OthersTyped, ClientRecord
  <2> QED BY <2>2, GameTypeParts, PTL
<1> QED BY <1>2, <1>3, <1>4, <1>5

LEMMA FromMasterTyped ==
  ASSUME GameTypeOK, NEW s \in Servers, FromMasterHandlers(s)
  PROVE  GameTypeOK'
<1>1. ASSUME NEW n \in Names, NEW w \in Inst, GameHandleWorldInit(s, n, w) PROVE GameTypeOK'
  BY <1>1, WorldInitTyped
<1>2. ASSUME NEW u \in Users, HandleJoinFail(s, u) PROVE GameTypeOK'
  <2>1. UNCHANGED <<up, proc, gw, obj, client, cmds, losses>>
    BY <1>2 DEF HandleJoinFail, gameVars, clientVars
  <2> QED BY <2>1 DEF GameTypeOK
<1>3. ASSUME NEW u \in Users, NEW t \in Servers, NEW w \in Inst, HandlePlayerJoin(s, u, t, w)
      PROVE  GameTypeOK'
  BY <1>3, HandlePlayerJoinTyped
<1>4. ASSUME NEW u \in Users, NEW id \in 0..MaxCmds, NEW ok \in BOOLEAN, NEW w \in InstOrNone,
             HandleCheckSession(s, u, id, ok, w)
      PROVE  GameTypeOK'
  BY <1>4, HandleCheckSessionTyped
<1> QED BY <1>1, <1>2, <1>3, <1>4, Zenon DEF FromMasterHandlers

LEMMA GameNext == GameTypeOK /\ [Next]_vars => GameTypeOK'
<1> SUFFICES ASSUME GameTypeOK, [Next]_vars PROVE GameTypeOK'
  OBVIOUS
<1>1. CASE UNCHANGED vars
  BY <1>1 DEF vars, gameVars, clientVars, GameTypeOK
<1>2. CASE \/ DatabaseResults
           \/ \E s \in Servers : \/ FromServerHandlers(s)
                               \/ AddServer(s) \/ ServerReady(s) \/ RemoveServer(s)
                               \/ \E u \in Users : SendToGame(u, s)
  BY <1>2, MasterStepTyped
<1>3. ASSUME NEW u \in Users, ConnectFails(u) PROVE GameTypeOK'
  <2>1. UNCHANGED <<up, proc, gw, obj, cmds, losses>> /\ client' = [client EXCEPT ![u] = Offline]
    BY <1>3 DEF ConnectFails, gameVars
  <2> QED BY <2>1 DEF GameTypeOK
<1>4. ASSUME NEW s \in Servers, FromMasterHandlers(s) \/ Losses(s) PROVE GameTypeOK'
  BY <1>4, FromMasterTyped, LossesTyped
<1>5. ASSUME NEW s \in Servers, NEW u \in Users,
             \/ \E n \in Names : PlayerJoinRequest(s, u, n)
             \/ QuitToExit(s, u) \/ Quit(s, u) \/ OnEventDisconnect(s, u)
             \/ UpdatePlayers(s, u) \/ StartLoginRequest(s, u) \/ EnterGame(s, u)
      PROVE  GameTypeOK'
  BY <1>5, PlayerJoinRequestTyped, QuitToExitTyped, LeaveTyped, UpdatePlayersTyped, LoginTyped, EnterGameTyped
<1>6. ASSUME NEW s \in Servers, NEW w \in Inst, OnWorldPresenceReady(s, w) PROVE GameTypeOK'
  BY <1>6, WorldInitTyped
<1>7. CASE Next
  BY <1>2, <1>3, <1>4, <1>5, <1>6, <1>7, Zenon DEF Next, Clients
<1> QED BY <1>1, <1>7

(* The state of the game servers and clients and what they send is typed:  *)
(* no member count goes below zero, every object names a world it can be   *)
(* in, whatever handler runs on it in whatever state.                      *)
THEOREM GameTyped == Spec => []GameTypeOK
<1>1. Init => GameTypeOK
  BY GameInit
<1>2. GameTypeOK /\ [Next]_vars => GameTypeOK'
  BY GameNext
<1> QED BY <1>1, <1>2, PTL DEF Spec

-----------------------------------------------------------------------------
(* The packets to the game servers.                                        *)

LEMMA Least ==
  ASSUME NEW T \in SUBSET Nat, T # {}
  PROVE  \E x \in T : \A y \in T : x <= y
<1>1. IsWellFoundedOn(OpToRel(<, Nat), Nat)
  BY NatLessThanWellFounded
<1>2. PICK x \in T : \A y \in T : <<y, x>> \notin OpToRel(<, Nat)
  BY <1>1, WFMin
<1>3. \A y \in T : ~(y < x)
  BY <1>2 DEF OpToRel
<1> QED
  BY <1>3

(* A finite set of numbers has a k-th element: the first that has at least *)
(* k elements up to it.                                                    *)
LEMMA KthElement ==
  ASSUME NEW n \in Nat, NEW W \in SUBSET (1..n), NEW k \in 1..Cardinality(W)
  PROVE  \E i \in W : Cardinality({j \in W : j <= i}) = k
<1> DEFINE upTo(i) == {j \in W : j <= i}
           T == {i \in Nat : Cardinality(upTo(i)) >= k}
<1>1. \A j \in W : j \in Int /\ j <= n /\ ~(j <= 0)
  OBVIOUS
<1>2. IsFiniteSet(W)
  <2>1. 1 \in Int /\ n \in Int
    OBVIOUS
  <2>2. IsFiniteSet(1..n)
    BY <2>1, FS_Interval
  <2> QED
    BY <2>2, FS_Subset
<1>3. \A i : IsFiniteSet(upTo(i)) /\ Cardinality(upTo(i)) \in Nat
  <2> TAKE i
  <2>1. upTo(i) \in SUBSET W
    OBVIOUS
  <2>2. IsFiniteSet(upTo(i))
    BY <1>2, <2>1, FS_Subset
  <2> QED
    BY <2>2, FS_CardinalityType
<1>4. Cardinality(W) \in Nat
  BY <1>2, FS_CardinalityType
<1>5. n \in T
  <2>1. upTo(n) = W
    BY <1>1, Zenon
  <2> QED
    BY <2>1, <1>4
<1>6. PICK i \in T : \A y \in T : i <= y
  BY <1>5, Least
<1>7. i # 0
  <2>1. upTo(0) = {}
    BY <1>1, Zenon
  <2>2. Cardinality(upTo(0)) = 0
    BY <2>1, FS_EmptySet
  <2> QED
    BY <2>2, <1>4
<1>8. i - 1 \in Nat /\ Cardinality(upTo(i - 1)) < k
  <2>1. i - 1 \in Nat /\ ~(i <= i - 1)
    BY <1>7
  <2>2. i - 1 \notin T
    BY <1>6, <2>1
  <2>3. Cardinality(upTo(i - 1)) \in Nat
    BY <1>3
  <2> HIDE DEF upTo
  <2> QED
    BY <1>4, <2>1, <2>2, <2>3
<1>9. i \in W
  <2> SUFFICES ASSUME i \notin W PROVE FALSE
    OBVIOUS
  <2>1. \A j \in W : j <= i <=> j <= i - 1
    BY <1>1
  <2>2. upTo(i) = upTo(i - 1)
    BY <2>1
  <2>3. Cardinality(upTo(i)) = Cardinality(upTo(i - 1))
    BY <2>2
  <2>4. Cardinality(upTo(i)) >= k /\ Cardinality(upTo(i)) \in Nat /\ Cardinality(upTo(i - 1)) \in Nat
    BY <1>3, <1>6
  <2> HIDE DEF upTo
  <2> QED
    BY <1>4, <1>8, <2>3, <2>4
<1>10. Cardinality(upTo(i)) = Cardinality(upTo(i - 1)) + 1
  <2>1. \A j \in W : j <= i <=> j <= i - 1 \/ j = i
    BY <1>1
  <2>2. i <= i /\ ~(i <= i - 1)
    OBVIOUS
  <2>3. upTo(i) = upTo(i - 1) \cup {i} /\ i \notin upTo(i - 1)
    BY <1>9, <2>1, <2>2
  <2>4. IsFiniteSet(upTo(i - 1))
    BY <1>3
  <2> HIDE DEF upTo
  <2> QED
    BY <2>3, <2>4, FS_AddElement
<1>11. Cardinality(upTo(i)) = k
  <2>1. Cardinality(upTo(i)) >= k /\ Cardinality(upTo(i)) \in Nat /\ Cardinality(upTo(i - 1)) \in Nat
    BY <1>3, <1>6
  <2> HIDE DEF upTo
  <2> QED
    BY <1>4, <1>8, <1>10, <2>1
<1> QED
  BY <1>9, <1>11

DownTyped == down \in [Servers -> Seq(DownMsg)]

LEMMA ToServerTyped ==
  ASSUME DownTyped, NEW s \in Servers, NEW m \in DownMsg, ToServer(s, m)
  PROVE  DownTyped'
<1>1. down[s] \in Seq(DownMsg)
  BY DEF DownTyped
<1>2. Append(down[s], m) \in Seq(DownMsg)
  BY <1>1
<1> HIDE DEF DownTyped
<1> QED
  BY <1>2, Zenon DEF ToServer, DownTyped

LEMMA FromMasterKeeps ==
  ASSUME DownTyped, NEW s \in Servers, NEW m, FromMaster(s, m)
  PROVE  DownTyped'
<1>1. down[s] \in Seq(DownMsg) /\ down[s] # <<>>
  BY DEF DownTyped, FromMaster, Arrives
<1>2. Tail(down[s]) \in Seq(DownMsg)
  BY <1>1
<1> QED
  BY <1>2, Zenon DEF FromMaster, DownTyped

LEMMA RepliesTyped ==
  ASSUME MasterInv, NEW s \in Servers, NEW w \in Inst, worlds[w].state # "none"
  PROVE  RepliesTo(s, w) \in Seq(DownMsg)
<1> DEFINE place(k) == CHOOSE i \in Waiters(s, w) : Cardinality({j \in Waiters(s, w) : j <= i}) = k
           e(k) == Route(worlds[w].waiting[place(k)].user, worlds[w].server, w)
           n == Cardinality(Waiters(s, w))
<1>1. worlds[w].waiting \in Seq(Waiting) /\ worlds[w].server \in Servers
  BY KnownWorld
<1>2. Len(worlds[w].waiting) \in Nat /\ Waiters(s, w) \in SUBSET (1..Len(worlds[w].waiting))
  BY <1>1 DEF Waiters
<1>3. n \in Nat
  <2>1. 1 \in Int /\ Len(worlds[w].waiting) \in Int
    BY <1>2
  <2>2. IsFiniteSet(1..Len(worlds[w].waiting))
    BY <2>1, FS_Interval
  <2> QED
    BY <1>2, <2>2, FS_Subset, FS_CardinalityType
<1>4. ASSUME NEW k \in 1..n PROVE e(k) \in DownMsg
  <2>1. \E i \in Waiters(s, w) : Cardinality({j \in Waiters(s, w) : j <= i}) = k
    BY <1>2, KthElement
  <2>2. place(k) \in Waiters(s, w)
    BY <2>1
  <2> HIDE DEF place
  <2>3. worlds[w].waiting[place(k)] \in Waiting
    BY <1>1, <1>2, <2>2
  <2> QED
    BY <1>1, <2>3 DEF Waiting, Route, DownMsg
<1>5. RepliesTo(s, w) = [k \in 1..n |-> e(k)]
  BY DEF RepliesTo
<1> HIDE DEF e, n
<1> QED
  BY <1>3, <1>4, <1>5, SeqDef

LEMMA DownNext == MasterInv /\ GameTypeOK /\ DownTyped /\ [Next]_vars => DownTyped'
<1> SUFFICES ASSUME MasterInv, GameTypeOK, DownTyped, [Next]_vars PROVE DownTyped'
  OBVIOUS
<1>1. CASE UNCHANGED down
  BY <1>1 DEF DownTyped
<1>2. ASSUME NEW s \in Servers, NEW u \in Users, ToServer(s, JoinFail(u)) PROVE DownTyped'
  <2>1. JoinFail(u) \in DownMsg
    BY DEF JoinFail, DownMsg
  <2> QED
    BY <1>2, <2>1, ToServerTyped
<1>3. ASSUME NEW n \in Names, NEW u \in Users, NEW s \in Servers, CreateWorldSessionAndNotice(n, u, s)
      PROVE  DownTyped'
  <2>1. ASSUME NEW t \in Servers, ToServer(t, InitWorld(n, nextInst)), nextInst <= MaxInst PROVE DownTyped'
    <3>1. nextInst \in Inst
      BY <2>1, BoundsAssumption DEF MasterInv, MasterTypeOK
    <3>2. InitWorld(n, nextInst) \in DownMsg
      BY <3>1 DEF InitWorld, DownMsg
    <3> QED
      BY <2>1, <3>2, ToServerTyped
  <2> QED
    BY <1>2, <1>3, <2>1, Zenon DEF CreateWorldSessionAndNotice, ReadyServers
<1>4. CASE DatabaseResults
  <2>1. PICK t \in DBTask : CheckWorldExistCB(t) \/ CreateWorldCB(t)
    BY <1>4 DEF DatabaseResults
  <2>2. t.user \in Users /\ t.source \in Servers /\ t.name \in Names
    BY DEF DBTask
  <2>3. \/ UNCHANGED down \/ ToServer(t.source, JoinFail(t.user))
        \/ CreateWorldSessionAndNotice(t.name, t.user, t.source)
    BY <2>1, Zenon DEF CheckWorldExistCB, CreateWorldCB
  <2> QED
    BY <1>1, <1>2, <1>3, <2>2, <2>3
<1>5. ASSUME NEW s \in Servers, NEW u \in Users, NEW n \in Names, HandlePlayerJoinRequest(s, u, n)
      PROVE  DownTyped'
  <2>1. ASSUME NEW w \in Inst, worlds[w].state # "none", ToServer(s, Route(u, worlds[w].server, w))
        PROVE  DownTyped'
    <3>1. Route(u, worlds[w].server, w) \in DownMsg
      BY <2>1, KnownWorld DEF Route, DownMsg
    <3> QED
      BY <2>1, <3>1, ToServerTyped
  <2>2. GetWorldByName(n) \in InstOrNone
    BY BoundsAssumption DEF GetWorldByName, MasterInv, MasterTypeOK
  <2>3. \/ UNCHANGED down
        \/ /\ GetWorldByName(n) # 0 /\ worlds[GetWorldByName(n)].state = "ready"
           /\ ToServer(s, Route(u, worlds[GetWorldByName(n)].server, GetWorldByName(n)))
    BY <1>5, Zenon DEF HandlePlayerJoinRequest, AttachPending, RoutePlayerToExistingWorld
  <2> QED
    BY <1>1, <2>1, <2>2, <2>3, BoundsAssumption
<1>6. ASSUME NEW s \in Servers, NEW w \in Inst, HandleWorldInit(s, w) PROVE DownTyped'
  <2>1. CASE worlds[w].state = "none"
    BY <1>1, <1>6, <2>1 DEF HandleWorldInit
  <2>2. CASE worlds[w].state # "none"
    <3>1. down' = [t \in Servers |->
                 IF proc[t] = "linked" /\ Registered(t) THEN down[t] \o RepliesTo(t, w) ELSE down[t]]
      BY <1>6, <2>2, Zenon DEF HandleWorldInit
    <3>2. ASSUME NEW t \in Servers PROVE down[t] \in Seq(DownMsg) /\ down[t] \o RepliesTo(t, w) \in Seq(DownMsg)
      <4>1. down[t] \in Seq(DownMsg)
        BY DEF DownTyped
      <4>2. RepliesTo(t, w) \in Seq(DownMsg)
        BY <2>2, RepliesTyped
      <4> QED
        BY <4>1, <4>2
    <3> QED
      BY <3>1, <3>2, Zenon DEF DownTyped
  <2> QED
    BY <2>1, <2>2
<1>7. ASSUME NEW s \in Servers, NEW u \in Users, NEW id \in 0..MaxCmds, PlayerCheckSession(s, u, id)
      PROVE  DownTyped'
  <2> DEFINE has == session[u].server = s
             w == IF has THEN session[u].world ELSE 0
  <2>1. w \in InstOrNone /\ has \in BOOLEAN
    BY NoServerAssumption, BoundsAssumption DEF MasterInv, MasterTypeOK, SessionRecord, NoSession
  <2>2. ToServer(s, Checked(u, id, has, w))
    BY <1>7 DEF PlayerCheckSession
  <2> HIDE DEF has, w
  <2>3. Checked(u, id, has, w) \in DownMsg
    BY <2>1 DEF Checked, DownMsg
  <2> QED
    BY <2>2, <2>3, ToServerTyped
<1>8. ASSUME NEW s \in Servers, FromServerHandlers(s) PROVE DownTyped'
  <2>1. ASSUME NEW u \in Users, NEW w \in Inst, WorldPlayerJoin(s, u, w) \/ WorldPlayerLeave(s, u, w)
        PROVE  UNCHANGED down
    BY <2>1, Zenon DEF WorldPlayerJoin, WorldPlayerLeave
  <2>2. ASSUME NEW u \in Users, PlayerEndSession(s, u) PROVE UNCHANGED down
    BY <2>2, Zenon DEF PlayerEndSession
  <2> QED
    BY <1>1, <1>5, <1>6, <1>7, <1>8, <2>1, <2>2, Zenon DEF FromServerHandlers
<1>9. ASSUME NEW s \in Servers, FromMasterHandlers(s) PROVE DownTyped'
  <2>1. \E m : FromMaster(s, m)
    BY <1>9, Zenon DEF FromMasterHandlers, GameHandleWorldInit, HandleJoinFail, HandlePlayerJoin, HandleCheckSession
  <2> QED
    BY <2>1, FromMasterKeeps
<1>10. ASSUME NEW s \in Servers, LoseLink(s) \/ Crash(s) PROVE DownTyped'
  <2>1. down' = [down EXCEPT ![s] = <<>>] /\ <<>> \in Seq(DownMsg)
    BY <1>10 DEF LoseLink, Crash
  <2> QED
    BY <2>1, Zenon DEF DownTyped
<1>11. CASE Next
  <2>1. ASSUME NEW s \in Servers,
               \/ Clients(s)
               \/ \E u \in Users : UpdatePlayers(s, u) \/ StartLoginRequest(s, u) \/ EnterGame(s, u)
               \/ \E w \in Inst : OnWorldPresenceReady(s, w)
               \/ AddServer(s) \/ ServerReady(s) \/ RemoveServer(s)
        PROVE UNCHANGED down
    BY <2>1, Zenon DEF Clients, SendToGame, PlayerJoinRequest, QuitToExit, Quit, OnEventDisconnect, UpdatePlayers,
         StartLoginRequest, EnterGame, OnWorldPresenceReady, AddServer, ServerReady, RemoveServer
  <2>2. ASSUME NEW u \in Users, ConnectFails(u) PROVE UNCHANGED down
    BY <2>2 DEF ConnectFails
  <2> QED
    BY <1>1, <1>4, <1>8, <1>9, <1>10, <1>11, <2>1, <2>2, Zenon DEF Next, Losses
<1> QED
  BY <1>1, <1>11 DEF vars

(* The whole state is well typed, the packets to the game servers too: in  *)
(* particular HandleWorldInit answers each of those who wait and have a    *)
(* session, in their order, with a route to a world that is there.         *)
THEOREM TypeCorrect == Spec => []TypeOK
<1>1. Init => DownTyped
  <2>1. <<>> \in Seq(DownMsg)
    OBVIOUS
  <2>2. Init => down = [s \in Servers |-> <<>>]
    BY DEF Init
  <2> QED
    BY <2>1, <2>2 DEF DownTyped
<1>2. MasterInv /\ GameTypeOK /\ DownTyped => TypeOK
  BY DEF MasterInv, TypeOK, DownTyped
<1> QED
  BY <1>1, <1>2, DownNext, MasterCorrect, GameTyped, PTL DEF Spec

-----------------------------------------------------------------------------
(* Requests.                                                               *)

LEMMA SpotsFinite ==
  ASSUME NEW S, NEW q \in Seq(S), NEW T
  PROVE  IsFiniteSet(Spots(q, T)) /\ Cardinality(Spots(q, T)) \in Nat
<1>1. 1 \in Int /\ Len(q) \in Int /\ Spots(q, T) \in SUBSET (1..Len(q))
  BY DEF Spots
<1>2. IsFiniteSet(1..Len(q))
  BY <1>1, FS_Interval
<1> QED
  BY <1>1, <1>2, FS_Subset, FS_CardinalityType

LEMMA SpotsConcat ==
  ASSUME NEW S, NEW q \in Seq(S), NEW r \in Seq(S), NEW T
  PROVE  Spots(q \o r, T) = Spots(q, T) \cup {Len(q) + i : i \in Spots(r, T)}
<1>1. /\ Len(q) \in Nat /\ Len(r) \in Nat
      /\ DOMAIN q = 1..Len(q) /\ DOMAIN r = 1..Len(r) /\ DOMAIN (q \o r) = 1..(Len(q) + Len(r))
      /\ \A i \in DOMAIN q : (q \o r)[i] = q[i]
      /\ \A i \in DOMAIN r : (q \o r)[Len(q) + i] = r[i]
  OBVIOUS
<1>2. ASSUME NEW i \in Spots(q \o r, T) PROVE i \in Spots(q, T) \/ \E j \in Spots(r, T) : i = Len(q) + j
  <2>1. i \in 1..(Len(q) + Len(r)) /\ (q \o r)[i] \in T
    BY <1>1 DEF Spots
  <2>2. CASE i <= Len(q)
    <3>1. i \in DOMAIN q
      BY <1>1, <2>1, <2>2
    <3> QED
      BY <1>1, <2>1, <3>1 DEF Spots
  <2>3. CASE ~(i <= Len(q))
    <3>1. i - Len(q) \in DOMAIN r /\ i = Len(q) + (i - Len(q))
      BY <1>1, <2>1, <2>3
    <3>2. i - Len(q) \in Spots(r, T)
      BY <1>1, <2>1, <3>1 DEF Spots
    <3> QED
      BY <3>1, <3>2
  <2> QED
    BY <2>2, <2>3
<1>3. ASSUME NEW i \in Spots(q, T) PROVE i \in Spots(q \o r, T)
  <2>1. i \in 1..Len(q) /\ q[i] \in T /\ (q \o r)[i] = q[i]
    BY <1>1 DEF Spots
  <2>2. i \in 1..(Len(q) + Len(r))
    BY <1>1, <2>1
  <2> QED
    BY <1>1, <2>1, <2>2 DEF Spots
<1>4. ASSUME NEW j \in Spots(r, T) PROVE Len(q) + j \in Spots(q \o r, T)
  <2>1. j \in 1..Len(r) /\ r[j] \in T /\ (q \o r)[Len(q) + j] = r[j]
    BY <1>1 DEF Spots
  <2>2. Len(q) + j \in 1..(Len(q) + Len(r))
    BY <1>1, <2>1
  <2> QED
    BY <1>1, <2>1, <2>2 DEF Spots
<1> QED
  BY <1>2, <1>3, <1>4, Zenon

LEMMA SpotsAppend ==
  ASSUME NEW S, NEW q \in Seq(S), NEW m \in S, NEW T
  PROVE  Cardinality(Spots(Append(q, m), T)) = Cardinality(Spots(q, T)) + (IF m \in T THEN 1 ELSE 0)
<1>1. <<m>> \in Seq(S) /\ Append(q, m) = q \o <<m>> /\ DOMAIN <<m>> = {1} /\ <<m>>[1] = m
  OBVIOUS
<1>2. Spots(Append(q, m), T) = Spots(q, T) \cup {Len(q) + i : i \in Spots(<<m>>, T)}
  <2> DEFINE one == <<m>>
  <2>1. one \in Seq(S) /\ Append(q, m) = q \o one
    BY <1>1
  <2> HIDE DEF one
  <2>2. Spots(q \o one, T) = Spots(q, T) \cup {Len(q) + i : i \in Spots(one, T)}
    BY <2>1, SpotsConcat
  <2> QED
    BY <2>1, <2>2 DEF one
<1>3. IsFiniteSet(Spots(q, T)) /\ Cardinality(Spots(q, T)) \in Nat
  BY SpotsFinite
<1>4. CASE m \in T
  <2>1. Spots(<<m>>, T) = {1}
    BY <1>1, <1>4 DEF Spots
  <2>2. Spots(Append(q, m), T) = Spots(q, T) \cup {Len(q) + 1}
    BY <1>2, <2>1
  <2>3. Len(q) + 1 \notin Spots(q, T)
    BY DEF Spots
  <2> QED
    BY <1>3, <1>4, <2>2, <2>3, FS_AddElement
<1>5. CASE m \notin T
  <2>1. Spots(<<m>>, T) = {}
    BY <1>1, <1>5 DEF Spots
  <2>2. Spots(Append(q, m), T) = Spots(q, T)
    BY <1>2, <2>1
  <2> QED
    BY <1>3, <1>5, <2>2
<1> QED
  BY <1>4, <1>5

LEMMA SpotsTail ==
  ASSUME NEW S, NEW q \in Seq(S), q # <<>>, NEW T
  PROVE  Cardinality(Spots(Tail(q), T)) + (IF Head(q) \in T THEN 1 ELSE 0) <= Cardinality(Spots(q, T))
<1> DEFINE t == Spots(Tail(q), T)
           rest == Spots(q, T) \ {1}
           f == [i \in t |-> i + 1]
<1>1. /\ Len(q) \in Nat /\ Head(q) = q[1] /\ 1 \in DOMAIN q
      /\ Tail(q) \in Seq(S)
      /\ \A i \in DOMAIN Tail(q) : i \in Nat /\ i + 1 \in DOMAIN q /\ i + 1 # 1 /\ Tail(q)[i] = q[i + 1]
  OBVIOUS
<1>2. \A i \in t : i \in Nat /\ i + 1 \in rest
  BY <1>1 DEF Spots
<1>3. IsFiniteSet(Spots(q, T)) /\ Cardinality(Spots(q, T)) \in Nat
  BY SpotsFinite
<1>4. IsFiniteSet(rest) /\ Cardinality(rest) = IF 1 \in Spots(q, T) THEN Cardinality(Spots(q, T)) - 1 ELSE Cardinality(Spots(q, T))
  BY <1>3, FS_RemoveElement
<1> HIDE DEF t, rest
<1>5. f \in Injection(t, rest)
  <2>1. f \in [t -> rest]
    BY <1>2
  <2>2. \A i, j \in t : f[i] = f[j] => i = j
    BY <1>2
  <2> HIDE DEF f
  <2> QED
    BY <2>1, <2>2 DEF Injection, IsInjective
<1> HIDE DEF f
<1>6. IsFiniteSet(t) /\ Cardinality(t) <= Cardinality(rest)
  BY <1>4, <1>5, FS_Injection
<1>7. Cardinality(t) \in Nat
  BY <1>6, FS_CardinalityType
<1>8. 1 \in Spots(q, T) <=> Head(q) \in T
  BY <1>1 DEF Spots
<1> QED
  BY <1>3, <1>4, <1>6, <1>7, <1>8 DEF t

(* One queue changes: r is q with x at d.                                  *)
Replaces(q, r, d, x) ==
  /\ d \in DOMAIN q /\ DOMAIN r = DOMAIN q /\ r[d] = x
  /\ \A e \in DOMAIN q : e # d => r[e] = q[e]

LEMMA PlacesChange ==
  ASSUME NEW q, NEW r, NEW d, NEW x, NEW T, Replaces(q, r, d, x),
         IsFiniteSet(Places(q, T)), IsFiniteSet(Spots(x, T))
  PROVE  /\ IsFiniteSet(Places(r, T)) /\ Cardinality(Places(r, T)) \in Nat
         /\ Cardinality(Places(q, T)) \in Nat
         /\ Cardinality(Places(r, T)) + Cardinality(Spots(q[d], T))
              = Cardinality(Places(q, T)) + Cardinality(Spots(x, T))
<1> DEFINE rest == UNION {{e} \X Spots(q[e], T) : e \in DOMAIN q \ {d}}
           here == {d} \X Spots(q[d], T)
           there == {d} \X Spots(x, T)
<1>1. Places(q, T) = rest \cup here /\ rest \cap here = {}
  BY DEF Places, Replaces
<1>2. Places(r, T) = rest \cup there /\ rest \cap there = {}
  <2>1. rest = UNION {{e} \X Spots(r[e], T) : e \in DOMAIN q \ {d}}
    BY DEF Replaces
  <2>2. Places(r, T) = (UNION {{e} \X Spots(r[e], T) : e \in DOMAIN q \ {d}}) \cup there
    BY DEF Places, Replaces
  <2>3. rest \cap there = {}
    OBVIOUS
  <2> HIDE DEF rest
  <2> QED
    BY <2>1, <2>2, <2>3
<1> HIDE DEF rest, here, there
<1>3. rest \in SUBSET Places(q, T) /\ here \in SUBSET Places(q, T)
  BY <1>1
<1>4. IsFiniteSet(rest) /\ IsFiniteSet(here)
  BY <1>3, FS_Subset
<1>5. IsFiniteSet({d}) /\ Cardinality({d}) = 1
  BY FS_Singleton
<1>6. IsFiniteSet(there) /\ Cardinality(there) = 1 * Cardinality(Spots(x, T))
  BY <1>5, FS_Product DEF there
<1>7. IsFiniteSet(Spots(q[d], T))
  <2> DEFINE f == [i \in Spots(q[d], T) |-> <<d, i>>]
  <2>1. f \in [Spots(q[d], T) -> here] /\ \A i, j \in Spots(q[d], T) : f[i] = f[j] => i = j
    BY DEF here
  <2> HIDE DEF f
  <2>2. f \in Injection(Spots(q[d], T), here)
    BY <2>1 DEF Injection, IsInjective
  <2> QED
    BY <1>4, <2>2, FS_Injection
<1>8. Cardinality(here) = 1 * Cardinality(Spots(q[d], T))
  BY <1>5, <1>7, FS_Product DEF here
<1>9. /\ IsFiniteSet(Places(q, T)) /\ Cardinality(Places(q, T)) = Cardinality(rest) + Cardinality(here) - Cardinality({})
      /\ IsFiniteSet(Places(r, T)) /\ Cardinality(Places(r, T)) = Cardinality(rest) + Cardinality(there) - Cardinality({})
  BY <1>1, <1>2, <1>4, <1>6, FS_Union
<1>10. /\ Cardinality(rest) \in Nat /\ Cardinality({}) = 0
       /\ Cardinality(Spots(q[d], T)) \in Nat /\ Cardinality(Spots(x, T)) \in Nat
  BY <1>4, <1>7, FS_CardinalityType, FS_EmptySet
<1> QED
  BY <1>6, <1>8, <1>9, <1>10

LEMMA PlacesAppend ==
  ASSUME NEW S, NEW q, NEW r, NEW d, NEW m \in S, NEW T, q[d] \in Seq(S),
         Replaces(q, r, d, Append(q[d], m)), IsFiniteSet(Places(q, T))
  PROVE  /\ IsFiniteSet(Places(r, T)) /\ Cardinality(Places(r, T)) \in Nat /\ Cardinality(Places(q, T)) \in Nat
         /\ Cardinality(Places(r, T)) = Cardinality(Places(q, T)) + (IF m \in T THEN 1 ELSE 0)
<1> DEFINE x == Append(q[d], m)
<1>1. x \in Seq(S) /\ Replaces(q, r, d, x)
  OBVIOUS
<1>2. Cardinality(Spots(x, T)) = Cardinality(Spots(q[d], T)) + (IF m \in T THEN 1 ELSE 0)
  BY SpotsAppend
<1> HIDE DEF x
<1>3. IsFiniteSet(Spots(x, T)) /\ Cardinality(Spots(x, T)) \in Nat /\ Cardinality(Spots(q[d], T)) \in Nat
  BY <1>1, SpotsFinite
<1>4. /\ IsFiniteSet(Places(r, T)) /\ Cardinality(Places(r, T)) \in Nat /\ Cardinality(Places(q, T)) \in Nat
      /\ Cardinality(Places(r, T)) + Cardinality(Spots(q[d], T))
           = Cardinality(Places(q, T)) + Cardinality(Spots(x, T))
  BY <1>1, <1>3, PlacesChange
<1> QED
  BY <1>2, <1>3, <1>4

LEMMA PlacesTail ==
  ASSUME NEW S, NEW q, NEW r, NEW d, NEW T, q[d] \in Seq(S), q[d] # <<>>,
         Replaces(q, r, d, Tail(q[d])), IsFiniteSet(Places(q, T))
  PROVE  /\ IsFiniteSet(Places(r, T)) /\ Cardinality(Places(r, T)) \in Nat /\ Cardinality(Places(q, T)) \in Nat
         /\ Cardinality(Places(r, T)) + (IF Head(q[d]) \in T THEN 1 ELSE 0) <= Cardinality(Places(q, T))
<1> DEFINE x == Tail(q[d])
<1>1. x \in Seq(S) /\ Replaces(q, r, d, x)
  OBVIOUS
<1>2. Cardinality(Spots(x, T)) + (IF Head(q[d]) \in T THEN 1 ELSE 0) <= Cardinality(Spots(q[d], T))
  BY SpotsTail
<1> HIDE DEF x
<1>3. IsFiniteSet(Spots(x, T)) /\ Cardinality(Spots(x, T)) \in Nat /\ Cardinality(Spots(q[d], T)) \in Nat
  BY <1>1, SpotsFinite
<1>4. /\ IsFiniteSet(Places(r, T)) /\ Cardinality(Places(r, T)) \in Nat /\ Cardinality(Places(q, T)) \in Nat
      /\ Cardinality(Places(r, T)) + Cardinality(Spots(q[d], T))
           = Cardinality(Places(q, T)) + Cardinality(Spots(x, T))
  BY <1>1, <1>3, PlacesChange
<1> QED
  BY <1>2, <1>3, <1>4

LEMMA PlacesFewer ==
  ASSUME NEW q, NEW r, NEW T, DOMAIN r = DOMAIN q, IsFiniteSet(Places(q, T)),
         \A d \in DOMAIN q : r[d] = q[d] \/ r[d] = <<>>
  PROVE  /\ IsFiniteSet(Places(r, T)) /\ Cardinality(Places(r, T)) \in Nat /\ Cardinality(Places(q, T)) \in Nat
         /\ Cardinality(Places(r, T)) <= Cardinality(Places(q, T))
<1>1. \A d \in DOMAIN q : Spots(r[d], T) = Spots(q[d], T) \/ Spots(r[d], T) = {}
  <2>1. Spots(<<>>, T) = {}
    BY DEF Spots
  <2> QED
    BY <2>1
<1>2. Places(r, T) \in SUBSET Places(q, T)
  BY <1>1 DEF Places
<1> QED
  BY <1>2, FS_Subset, FS_CardinalityType

(* What stands for requests of u is finite.                                *)
Standing(u) ==
  /\ IsFiniteSet(Places(up, RequestsOf(u)))
  /\ IsFiniteSet(Places(WaitingLists, WaitingOf(u)))
  /\ IsFiniteSet(Places(down, RepliesOf(u)))
Handed(u) == Standing(u)' /\ (Asking(u)' <= Asking(u) => Requests(u)' <= Requests(u))
Sound == MasterInv /\ GameTypeOK /\ DownTyped

LEMMA StandingTyped ==
  ASSUME Sound, NEW u
  PROVE  /\ up \in [Servers -> Seq(UpMsg)] /\ down \in [Servers -> Seq(DownMsg)]
         /\ WaitingLists \in [Inst -> Seq(Waiting)] /\ dbq \in Seq(DBTask)
         /\ IsFiniteSet(Spots(dbq, TasksOf(u))) /\ Asked(u) \in Nat
         /\ Standing(u) => Asking(u) \in Nat /\ Listed(u) \in Nat /\ Replies(u) \in Nat
<1>1. up \in [Servers -> Seq(UpMsg)] /\ down \in [Servers -> Seq(DownMsg)] /\ dbq \in Seq(DBTask)
  BY DEF Sound, GameTypeOK, DownTyped, MasterInv, MasterTypeOK
<1>2. \A w \in Inst : worlds[w].waiting \in Seq(Waiting)
  <2> TAKE w \in Inst
  <2>1. worlds[w] \in WorldRecord \/ worlds[w] = NoWorld
    BY DEF Sound, MasterInv, MasterTypeOK
  <2>2. <<>> \in Seq(Waiting) /\ NoWorld.waiting = <<>>
    BY DEF NoWorld
  <2>3. CASE worlds[w] \in WorldRecord
    BY <2>3 DEF WorldRecord
  <2> QED
    BY <2>1, <2>2, <2>3
<1>3. WaitingLists \in [Inst -> Seq(Waiting)]
  BY <1>2 DEF WaitingLists
<1>4. IsFiniteSet(Spots(dbq, TasksOf(u))) /\ Asked(u) \in Nat
  BY <1>1, SpotsFinite DEF Asked
<1> QED
  BY <1>1, <1>3, <1>4, FS_CardinalityType DEF Standing, Asking, Listed, Replies

(* The Master takes a packet, a server takes one, and each sends one.      *)
LEMMA RequestTaken ==
  ASSUME Sound, NEW s \in Servers, NEW m, FromServer(s, m), NEW u, Standing(u)
  PROVE  /\ IsFiniteSet(Places(up, RequestsOf(u)))' /\ Asking(u)' \in Nat
         /\ Asking(u)' + (IF m \in RequestsOf(u) THEN 1 ELSE 0) <= Asking(u)
<1>1. up \in [Servers -> Seq(UpMsg)]
  BY StandingTyped
<1>2. /\ up[s] # <<>> /\ Head(up[s]) = m
      /\ Replaces(up, up', s, Tail(up[s])) /\ up[s] \in Seq(UpMsg)
  BY <1>1 DEF Replaces, FromServer, Arrives
<1> QED
  BY <1>1, <1>2, PlacesTail DEF Standing, Asking

LEMMA ReplyTaken ==
  ASSUME Sound, NEW s \in Servers, NEW m, FromMaster(s, m), NEW u, Standing(u)
  PROVE  IsFiniteSet(Places(down, RepliesOf(u)))' /\ Replies(u)' \in Nat /\ Replies(u)' <= Replies(u)
<1>4. down \in [Servers -> Seq(DownMsg)]
  BY StandingTyped
<1>1. /\ down[s] # <<>> /\ Head(down[s]) = m
      /\ Replaces(down, down', s, Tail(down[s])) /\ down[s] \in Seq(DownMsg)
  BY <1>4 DEF Replaces, FromMaster, Arrives
<1>2. /\ IsFiniteSet(Places(down, RepliesOf(u)))' /\ Replies(u)' \in Nat
      /\ Replies(u)' + (IF m \in RepliesOf(u) THEN 1 ELSE 0) <= Replies(u)
  BY <1>1, <1>4, PlacesTail DEF Standing, Replies
<1>3. Replies(u) \in Nat
  BY StandingTyped
<1> QED
  BY <1>2, <1>3

LEMMA ReplySent ==
  ASSUME Sound, NEW s \in Servers, NEW m \in DownMsg, ToServer(s, m), NEW u, Standing(u)
  PROVE  /\ IsFiniteSet(Places(down, RepliesOf(u)))' /\ Replies(u)' \in Nat
         /\ Replies(u)' <= Replies(u) + (IF m \in RepliesOf(u) THEN 1 ELSE 0)
<1>1. CASE proc[s] = "linked"
  <2>4. down \in [Servers -> Seq(DownMsg)]
    BY StandingTyped
  <2>1. Replaces(down, down', s, Append(down[s], m)) /\ down[s] \in Seq(DownMsg)
    BY <1>1, <2>4 DEF ToServer, Replaces
  <2>2. /\ IsFiniteSet(Places(down, RepliesOf(u)))' /\ Replies(u)' \in Nat
        /\ Replies(u)' = Replies(u) + (IF m \in RepliesOf(u) THEN 1 ELSE 0)
    BY <2>1, <2>4, PlacesAppend DEF Standing, Replies
  <2>3. Replies(u) \in Nat
    BY StandingTyped
  <2> QED
    BY <2>2, <2>3
<1>2. CASE proc[s] # "linked"
  <2>1. down' = down
    BY <1>2 DEF ToServer
  <2>2. Replies(u)' = Replies(u) /\ Replies(u) \in Nat
    BY <2>1, StandingTyped DEF Replies
  <2> QED
    BY <2>1, <2>2 DEF Standing
<1> QED
  BY <1>1, <1>2

(* A game server sends: no fewer requests are on their way to the Master.  *)
Asks(u) ==
  IsFiniteSet(Places(up, RequestsOf(u)))' /\ Asking(u)' \in Nat /\ Asking(u)' >= Asking(u)

LEMMA SendsAsks ==
  ASSUME Sound, NEW u, Standing(u), NEW s \in Servers, NEW ms \in Seq(UpMsg), ToMaster(s, ms)
  PROVE  Asks(u)
<1>1. up \in [Servers -> Seq(UpMsg)] /\ IsFiniteSet(Places(up, RequestsOf(u))) /\ Asking(u) \in Nat
  BY StandingTyped DEF Standing
<1>2. CASE proc[s] = "linked"
  <2> DEFINE x == up[s] \o ms
             T == RequestsOf(u)
  <2>1. Replaces(up, up', s, x) /\ up[s] \in Seq(UpMsg) /\ x \in Seq(UpMsg)
    BY <1>1, <1>2 DEF ToMaster, Replaces
  <2>2. Spots(up[s], T) \in SUBSET Spots(x, T)
    <3>1. Spots(x, T) = Spots(up[s], T) \cup {Len(up[s]) + i : i \in Spots(ms, T)}
      BY <2>1, SpotsConcat
    <3> QED
      BY <3>1
  <2>6. IsFiniteSet(Places(up, T))
    BY <1>1
  <2> HIDE DEF x, T
  <2>3. /\ IsFiniteSet(Spots(x, T)) /\ Cardinality(Spots(x, T)) \in Nat
        /\ Cardinality(Spots(up[s], T)) \in Nat /\ Cardinality(Spots(up[s], T)) <= Cardinality(Spots(x, T))
    BY <2>1, <2>2, SpotsFinite, FS_Subset
  <2>4. /\ IsFiniteSet(Places(up', T)) /\ Cardinality(Places(up', T)) \in Nat
        /\ Cardinality(Places(up', T)) + Cardinality(Spots(up[s], T))
             = Cardinality(Places(up, T)) + Cardinality(Spots(x, T))
        /\ Cardinality(Places(up, T)) \in Nat
    BY <2>1, <2>3, <2>6, PlacesChange
  <2>5. Cardinality(Places(up', T)) >= Cardinality(Places(up, T))
    BY <2>3, <2>4
  <2> QED
    BY <2>4, <2>5 DEF Asks, Asking, T
<1>3. CASE proc[s] # "linked"
  <2>1. up' = up
    BY <1>3 DEF ToMaster
  <2> QED
    BY <1>1, <2>1 DEF Asks, Asking
<1> QED
  BY <1>2, <1>3

LEMMA NothingAsked ==
  ASSUME Sound, NEW u, Standing(u), UNCHANGED up
  PROVE  Asks(u)
<1>1. IsFiniteSet(Places(up, RequestsOf(u))) /\ Asking(u) \in Nat
  BY StandingTyped DEF Standing
<1> QED
  BY <1>1 DEF Asks, Asking

LEMMA LeaveAsks ==
  ASSUME Sound, NEW u, Standing(u), NEW s \in Servers, NEW v \in Users, NEW w \in InstOrNone, NEW p,
         NEW ms \in Seq(UpMsg), PlayerLeaveWorld(s, v, w, p, ms)
  PROVE  Asks(u)
<1>1. CASE IsMember(s, w, v)
  <2>1. w \in Inst
    BY <1>1, BoundsAssumption DEF IsMember, Hosts
  <2>2. Left(v, w) \in UpMsg
    BY <2>1 DEF Left, UpMsg
  <2>3. <<Left(v, w)>> \o ms \in Seq(UpMsg)
    BY <2>2
  <2> QED
    BY <1>1, <2>3, SendsAsks DEF PlayerLeaveWorld
<1>2. CASE ~IsMember(s, w, v)
  BY <1>2, SendsAsks DEF PlayerLeaveWorld
<1> QED
  BY <1>1, <1>2

LEMMA EnterAsks ==
  ASSUME Sound, NEW u, Standing(u), NEW s \in Servers, NEW v \in Users, NEW w \in Inst, NEW p \in PlayerRecord,
         EnterWorld(s, v, w, p)
  PROVE  Asks(u)
<1> DEFINE leaves == IsMember(s, p.world, v)
           before == IF leaves THEN <<Left(v, p.world)>> ELSE <<>>
           ms == before \o <<Joined(v, w)>>
<1>1. UNCHANGED up \/ ToMaster(s, ms)
  BY DEF EnterWorld
<1>2. Joined(v, w) \in UpMsg
  BY DEF Joined, UpMsg
<1>3. ASSUME leaves PROVE Left(v, p.world) \in UpMsg
  <2>1. p.world \in Inst
    BY <1>3, PlayerFields, BoundsAssumption DEF IsMember, Hosts
  <2> QED
    BY <2>1 DEF Left, UpMsg
<1> HIDE DEF leaves
<1>4. before \in Seq(UpMsg)
  BY <1>3
<1>5. <<Joined(v, w)>> \in Seq(UpMsg)
  BY <1>2
<1> HIDE DEF before
<1>6. ms \in Seq(UpMsg)
  BY <1>4, <1>5
<1> QED
  BY <1>1, <1>6, NothingAsked, SendsAsks

LEMMA JoinAsks ==
  ASSUME Sound, NEW u, Standing(u), NEW s \in Servers, NEW v \in Users, NEW n \in Names, NEW p \in PlayerRecord,
         JoinByName(s, v, n, p)
  PROVE  Asks(u)
<1>1. <<Join(v, n)>> \in Seq(UpMsg)
  BY DEF Join, UpMsg
<1>2. ToMaster(s, <<Join(v, n)>>) \/ \E w \in Inst : EnterWorld(s, v, w, p)
  BY DEF JoinByName
<1> QED
  BY <1>1, <1>2, SendsAsks, EnterAsks

LEMMA LogOffAsks ==
  ASSUME Sound, NEW u, Standing(u), NEW s \in Servers, NEW v \in Users, NEW p, NEW ms \in Seq(UpMsg),
         LogOff(s, v, p, ms)
  PROVE  Asks(u)
<1>1. UNCHANGED up \/ ToMaster(s, ms) 
      \/ (obj[s][v].st = "game" /\ PlayerLeaveWorld(s, v, obj[s][v].world, p, ms))
  BY DEF LogOff
<1>2. ASSUME obj[s][v].st = "game" PROVE obj[s][v].world \in InstOrNone
  <2>1. WorldsAndPlayersTyped
    BY FieldsTyped DEF Sound
  <2> QED
    BY <1>2, <2>1, KnownPlayer, PlayerFields
<1> QED
  BY <1>1, <1>2, NothingAsked, SendsAsks, LeaveAsks

LEMMA PlayersAsk ==
  ASSUME Sound, NEW u, Standing(u), NEW s \in Servers, NEW v \in Users,
         \/ \E n \in Names : PlayerJoinRequest(s, v, n)
         \/ QuitToExit(s, v) \/ Quit(s, v) \/ OnEventDisconnect(s, v)
         \/ UpdatePlayers(s, v) \/ StartLoginRequest(s, v) \/ EnterGame(s, v)
  PROVE  Asks(u)
<1>1. WorldsAndPlayersTyped
  BY FieldsTyped DEF Sound
<1>2. <<>> \in Seq(UpMsg) /\ <<EndPlayer(v)>> \in Seq(UpMsg)
  BY DEF EndPlayer, UpMsg
<1>3. ASSUME NEW n \in Names, PlayerJoinRequest(s, v, n) PROVE Asks(u)
  <2>1. obj[s][v] \in PlayerRecord /\ JoinByName(s, v, n, obj[s][v])
    BY <1>1, <1>3, KnownPlayer DEF PlayerJoinRequest, Playing
  <2> QED
    BY <2>1, JoinAsks
<1>4. ASSUME QuitToExit(s, v) PROVE Asks(u)
  <2>1. obj[s][v] \in PlayerRecord /\ PlayerLeaveWorld(s, v, obj[s][v].world, obj[s][v], <<>>)
    BY <1>1, <1>4, KnownPlayer DEF QuitToExit, Playing
  <2> QED
    BY <1>2, <2>1, PlayerFields, LeaveAsks
<1>5. ASSUME Quit(s, v) \/ OnEventDisconnect(s, v) PROVE Asks(u)
  <2>1. UNCHANGED up \/ \E p : LogOff(s, v, p, <<EndPlayer(v)>>)
    BY <1>5 DEF Quit, OnEventDisconnect
  <2> QED
    BY <1>2, <2>1, NothingAsked, LogOffAsks
<1>6. ASSUME UpdatePlayers(s, v) PROVE Asks(u)
  BY <1>6, NothingAsked DEF UpdatePlayers
<1>7. ASSUME StartLoginRequest(s, v) PROVE Asks(u)
  <2>1. ToMaster(s, <<Check(v, cmds)>>) /\ cmds \in 0..MaxCmds
    BY <1>7 DEF StartLoginRequest, Sound, GameTypeOK
  <2>2. <<Check(v, cmds)>> \in Seq(UpMsg)
    BY <2>1 DEF Check, UpMsg
  <2> QED
    BY <2>1, <2>2, SendsAsks
<1>8. ASSUME EnterGame(s, v) PROVE Asks(u)
  <2> DEFINE p == [obj[s][v] EXCEPT !.st = "game", !.world = 0]
             w == obj[s][v].world
  <2>1. obj[s][v] \in PlayerRecord
    BY <1>1, <1>8, KnownPlayer DEF EnterGame
  <2>2. p \in PlayerRecord
    <3>1. 0 \in InstOrNone
      BY BoundsAssumption
    <3> QED
      BY <2>1, <3>1 DEF PlayerRecord
  <2>3. w \in InstOrNone
    BY <2>1, PlayerFields
  <2>4. IF Hosts(s, w) THEN JoinByName(s, v, gw[s][w].name, p) ELSE UNCHANGED up
    BY <1>8 DEF EnterGame
  <2> HIDE DEF p, w
  <2>5. ASSUME Hosts(s, w) PROVE gw[s][w].name \in Names
    <3>1. gw[s] \in ServerWorlds
      BY <1>1 DEF WorldsAndPlayersTyped
    <3> QED
      BY <2>3, <2>5, <3>1, HostedWorld DEF Hosts, GameWorldRecord
  <2> QED
    BY <2>2, <2>4, <2>5, JoinAsks, NothingAsked
<1> QED
  BY <1>3, <1>4, <1>5, <1>6, <1>7, <1>8

LEMMA AnswersAsk ==
  ASSUME Sound, NEW u, Standing(u), NEW s \in Servers,
         FromMasterHandlers(s) \/ \E w \in Inst : OnWorldPresenceReady(s, w)
  PROVE  Asks(u)
<1>1. WorldsAndPlayersTyped /\ <<>> \in Seq(UpMsg)
  BY FieldsTyped DEF Sound
<1>2. ASSUME NEW w \in Inst, OnWorldPresenceReady(s, w) \/ \E n \in Names : GameHandleWorldInit(s, n, w)
      PROVE  Asks(u)
  <2>1. UNCHANGED up \/ ToMaster(s, <<InitOK(w)>>)
    BY <1>2 DEF OnWorldPresenceReady, GameHandleWorldInit
  <2>2. <<InitOK(w)>> \in Seq(UpMsg)
    BY DEF InitOK, UpMsg
  <2> QED
    BY <2>1, <2>2, NothingAsked, SendsAsks
<1>3. ASSUME NEW v \in Users, NEW t \in Servers, NEW w \in Inst, HandlePlayerJoin(s, v, t, w) PROVE Asks(u)
  <2>1. \/ UNCHANGED up \/ LogOff(s, v, Deleted(obj[s][v]), <<>>)
        \/ obj[s][v].st # "none" /\ EnterWorld(s, v, w, obj[s][v])
    BY <1>3 DEF HandlePlayerJoin
  <2> QED
    BY <1>1, <2>1, KnownPlayer, NothingAsked, LogOffAsks, EnterAsks
<1>4. ASSUME NEW v \in Users, HandleJoinFail(s, v) PROVE Asks(u)
  BY <1>4, NothingAsked DEF HandleJoinFail
<1>5. ASSUME NEW v \in Users, NEW id, NEW ok, NEW w, HandleCheckSession(s, v, id, ok, w) PROVE Asks(u)
  BY <1>5, NothingAsked DEF HandleCheckSession
<1> QED
  BY <1>2, <1>3, <1>4, <1>5, Zenon DEF FromMasterHandlers

LEMMA GameHanded ==
  ASSUME Sound, NEW u, Standing(u), UNCHANGED <<worlds, dbq>>, Asks(u),
         UNCHANGED down \/ (\E s \in Servers : \E m : FromMaster(s, m))
  PROVE  Handed(u)
<1>1. UNCHANGED WaitingLists
  BY DEF WaitingLists
<1>2. /\ Asking(u) \in Nat /\ Asked(u) \in Nat /\ Listed(u) \in Nat /\ Replies(u) \in Nat
      /\ Asked(u)' = Asked(u) /\ Listed(u)' = Listed(u)
  BY <1>1, StandingTyped DEF Asked, Listed
<1>3. IsFiniteSet(Places(down, RepliesOf(u)))' /\ Replies(u)' \in Nat /\ Replies(u)' <= Replies(u)
  <2>1. CASE UNCHANGED down
    BY <1>2, <2>1 DEF Standing, Replies
  <2> QED
    BY <2>1, ReplyTaken
<1>4. Standing(u)'
  BY <1>1, <1>3 DEF Standing, Asks
<1>5. Asking(u)' <= Asking(u) => Requests(u)' <= Requests(u)
  BY <1>2, <1>3 DEF Requests, Asks
<1> QED
  BY <1>4, <1>5 DEF Handed

(* The Master passes on: the waiting lists.                                *)
LEMMA ListKept ==
  ASSUME Sound, NEW u, Standing(u), \A w \in Inst : worlds'[w].waiting = worlds[w].waiting
  PROVE  IsFiniteSet(Places(WaitingLists, WaitingOf(u)))' /\ Listed(u)' = Listed(u) /\ Listed(u) \in Nat
<1>1. WaitingLists' = WaitingLists
  BY DEF WaitingLists
<1> QED
  BY <1>1, StandingTyped DEF Standing, Listed

LEMMA ListGrows ==
  ASSUME Sound, NEW u, Standing(u), NEW w \in Inst, NEW e \in Waiting,
         worlds'[w].waiting = Append(worlds[w].waiting, e),
         \A v \in Inst : v # w => worlds'[v].waiting = worlds[v].waiting
  PROVE  /\ IsFiniteSet(Places(WaitingLists, WaitingOf(u)))' /\ Listed(u)' \in Nat
         /\ Listed(u)' = Listed(u) + (IF e \in WaitingOf(u) THEN 1 ELSE 0)
<1>1. Replaces(WaitingLists, WaitingLists', w, Append(WaitingLists[w], e)) /\ WaitingLists[w] \in Seq(Waiting)
  BY StandingTyped DEF Replaces, WaitingLists
<1> QED
  BY <1>1, PlacesAppend DEF Standing, Listed

LEMMA TasksKept ==
  ASSUME Sound, NEW u, UNCHANGED dbq
  PROVE  Asked(u)' = Asked(u) /\ Asked(u) \in Nat
BY StandingTyped DEF Asked

LEMMA TaskAdded ==
  ASSUME Sound, NEW u, NEW t \in DBTask, dbq' = Append(dbq, t)
  PROVE  Asked(u)' = Asked(u) + (IF t \in TasksOf(u) THEN 1 ELSE 0) /\ Asked(u) \in Nat
BY StandingTyped, SpotsAppend DEF Asked

LEMMA TaskDone ==
  ASSUME Sound, NEW u, dbq # <<>>, dbq' = Tail(dbq)
  PROVE  Asked(u)' + (IF Head(dbq) \in TasksOf(u) THEN 1 ELSE 0) <= Asked(u) /\ Asked(u)' \in Nat /\ Asked(u) \in Nat
<1>1. dbq \in Seq(DBTask) /\ Tail(dbq) \in Seq(DBTask)
  BY StandingTyped
<1> QED
  BY <1>1, StandingTyped, SpotsFinite, SpotsTail DEF Asked

LEMMA TaskFollows ==
  ASSUME Sound, NEW u, NEW t \in DBTask, dbq # <<>>, dbq' = Append(Tail(dbq), t),
         t \in TasksOf(u) <=> Head(dbq) \in TasksOf(u)
  PROVE  Asked(u)' <= Asked(u) /\ Asked(u)' \in Nat /\ Asked(u) \in Nat
<1>1. dbq \in Seq(DBTask) /\ Tail(dbq) \in Seq(DBTask) /\ Asked(u) \in Nat
  BY StandingTyped
<1> DEFINE T == TasksOf(u)
           r == Tail(dbq)
<1>2. Cardinality(Spots(r, T)) + (IF Head(dbq) \in T THEN 1 ELSE 0) <= Cardinality(Spots(dbq, T))
  BY <1>1, SpotsTail
<1>3. r \in Seq(DBTask) /\ dbq' = Append(r, t)
  BY <1>1
<1> HIDE DEF r
<1>8. Cardinality(Spots(Append(r, t), T)) = Cardinality(Spots(r, T)) + (IF t \in T THEN 1 ELSE 0)
  BY <1>3, SpotsAppend
<1>4. Cardinality(Spots(dbq', T)) = Cardinality(Spots(r, T)) + (IF t \in T THEN 1 ELSE 0)
  BY <1>3, <1>8, Zenon
<1>5. Cardinality(Spots(r, T)) \in Nat
  BY <1>3, SpotsFinite
<1>6. Asked(u) = Cardinality(Spots(dbq, T)) /\ Asked(u)' = Cardinality(Spots(dbq', T))
  BY DEF Asked
<1>7. t \in T <=> Head(dbq) \in T
  OBVIOUS
<1> HIDE DEF T
<1> QED
  BY <1>1, <1>2, <1>4, <1>5, <1>6, <1>7

LEMMA RepliesKept ==
  ASSUME Sound, NEW u, Standing(u), UNCHANGED down
  PROVE  IsFiniteSet(Places(down, RepliesOf(u)))' /\ Replies(u)' = Replies(u) /\ Replies(u) \in Nat
BY StandingTyped DEF Standing, Replies

LEMMA UpKeptAsking ==
  ASSUME Sound, NEW u, Standing(u), UNCHANGED up
  PROVE  IsFiniteSet(Places(up, RequestsOf(u)))' /\ Asking(u)' = Asking(u) /\ Asking(u) \in Nat
BY StandingTyped DEF Standing, Asking

LEMMA JoinRequestHanded ==
  ASSUME Sound, NEW u, Standing(u), NEW s \in Servers, NEW v \in Users, NEW n \in Names,
         HandlePlayerJoinRequest(s, v, n)
  PROVE  Handed(u)
<1> DEFINE w == GetWorldByName(n)
           one == IF v = u THEN 1 ELSE 0
<1>1. one \in Nat
  OBVIOUS
<1>2. MasterInv /\ w \in InstOrNone
  BY BoundsAssumption DEF Sound, MasterInv, MasterTypeOK, GetWorldByName
<1>3. /\ IsFiniteSet(Places(up, RequestsOf(u)))' /\ Asking(u)' \in Nat
      /\ Asking(u)' + one <= Asking(u)
  <2>1. FromServer(s, Join(v, n)) /\ (Join(v, n) \in RequestsOf(u) <=> v = u)
    <3>1. FromServer(s, Join(v, n))
      BY DEF HandlePlayerJoinRequest
    <3>2. Join(v, n) \in RequestsOf(u) <=> v = u
      BY DEF Join, RequestsOf
    <3> QED
      BY <3>1, <3>2
  <2> QED
    BY <2>1, RequestTaken
<1>4. Asking(u) \in Nat
  BY StandingTyped
<1> DEFINE D == IsFiniteSet(Places(down, RepliesOf(u)))' /\ Replies(u)' \in Nat /\ Replies(u) \in Nat
           L == IsFiniteSet(Places(WaitingLists, WaitingOf(u)))' /\ Listed(u)' \in Nat /\ Listed(u) \in Nat
           A == Asked(u)' \in Nat /\ Asked(u) \in Nat
           add == (Asked(u)' + Listed(u)') + Replies(u)' <= ((Asked(u) + Listed(u)) + Replies(u)) + one
<1>5. ASSUME dbq' = Append(dbq, [kind |-> "exists", user |-> v, source |-> s, name |-> n]) /\ UNCHANGED <<worlds, down>>
      PROVE  D /\ L /\ A /\ add
  <2> DEFINE t == [kind |-> "exists", user |-> v, source |-> s, name |-> n]
  <2>1. t \in DBTask /\ (t \in TasksOf(u) <=> v = u) /\ dbq' = Append(dbq, t)
    BY <1>5 DEF DBTask, TasksOf
  <2> HIDE DEF t
  <2>2. Asked(u)' = Asked(u) + one /\ Asked(u) \in Nat
    BY <2>1, TaskAdded
  <2>3. L /\ Listed(u)' = Listed(u) /\ D /\ Replies(u)' = Replies(u)
    BY <1>5, ListKept, RepliesKept
  <2> QED
    BY <1>1, <2>2, <2>3
<1>6. ASSUME w # 0 /\ AttachPending(w, s, v) /\ UNCHANGED dbq
      PROVE  D /\ L /\ A /\ add
  <2>1. A /\ Asked(u)' = Asked(u) /\ D /\ Replies(u)' = Replies(u)
    BY <1>6, TasksKept, RepliesKept DEF AttachPending
  <2>2. CASE UNCHANGED worlds
    <3>1. L /\ Listed(u)' = Listed(u)
      BY <2>2, ListKept
    <3> QED
      BY <1>1, <2>1, <3>1
  <2>3. CASE worlds' = [worlds EXCEPT ![w].waiting = Append(@, [user |-> v, source |-> s])]
    <3> DEFINE e == [user |-> v, source |-> s]
               r == [worlds[w] EXCEPT !.waiting = Append(worlds[w].waiting, e)]
    <3>1. e \in Waiting /\ (e \in WaitingOf(u) <=> v = u)
      BY DEF Waiting, WaitingOf
    <3> HIDE DEF e
    <3>2. w \in Inst /\ worlds \in [Inst -> WorldRecord \cup {NoWorld}]
      BY <1>2, <1>6, BoundsAssumption DEF MasterInv, MasterTypeOK
    <3>3. worlds' = [worlds EXCEPT ![w] = r]
      BY <2>3, Zenon DEF r, e
    <3>4. r.waiting = Append(worlds[w].waiting, e)
      BY <3>2 DEF WorldRecord, NoWorld
    <3> HIDE DEF r, w
    <3>5. worlds'[w].waiting = Append(worlds[w].waiting, e) /\ \A i \in Inst : i # w => worlds'[i].waiting = worlds[i].waiting
      BY <3>2, <3>3, <3>4
    <3>6. L /\ Listed(u)' = Listed(u) + one
      BY <3>1, <3>2, <3>5, ListGrows, StandingTyped
    <3> QED
      BY <1>1, <2>1, <3>6
  <2> QED
    BY <1>6, <2>2, <2>3 DEF AttachPending
<1>7. ASSUME w # 0 /\ worlds[w].state = "ready" /\ RoutePlayerToExistingWorld(w, s, v) /\ UNCHANGED dbq
      PROVE  D /\ L /\ A /\ add
  <2>1. A /\ Asked(u)' = Asked(u) /\ L /\ Listed(u)' = Listed(u)
    BY <1>7, TasksKept, ListKept DEF RoutePlayerToExistingWorld
  <2>2. w \in Inst /\ worlds[w].server \in Servers
    BY <1>2, <1>7, KnownWorld, BoundsAssumption
  <2> DEFINE m == Route(v, worlds[w].server, w)
  <2>3. ToServer(s, m)
    BY <1>7 DEF RoutePlayerToExistingWorld
  <2> HIDE DEF w
  <2>4. m \in DownMsg /\ (m \in RepliesOf(u) <=> v = u)
    BY <2>2 DEF Route, DownMsg, RepliesOf
  <2> HIDE DEF m
  <2>5. D /\ Replies(u)' <= Replies(u) + one
    BY <2>3, <2>4, ReplySent, StandingTyped
  <2> QED
    BY <1>1, <2>1, <2>5
<1>8. D /\ L /\ A /\ add
  <2>1. \/ dbq' = Append(dbq, [kind |-> "exists", user |-> v, source |-> s, name |-> n]) /\ UNCHANGED <<worlds, down>>
        \/ w # 0 /\ AttachPending(w, s, v) /\ UNCHANGED dbq
        \/ w # 0 /\ worlds[w].state = "ready" /\ RoutePlayerToExistingWorld(w, s, v) /\ UNCHANGED dbq
    BY Zenon DEF HandlePlayerJoinRequest
  <2> QED
    BY <1>5, <1>6, <1>7, <2>1
<1> HIDE DEF one
<1>9. Requests(u)' <= Requests(u)
  BY <1>1, <1>3, <1>4, <1>8 DEF Requests
<1> QED
  BY <1>3, <1>8, <1>9 DEF Handed, Standing

LEMMA PacketHanded ==
  ASSUME Sound, NEW u, Standing(u), NEW s \in Servers,
         \/ \E v \in Users, w \in Inst : WorldPlayerJoin(s, v, w) \/ WorldPlayerLeave(s, v, w)
         \/ \E v \in Users : PlayerEndSession(s, v)
         \/ \E v \in Users, id \in 0..MaxCmds : PlayerCheckSession(s, v, id)
  PROVE  Handed(u)
<1>1. \E m : FromServer(s, m)
  BY Zenon DEF WorldPlayerJoin, WorldPlayerLeave, PlayerEndSession, PlayerCheckSession
<1>2. IsFiniteSet(Places(up, RequestsOf(u)))' /\ Asking(u)' \in Nat /\ Asking(u)' <= Asking(u) /\ Asking(u) \in Nat
  <2>1. PICK m : FromServer(s, m)
    BY <1>1
  <2> DEFINE one == IF m \in RequestsOf(u) THEN 1 ELSE 0
  <2>2. one \in Nat
    OBVIOUS
  <2>3. IsFiniteSet(Places(up, RequestsOf(u)))' /\ Asking(u)' \in Nat /\ Asking(u)' + one <= Asking(u)
    BY <2>1, RequestTaken
  <2>4. Asking(u) \in Nat
    BY StandingTyped
  <2> HIDE DEF one
  <2> QED
    BY <2>2, <2>3, <2>4
<1>3. UNCHANGED dbq /\ \A w \in Inst : worlds'[w].waiting = worlds[w].waiting
  <2>1. worlds \in [Inst -> WorldRecord \cup {NoWorld}]
    BY DEF Sound, MasterInv, MasterTypeOK
  <2>2. UNCHANGED dbq
    BY Zenon DEF WorldPlayerJoin, WorldPlayerLeave, PlayerEndSession, PlayerCheckSession, masterVars
  <2>3. \/ worlds' = worlds
        \/ \E w \in Inst : \/ worlds' = [worlds EXCEPT ![w].count = @ + 1]
                           \/ worlds' = [worlds EXCEPT ![w].count = @ - 1]
    BY Zenon DEF WorldPlayerJoin, WorldPlayerLeave, PlayerEndSession, PlayerCheckSession, masterVars
  <2>4. ASSUME NEW w \in Inst, NEW c, worlds' = [worlds EXCEPT ![w].count = c], NEW v \in Inst
        PROVE  worlds'[v].waiting = worlds[v].waiting
    <3> DEFINE r == [worlds[w] EXCEPT !.count = c]
    <3>1. r.waiting = worlds[w].waiting
      BY <2>1 DEF WorldRecord, NoWorld
    <3>2. worlds' = [worlds EXCEPT ![w] = r]
      BY <2>4, Zenon DEF r
    <3> HIDE DEF r
    <3> QED
      BY <2>1, <3>1, <3>2
  <2> QED
    BY <2>2, <2>3, <2>4, Zenon
<1>4. IsFiniteSet(Places(down, RepliesOf(u)))' /\ Replies(u)' \in Nat /\ Replies(u)' <= Replies(u) /\ Replies(u) \in Nat
  <2>1. CASE UNCHANGED down
    BY <2>1, RepliesKept
  <2>2. ASSUME NEW v \in Users, NEW id \in 0..MaxCmds, PlayerCheckSession(s, v, id)
        PROVE  IsFiniteSet(Places(down, RepliesOf(u)))' /\ Replies(u)' \in Nat /\ Replies(u)' <= Replies(u) /\ Replies(u) \in Nat
    <3> DEFINE has == session[v].server = s
               w == IF has THEN session[v].world ELSE 0
               m == Checked(v, id, has, w)
    <3>1. w \in InstOrNone /\ has \in BOOLEAN
      BY NoServerAssumption, BoundsAssumption DEF Sound, MasterInv, MasterTypeOK, SessionRecord, NoSession
    <3>2. ToServer(s, m)
      BY <2>2 DEF PlayerCheckSession
    <3> HIDE DEF has, w
    <3>3. m \in DownMsg /\ m \notin RepliesOf(u)
      BY <3>1 DEF Checked, DownMsg, RepliesOf
    <3> HIDE DEF m
    <3>4. Replies(u) \in Nat
      BY StandingTyped
    <3> QED
      BY <3>2, <3>3, <3>4, ReplySent
  <2>3. UNCHANGED down \/ \E v \in Users, id \in 0..MaxCmds : PlayerCheckSession(s, v, id)
    BY Zenon DEF WorldPlayerJoin, WorldPlayerLeave, PlayerEndSession
  <2> QED
    BY <2>1, <2>2, <2>3
<1>5. /\ IsFiniteSet(Places(WaitingLists, WaitingOf(u)))' /\ Listed(u)' = Listed(u) /\ Listed(u) \in Nat
      /\ Asked(u)' = Asked(u) /\ Asked(u) \in Nat
  BY <1>3, ListKept, TasksKept
<1>6. Requests(u)' <= Requests(u)
  BY <1>2, <1>4, <1>5 DEF Requests
<1> QED
  BY <1>2, <1>4, <1>5, <1>6 DEF Handed, Standing

(* The Master places a world, or tells the one who asked that it cannot.   *)
LEMMA CreateHanded ==
  ASSUME Sound, NEW u, Standing(u), NEW n \in Names, NEW v \in Users, NEW s \in Servers,
         CreateWorldSessionAndNotice(n, v, s), NEW one \in Nat, one = IF v = u THEN 1 ELSE 0
  PROVE  /\ IsFiniteSet(Places(WaitingLists, WaitingOf(u)))' /\ Listed(u)' \in Nat /\ Listed(u) \in Nat
         /\ IsFiniteSet(Places(down, RepliesOf(u)))' /\ Replies(u)' \in Nat /\ Replies(u) \in Nat
         /\ Listed(u)' + Replies(u)' <= (Listed(u) + Replies(u)) + one
<1>1. Listed(u) \in Nat /\ Replies(u) \in Nat
  BY StandingTyped
<1>2. CASE ToServer(s, JoinFail(v)) /\ UNCHANGED worlds
  <2>1. JoinFail(v) \in DownMsg /\ (JoinFail(v) \in RepliesOf(u) <=> v = u)
    BY DEF JoinFail, DownMsg, RepliesOf
  <2>2. IsFiniteSet(Places(down, RepliesOf(u)))' /\ Replies(u)' \in Nat /\ Replies(u)' <= Replies(u) + one
    BY <1>2, <2>1, ReplySent
  <2>3. IsFiniteSet(Places(WaitingLists, WaitingOf(u)))' /\ Listed(u)' = Listed(u)
    BY <1>2, ListKept
  <2> QED
    BY <1>1, <2>2, <2>3
<1>3. ASSUME NEW t \in Servers, nextInst <= MaxInst, ToServer(t, InitWorld(n, nextInst)),
             worlds' = [worlds EXCEPT ![nextInst] =
               [state |-> "loading", name |-> n, server |-> t,
                waiting |-> <<[user |-> v, source |-> s]>>, count |-> 0]]
      PROVE  /\ IsFiniteSet(Places(WaitingLists, WaitingOf(u)))' /\ Listed(u)' \in Nat
             /\ IsFiniteSet(Places(down, RepliesOf(u)))' /\ Replies(u)' \in Nat
             /\ Listed(u)' + Replies(u)' <= (Listed(u) + Replies(u)) + one
  <2> DEFINE e == [user |-> v, source |-> s]
             r == [state |-> "loading", name |-> n, server |-> t, waiting |-> <<e>>, count |-> 0]
  <2>1. e \in Waiting /\ (e \in WaitingOf(u) <=> v = u)
    BY DEF Waiting, WaitingOf
  <2>2. worlds' = [worlds EXCEPT ![nextInst] = r] /\ r.waiting = <<e>>
    BY <1>3
  <2> HIDE DEF r, e
  <2>3. nextInst \in Inst
    BY <1>3, BoundsAssumption DEF Sound, MasterInv, MasterTypeOK
  <2>4. worlds[nextInst].waiting = <<>> /\ worlds \in [Inst -> WorldRecord \cup {NoWorld}]
    <3>1. worlds[nextInst] = NoWorld
      BY <2>3 DEF Sound, MasterInv, MasterTypeOK, NextInstFresh
    <3> QED
      BY <3>1 DEF NoWorld, Sound, MasterInv, MasterTypeOK
  <2>5. /\ worlds'[nextInst].waiting = Append(worlds[nextInst].waiting, e)
        /\ \A i \in Inst : i # nextInst => worlds'[i].waiting = worlds[i].waiting
    BY <2>2, <2>3, <2>4
  <2>6. /\ IsFiniteSet(Places(WaitingLists, WaitingOf(u)))' /\ Listed(u)' \in Nat
        /\ Listed(u)' = Listed(u) + one
    BY <2>1, <2>3, <2>5, ListGrows
  <2>7. InitWorld(n, nextInst) \in DownMsg /\ InitWorld(n, nextInst) \notin RepliesOf(u)
    BY <2>3 DEF InitWorld, DownMsg, RepliesOf
  <2>8. IsFiniteSet(Places(down, RepliesOf(u)))' /\ Replies(u)' \in Nat /\ Replies(u)' <= Replies(u)
    BY <1>1, <1>3, <2>7, ReplySent
  <2> QED
    BY <1>1, <2>6, <2>8
<1> QED
  BY <1>1, <1>2, <1>3 DEF CreateWorldSessionAndNotice, ReadyServers

LEMMA DatabaseHanded ==
  ASSUME Sound, NEW u, Standing(u), DatabaseResults
  PROVE  Handed(u)
<1>1. PICK t \in DBTask : CheckWorldExistCB(t) \/ CreateWorldCB(t)
  BY DEF DatabaseResults
<1> DEFINE one == IF t.user = u THEN 1 ELSE 0
<1>2. one \in Nat /\ one = IF t.user = u THEN 1 ELSE 0
  OBVIOUS
<1>3. /\ t.user \in Users /\ t.source \in Servers /\ t.name \in Names
      /\ t.user = u <=> t \in TasksOf(u)
  BY DEF DBTask, TasksOf
<1>4. Asking(u) \in Nat /\ Asked(u) \in Nat /\ Listed(u) \in Nat /\ Replies(u) \in Nat
  BY StandingTyped
<1>5. dbq # <<>> /\ Head(dbq) = t /\ UNCHANGED up
  BY <1>1, Zenon DEF CheckWorldExistCB, CreateWorldCB, DatabaseResults
<1>6. IsFiniteSet(Places(up, RequestsOf(u)))' /\ Asking(u)' = Asking(u)
  BY <1>5, UpKeptAsking
<1>7. \/ /\ dbq' = Tail(dbq)
         /\ \/ UNCHANGED worlds /\ (UNCHANGED down \/ ToServer(t.source, JoinFail(t.user)))
            \/ CreateWorldSessionAndNotice(t.name, t.user, t.source)
      \/ dbq' = Append(Tail(dbq), [t EXCEPT !.kind = "create"]) /\ UNCHANGED <<worlds, down>>
  BY <1>1, Zenon DEF CheckWorldExistCB, CreateWorldCB
<1> DEFINE P == /\ IsFiniteSet(Places(WaitingLists, WaitingOf(u)))' /\ Listed(u)' \in Nat
                /\ IsFiniteSet(Places(down, RepliesOf(u)))' /\ Replies(u)' \in Nat
<1> HIDE DEF one
<1>8. ASSUME dbq' = Tail(dbq), UNCHANGED worlds, UNCHANGED down \/ ToServer(t.source, JoinFail(t.user))
      PROVE  P /\ Listed(u)' + Replies(u)' <= (Listed(u) + Replies(u)) + one
  <2>1. JoinFail(t.user) \in DownMsg /\ (JoinFail(t.user) \in RepliesOf(u) <=> t.user = u)
    BY <1>3 DEF JoinFail, DownMsg, RepliesOf
  <2>2. IsFiniteSet(Places(down, RepliesOf(u)))' /\ Replies(u)' \in Nat /\ Replies(u)' <= Replies(u) + one
    BY <1>2, <1>3, <1>4, <1>8, <2>1, ReplySent, RepliesKept
  <2>3. IsFiniteSet(Places(WaitingLists, WaitingOf(u)))' /\ Listed(u)' = Listed(u)
    BY <1>8, ListKept
  <2> QED
    BY <1>2, <1>4, <2>2, <2>3
<1>9. ASSUME CreateWorldSessionAndNotice(t.name, t.user, t.source)
      PROVE  P /\ Listed(u)' + Replies(u)' <= (Listed(u) + Replies(u)) + one
  BY <1>2, <1>3, <1>9, CreateHanded
<1>10. ASSUME dbq' = Tail(dbq), P, Listed(u)' + Replies(u)' <= (Listed(u) + Replies(u)) + one
       PROVE  Handed(u)
  <2>1. Asked(u)' + one <= Asked(u) /\ Asked(u)' \in Nat
    BY <1>2, <1>3, <1>5, <1>10, TaskDone
  <2>2. Requests(u)' <= Requests(u)
    BY <1>2, <1>4, <1>6, <1>10, <2>1 DEF Requests
  <2> QED
    BY <1>6, <1>10, <2>2 DEF Handed, Standing
<1>11. ASSUME dbq' = Append(Tail(dbq), [t EXCEPT !.kind = "create"]), UNCHANGED <<worlds, down>>
       PROVE  Handed(u)
  <2> DEFINE c == [t EXCEPT !.kind = "create"]
  <2>1. c \in DBTask /\ (c \in TasksOf(u) <=> t \in TasksOf(u)) /\ dbq' = Append(Tail(dbq), c)
    BY <1>11 DEF DBTask, TasksOf
  <2> HIDE DEF c
  <2>2. Asked(u)' <= Asked(u) /\ Asked(u)' \in Nat
    BY <1>5, <2>1, TaskFollows
  <2>3. P /\ Listed(u)' = Listed(u) /\ Replies(u)' = Replies(u)
    BY <1>11, ListKept, RepliesKept
  <2>4. Requests(u)' <= Requests(u)
    BY <1>4, <1>6, <2>2, <2>3 DEF Requests
  <2> QED
    BY <1>6, <2>3, <2>4 DEF Handed, Standing
<1> QED
  BY <1>7, <1>8, <1>9, <1>10, <1>11

LEMMA RemoveHanded ==
  ASSUME Sound, NEW u, Standing(u), NEW s \in Servers, RemoveServer(s)
  PROVE  Handed(u)
<1>1. /\ up \in [Servers -> Seq(UpMsg)] /\ worlds \in [Inst -> WorldRecord \cup {NoWorld}]
      /\ Asking(u) \in Nat /\ Asked(u) \in Nat /\ Listed(u) \in Nat /\ Replies(u) \in Nat
  BY StandingTyped DEF Sound, MasterInv, MasterTypeOK
<1>2. UNCHANGED <<dbq, down>> /\ up' = [up EXCEPT ![s] = <<>>] /\ worlds' = WorldsWithout(s)
  BY DEF RemoveServer
<1>3. IsFiniteSet(Places(up, RequestsOf(u)))' /\ Asking(u)' \in Nat /\ Asking(u)' <= Asking(u)
  <2>1. DOMAIN up' = DOMAIN up /\ \A t \in DOMAIN up : up'[t] = up[t] \/ up'[t] = <<>>
    BY <1>1, <1>2
  <2> QED
    BY <2>1, PlacesFewer DEF Standing, Asking
<1>4. IsFiniteSet(Places(WaitingLists, WaitingOf(u)))' /\ Listed(u)' \in Nat /\ Listed(u)' <= Listed(u)
  <2>1. DOMAIN WaitingLists' = DOMAIN WaitingLists
        /\ \A w \in DOMAIN WaitingLists : WaitingLists'[w] = WaitingLists[w] \/ WaitingLists'[w] = <<>>
    BY <1>2 DEF WaitingLists, WorldsWithout, NoWorld
  <2> QED
    BY <2>1, PlacesFewer DEF Standing, Listed
<1>5. /\ IsFiniteSet(Places(down, RepliesOf(u)))' /\ Replies(u)' = Replies(u)
      /\ Asked(u)' = Asked(u)
  BY <1>2, RepliesKept, TasksKept
<1>6. Requests(u)' <= Requests(u)
  BY <1>1, <1>3, <1>4, <1>5 DEF Requests
<1> QED
  BY <1>3, <1>4, <1>5, <1>6 DEF Handed, Standing

LEMMA LossHanded ==
  ASSUME Sound, NEW u, Standing(u), NEW s \in Servers, Losses(s)
  PROVE  Handed(u)
<1>1. down \in [Servers -> Seq(DownMsg)]
      /\ Asking(u) \in Nat /\ Asked(u) \in Nat /\ Listed(u) \in Nat /\ Replies(u) \in Nat
  BY StandingTyped
<1>2. UNCHANGED <<dbq, up, worlds>> /\ down' = [down EXCEPT ![s] = <<>>]
  BY DEF Losses, LoseLink, Crash, masterVars
<1>3. IsFiniteSet(Places(down, RepliesOf(u)))' /\ Replies(u)' \in Nat /\ Replies(u)' <= Replies(u)
  <2>1. DOMAIN down' = DOMAIN down /\ \A t \in DOMAIN down : down'[t] = down[t] \/ down'[t] = <<>>
    BY <1>1, <1>2
  <2> QED
    BY <2>1, PlacesFewer DEF Standing, Replies
<1>4. /\ IsFiniteSet(Places(up, RequestsOf(u)))' /\ Asking(u)' = Asking(u)
      /\ IsFiniteSet(Places(WaitingLists, WaitingOf(u)))' /\ Listed(u)' = Listed(u)
      /\ Asked(u)' = Asked(u)
  BY <1>2, UpKeptAsking, ListKept, TasksKept
<1>5. Requests(u)' <= Requests(u)
  BY <1>1, <1>3, <1>4 DEF Requests
<1> QED
  BY <1>3, <1>4, <1>5 DEF Handed, Standing

(* One more thing stands in one queue, at most.                            *)
LEMMA PlacesWiden ==
  ASSUME NEW q, NEW r, NEW T, NEW d, NEW c, DOMAIN r = DOMAIN q, IsFiniteSet(Places(q, T)),
         \A e \in DOMAIN q : Spots(r[e], T) \in SUBSET (Spots(q[e], T) \cup (IF e = d THEN {c} ELSE {}))
  PROVE  /\ IsFiniteSet(Places(r, T)) /\ Cardinality(Places(r, T)) \in Nat /\ Cardinality(Places(q, T)) \in Nat
         /\ Cardinality(Places(r, T)) <= Cardinality(Places(q, T)) + 1
<1>1. Places(r, T) \in SUBSET (Places(q, T) \cup {<<d, c>>})
  BY DEF Places
<1>2. /\ IsFiniteSet(Places(q, T) \cup {<<d, c>>})
      /\ Cardinality(Places(q, T) \cup {<<d, c>>}) = Cardinality(Places(q, T)) \/
         Cardinality(Places(q, T) \cup {<<d, c>>}) = Cardinality(Places(q, T)) + 1
  BY FS_AddElement
<1>3. /\ IsFiniteSet(Places(r, T))
      /\ Cardinality(Places(r, T)) <= Cardinality(Places(q, T) \cup {<<d, c>>})
  BY <1>1, <1>2, FS_Subset
<1>4. Cardinality(Places(r, T)) \in Nat /\ Cardinality(Places(q, T)) \in Nat
  BY <1>3, FS_CardinalityType
<1> QED
  BY <1>2, <1>3, <1>4

LEMMA PlacesSame ==
  ASSUME NEW q, NEW r, NEW T, DOMAIN r = DOMAIN q,
         \A e \in DOMAIN q : Spots(r[e], T) = Spots(q[e], T)
  PROVE  Places(r, T) = Places(q, T)
BY DEF Places

(* Whoever HandleWorldInit answers waits, and is answered once.            *)
LEMMA RepliedWaits ==
  ASSUME MasterInv, NEW t \in Servers, NEW w \in Inst, worlds[w].state # "none", NEW u
  PROVE  /\ \A k \in Spots(RepliesTo(t, w), RepliesOf(u)) :
              \E i \in Waiters(t, w) :
                worlds[w].waiting[i].user = u /\ Cardinality({j \in Waiters(t, w) : j <= i}) = k
         /\ \A k, l \in Spots(RepliesTo(t, w), RepliesOf(u)) : k = l
<1> DEFINE place(k) == CHOOSE i \in Waiters(t, w) : Cardinality({j \in Waiters(t, w) : j <= i}) = k
           e(k) == Route(worlds[w].waiting[place(k)].user, worlds[w].server, w)
           n == Cardinality(Waiters(t, w))
<1>1. worlds[w].waiting \in Seq(Waiting)
  BY KnownWorld
<1>2. /\ Len(worlds[w].waiting) \in Nat /\ DOMAIN worlds[w].waiting = 1..Len(worlds[w].waiting)
      /\ Waiters(t, w) \in SUBSET (1..Len(worlds[w].waiting))
  BY <1>1 DEF Waiters
<1>3. DOMAIN RepliesTo(t, w) = 1..n /\ \A k \in 1..n : RepliesTo(t, w)[k] = e(k)
  BY DEF RepliesTo
<1>4. ASSUME NEW k \in Spots(RepliesTo(t, w), RepliesOf(u))
      PROVE  \E i \in Waiters(t, w) :
               worlds[w].waiting[i].user = u /\ Cardinality({j \in Waiters(t, w) : j <= i}) = k
  <2>1. k \in 1..n /\ e(k) \in RepliesOf(u)
    BY <1>3 DEF Spots
  <2>2. \E i \in Waiters(t, w) : Cardinality({j \in Waiters(t, w) : j <= i}) = k
    BY <1>2, <2>1, KthElement
  <2>3. place(k) \in Waiters(t, w) /\ Cardinality({j \in Waiters(t, w) : j <= place(k)}) = k
    BY <2>2
  <2> HIDE DEF place
  <2>4. worlds[w].waiting[place(k)].user = u
    BY <2>1 DEF Route, RepliesOf
  <2> QED
    BY <2>3, <2>4
<1>5. \A i, j \in DOMAIN worlds[w].waiting : worlds[w].waiting[i].user = worlds[w].waiting[j].user => i = j
  BY DEF MasterInv, WaitingListsSound
<1>6. ASSUME NEW k \in Spots(RepliesTo(t, w), RepliesOf(u)), NEW l \in Spots(RepliesTo(t, w), RepliesOf(u))
      PROVE  k = l
  <2>1. PICK i \in Waiters(t, w) :
          worlds[w].waiting[i].user = u /\ Cardinality({j \in Waiters(t, w) : j <= i}) = k
    BY <1>4
  <2>2. PICK h \in Waiters(t, w) :
          worlds[w].waiting[h].user = u /\ Cardinality({j \in Waiters(t, w) : j <= h}) = l
    BY <1>4
  <2>3. i = h
    BY <1>5, <2>1, <2>2 DEF Waiters
  <2> QED
    BY <2>1, <2>2, <2>3
<1> QED
  BY <1>4, <1>6

(* Whoever is answered leaves the list of the world.                       *)
LEMMA RepliesWiden ==
  ASSUME Sound, NEW u, Standing(u), NEW w \in Inst, worlds[w].state # "none",
         down' = [t \in Servers |->
           IF proc[t] = "linked" /\ Registered(t) THEN down[t] \o RepliesTo(t, w) ELSE down[t]]
  PROVE  /\ IsFiniteSet(Places(down, RepliesOf(u)))' /\ Replies(u)' \in Nat /\ Replies(u) \in Nat
         /\ Replies(u)' <= Replies(u) + 1
         /\ Replies(u)' <= Replies(u) \/ Spots(worlds[w].waiting, WaitingOf(u)) # {}
<1> DEFINE T == RepliesOf(u)
           mine == Spots(worlds[w].waiting, WaitingOf(u))
           some(t) == Spots(RepliesTo(t, w), T)
<1>1. down \in [Servers -> Seq(DownMsg)] /\ DOMAIN down' = DOMAIN down /\ MasterInv
  BY StandingTyped DEF Sound
<1>2. ASSUME NEW t \in Servers
      PROVE  \/ Spots(down'[t], T) = Spots(down[t], T)
             \/ Spots(down'[t], T) = Spots(down[t], T) \cup {Len(down[t]) + k : k \in some(t)}
  <2> DEFINE q == down[t]
             r == RepliesTo(t, w)
  <2>1. q \in Seq(DownMsg) /\ r \in Seq(DownMsg)
    BY <1>1, RepliesTyped
  <2>2. down'[t] = q \/ down'[t] = q \o r
    OBVIOUS
  <2> HIDE DEF q, r
  <2>3. Spots(q \o r, T) = Spots(q, T) \cup {Len(q) + k : k \in Spots(r, T)}
    BY <2>1, SpotsConcat
  <2> QED
    BY <2>2, <2>3 DEF q, r
<1>3. worlds[w].waiting \in Seq(Waiting)
  BY <1>1, KnownWorld
<1>4. ASSUME NEW t \in Servers, NEW k \in some(t)
      PROVE  \E i \in mine : worlds[w].waiting[i] = [user |-> u, source |-> t]
  <2>1. PICK i \in Waiters(t, w) : worlds[w].waiting[i].user = u
    BY <1>1, <1>4, RepliedWaits
  <2>2. i \in DOMAIN worlds[w].waiting /\ worlds[w].waiting[i] \in Waiting /\ worlds[w].waiting[i].source = t
    BY <1>3, <2>1 DEF Waiters
  <2>3. worlds[w].waiting[i] = [user |-> u, source |-> t]
    BY <2>1, <2>2 DEF Waiting
  <2> QED
    BY <2>2, <2>3 DEF Spots, WaitingOf
<1>5. \A i, j \in mine : i = j
  BY <1>1 DEF MasterInv, WaitingListsSound, Spots, WaitingOf
<1>6. \A t \in Servers : \A k, l \in some(t) : k = l
  BY <1>1, RepliedWaits
<1>7. Replies(u) = Cardinality(Places(down, T)) /\ Replies(u)' = Cardinality(Places(down', T))
      /\ IsFiniteSet(Places(down, T)) /\ Replies(u) \in Nat
  BY StandingTyped DEF Replies, Standing
<1> HIDE DEF some
<1>8. CASE \A t \in Servers : some(t) = {}
  <2>1. \A t \in Servers : Spots(down'[t], T) = Spots(down[t], T)
    BY <1>2, <1>8
  <2>2. Places(down', T) = Places(down, T)
    BY <1>1, <2>1, PlacesSame
  <2> QED
    BY <1>7, <2>2
<1>9. ASSUME NEW d \in Servers, some(d) # {}
      PROVE  /\ IsFiniteSet(Places(down', T)) /\ Replies(u)' \in Nat
             /\ Replies(u)' <= Replies(u) + 1 /\ mine # {}
  <2>1. PICK k \in some(d) : TRUE
    BY <1>9
  <2>2. some(d) = {k}
    BY <1>6, <2>1
  <2>3. \A t \in Servers : t # d => some(t) = {}
    <3> SUFFICES ASSUME NEW t \in Servers, t # d, NEW l \in some(t) PROVE FALSE
      OBVIOUS
    <3>1. PICK i \in mine : worlds[w].waiting[i] = [user |-> u, source |-> d]
      BY <1>4, <2>1
    <3>2. PICK j \in mine : worlds[w].waiting[j] = [user |-> u, source |-> t]
      BY <1>4
    <3>3. [user |-> u, source |-> d] = [user |-> u, source |-> t]
      BY <1>5, <3>1, <3>2
    <3> QED
      BY <3>3
  <2> DEFINE c == Len(down[d]) + k
  <2>4. \A t \in Servers :
          Spots(down'[t], T) \in SUBSET (Spots(down[t], T) \cup (IF t = d THEN {c} ELSE {}))
    <3>1. {Len(down[d]) + l : l \in {k}} = {c}
      OBVIOUS
    <3> HIDE DEF c
    <3>2. Spots(down'[d], T) \in SUBSET (Spots(down[d], T) \cup {c})
      BY <1>2, <2>2, <3>1, Zenon
    <3>3. ASSUME NEW t \in Servers, t # d PROVE Spots(down'[t], T) = Spots(down[t], T)
      BY <1>2, <2>3, <3>3
    <3> QED
      BY <3>2, <3>3
  <2>5. mine # {}
    BY <1>4, <2>1
  <2> HIDE DEF c, mine
  <2>6. /\ IsFiniteSet(Places(down', T)) /\ Cardinality(Places(down', T)) \in Nat
        /\ Cardinality(Places(down', T)) <= Cardinality(Places(down, T)) + 1
    <3> DEFINE old == down
               new == down'
    <3>1. /\ DOMAIN new = DOMAIN old /\ IsFiniteSet(Places(old, T))
          /\ \A e \in DOMAIN old : Spots(new[e], T) \in SUBSET (Spots(old[e], T) \cup (IF e = d THEN {c} ELSE {}))
      <4>1. DOMAIN down = Servers
        BY <1>1
      <4> QED
        BY <1>1, <1>7, <2>4, <4>1, Zenon
    <3> HIDE DEF old, new, T
    <3>2. /\ IsFiniteSet(Places(new, T)) /\ Cardinality(Places(new, T)) \in Nat
          /\ Cardinality(Places(new, T)) <= Cardinality(Places(old, T)) + 1
      BY <3>1, PlacesWiden
    <3> QED
      BY <3>2 DEF old, new
  <2> QED
    BY <1>7, <2>5, <2>6
<1> QED
  BY <1>7, <1>8, <1>9

LEMMA ListCleared ==
  ASSUME Sound, NEW u, Standing(u), NEW w \in Inst, worlds'[w].waiting = <<>>,
         \A v \in Inst : v # w => worlds'[v].waiting = worlds[v].waiting
  PROVE  /\ IsFiniteSet(Places(WaitingLists, WaitingOf(u)))' /\ Listed(u)' \in Nat /\ Listed(u) \in Nat
         /\ Listed(u)' <= Listed(u)
         /\ Spots(worlds[w].waiting, WaitingOf(u)) # {} => Listed(u)' + 1 <= Listed(u)
<1> DEFINE T == WaitingOf(u)
           mine == Spots(worlds[w].waiting, T)
           e == <<>>
<1>1. Replaces(WaitingLists, WaitingLists', w, e) /\ WaitingLists[w] = worlds[w].waiting
      /\ WaitingLists[w] \in Seq(Waiting)
  BY StandingTyped DEF Replaces, WaitingLists
<1>2. IsFiniteSet(Spots(e, T)) /\ Cardinality(Spots(e, T)) = 0
  <2>1. Spots(e, T) = {}
    BY DEF Spots
  <2> QED
    BY <2>1, FS_EmptySet
<1>3. IsFiniteSet(mine) /\ Cardinality(mine) \in Nat /\ (Cardinality(mine) = 0 <=> mine = {})
  BY <1>1, SpotsFinite, FS_EmptySet
<1> HIDE DEF e
<1>4. /\ IsFiniteSet(Places(WaitingLists', T)) /\ Cardinality(Places(WaitingLists', T)) \in Nat
      /\ Cardinality(Places(WaitingLists, T)) \in Nat
      /\ Cardinality(Places(WaitingLists', T)) + Cardinality(mine) = Cardinality(Places(WaitingLists, T)) + 0
  BY <1>1, <1>2, PlacesChange DEF Standing
<1>5. Listed(u) = Cardinality(Places(WaitingLists, T)) /\ Listed(u)' = Cardinality(Places(WaitingLists', T))
      /\ (IsFiniteSet(Places(WaitingLists, WaitingOf(u)))' <=> IsFiniteSet(Places(WaitingLists', T)))
  BY DEF Listed
<1> HIDE DEF mine, T
<1>6. Cardinality(mine) >= 0 /\ (mine # {} => Cardinality(mine) >= 1)
  BY <1>3
<1>7. Listed(u)' \in Nat /\ Listed(u) \in Nat /\ Listed(u)' <= Listed(u) /\ (mine # {} => Listed(u)' + 1 <= Listed(u))
  BY <1>3, <1>4, <1>5, <1>6
<1> QED
  BY <1>4, <1>5, <1>7 DEF mine, T

LEMMA WorldInitHanded ==
  ASSUME Sound, NEW u, Standing(u), NEW s \in Servers, NEW w \in Inst, HandleWorldInit(s, w)
  PROVE  Handed(u)
<1>1. IsFiniteSet(Places(up, RequestsOf(u)))' /\ Asking(u)' \in Nat /\ Asking(u)' <= Asking(u) /\ Asking(u) \in Nat
  <2>1. FromServer(s, InitOK(w)) /\ InitOK(w) \notin RequestsOf(u)
    BY DEF HandleWorldInit, InitOK, RequestsOf
  <2>2. /\ IsFiniteSet(Places(up, RequestsOf(u)))' /\ Asking(u)' \in Nat
        /\ Asking(u)' + (IF InitOK(w) \in RequestsOf(u) THEN 1 ELSE 0) <= Asking(u)
    BY <2>1, RequestTaken
  <2>3. Asking(u) \in Nat
    BY StandingTyped
  <2> QED
    BY <2>1, <2>2, <2>3
<1>2. Asked(u)' = Asked(u) /\ Asked(u) \in Nat
  <2>1. UNCHANGED dbq
    BY DEF HandleWorldInit
  <2> QED
    BY <2>1, TasksKept
<1>3. CASE worlds[w].state = "none"
  <2>1. UNCHANGED <<worlds, down>>
    BY <1>3 DEF HandleWorldInit
  <2>2. /\ IsFiniteSet(Places(WaitingLists, WaitingOf(u)))' /\ Listed(u)' = Listed(u) /\ Listed(u) \in Nat
        /\ IsFiniteSet(Places(down, RepliesOf(u)))' /\ Replies(u)' = Replies(u) /\ Replies(u) \in Nat
    BY <2>1, ListKept, RepliesKept
  <2>3. Requests(u)' <= Requests(u)
    BY <1>1, <1>2, <2>2 DEF Requests
  <2> QED
    BY <1>1, <2>2, <2>3 DEF Handed, Standing
<1>4. CASE worlds[w].state # "none"
  <2> DEFINE r == [worlds[w] EXCEPT !.state = "ready", !.waiting = <<>>]
  <2>1. worlds' = [worlds EXCEPT ![w] = r]
    BY <1>4 DEF HandleWorldInit
  <2>2. worlds \in [Inst -> WorldRecord \cup {NoWorld}] /\ worlds[w] \in WorldRecord
    BY <1>4, KnownWorld DEF Sound, MasterInv, MasterTypeOK
  <2>3. r.waiting = <<>>
    BY <2>2 DEF WorldRecord
  <2> HIDE DEF r
  <2>4. worlds'[w].waiting = <<>> /\ \A v \in Inst : v # w => worlds'[v].waiting = worlds[v].waiting
    BY <2>1, <2>2, <2>3
  <2>5. down' = [t \in Servers |->
          IF proc[t] = "linked" /\ Registered(t) THEN down[t] \o RepliesTo(t, w) ELSE down[t]]
    BY <1>4, Zenon DEF HandleWorldInit
  <2>6. /\ IsFiniteSet(Places(WaitingLists, WaitingOf(u)))' /\ Listed(u)' \in Nat /\ Listed(u) \in Nat
        /\ Listed(u)' <= Listed(u)
        /\ Spots(worlds[w].waiting, WaitingOf(u)) # {} => Listed(u)' + 1 <= Listed(u)
    BY <2>4, ListCleared
  <2>7. /\ IsFiniteSet(Places(down, RepliesOf(u)))' /\ Replies(u)' \in Nat /\ Replies(u) \in Nat
        /\ Replies(u)' <= Replies(u) + 1
        /\ Replies(u)' <= Replies(u) \/ Spots(worlds[w].waiting, WaitingOf(u)) # {}
    BY <1>4, <2>5, RepliesWiden
  <2>8. Requests(u)' <= Requests(u)
    BY <1>1, <1>2, <2>6, <2>7 DEF Requests
  <2> QED
    BY <1>1, <2>6, <2>7, <2>8 DEF Handed, Standing
<1> QED
  BY <1>3, <1>4

LEMMA RequestsHanded ==
  ASSUME Sound, NEW u, Standing(u), [Next]_vars
  PROVE  Handed(u)
<1>1. ASSUME UNCHANGED <<worlds, dbq, up, down>> PROVE Handed(u)
  BY <1>1, NothingAsked, GameHanded
<1>2. ASSUME NEW s \in Servers, FromServerHandlers(s) PROVE Handed(u)
  <2>1. ASSUME NEW v \in Users, NEW n \in Names, HandlePlayerJoinRequest(s, v, n) PROVE Handed(u)
    BY <2>1, JoinRequestHanded
  <2>2. ASSUME NEW w \in Inst, HandleWorldInit(s, w) PROVE Handed(u)
    BY <2>2, WorldInitHanded
  <2> QED
    BY <1>2, <2>1, <2>2, PacketHanded, Zenon DEF FromServerHandlers
<1>3. ASSUME NEW s \in Servers, FromMasterHandlers(s) PROVE Handed(u)
  <2>1. /\ \E m : FromMaster(s, m)
        /\ UNCHANGED <<worlds, dbq>>
    BY <1>3, Zenon DEF FromMasterHandlers, GameHandleWorldInit, HandleJoinFail, HandlePlayerJoin, HandleCheckSession, masterVars
  <2>2. Asks(u)
    BY <1>3, AnswersAsk
  <2> QED
    BY <2>1, <2>2, GameHanded
<1>4. ASSUME NEW s \in Servers, NEW w \in Inst, OnWorldPresenceReady(s, w) PROVE Handed(u)
  <2>1. UNCHANGED <<worlds, dbq, down>>
    BY <1>4 DEF OnWorldPresenceReady, masterVars
  <2>2. Asks(u)
    BY <1>4, AnswersAsk
  <2> QED
    BY <2>1, <2>2, GameHanded
<1>5. ASSUME NEW s \in Servers, NEW v \in Users,
             \/ \E n \in Names : PlayerJoinRequest(s, v, n)
             \/ QuitToExit(s, v) \/ Quit(s, v) \/ OnEventDisconnect(s, v)
             \/ UpdatePlayers(s, v) \/ StartLoginRequest(s, v) \/ EnterGame(s, v)
      PROVE  Handed(u)
  <2>1. UNCHANGED <<worlds, dbq, down>>
    BY <1>5, Zenon DEF PlayerJoinRequest, QuitToExit, Quit, OnEventDisconnect, UpdatePlayers,
         StartLoginRequest, EnterGame, masterVars
  <2>2. Asks(u)
    BY <1>5, PlayersAsk
  <2> QED
    BY <2>1, <2>2, GameHanded
<1>6. ASSUME NEW s \in Servers, AddServer(s) \/ ServerReady(s) \/ \E v \in Users : SendToGame(v, s) PROVE Handed(u)
  BY <1>1, <1>6 DEF AddServer, ServerReady, SendToGame
<1>7. ASSUME NEW v \in Users, ConnectFails(v) PROVE Handed(u)
  BY <1>1, <1>7 DEF ConnectFails, masterVars
<1>8. ASSUME NEW s \in Servers, RemoveServer(s) \/ Losses(s) PROVE Handed(u)
  BY <1>8, RemoveHanded, LossHanded
<1>9. ASSUME NEW s \in Servers, Clients(s) PROVE Handed(u)
  BY <1>5, <1>6, <1>9, Zenon DEF Clients
<1>10. CASE DatabaseResults
  BY <1>10, DatabaseHanded
<1>11. CASE UNCHANGED vars
  BY <1>1, <1>11 DEF vars, masterVars
<1> QED
  BY <1>2, <1>3, <1>4, <1>5, <1>6, <1>7, <1>8, <1>9, <1>10, <1>11, Zenon DEF Next

(* A request is answered at most once: no step but that of a player that   *)
(* asks adds to the packets, database tasks, places in waiting lists and   *)
(* replies that stand for the requests of a user, whichever way the Master *)
(* passes a request on and whoever is answered when a world is ready.      *)
THEOREM RequestsAnsweredOnce == Spec => OneAnswerPerRequest
<1> DEFINE Finite == \A u \in Users : Standing(u)
<1>1. Init => Finite
  <2> SUFFICES ASSUME Init, NEW u \in Users PROVE Standing(u)
    OBVIOUS
  <2>1. \A T : Spots(<<>>, T) = {}
    BY DEF Spots
  <2>2. \A w \in Inst : WaitingLists[w] = <<>>
    BY DEF Init, WaitingLists, NoWorld
  <2>3. DOMAIN WaitingLists = Inst
    BY DEF WaitingLists
  <2>4. \A T : Places(up, T) = {} /\ Places(down, T) = {} /\ Places(WaitingLists, T) = {}
    BY <2>1, <2>2, <2>3 DEF Init, Places
  <2> QED
    BY <2>4, FS_EmptySet DEF Standing
<1>2. Finite /\ Sound /\ [Next]_vars
      => /\ Finite'
         /\ [\A u \in Users : Asking(u)' <= Asking(u) => Requests(u)' <= Requests(u)]_vars
  BY RequestsHanded DEF Handed
<1>3. Init => DownTyped
  <2>1. <<>> \in Seq(DownMsg)
    OBVIOUS
  <2> QED
    BY <2>1 DEF Init, DownTyped
<1>4. MasterInv /\ GameTypeOK /\ DownTyped => Sound
  BY DEF Sound
<1> QED
  BY <1>1, <1>2, <1>3, <1>4, DownNext, MasterCorrect, GameTyped, PTL DEF Spec, OneAnswerPerRequest
=============================================================================
