------------------------ MODULE WorldPresence_proofs ------------------------
(***************************************************************************)
(* Proofs about WorldPresence for any servers, worlds, infos and bounds,   *)
(* and that it implements WorldList.                                       *)
(***************************************************************************)
EXTENDS WorldPresenceVersions, FiniteSetTheorems, TLAPS

(* Everything but Next's quantifiers and its split into handlers. *)
AnyStep(s) ==
  \/ \E w \in Worlds : OnWorldCreated(s, w)
  \/ up[s] # <<>> /\ WorldUpdate(s, Head(up[s]))
  \/ down[s] # <<>> /\ OnTCPPacket(s, Head(down[s]))
  \/ AddServer(s) \/ ServerReady(s) \/ RemoveServer(s)
  \/ \E w \in Worlds, i \in Infos : WorldReady(s, w, i) \/ WorldChanges(s, w, i)
  \/ UpdateWorlds(s) \/ FlushLocal(s) \/ LoseLink(s) \/ Crash(s)

LEMMA Steps == [Next]_vars <=> FlushWorlds \/ (\E s \in Servers : AnyStep(s)) \/ UNCHANGED vars
BY DEF Next, AnyStep, MasterHandles, GameHandles

-----------------------------------------------------------------------------
(* Types.                                                                  *)

LEMMA MessageTypes ==
  /\ \A w \in Worlds : InitOK(w) \in UpMsg /\ Created(w) \in DownMsg
  /\ \A W \in SUBSET Worlds : Remove(W) \in DownMsg
  /\ \A W \in SUBSET Worlds : \A f \in [W -> Infos] :
       Update(f) \in UpMsg /\ Update(f) \in DownMsg /\ List(f) \in DownMsg
<1>1. ASSUME NEW W \in SUBSET Worlds, NEW f \in [W -> Infos] PROVE f \in InfosAbout
  BY DEF InfosAbout
<1>2. ASSUME NEW W \in SUBSET Worlds PROVE [w \in W |-> NoInfo] \in Removals
  BY DEF Removals
<1>3. ASSUME NEW w \in Worlds PROVE [v \in {w} |-> NewInfo] \in InfosAbout
  <2>1. {w} \in SUBSET Worlds /\ [v \in {w} |-> NewInfo] \in [{w} -> Infos]
    BY InfoAssumption
  <2> QED BY <2>1, <1>1
<1> QED BY <1>1, <1>2, <1>3 DEF UpMsg, DownMsg, InitOK, Created, Remove, Update, List

(* What a well typed packet is about. *)
LEMMA AboutTypes ==
  /\ \A m \in UpMsg : DOMAIN m.about \subseteq Worlds /\ \A w \in DOMAIN m.about : m.about[w] \in Infos
  /\ \A m \in DownMsg :
       /\ DOMAIN m.about \subseteq Worlds
       /\ \A w \in DOMAIN m.about :
            IF m.kind = "remove" THEN m.about[w] = NoInfo ELSE m.about[w] \in Infos
<1>1. ASSUME NEW f \in InfosAbout PROVE DOMAIN f \subseteq Worlds /\ \A w \in DOMAIN f : f[w] \in Infos
  <2>1. PICK W \in SUBSET Worlds : f \in [W -> Infos] BY DEF InfosAbout
  <2> QED BY <2>1
<1>2. ASSUME NEW f \in Removals PROVE DOMAIN f \subseteq Worlds /\ \A w \in DOMAIN f : f[w] = NoInfo
  <2>1. PICK W \in SUBSET Worlds : f \in [W -> {NoInfo}] BY DEF Removals
  <2> QED BY <2>1
<1>3. ASSUME NEW m \in UpMsg PROVE m.about \in InfosAbout
  BY DEF UpMsg
<1>4. ASSUME NEW m \in DownMsg
      PROVE  IF m.kind = "remove" THEN m.about \in Removals ELSE m.about \in InfosAbout
  BY DEF DownMsg
<1> QED BY <1>1, <1>2, <1>3, <1>4

LEMMA HeadTail ==
  ASSUME NEW S, NEW q \in Seq(S), q # <<>>
  PROVE  Head(q) \in S /\ Tail(q) \in Seq(S)
OBVIOUS

LEMMA BroadcastType ==
  ASSUME TypeOK, NEW m \in DownMsg, Broadcast(m)
  PROVE  down' \in [Servers -> Seq(DownMsg)]
BY DEF TypeOK, Broadcast

LEMMA ToMasterType ==
  ASSUME TypeOK, NEW s \in Servers, NEW m \in UpMsg, ToMaster(s, m)
  PROVE  up' \in [Servers -> Seq(UpMsg)]
BY DEF TypeOK, ToMaster

LEMMA FromServerType ==
  ASSUME TypeOK, NEW s \in Servers, NEW m, FromServer(s, m)
  PROVE  m \in UpMsg /\ up' \in [Servers -> Seq(UpMsg)]
<1>1. up[s] \in Seq(UpMsg) /\ up[s] # <<>> /\ Head(up[s]) = m BY DEF TypeOK, FromServer
<1>2. m \in UpMsg /\ Tail(up[s]) \in Seq(UpMsg) BY <1>1, HeadTail
<1> QED BY <1>2 DEF TypeOK, FromServer

LEMMA FromMasterType ==
  ASSUME TypeOK, NEW s \in Servers, NEW m, FromMaster(s, m)
  PROVE  m \in DownMsg /\ down' \in [Servers -> Seq(DownMsg)]
<1>1. down[s] \in Seq(DownMsg) /\ down[s] # <<>> /\ Head(down[s]) = m BY DEF TypeOK, FromMaster
<1>2. m \in DownMsg /\ Tail(down[s]) \in Seq(DownMsg) BY <1>1, HeadTail
<1> QED BY <1>2 DEF TypeOK, FromMaster

LEMMA ListedInfoType ==
  ASSUME TypeOK, NEW W \in SUBSET Listed
  PROVE  W \in SUBSET Worlds /\ ListedInfo(W) \in [W -> Infos]
BY DEF TypeOK, Listed, ListedInfo

LEMMA TypeInit == Init => TypeOK
BY InfoAssumption, BoundsAssumption DEF Init, TypeOK, InfoOrNone

LEMMA TypeFlush == TypeOK /\ FlushWorlds => TypeOK'
<1> SUFFICES ASSUME TypeOK, FlushWorlds PROVE TypeOK'
  OBVIOUS
<1>1. Update(ListedInfo(dirtyWorlds \cap Listed)) \in DownMsg
  BY ListedInfoType, MessageTypes
<1>2. down' \in [Servers -> Seq(DownMsg)] BY <1>1, BroadcastType DEF FlushWorlds, TypeOK
<1> QED BY <1>2 DEF TypeOK, FlushWorlds, gameVars

LEMMA TypeMaster ==
  ASSUME TypeOK, NEW s \in Servers,
         \/ \E w \in Worlds : OnWorldCreated(s, w)
         \/ WorldUpdate(s, Head(up[s]))
         \/ AddServer(s) \/ ServerReady(s) \/ RemoveServer(s)
  PROVE  TypeOK'
<1>1. ASSUME NEW w \in Worlds, OnWorldCreated(s, w) PROVE TypeOK'
  <2>1. up' \in [Servers -> Seq(UpMsg)] BY <1>1, FromServerType DEF OnWorldCreated
  <2>2. down' \in [Servers -> Seq(DownMsg)] BY <1>1, BroadcastType, MessageTypes DEF OnWorldCreated
  <2> QED BY <1>1, <2>1, <2>2, InfoAssumption DEF TypeOK, OnWorldCreated, gameVars
<1>2. ASSUME NEW m, WorldUpdate(s, m) PROVE TypeOK'
  <2>1. m \in UpMsg /\ up' \in [Servers -> Seq(UpMsg)] BY <1>2, FromServerType DEF WorldUpdate
  <2>2. \A w \in Reported(m) : m.about[w] \in Infos /\ w \in Worlds
    BY <2>1, AboutTypes DEF Reported, Listed
  <2>3. \A w \in Reported(m) : [server |-> worldSubs[w].server, info |-> m.about[w]] \in [server : Servers, info : Infos]
    BY <2>2 DEF TypeOK, Reported, Listed
  <2>4. worldSubs' \in [Worlds -> [server : Servers, info : Infos] \cup {Unlisted}]
    <3> DEFINE new(w) == IF w \in Reported(m) THEN [server |-> worldSubs[w].server, info |-> m.about[w]] ELSE worldSubs[w]
    <3>1. \A w \in Worlds : new(w) \in [server : Servers, info : Infos] \cup {Unlisted}
      BY <2>3 DEF TypeOK
    <3>2. worldSubs' = [w \in Worlds |-> new(w)] BY <1>2 DEF WorldUpdate
    <3> HIDE DEF new
    <3> QED BY <3>1, <3>2
  <2>5. dirtyWorlds' \subseteq Worlds BY <1>2, <2>2 DEF WorldUpdate, TypeOK
  <2> QED BY <1>2, <2>1, <2>4, <2>5 DEF TypeOK, WorldUpdate, gameVars
<1>3. ASSUME AddServer(s) PROVE TypeOK'
  BY <1>3 DEF TypeOK, AddServer, gameVars
<1>4. ASSUME ServerReady(s) PROVE TypeOK'
  <2>1. List(ListedInfo(Listed)) \in DownMsg BY ListedInfoType, MessageTypes
  <2>2. down' \in [Servers -> Seq(DownMsg)] BY <1>4, <2>1 DEF ServerReady, TypeOK
  <2> QED BY <1>4, <2>2 DEF TypeOK, ServerReady, gameVars
<1>5. ASSUME RemoveServer(s) PROVE TypeOK'
  <2>1. Remove(WorldsOf(s)) \in DownMsg BY MessageTypes DEF WorldsOf, Listed
  <2>2. down' \in [Servers -> Seq(DownMsg)] BY <1>5, <2>1, BroadcastType DEF RemoveServer, TypeOK
  <2>3. worldSubs' \in [Worlds -> [server : Servers, info : Infos] \cup {Unlisted}]
    BY <1>5 DEF RemoveServer, TypeOK, Without
  <2>4. up' \in [Servers -> Seq(UpMsg)] BY <1>5 DEF RemoveServer, TypeOK
  <2>5. srv' \in [Servers -> {"none", "authed", "ready"}] /\ dirtyWorlds' \subseteq Worlds
    BY <1>5 DEF RemoveServer, TypeOK
  <2> QED BY <1>5, <2>2, <2>3, <2>4, <2>5 DEF TypeOK, RemoveServer, gameVars
<1> QED BY <1>1, <1>2, <1>3, <1>4, <1>5

LEMMA TypeGame ==
  ASSUME TypeOK, NEW s \in Servers,
         \/ OnTCPPacket(s, Head(down[s]))
         \/ \E w \in Worlds, i \in Infos : WorldReady(s, w, i) \/ WorldChanges(s, w, i)
         \/ UpdateWorlds(s) \/ FlushLocal(s) \/ LoseLink(s) \/ Crash(s)
  PROVE  TypeOK'
<1>1. ASSUME NEW m, OnTCPPacket(s, m) PROVE TypeOK'
  <2>1. m \in DownMsg /\ down' \in [Servers -> Seq(DownMsg)] BY <1>1, FromMasterType DEF OnTCPPacket
  <2>2. \A w \in Worlds : Shown(s, m, w) \in InfoOrNone
    BY <2>1, AboutTypes DEF Shown, Said, InfoOrNone, TypeOK
  <2>3. list' \in [Servers -> [Worlds -> InfoOrNone]] BY <1>1, <2>2 DEF OnTCPPacket, TypeOK
  <2> QED BY <1>1, <2>1, <2>3 DEF TypeOK, OnTCPPacket, masterVars
<1>2. ASSUME NEW w \in Worlds, NEW i \in Infos, WorldReady(s, w, i) PROVE TypeOK'
  <2>1. up' \in [Servers -> Seq(UpMsg)] BY <1>2, MessageTypes, ToMasterType DEF WorldReady
  <2>2. world' \in [Servers -> [Worlds -> InfoOrNone]] BY <1>2 DEF WorldReady, TypeOK, InfoOrNone
  <2> QED BY <1>2, <2>1, <2>2 DEF TypeOK, WorldReady, masterVars
<1>3. ASSUME NEW w \in Worlds, NEW i \in Infos, WorldChanges(s, w, i) PROVE TypeOK'
  <2>1. world' \in [Servers -> [Worlds -> InfoOrNone]] BY <1>3 DEF WorldChanges, TypeOK, InfoOrNone
  <2>2. changes' \in 0..MaxChanges BY <1>3, BoundsAssumption DEF WorldChanges, TypeOK
  <2> QED BY <1>3, <2>1, <2>2 DEF TypeOK, WorldChanges, masterVars
<1>4. ASSUME UpdateWorlds(s) PROVE TypeOK'
  <2>1. \A w \in Changed(s) : w \in Worlds /\ world[s][w] \in Infos
    BY DEF Changed, Hosted, TypeOK, InfoOrNone
  <2>2. local' \in [Servers -> [Worlds -> Infos]] BY <1>4, <2>1 DEF UpdateWorlds, TypeOK
  <2>3. dirtyLocal' \in [Servers -> SUBSET Worlds] BY <1>4, <2>1 DEF UpdateWorlds, TypeOK
  <2> QED BY <1>4, <2>2, <2>3 DEF TypeOK, UpdateWorlds, masterVars
<1>5. ASSUME FlushLocal(s) PROVE TypeOK'
  <2>1. dirtyLocal[s] \in SUBSET Worlds /\ [w \in dirtyLocal[s] |-> local[s][w]] \in [dirtyLocal[s] -> Infos]
    BY DEF TypeOK
  <2>2. up' \in [Servers -> Seq(UpMsg)] BY <1>5, <2>1, MessageTypes, ToMasterType DEF FlushLocal
  <2> QED BY <1>5, <2>2 DEF TypeOK, FlushLocal, masterVars
<1>6. ASSUME LoseLink(s) PROVE TypeOK'
  <2>1. losses' \in 0..MaxLosses BY <1>6, BoundsAssumption DEF LoseLink, TypeOK
  <2> QED BY <1>6, <2>1 DEF TypeOK, LoseLink, masterVars, gameVars
<1>7. ASSUME Crash(s) PROVE TypeOK'
  <2>1. losses' \in 0..MaxLosses BY <1>7, BoundsAssumption DEF Crash, TypeOK
  <2>2. /\ world' \in [Servers -> [Worlds -> InfoOrNone]] /\ list' \in [Servers -> [Worlds -> InfoOrNone]]
        /\ local' \in [Servers -> [Worlds -> Infos]] /\ dirtyLocal' \in [Servers -> SUBSET Worlds]
    BY <1>7, InfoAssumption DEF Crash, TypeOK, InfoOrNone
  <2> QED BY <1>7, <2>1, <2>2 DEF TypeOK, Crash, masterVars
<1> QED BY <1>1, <1>2, <1>3, <1>4, <1>5, <1>6, <1>7

LEMMA TypeNext == TypeOK /\ [Next]_vars => TypeOK'
<1> SUFFICES ASSUME TypeOK, [Next]_vars PROVE TypeOK'
  OBVIOUS
<1>1. CASE FlushWorlds
  BY <1>1, TypeFlush
<1>2. ASSUME NEW s \in Servers, AnyStep(s) PROVE TypeOK'
  BY <1>2, TypeMaster, TypeGame DEF AnyStep
<1>3. CASE UNCHANGED vars
  BY <1>3 DEF vars, masterVars, gameVars, TypeOK
<1> QED BY <1>1, <1>2, <1>3, Steps

(* In no behaviour is the state badly typed: a listed world always has a   *)
(* server and an info, and no game server reports a world it does not run. *)
THEOREM TypeCorrect == Spec => []TypeOK
BY TypeInit, TypeNext, PTL DEF Spec

-----------------------------------------------------------------------------
(* Links.                                                                  *)

(* A connected server is registered; nothing is on its way to a server     *)
(* that is not connected, nor from one that is not registered; a process   *)
(* that does not run shows nothing.                                        *)
LinkInv ==
  \A s \in Servers :
    /\ proc[s] = "linked" => Registered(s)
    /\ proc[s] # "linked" => down[s] = <<>>
    /\ ~Registered(s) => up[s] = <<>>
    /\ proc[s] = "down" => \A w \in Worlds : list[s][w] = NoInfo

LEMMA LinkInit == Init => LinkInv
BY DEF Init, LinkInv, Registered

LEMMA BroadcastTo ==
  ASSUME TypeOK, NEW m, Broadcast(m), NEW s \in Servers
  PROVE  down'[s] = IF Registered(s) /\ proc[s] = "linked" THEN Append(down[s], m) ELSE down[s]
BY DEF Broadcast

LEMMA LinkFlush == TypeOK /\ LinkInv /\ FlushWorlds => LinkInv'
<1> SUFFICES ASSUME TypeOK, LinkInv, FlushWorlds PROVE LinkInv'
  OBVIOUS
<1>1. \A s \in Servers : proc[s] # "linked" => down'[s] = down[s]
  BY BroadcastTo DEF FlushWorlds
<1> QED BY <1>1 DEF FlushWorlds, LinkInv, Registered, gameVars

LEMMA LinkStep ==
  ASSUME TypeOK, LinkInv, NEW s \in Servers, AnyStep(s)
  PROVE  LinkInv'
<1>1. ASSUME NEW w \in Worlds, OnWorldCreated(s, w) PROVE LinkInv'
  <2>1. \A t \in Servers : proc[t] # "linked" => down'[t] = down[t]
    BY <1>1, BroadcastTo DEF OnWorldCreated
  <2>2. Registered(s) /\ \A t \in Servers : t # s => up'[t] = up[t]
    BY <1>1 DEF OnWorldCreated, FromServer, TypeOK, Registered
  <2> QED BY <1>1, <2>1, <2>2 DEF OnWorldCreated, LinkInv, Registered, gameVars
<1>2. ASSUME NEW m, WorldUpdate(s, m) PROVE LinkInv'
  BY <1>2 DEF WorldUpdate, FromServer, LinkInv, Registered, TypeOK, gameVars
<1>3. ASSUME NEW m, OnTCPPacket(s, m) PROVE LinkInv'
  BY <1>3 DEF OnTCPPacket, FromMaster, LinkInv, Registered, TypeOK, masterVars
<1>4. CASE AddServer(s)
  BY <1>4 DEF AddServer, LinkInv, Registered, TypeOK, gameVars
<1>5. CASE ServerReady(s)
  BY <1>5 DEF ServerReady, LinkInv, Registered, TypeOK, gameVars
<1>6. CASE RemoveServer(s)
  <2>1. \A t \in Servers : proc[t] # "linked" => down'[t] = down[t]
    BY <1>6, BroadcastTo DEF RemoveServer
  <2> QED BY <1>6, <2>1 DEF RemoveServer, LinkInv, Registered, TypeOK, gameVars
<1>7. ASSUME NEW w \in Worlds, NEW i \in Infos, WorldReady(s, w, i) \/ WorldChanges(s, w, i) PROVE LinkInv'
  BY <1>7 DEF WorldReady, WorldChanges, ToMaster, LinkInv, Registered, TypeOK, masterVars
<1>8. CASE UpdateWorlds(s) \/ FlushLocal(s)
  BY <1>8 DEF UpdateWorlds, FlushLocal, ToMaster, LinkInv, Registered, TypeOK, masterVars
<1>9. CASE LoseLink(s) \/ Crash(s)
  BY <1>9 DEF LoseLink, Crash, LinkInv, Registered, TypeOK, masterVars, gameVars
<1> QED BY <1>1, <1>2, <1>3, <1>4, <1>5, <1>6, <1>7, <1>8, <1>9 DEF AnyStep

LEMMA LinkNext == TypeOK /\ LinkInv /\ [Next]_vars => LinkInv'
<1>1. LinkInv /\ UNCHANGED vars => LinkInv'
  BY DEF LinkInv, Registered, vars, masterVars, gameVars
<1> QED BY <1>1, LinkFlush, LinkStep, Steps

LEMMA LinkCorrect == Spec => [](TypeOK /\ LinkInv)
BY TypeInit, TypeNext, LinkInit, LinkNext, PTL DEF Spec

-----------------------------------------------------------------------------
(* The Master's list.                                                      *)

(* A connected server runs the worlds it has reported, listed or not yet.  *)
RunsReported ==
  \A s \in Servers : proc[s] = "linked" =>
    \A i \in DOMAIN up[s] : up[s][i].kind = "init" => DOMAIN up[s][i].about \subseteq Hosted(s)

ListInv == DirtyListed /\ ListedOnline /\ RunsReported

LEMMA ListInit == Init => ListInv
BY DEF Init, ListInv, DirtyListed, ListedOnline, RunsReported, Listed

(* A step that leaves the Master's list alone, removes no world from a     *)
(* server that stays connected and unregisters nobody keeps ListedOnline.  *)
LEMMA OnlineKept ==
  ASSUME TypeOK, ListedOnline, UNCHANGED worldSubs,
         \A t \in Servers : Registered(t) => Registered(t)',
         \A t \in Servers : proc'[t] = "linked" /\ Registered(t) => proc[t] = "linked" /\ Hosted(t) \subseteq Hosted(t)'
  PROVE  ListedOnline'
<1>1. \A w \in Listed : worldSubs[w].server \in Servers BY DEF Listed, TypeOK
<1> QED BY <1>1 DEF ListedOnline, Listed

(* Taking the head off a queue, or adding to its end. *)
LEMMA ReportedKept ==
  ASSUME TypeOK, RunsReported, NEW s \in Servers,
         \A t \in Servers : t # s => up'[t] = up[t],
         up'[s] = up[s] \/ up'[s] = <<>> \/ (up[s] # <<>> /\ up'[s] = Tail(up[s])),
         \A t \in Servers : proc'[t] = "linked" => proc[t] = "linked" \/ up'[t] = <<>>,
         \A t \in Servers : proc'[t] = "linked" => Hosted(t) \subseteq Hosted(t)'
  PROVE  RunsReported'
<1> SUFFICES ASSUME NEW t \in Servers, proc'[t] = "linked",
                    NEW i \in DOMAIN up'[t], up'[t][i].kind = "init"
             PROVE  DOMAIN up'[t][i].about \subseteq Hosted(t)'
  BY DEF RunsReported
<1>1. up[t] \in Seq(UpMsg) BY DEF TypeOK
<1>2. CASE up'[t] = <<>>
  BY <1>2
<1>3. CASE up'[t] # <<>> /\ up'[t] = up[t]
  BY <1>3 DEF RunsReported
<1>4. CASE up'[t] # <<>> /\ t = s /\ up[s] # <<>> /\ up'[s] = Tail(up[s])
  <2>1. i + 1 \in DOMAIN up[s] /\ up'[s][i] = up[s][i + 1] BY <1>1, <1>4
  <2> QED BY <1>4, <2>1 DEF RunsReported
<1> QED BY <1>2, <1>3, <1>4

LEMMA ListFlush == TypeOK /\ ListInv /\ FlushWorlds => ListInv'
BY DEF FlushWorlds, ListInv, DirtyListed, ListedOnline, RunsReported, Listed, Registered, Hosted, gameVars

LEMMA ListMaster ==
  ASSUME TypeOK, LinkInv, ListInv, NEW s \in Servers,
         \/ \E w \in Worlds : OnWorldCreated(s, w)
         \/ WorldUpdate(s, Head(up[s]))
         \/ AddServer(s) \/ ServerReady(s) \/ RemoveServer(s)
  PROVE  ListInv'
<1> USE DEF Hosted
<1>1. ASSUME NEW w \in Worlds, OnWorldCreated(s, w) PROVE ListInv'
  <2>1. up[s] \in Seq(UpMsg) /\ up[s] # <<>> /\ up[s][1] = InitOK(w) /\ Registered(s)
    BY <1>1 DEF OnWorldCreated, FromServer, TypeOK, Registered
  <2>2. proc[s] = "linked" => w \in Hosted(s)
    BY <2>1 DEF ListInv, RunsReported, InitOK
  <2>3. RunsReported'
    BY <1>1, ReportedKept DEF ListInv, OnWorldCreated, FromServer, TypeOK, gameVars
  <2>4. Listed' = Listed \cup {w}
    BY <1>1, NoServerAssumption DEF OnWorldCreated, Listed, TypeOK, Unlisted
  <2>5. ListedOnline'
    BY <1>1, <2>1, <2>2, <2>4 DEF ListInv, ListedOnline, OnWorldCreated, Listed, TypeOK, Registered, gameVars
  <2> QED BY <1>1, <2>3, <2>4, <2>5 DEF ListInv, DirtyListed, OnWorldCreated
<1>2. ASSUME NEW m, WorldUpdate(s, m) PROVE ListInv'
  <2>1. RunsReported'
    BY <1>2, ReportedKept DEF ListInv, WorldUpdate, FromServer, TypeOK, gameVars
  <2>2. \A w \in Listed : worldSubs[w].server \in Servers BY DEF Listed, TypeOK
  <2>3. \A w \in Worlds : worldSubs'[w] = worldSubs[w] \/ (w \in Listed /\ worldSubs'[w].server = worldSubs[w].server)
    BY <1>2 DEF WorldUpdate, Reported
  <2>4. \A w \in Reported(m) : w \in Listed /\ worldSubs'[w].server \in Servers
    BY <1>2, <2>2 DEF WorldUpdate, Reported, Listed
  <2>5. Listed' = Listed
    BY <1>2, <2>4, NoServerAssumption DEF WorldUpdate, Listed, Unlisted
  <2>6. ListedOnline'
    BY <1>2, <2>2, <2>3, <2>5 DEF ListInv, ListedOnline, WorldUpdate, Registered, Listed, gameVars
  <2> QED BY <1>2, <2>1, <2>4, <2>5, <2>6 DEF ListInv, DirtyListed, WorldUpdate
<1>3. CASE AddServer(s)
  <2>1. up[s] = <<>> /\ ~Registered(s) BY <1>3 DEF AddServer, LinkInv, Registered
  <2>2. RunsReported'
    BY <1>3, <2>1, ReportedKept DEF ListInv, AddServer, TypeOK, gameVars
  <2>3. ListedOnline'
    BY <1>3, <2>1 DEF ListInv, ListedOnline, AddServer, Registered, Listed, TypeOK, gameVars
  <2> QED BY <1>3, <2>2, <2>3 DEF ListInv, DirtyListed, AddServer, Listed
<1>4. CASE ServerReady(s)
  <2>1. RunsReported'
    BY <1>4, ReportedKept DEF ListInv, ServerReady, gameVars
  <2>2. ListedOnline'
    BY <1>4 DEF ListInv, ListedOnline, ServerReady, Registered, Listed, TypeOK, gameVars
  <2> QED BY <1>4, <2>1, <2>2 DEF ListInv, DirtyListed, ServerReady, Listed
<1>5. CASE RemoveServer(s)
  <2>1. RunsReported'
    BY <1>5, ReportedKept DEF ListInv, RemoveServer, TypeOK, gameVars
  <2>2. Listed' = Listed \ WorldsOf(s) /\ \A w \in Listed' : worldSubs'[w] = worldSubs[w]
    BY <1>5 DEF RemoveServer, Listed, Without, WorldsOf
  <2>3. \A w \in Listed' : w \in Listed /\ worldSubs[w].server \in Servers \ {s}
    BY <2>2 DEF WorldsOf, Listed, TypeOK
  <2>4. ListedOnline'
    BY <1>5, <2>2, <2>3 DEF ListInv, ListedOnline, RemoveServer, Registered, TypeOK, gameVars
  <2> QED BY <1>5, <2>1, <2>2, <2>4 DEF ListInv, DirtyListed, RemoveServer
<1> QED BY <1>1, <1>2, <1>3, <1>4, <1>5

LEMMA ListGame ==
  ASSUME TypeOK, LinkInv, ListInv, NEW s \in Servers,
         \/ OnTCPPacket(s, Head(down[s]))
         \/ \E w \in Worlds, i \in Infos : WorldReady(s, w, i) \/ WorldChanges(s, w, i)
         \/ UpdateWorlds(s) \/ FlushLocal(s) \/ LoseLink(s) \/ Crash(s)
  PROVE  ListInv'
<1> SUFFICES ListedOnline' /\ RunsReported'
  BY DEF ListInv, DirtyListed, Listed, OnTCPPacket, WorldReady, WorldChanges, UpdateWorlds, FlushLocal, LoseLink,
         Crash, masterVars
<1>1. UNCHANGED <<srv, worldSubs>>
  BY DEF OnTCPPacket, WorldReady, WorldChanges, UpdateWorlds, FlushLocal, LoseLink, Crash, masterVars
<1>2. \A t \in Servers : proc'[t] = "linked" => proc[t] = "linked"
  BY DEF OnTCPPacket, WorldReady, WorldChanges, UpdateWorlds, FlushLocal, LoseLink, Crash, TypeOK
<1>3. \A t \in Servers : proc'[t] = "linked" => Hosted(t) \subseteq Hosted(t)'
  <2>1. ASSUME UNCHANGED world PROVE \A t \in Servers : Hosted(t) \subseteq Hosted(t)'
    BY <2>1 DEF Hosted
  <2>2. ASSUME NEW w \in Worlds, NEW i \in Infos, world' = [world EXCEPT ![s][w] = i]
        PROVE  \A t \in Servers : Hosted(t) \subseteq Hosted(t)'
    <3>1. \A t \in Servers, v \in Worlds : world'[t][v] = world[t][v] \/ world'[t][v] = i
      BY <2>2 DEF TypeOK
    <3> QED BY <3>1, InfoAssumption DEF Hosted
  <2>3. CASE Crash(s)
    <3>1. proc'[s] = "down" /\ \A t \in Servers \ {s} : world'[t] = world[t] BY <2>3 DEF Crash, TypeOK
    <3> QED BY <3>1 DEF Hosted
  <2>4. CASE OnTCPPacket(s, Head(down[s])) \/ UpdateWorlds(s) \/ FlushLocal(s) \/ LoseLink(s)
    BY <2>1, <2>4 DEF OnTCPPacket, UpdateWorlds, FlushLocal, LoseLink, gameVars
  <2>5. CASE \E w \in Worlds, i \in Infos : WorldReady(s, w, i) \/ WorldChanges(s, w, i)
    BY <2>2, <2>5 DEF WorldReady, WorldChanges
  <2> QED BY <2>3, <2>4, <2>5
<1>4. ListedOnline' BY <1>1, <1>2, <1>3, OnlineKept DEF ListInv, Registered
<1>5. ASSUME UNCHANGED up PROVE RunsReported'
  BY <1>2, <1>3, <1>5 DEF ListInv, RunsReported
<1>6. ASSUME NEW m \in UpMsg, ToMaster(s, m), m.kind = "init" => DOMAIN m.about \subseteq Hosted(s)'
      PROVE  RunsReported'
  <2> SUFFICES ASSUME NEW t \in Servers, proc'[t] = "linked",
                      NEW i \in DOMAIN up'[t], up'[t][i].kind = "init"
               PROVE  DOMAIN up'[t][i].about \subseteq Hosted(t)'
    BY DEF RunsReported
  <2>1. up[t] \in Seq(UpMsg) BY DEF TypeOK
  <2>2. \/ i \in DOMAIN up[t] /\ up'[t][i] = up[t][i]
        \/ t = s /\ up'[t][i] = m
    BY <1>6, <2>1 DEF ToMaster, TypeOK
  <2> QED BY <1>2, <1>3, <1>6, <2>2 DEF ListInv, RunsReported
<1>7. ASSUME NEW w \in Worlds, NEW i \in Infos, WorldReady(s, w, i) PROVE RunsReported'
  <2>1. w \in Hosted(s)' BY <1>7, InfoAssumption DEF WorldReady, Hosted, TypeOK
  <2> QED BY <1>6, <1>7, <2>1, MessageTypes DEF WorldReady, InitOK
<1>8. CASE FlushLocal(s)
  <2>1. Update([w \in dirtyLocal[s] |-> local[s][w]]) \in UpMsg
    <3>1. dirtyLocal[s] \in SUBSET Worlds /\ [w \in dirtyLocal[s] |-> local[s][w]] \in [dirtyLocal[s] -> Infos]
      BY DEF TypeOK
    <3> QED BY <3>1, MessageTypes
  <2>2. Update([w \in dirtyLocal[s] |-> local[s][w]]).kind # "init" BY DEF Update
  <2>3. ToMaster(s, Update([w \in dirtyLocal[s] |-> local[s][w]])) BY <1>8 DEF FlushLocal
  <2> QED BY <1>4, <1>6, <2>1, <2>2, <2>3
<1>9. (OnTCPPacket(s, Head(down[s])) \/ (\E w \in Worlds, i \in Infos : WorldChanges(s, w, i))
        \/ UpdateWorlds(s) \/ LoseLink(s) \/ Crash(s)) => UNCHANGED up
  BY DEF OnTCPPacket, WorldChanges, UpdateWorlds, LoseLink, Crash
<1> QED BY <1>4, <1>5, <1>7, <1>8, <1>9

LEMMA ListNext == TypeOK /\ LinkInv /\ ListInv /\ [Next]_vars => ListInv'
<1>1. ListInv /\ UNCHANGED vars => ListInv'
  BY DEF ListInv, DirtyListed, ListedOnline, RunsReported, Listed, Registered, Hosted, vars, masterVars, gameVars
<1>2. ASSUME TypeOK, LinkInv, ListInv, NEW s \in Servers, AnyStep(s) PROVE ListInv'
  BY <1>2, ListMaster, ListGame DEF AnyStep
<1> QED BY <1>1, <1>2, ListFlush, Steps

LEMMA ListCorrect == Spec => []ListInv
<1>1. Init => TypeOK /\ LinkInv /\ ListInv BY TypeInit, LinkInit, ListInit
<1>2. (TypeOK /\ LinkInv /\ ListInv) /\ [Next]_vars => (TypeOK /\ LinkInv /\ ListInv)'
  BY TypeNext, LinkNext, ListNext
<1> QED BY <1>1, <1>2, PTL DEF Spec

(* The Master never holds back a change of a world it has dropped: the     *)
(* flush finds every dirty world in m_worldSubs.                           *)
THEOREM DirtyAreListed == Spec => []DirtyListed
<1>1. ListInv => DirtyListed BY DEF ListInv
<1> QED BY <1>1, ListCorrect, PTL

(* The Master lists no world of a server it has forgotten, nor one that a  *)
(* connected server does not run, however servers come and go.             *)
THEOREM ListedAreOnline == Spec => []ListedOnline
<1>1. ListInv => ListedOnline BY DEF ListInv
<1> QED BY <1>1, ListCorrect, PTL
-----------------------------------------------------------------------------
(* What is queued.                                                         *)

(* One more packet: it decides if it is not an update, it says the info if *)
(* it is about the world, and else changes nothing.                        *)
LEMMA WillAppend ==
  ASSUME NEW S, NEW q \in Seq(S), NEW m \in S, NEW x, NEW w
  PROVE  /\ w \notin DOMAIN m.about \/ m.kind = "update" => (WillShow(Append(q, m), x, w) <=> WillShow(q, x, w))
         /\ w \in DOMAIN m.about /\ m.kind # "update" => (WillShow(Append(q, m), x, w) <=> m.kind # "remove")
         /\ w \notin DOMAIN m.about => \A i : WillSay(Append(q, m), x, w, i) <=> WillSay(q, x, w, i)
         /\ w \in DOMAIN m.about => \A i : WillSay(Append(q, m), x, w, i) <=> m.about[w] = i
<1> DEFINE p == Append(q, m)
           n == Len(q)
<1>1. n \in Nat /\ DOMAIN q = 1..n /\ DOMAIN p = 1..(n + 1) /\ p[n + 1] = m /\ \A j \in 1..n : p[j] = q[j]
  OBVIOUS
<1> HIDE DEF p, n
<1>2. About(p, w) = IF w \in DOMAIN m.about THEN About(q, w) \cup {n + 1} ELSE About(q, w)
  BY <1>1 DEF About
<1>3. Deciding(p, w) =
        IF w \in DOMAIN m.about /\ m.kind # "update" THEN Deciding(q, w) \cup {n + 1} ELSE Deciding(q, w)
  BY <1>1, <1>2 DEF Deciding, About
<1>4. About(q, w) \subseteq 1..n /\ Deciding(q, w) \subseteq 1..n BY <1>1 DEF About, Deciding
<1>5. ASSUME NEW I \in SUBSET (1..n), NEW J, J = I \cup {n + 1}, NEW k PROVE IsLast(k, J) <=> k = n + 1
  <2>1. \A j \in I : j \in Int /\ j <= n BY <1>1
  <2>2. IsLast(n + 1, J) BY <1>1, <1>5, <2>1 DEF IsLast
  <2>3. ASSUME k \in I, n + 1 <= k PROVE FALSE BY <1>1, <2>1, <2>3
  <2>4. IsLast(k, J) => k = n + 1 BY <1>5, <2>3 DEF IsLast
  <2> QED BY <2>2, <2>4
<1>6. ASSUME NEW I \in SUBSET (1..n), NEW k, IsLast(k, I)
      PROVE  k \in DOMAIN q /\ k \in DOMAIN p /\ p[k] = q[k]
  <2>1. k \in 1..n BY <1>6 DEF IsLast
  <2> QED BY <1>1, <2>1
<1>7. CASE w \notin DOMAIN m.about
  BY <1>2, <1>3, <1>4, <1>6, <1>7 DEF WillShow, WillSay, p
<1>8. CASE w \in DOMAIN m.about
  <2>1. About(p, w) = About(q, w) \cup {n + 1} /\ About(p, w) # {} BY <1>2, <1>8
  <2>2. \A i : WillSay(p, x, w, i) <=> m.about[w] = i
    <3>1. \A k : IsLast(k, About(p, w)) <=> k = n + 1 BY <1>4, <1>5, <2>1
    <3>2. n + 1 \in DOMAIN p /\ p[n + 1] = m BY <1>1
    <3> QED BY <2>1, <3>1, <3>2 DEF WillSay
  <2>3. CASE m.kind = "update"
    BY <1>3, <1>4, <1>6, <2>2, <2>3, <1>8 DEF WillShow, p
  <2>4. CASE m.kind # "update"
    <3>1. Deciding(p, w) = Deciding(q, w) \cup {n + 1} /\ Deciding(p, w) # {} BY <1>3, <1>8, <2>4
    <3>2. \A k : IsLast(k, Deciding(p, w)) <=> k = n + 1 BY <1>4, <1>5, <3>1
    <3>3. n + 1 \in DOMAIN p /\ p[n + 1] = m BY <1>1
    <3>4. WillShow(p, x, w) <=> m.kind # "remove" BY <3>1, <3>2, <3>3 DEF WillShow
    <3> QED BY <1>8, <2>2, <2>4, <3>4 DEF p
  <2> QED BY <2>3, <2>4
<1> QED BY <1>7, <1>8

LEMMA AppendOther ==
  ASSUME NEW S, NEW q \in Seq(S), NEW m \in S, NEW x, NEW w, w \notin DOMAIN m.about,
         NEW p, p = Append(q, m)
  PROVE  /\ WillShow(p, x, w) <=> WillShow(q, x, w)
         /\ \A i : WillSay(p, x, w, i) <=> WillSay(q, x, w, i)
<1>1. WillShow(Append(q, m), x, w) <=> WillShow(q, x, w) BY WillAppend
<1>2. \A i : WillSay(Append(q, m), x, w, i) <=> WillSay(q, x, w, i) BY WillAppend
<1> QED BY <1>1, <1>2

LEMMA AppendAbout ==
  ASSUME NEW S, NEW q \in Seq(S), NEW m \in S, NEW x, NEW w, w \in DOMAIN m.about,
         NEW p, p = Append(q, m)
  PROVE  /\ WillSay(p, x, w, m.about[w])
         /\ m.kind # "update" => (WillShow(p, x, w) <=> m.kind # "remove")
<1>1. \A i : WillSay(Append(q, m), x, w, i) <=> m.about[w] = i BY WillAppend
<1>2. WillSay(Append(q, m), x, w, m.about[w]) BY <1>1
<1>3. m.kind # "update" => (WillShow(Append(q, m), x, w) <=> m.kind # "remove") BY WillAppend
<1> QED BY <1>2, <1>3

(* Positions in a queue and in its tail. *)
LEMMA LastShift ==
  ASSUME NEW n \in Nat \ {0}, NEW I \in SUBSET (1..n), NEW J \in SUBSET (1..(n - 1)),
         \A j \in 1..(n - 1) : j \in J <=> j + 1 \in I
  PROVE  /\ \A j \in 1..(n - 1) : IsLast(j, J) <=> IsLast(j + 1, I)
         /\ J = {} => \A k : IsLast(k, I) <=> k = 1 /\ 1 \in I
         /\ J = {} /\ 1 \notin I <=> I = {}
         /\ J # {} => ~IsLast(1, I)
<1>1. \A k \in 1..n : k = 1 \/ (k - 1 \in 1..(n - 1) /\ (k - 1) + 1 = k) OBVIOUS
<1>2. \A k \in I : k # 1 => k - 1 \in J BY <1>1
<1>3. \A j \in J : j + 1 \in I OBVIOUS
<1>4. ASSUME NEW j \in 1..(n - 1) PROVE IsLast(j, J) <=> IsLast(j + 1, I)
  BY <1>1, <1>2, <1>3 DEF IsLast
<1>5. J = {} => I \subseteq {1} BY <1>2
<1>6. ASSUME J = {}, NEW k PROVE IsLast(k, I) <=> k = 1 /\ 1 \in I
  <2>1. CASE I = {} BY <2>1 DEF IsLast
  <2>2. CASE I = {1}
    <3>1. IsLast(1, I) BY <2>2 DEF IsLast
    <3>2. IsLast(k, I) => k = 1 BY <2>2 DEF IsLast
    <3> QED BY <2>2, <3>1, <3>2
  <2> QED BY <1>5, <1>6, <2>1, <2>2
<1>7. J = {} /\ 1 \notin I <=> I = {} BY <1>3, <1>5
<1>8. ASSUME NEW j \in J PROVE ~IsLast(1, I)
  <2>1. j \in 1..(n - 1) /\ j + 1 \in I /\ ~(j + 1 <= 1) BY <1>3
  <2> QED BY <2>1 DEF IsLast
<1> QED BY <1>4, <1>6, <1>7, <1>8

(* The head is handled by a server that shows x of w and then shows y.     *)
LEMMA WillTail ==
  ASSUME NEW q \in Seq(DownMsg), q # <<>>, NEW w \in Worlds, NEW x \in InfoOrNone, NEW y,
         y = IF Head(q).kind = "update" /\ x = NoInfo THEN NoInfo
             ELSE IF w \in DOMAIN Head(q).about THEN Head(q).about[w] ELSE x
  PROVE  /\ WillShow(Tail(q), y, w) <=> WillShow(q, x, w)
         /\ WillShow(q, x, w) => \A i : WillSay(q, x, w, i) => WillSay(Tail(q), y, w, i)
<1> DEFINE p == Tail(q)
           n == Len(q)
           m == q[1]
<1>1. /\ n \in Nat \ {0} /\ DOMAIN q = 1..n /\ DOMAIN p = 1..(n - 1) /\ \A j \in 1..(n - 1) : p[j] = q[j + 1]
      /\ m \in DownMsg /\ m = Head(q)
  OBVIOUS
<1>2. /\ m.kind # "remove" => \A v \in DOMAIN m.about : m.about[v] # NoInfo
      /\ m.kind = "remove" => \A v \in DOMAIN m.about : m.about[v] = NoInfo
  BY <1>1, AboutTypes, InfoAssumption
<1>3. y = IF m.kind = "update" /\ x = NoInfo THEN NoInfo ELSE IF w \in DOMAIN m.about THEN m.about[w] ELSE x
  BY <1>1
<1> HIDE DEF p, n, m
<1>4. /\ About(q, w) \subseteq 1..n /\ About(p, w) \subseteq 1..(n - 1)
      /\ \A j \in 1..(n - 1) : j \in About(p, w) <=> j + 1 \in About(q, w)
      /\ 1 \in About(q, w) <=> w \in DOMAIN m.about
  BY <1>1 DEF About, m
<1>5. /\ Deciding(q, w) \subseteq 1..n /\ Deciding(p, w) \subseteq 1..(n - 1)
      /\ \A j \in 1..(n - 1) : j \in Deciding(p, w) <=> j + 1 \in Deciding(q, w)
      /\ 1 \in Deciding(q, w) <=> w \in DOMAIN m.about /\ m.kind # "update"
  BY <1>1, <1>4 DEF Deciding, m
<1>6. ASSUME NEW I \in SUBSET (1..n), NEW J \in SUBSET (1..(n - 1)), \A j \in 1..(n - 1) : j \in J <=> j + 1 \in I
      PROVE  /\ \A j \in 1..(n - 1) : IsLast(j, J) <=> IsLast(j + 1, I)
             /\ J = {} => \A k : IsLast(k, I) <=> k = 1 /\ 1 \in I
             /\ J = {} /\ 1 \notin I <=> I = {}
             /\ J # {} => ~IsLast(1, I)
  BY <1>1, <1>6, LastShift
<1>7. WillShow(p, y, w) => WillShow(q, x, w)
  <2>1. CASE Deciding(p, w) = {} /\ y # NoInfo
    <3>1. CASE 1 \in Deciding(q, w)
      <4>1. IsLast(1, Deciding(q, w)) BY <1>5, <1>6, <2>1, <3>1
      <4>2. m.kind # "remove" BY <1>2, <1>3, <1>5, <2>1, <3>1
      <4> QED BY <1>1, <4>1, <4>2 DEF WillShow, m
    <3>2. CASE 1 \notin Deciding(q, w)
      <4>1. Deciding(q, w) = {} BY <1>5, <1>6, <2>1, <3>2
      <4>2. x # NoInfo BY <1>3, <1>5, <2>1, <3>2
      <4> QED BY <4>1, <4>2 DEF WillShow
    <3> QED BY <3>1, <3>2
  <2>2. ASSUME NEW k \in DOMAIN p, IsLast(k, Deciding(p, w)), p[k].kind # "remove" PROVE WillShow(q, x, w)
    <3>1. k \in 1..(n - 1) /\ k + 1 \in DOMAIN q /\ q[k + 1] = p[k] BY <1>1, <2>2
    <3>2. IsLast(k + 1, Deciding(q, w)) BY <1>5, <1>6, <2>2, <3>1
    <3> QED BY <2>2, <3>1, <3>2 DEF WillShow
  <2> QED BY <2>1, <2>2 DEF WillShow
<1>8. WillShow(q, x, w) => WillShow(p, y, w)
  <2>1. CASE Deciding(q, w) = {} /\ x # NoInfo
    <3>1. Deciding(p, w) = {} /\ 1 \notin Deciding(q, w) BY <1>5, <1>6, <2>1
    <3>2. y # NoInfo BY <1>2, <1>3, <1>5, <2>1, <3>1
    <3> QED BY <3>1, <3>2 DEF WillShow
  <2>2. ASSUME NEW k \in DOMAIN q, IsLast(k, Deciding(q, w)), q[k].kind # "remove" PROVE WillShow(p, y, w)
    <3>1. CASE k = 1
      <4>1. Deciding(p, w) = {} /\ 1 \in Deciding(q, w) BY <1>5, <1>6, <2>2, <3>1 DEF IsLast
      <4>2. y # NoInfo BY <1>2, <1>3, <1>5, <2>2, <3>1, <4>1 DEF m
      <4> QED BY <4>1, <4>2 DEF WillShow
    <3>2. CASE k # 1
      <4>1. k - 1 \in 1..(n - 1) /\ (k - 1) + 1 = k BY <1>1, <3>2
      <4>2. k - 1 \in DOMAIN p /\ IsLast(k - 1, Deciding(p, w)) /\ p[k - 1] = q[k]
        BY <1>1, <1>5, <1>6, <2>2, <4>1
      <4> QED BY <2>2, <4>2 DEF WillShow
    <3> QED BY <3>1, <3>2
  <2> QED BY <2>1, <2>2 DEF WillShow
<1>9. ASSUME WillShow(q, x, w), NEW i, WillSay(q, x, w, i) PROVE WillSay(p, y, w, i)
  <2>1. CASE About(q, w) = {} /\ x = i
    <3>1. About(p, w) = {} /\ 1 \notin About(q, w) BY <1>4, <1>6, <2>1
    <3>2. y = i BY <1>3, <1>4, <2>1, <3>1
    <3> QED BY <3>1, <3>2 DEF WillSay
  <2>2. ASSUME NEW k \in DOMAIN q, IsLast(k, About(q, w)), q[k].about[w] = i PROVE WillSay(p, y, w, i)
    <3>1. CASE k = 1
      <4>1. About(p, w) = {} /\ w \in DOMAIN m.about BY <1>4, <1>6, <2>2, <3>1 DEF IsLast
      <4>2. Deciding(p, w) = {} BY <4>1 DEF Deciding
      <4>3. y # NoInfo
        BY <1>8, <1>9, <4>2 DEF WillShow, IsLast
      <4>4. y = i BY <1>3, <2>2, <3>1, <4>1, <4>3 DEF m
      <4> QED BY <4>1, <4>4 DEF WillSay
    <3>2. CASE k # 1
      <4>1. k - 1 \in 1..(n - 1) /\ (k - 1) + 1 = k BY <1>1, <3>2
      <4>2. k - 1 \in DOMAIN p /\ IsLast(k - 1, About(p, w)) /\ p[k - 1] = q[k]
        BY <1>1, <1>4, <1>6, <2>2, <4>1
      <4> QED BY <2>2, <4>2 DEF WillSay
    <3> QED BY <3>1, <3>2
  <2> QED BY <1>9, <2>1, <2>2 DEF WillSay
<1> QED BY <1>7, <1>8, <1>9 DEF p
-----------------------------------------------------------------------------
(* The queues complete the lists.                                          *)

ListsComplete == \A s \in Servers, w \in Worlds : proc[s] = "linked" => Completes(s, w)

LEMMA AllRead ==
  ASSUME AllReadable, NEW m, DOMAIN m.about \subseteq Worlds
  PROVE  Readable(m)
<1>1. Cardinality(DOMAIN m.about) <= Cardinality(Worlds) BY FS_Subset DEF AllReadable
<1>2. Cardinality(DOMAIN m.about) \in Nat /\ Cardinality(Worlds) \in Nat
  BY FS_Subset, FS_CardinalityType DEF AllReadable
<1> QED BY <1>1, <1>2, BoundsAssumption DEF AllReadable, Readable

(* A step that leaves what is queued about w to t as it is, and of the     *)
(* Master's list at most the info of a world that becomes dirty.           *)
LEMMA CompletesKept ==
  ASSUME NEW t \in Servers, NEW w \in Worlds, Completes(t, w),
         WillShow(down'[t], list'[t][w], w) <=> WillShow(down[t], list[t][w], w),
         WillShow(down[t], list[t][w], w) =>
           \A i : WillSay(down[t], list[t][w], w, i) => WillSay(down'[t], list'[t][w], w, i),
         srv'[t] = srv[t], w \in Listed' <=> w \in Listed,
         w \notin dirtyWorlds' => w \notin dirtyWorlds /\ worldSubs'[w].info = worldSubs[w].info
  PROVE  Completes(t, w)'
BY DEF Completes

LEMMA BroadcastLinked ==
  ASSUME TypeOK, LinkInv, NEW m, Broadcast(m), NEW t \in Servers, proc[t] = "linked"
  PROVE  down'[t] = Append(down[t], m) /\ down[t] \in Seq(DownMsg)
BY BroadcastTo DEF LinkInv, TypeOK

LEMMA CompleteCreated ==
  ASSUME TypeOK, LinkInv, ListsComplete, NEW s \in Servers, NEW v \in Worlds, OnWorldCreated(s, v)
  PROVE  ListsComplete'
<1> SUFFICES ASSUME NEW t \in Servers, NEW w \in Worlds, proc'[t] = "linked" PROVE Completes(t, w)'
  BY DEF ListsComplete
<1>1. proc[t] = "linked" /\ list' = list /\ srv' = srv /\ dirtyWorlds' = dirtyWorlds
  BY DEF OnWorldCreated, gameVars
<1>2. Completes(t, w) BY <1>1 DEF ListsComplete
<1>3. Created(v) \in DownMsg /\ DOMAIN Created(v).about = {v} /\ Created(v).kind = "created"
      /\ Created(v).about[v] = NewInfo
  BY MessageTypes DEF Created
<1>4. down'[t] = Append(down[t], Created(v)) /\ down[t] \in Seq(DownMsg)
  BY <1>1, BroadcastLinked DEF OnWorldCreated
<1>5. worldSubs' = [worldSubs EXCEPT ![v] = [server |-> s, info |-> NewInfo]] BY DEF OnWorldCreated
<1>6. CASE w = v
  <2>1. WillShow(down'[t], list'[t][w], w) /\ WillSay(down'[t], list'[t][w], w, NewInfo)
    BY <1>1, <1>3, <1>4, <1>6, AppendAbout
  <2>2. worldSubs'[w].info = NewInfo /\ w \in Listed'
    BY <1>5, <1>6, NoServerAssumption DEF Listed, Unlisted, TypeOK
  <2> QED BY <2>1, <2>2 DEF Completes
<1>7. CASE w # v
  <2>1. worldSubs'[w] = worldSubs[w] /\ (w \in Listed' <=> w \in Listed) BY <1>5, <1>7 DEF Listed, TypeOK
  <2>2. /\ WillShow(down'[t], list[t][w], w) <=> WillShow(down[t], list[t][w], w)
        /\ \A i : WillSay(down'[t], list[t][w], w, i) <=> WillSay(down[t], list[t][w], w, i)
    BY <1>3, <1>4, <1>7, AppendOther
  <2> QED BY <1>1, <1>2, <2>1, <2>2, CompletesKept
<1> QED BY <1>6, <1>7

LEMMA CompleteUpdate ==
  ASSUME TypeOK, ListsComplete, NEW s \in Servers, NEW m, WorldUpdate(s, m)
  PROVE  ListsComplete'
<1> SUFFICES ASSUME NEW t \in Servers, NEW w \in Worlds, proc'[t] = "linked" PROVE Completes(t, w)'
  BY DEF ListsComplete
<1>1. proc[t] = "linked" /\ list' = list /\ srv' = srv /\ down' = down BY DEF WorldUpdate, gameVars
<1>2. Completes(t, w) BY <1>1 DEF ListsComplete
<1>3. w \in Reported(m) => w \in dirtyWorlds' /\ w \in Listed /\ worldSubs'[w].server \in Servers
  BY DEF WorldUpdate, Reported, Listed, TypeOK
<1>4. w \notin Reported(m) => worldSubs'[w] = worldSubs[w] /\ (w \in dirtyWorlds' <=> w \in dirtyWorlds)
  BY DEF WorldUpdate
<1>5. w \in Listed' <=> w \in Listed BY <1>3, <1>4, NoServerAssumption DEF Listed, Unlisted
<1> QED BY <1>1, <1>2, <1>3, <1>4, <1>5, CompletesKept

LEMMA CompleteFlush ==
  ASSUME TypeOK, LinkInv, DirtyListed, ListsComplete, FlushWorlds
  PROVE  ListsComplete'
<1> SUFFICES ASSUME NEW t \in Servers, NEW w \in Worlds, proc'[t] = "linked" PROVE Completes(t, w)'
  BY DEF ListsComplete
<1> DEFINE W == dirtyWorlds \cap Listed
           m == Update(ListedInfo(W))
<1>1. proc[t] = "linked" /\ list' = list /\ srv' = srv /\ worldSubs' = worldSubs /\ Listed' = Listed
  BY DEF FlushWorlds, gameVars, Listed
<1>2. Completes(t, w) BY <1>1 DEF ListsComplete
<1>3. W = dirtyWorlds /\ W # {} BY DEF DirtyListed, FlushWorlds
<1>4. m \in DownMsg BY ListedInfoType, MessageTypes
<1>5. DOMAIN m.about = W /\ m.kind = "update" /\ \A v \in W : m.about[v] = worldSubs[v].info
  BY DEF Update, ListedInfo
<1>6. down'[t] = Append(down[t], m) /\ down[t] \in Seq(DownMsg)
  BY <1>1, <1>3, BroadcastLinked DEF FlushWorlds
<1> HIDE DEF m, W
<1>7. WillShow(down'[t], list[t][w], w) <=> WillShow(down[t], list[t][w], w)
  BY <1>4, <1>5, <1>6, WillAppend
<1>8. CASE w \in W
  <2>1. WillSay(down'[t], list[t][w], w, worldSubs[w].info) BY <1>4, <1>5, <1>6, <1>8, AppendAbout
  <2> QED BY <1>1, <1>2, <1>7, <2>1 DEF Completes
<1>9. CASE w \notin W
  <2>1. \A i : WillSay(down'[t], list[t][w], w, i) <=> WillSay(down[t], list[t][w], w, i)
    BY <1>4, <1>5, <1>6, <1>9, AppendOther
  <2> QED BY <1>1, <1>2, <1>3, <1>7, <1>9, <2>1, CompletesKept
<1> QED BY <1>8, <1>9

LEMMA CompleteAdd ==
  ASSUME TypeOK, LinkInv, ListsComplete, NEW s \in Servers, AddServer(s)
  PROVE  ListsComplete'
<1> SUFFICES ASSUME NEW t \in Servers, NEW w \in Worlds, proc'[t] = "linked" PROVE Completes(t, w)'
  BY DEF ListsComplete
<1>1. list' = list /\ down' = down /\ dirtyWorlds' = dirtyWorlds /\ worldSubs' = worldSubs /\ Listed' = Listed
  BY DEF AddServer, gameVars, Listed
<1>2. CASE t = s
  <2>1. down[s] = <<>> /\ list[s][w] = NoInfo /\ srv'[s] = "authed"
    BY DEF AddServer, LinkInv, TypeOK
  <2>2. ~WillShow(<<>>, NoInfo, w) BY DEF WillShow, IsLast, Deciding, About
  <2> QED BY <1>1, <1>2, <2>1, <2>2 DEF Completes
<1>3. CASE t # s
  <2>1. proc[t] = "linked" /\ srv'[t] = srv[t] BY <1>3 DEF AddServer, TypeOK
  <2>2. Completes(t, w) BY <2>1 DEF ListsComplete
  <2> QED BY <1>1, <2>1, <2>2, CompletesKept
<1> QED BY <1>2, <1>3

LEMMA CompleteReady ==
  ASSUME TypeOK, LinkInv, ListsComplete, NEW s \in Servers, ServerReady(s)
  PROVE  ListsComplete'
<1> SUFFICES ASSUME NEW t \in Servers, NEW w \in Worlds, proc'[t] = "linked" PROVE Completes(t, w)'
  BY DEF ListsComplete
<1> DEFINE m == List(ListedInfo(Listed))
<1>1. /\ proc' = proc /\ list' = list /\ dirtyWorlds' = dirtyWorlds /\ worldSubs' = worldSubs
      /\ Listed' = Listed /\ proc[s] = "linked"
  BY DEF ServerReady, gameVars, Listed
<1>2. Completes(t, w) BY <1>1 DEF ListsComplete
<1>3. CASE t # s
  <2>1. down'[t] = down[t] /\ srv'[t] = srv[t] BY <1>3 DEF ServerReady, TypeOK
  <2> QED BY <1>1, <1>2, <2>1, CompletesKept
<1>4. CASE t = s /\ Listed = {}
  <2>1. down' = down BY <1>4 DEF ServerReady
  <2> QED BY <1>1, <1>2, <1>4, <2>1 DEF Completes
<1>5. CASE t = s /\ Listed # {}
  <2>1. m \in DownMsg BY ListedInfoType, MessageTypes
  <2>2. DOMAIN m.about = Listed /\ m.kind = "list" /\ \A v \in Listed : m.about[v] = worldSubs[v].info
    BY DEF List, ListedInfo
  <2>3. down'[t] = Append(down[t], m) /\ down[t] \in Seq(DownMsg) BY <1>5 DEF ServerReady, TypeOK
  <2> HIDE DEF m
  <2>4. CASE w \in Listed
    <3>1. WillShow(down'[t], list[t][w], w) /\ WillSay(down'[t], list[t][w], w, worldSubs[w].info)
      BY <2>1, <2>2, <2>3, <2>4, AppendAbout
    <3> QED BY <1>1, <2>4, <3>1 DEF Completes
  <2>5. CASE w \notin Listed
    <3>1. WillShow(down'[t], list[t][w], w) <=> WillShow(down[t], list[t][w], w)
      BY <2>1, <2>2, <2>3, <2>5, AppendOther
    <3> QED BY <1>1, <1>2, <2>5, <3>1 DEF Completes
  <2> QED BY <2>4, <2>5
<1> QED BY <1>3, <1>4, <1>5

LEMMA CompleteRemove ==
  ASSUME TypeOK, LinkInv, ListsComplete, NEW s \in Servers, RemoveServer(s)
  PROVE  ListsComplete'
<1> SUFFICES ASSUME NEW t \in Servers, NEW w \in Worlds, proc'[t] = "linked" PROVE Completes(t, w)'
  BY DEF ListsComplete
<1> DEFINE W == WorldsOf(s)
<1>1. proc[t] = "linked" /\ list' = list /\ t # s /\ srv'[t] = srv[t]
  BY DEF RemoveServer, gameVars, TypeOK
<1>2. Completes(t, w) BY <1>1 DEF ListsComplete
<1>3. /\ w \in W => w \notin Listed'
      /\ w \notin W => /\ worldSubs'[w] = worldSubs[w] /\ (w \in Listed' <=> w \in Listed)
                       /\ (w \in dirtyWorlds' <=> w \in dirtyWorlds)
  BY DEF RemoveServer, Without, Listed
<1>4. CASE W = {}
  <2>1. down' = down BY <1>4 DEF RemoveServer
  <2> QED BY <1>1, <1>2, <1>3, <1>4, <2>1, CompletesKept
<1>5. CASE W # {}
  <2>1. Remove(W) \in DownMsg BY MessageTypes DEF WorldsOf, Listed
  <2>2. DOMAIN Remove(W).about = W /\ Remove(W).kind = "remove" BY DEF Remove
  <2>3. down'[t] = Append(down[t], Remove(W)) /\ down[t] \in Seq(DownMsg)
    BY <1>1, <1>5, BroadcastLinked DEF RemoveServer
  <2> HIDE DEF W
  <2>4. CASE w \in W
    <3>1. ~WillShow(down'[t], list[t][w], w) BY <2>1, <2>2, <2>3, <2>4, AppendAbout
    <3> QED BY <1>1, <1>3, <2>4, <3>1 DEF Completes
  <2>5. CASE w \notin W
    <3>1. /\ WillShow(down'[t], list[t][w], w) <=> WillShow(down[t], list[t][w], w)
          /\ \A i : WillSay(down'[t], list[t][w], w, i) <=> WillSay(down[t], list[t][w], w, i)
      BY <2>1, <2>2, <2>3, <2>5, AppendOther
    <3> QED BY <1>1, <1>2, <1>3, <2>5, <3>1, CompletesKept
  <2> QED BY <2>4, <2>5
<1> QED BY <1>4, <1>5

LEMMA CompletePacket ==
  ASSUME TypeOK, AllReadable, ListsComplete, NEW s \in Servers, NEW m, OnTCPPacket(s, m)
  PROVE  ListsComplete'
<1> SUFFICES ASSUME NEW t \in Servers, NEW w \in Worlds, proc'[t] = "linked" PROVE Completes(t, w)'
  BY DEF ListsComplete
<1>1. proc[t] = "linked" /\ srv' = srv /\ dirtyWorlds' = dirtyWorlds /\ worldSubs' = worldSubs /\ Listed' = Listed
  BY DEF OnTCPPacket, masterVars, Listed
<1>2. Completes(t, w) BY <1>1 DEF ListsComplete
<1>3. CASE t # s
  <2>1. down'[t] = down[t] /\ list'[t] = list[t] BY <1>3 DEF OnTCPPacket, FromMaster, TypeOK
  <2> QED BY <1>1, <1>2, <2>1, CompletesKept
<1>4. CASE t = s
  <2>1. /\ down[t] \in Seq(DownMsg) /\ down[t] # <<>> /\ Head(down[t]) = m /\ down'[t] = Tail(down[t])
        /\ list[t][w] \in InfoOrNone /\ list'[t][w] = Shown(t, m, w)
    BY <1>4 DEF OnTCPPacket, FromMaster, TypeOK
  <2>2. m \in DownMsg BY <2>1, HeadTail
  <2>3. Readable(m) BY <2>2, AllRead, AboutTypes
  <2>4. Shown(t, m, w) = IF m.kind = "update" /\ list[t][w] = NoInfo THEN NoInfo
                         ELSE IF w \in DOMAIN m.about THEN m.about[w] ELSE list[t][w]
    BY <2>3 DEF Shown, Said
  <2>5. /\ WillShow(down'[t], list'[t][w], w) <=> WillShow(down[t], list[t][w], w)
        /\ WillShow(down[t], list[t][w], w) =>
             \A i : WillSay(down[t], list[t][w], w, i) => WillSay(down'[t], list'[t][w], w, i)
    BY <2>1, <2>4, WillTail
  <2> QED BY <1>1, <1>2, <2>5, CompletesKept
<1> QED BY <1>3, <1>4

LEMMA CompleteOther ==
  ASSUME TypeOK, ListsComplete, NEW s \in Servers,
         \/ \E w \in Worlds, i \in Infos : WorldReady(s, w, i) \/ WorldChanges(s, w, i)
         \/ UpdateWorlds(s) \/ FlushLocal(s) \/ LoseLink(s) \/ Crash(s)
  PROVE  ListsComplete'
<1> SUFFICES ASSUME NEW t \in Servers, NEW w \in Worlds, proc'[t] = "linked" PROVE Completes(t, w)'
  BY DEF ListsComplete
<1>1. srv' = srv /\ dirtyWorlds' = dirtyWorlds /\ worldSubs' = worldSubs /\ Listed' = Listed
  BY DEF WorldReady, WorldChanges, UpdateWorlds, FlushLocal, LoseLink, Crash, masterVars, Listed
<1>2. proc[t] = "linked" /\ down'[t] = down[t] /\ list'[t] = list[t]
  <2>1. CASE LoseLink(s) \/ Crash(s) BY <2>1 DEF LoseLink, Crash, TypeOK, gameVars
  <2>2. CASE ~(LoseLink(s) \/ Crash(s)) BY <2>2 DEF WorldReady, WorldChanges, UpdateWorlds, FlushLocal
  <2> QED BY <2>1, <2>2
<1>3. Completes(t, w) BY <1>2 DEF ListsComplete
<1> QED BY <1>1, <1>2, <1>3, CompletesKept

LEMMA CompleteNext == AllReadable /\ TypeOK /\ LinkInv /\ ListInv /\ ListsComplete /\ [Next]_vars => ListsComplete'
<1> SUFFICES ASSUME AllReadable, TypeOK, LinkInv, ListInv, ListsComplete, [Next]_vars PROVE ListsComplete'
  OBVIOUS
<1>1. CASE UNCHANGED vars
  BY <1>1 DEF ListsComplete, Completes, Listed, vars, masterVars, gameVars
<1>2. CASE FlushWorlds
  BY <1>2, CompleteFlush DEF ListInv
<1>3. ASSUME NEW s \in Servers, AnyStep(s) PROVE ListsComplete'
  BY <1>3, CompleteCreated, CompleteUpdate, CompleteAdd, CompleteReady, CompleteRemove, CompletePacket,
     CompleteOther DEF AnyStep
<1> QED BY <1>1, <1>2, <1>3, Steps

(* While no packet is too long, what is queued to a ready server always    *)
(* completes its list to the Master's, whatever is created, counted, lost  *)
(* and restarted in between.                                               *)
THEOREM QueuesComplete == Spec => []QueueCompletesList
<1>1. Init => QueueCompletesList
  BY DEF Init, QueueCompletesList
<1>2. TypeOK /\ LinkInv /\ ListInv /\ QueueCompletesList /\ [Next]_vars => QueueCompletesList'
  BY CompleteNext DEF QueueCompletesList, ListsComplete
<1>3. Spec => [](TypeOK /\ LinkInv /\ ListInv) BY LinkCorrect, ListCorrect, PTL
<1> QED BY <1>1, <1>2, <1>3, PTL DEF Spec
-----------------------------------------------------------------------------
(* One owner.  An instance id is given to one server, and only that server *)
(* runs the world, notes and reports its counts and is listed for it.      *)

Mentions(t, w) ==
  \/ w \in Hosted(t) \/ w \in dirtyLocal[t] \/ local[t][w] # NewInfo
  \/ About(up[t], w) # {}
  \/ w \in Listed /\ worldSubs[w].server = t

OneOwner ==
  \A w \in Worlds, t \in Servers : Mentions(t, w) => w \in used /\ \A u \in Servers \ {t} : ~Mentions(u, w)

(* A process that is down runs no world. *)
IdleHosts == \A s \in Servers : proc[s] = "down" => Hosted(s) = {}

OwnerInv == OneOwner /\ IdleHosts

LEMMA OwnerInit == Init => OwnerInv
BY NoServerAssumption DEF Init, OwnerInv, OneOwner, IdleHosts, Mentions, Hosted, Listed, About

LEMMA OwnerKept ==
  ASSUME OneOwner, used \subseteq used', \A w \in Worlds, t \in Servers : Mentions(t, w)' => Mentions(t, w)
  PROVE  OneOwner'
BY DEF OneOwner

LEMMA AboutQueue ==
  ASSUME NEW S, NEW q \in Seq(S), NEW w
  PROVE  /\ About(<<>>, w) = {}
         /\ q # <<>> => (About(Tail(q), w) # {} => About(q, w) # {})
         /\ q # <<>> => (w \in DOMAIN Head(q).about <=> 1 \in About(q, w))
         /\ \A m \in S : About(Append(q, m), w) # {} => About(q, w) # {} \/ w \in DOMAIN m.about
<1>1. About(<<>>, w) = {} BY DEF About
<1>2. ASSUME q # <<>>, NEW j \in About(Tail(q), w) PROVE About(q, w) # {}
  <2>1. j + 1 \in DOMAIN q /\ q[j + 1] = Tail(q)[j] BY <1>2 DEF About
  <2>2. w \in DOMAIN Tail(q)[j].about BY <1>2 DEF About
  <2>3. j + 1 \in About(q, w) BY <2>1, <2>2 DEF About
  <2> QED BY <2>3
<1>3. q # <<>> => (w \in DOMAIN Head(q).about <=> 1 \in About(q, w)) BY DEF About
<1>4. ASSUME NEW m \in S, NEW j \in About(Append(q, m), w), w \notin DOMAIN m.about PROVE About(q, w) # {}
  <2>1. j \in DOMAIN Append(q, m) /\ w \in DOMAIN Append(q, m)[j].about BY <1>4 DEF About
  <2>2. \/ j \in DOMAIN q /\ Append(q, m)[j] = q[j]
        \/ Append(q, m)[j] = m
    BY <2>1
  <2>3. j \in About(q, w) BY <1>4, <2>1, <2>2 DEF About
  <2> QED BY <2>3
<1> QED BY <1>1, <1>2, <1>3, <1>4

(* The Master's steps. *)
LEMMA OwnerMaster ==
  ASSUME TypeOK, OwnerInv, NEW s \in Servers,
         \/ \E w \in Worlds : OnWorldCreated(s, w)
         \/ \E m : WorldUpdate(s, m)
         \/ AddServer(s) \/ ServerReady(s) \/ RemoveServer(s)
  PROVE  OwnerInv'
<1>1. world' = world /\ local' = local /\ dirtyLocal' = dirtyLocal /\ used' = used
      /\ \A t \in Servers : Hosted(t)' = Hosted(t)
  BY DEF OnWorldCreated, WorldUpdate, AddServer, ServerReady, RemoveServer, gameVars, Hosted
<1>2. \A t \in Servers : proc'[t] = "down" => proc[t] = "down"
  BY DEF OnWorldCreated, WorldUpdate, AddServer, ServerReady, RemoveServer, TypeOK
<1>3. IdleHosts' BY <1>1, <1>2 DEF OwnerInv, IdleHosts
<1>4. \A t \in Servers : up[t] \in Seq(UpMsg) BY DEF TypeOK
<1>5. \A t \in Servers : up'[t] = up[t] \/ up'[t] = <<>> \/ (up[t] # <<>> /\ up'[t] = Tail(up[t]))
  BY DEF OnWorldCreated, WorldUpdate, FromServer, AddServer, ServerReady, RemoveServer, TypeOK
<1>6. \A t \in Servers, w \in Worlds : About(up'[t], w) # {} => About(up[t], w) # {}
  BY <1>4, <1>5, AboutQueue
<1>7. ASSUME NEW w \in Worlds, w \in Listed' PROVE Mentions(worldSubs'[w].server, w)
  <2>1. ASSUME NEW v \in Worlds, OnWorldCreated(s, v) PROVE Mentions(worldSubs'[w].server, w)
    <3>1. CASE w = v
      <4>1. up[s] # <<>> /\ w \in DOMAIN Head(up[s]).about
        BY <2>1, <3>1 DEF OnWorldCreated, FromServer, InitOK
      <4>2. About(up[s], w) # {} BY <1>4, <4>1, AboutQueue
      <4>3. worldSubs'[w].server = s BY <2>1, <3>1 DEF OnWorldCreated, TypeOK
      <4> QED BY <4>2, <4>3 DEF Mentions
    <3>2. CASE w # v
      <4>1. worldSubs'[w] = worldSubs[w] BY <2>1, <3>2 DEF OnWorldCreated, TypeOK
      <4> QED BY <1>7, <4>1 DEF Mentions, Listed
    <3> QED BY <3>1, <3>2
  <2>2. ASSUME NEW m, WorldUpdate(s, m) PROVE Mentions(worldSubs'[w].server, w)
    <3>1. worldSubs'[w] = worldSubs[w] \/ (w \in Listed /\ worldSubs'[w].server = worldSubs[w].server)
      BY <2>2 DEF WorldUpdate, Reported
    <3> QED BY <1>7, <3>1 DEF Mentions, Listed
  <2>3. CASE AddServer(s) \/ ServerReady(s)
    BY <1>7, <2>3 DEF AddServer, ServerReady, Mentions, Listed
  <2>4. CASE RemoveServer(s)
    BY <1>7, <2>4 DEF RemoveServer, Without, Mentions, Listed
  <2> QED BY <2>1, <2>2, <2>3, <2>4
<1>8. ASSUME NEW w \in Worlds, NEW t \in Servers, Mentions(t, w)' PROVE Mentions(t, w)
  BY <1>1, <1>6, <1>7, <1>8 DEF Mentions
<1>9. OneOwner' BY <1>1, <1>8, OwnerKept DEF OwnerInv
<1> QED BY <1>3, <1>9 DEF OwnerInv

(* A packet that is sent to the Master is about worlds its sender has.     *)
LEMMA ToMasterAbout ==
  ASSUME TypeOK, NEW s \in Servers, NEW m \in UpMsg, ToMaster(s, m)
  PROVE  \A t \in Servers, w \in Worlds :
           About(up'[t], w) # {} => About(up[t], w) # {} \/ (t = s /\ w \in DOMAIN m.about)
<1> SUFFICES ASSUME NEW t \in Servers, NEW w \in Worlds, About(up'[t], w) # {}
             PROVE  About(up[t], w) # {} \/ (t = s /\ w \in DOMAIN m.about)
  OBVIOUS
<1>1. up[t] \in Seq(UpMsg) BY DEF TypeOK
<1>2. up'[t] = up[t] \/ (t = s /\ up'[t] = Append(up[t], m)) BY DEF ToMaster, TypeOK
<1> QED BY <1>1, <1>2, AboutQueue

LEMMA FlushType ==
  ASSUME TypeOK, NEW s \in Servers
  PROVE  LET m == Update([w \in dirtyLocal[s] |-> local[s][w]]) IN
           m \in UpMsg /\ DOMAIN m.about = dirtyLocal[s] /\ m.kind = "update"
<1>1. dirtyLocal[s] \in SUBSET Worlds /\ [w \in dirtyLocal[s] |-> local[s][w]] \in [dirtyLocal[s] -> Infos]
  BY DEF TypeOK
<1> QED BY <1>1, MessageTypes DEF Update

LEMMA OwnerReady ==
  ASSUME TypeOK, OwnerInv, NEW s \in Servers, NEW v \in Worlds, NEW i \in Infos, WorldReady(s, v, i)
  PROVE  OwnerInv'
<1>1. /\ local' = local /\ dirtyLocal' = dirtyLocal /\ worldSubs' = worldSubs /\ proc' = proc
      /\ used' = used \cup {v} /\ v \notin used /\ proc[s] = "linked" /\ Listed' = Listed
  BY DEF WorldReady, masterVars, Listed
<1>2. \A t \in Servers, w \in Worlds : t # s \/ w # v => (w \in Hosted(t)' <=> w \in Hosted(t))
  BY DEF WorldReady, Hosted, TypeOK
<1>3. InitOK(v) \in UpMsg /\ DOMAIN InitOK(v).about = {v} BY MessageTypes DEF InitOK
<1>4. \A t \in Servers, w \in Worlds : About(up'[t], w) # {} => About(up[t], w) # {} \/ (t = s /\ w = v)
  BY <1>3, ToMasterAbout DEF WorldReady
<1>5. \A t \in Servers, w \in Worlds : Mentions(t, w)' => Mentions(t, w) \/ (t = s /\ w = v)
  BY <1>1, <1>2, <1>4 DEF Mentions
<1>6. \A t \in Servers : ~Mentions(t, v) BY <1>1 DEF OwnerInv, OneOwner
<1>7. OneOwner' BY <1>1, <1>5, <1>6 DEF OwnerInv, OneOwner
<1>8. IdleHosts'
  <2> SUFFICES ASSUME NEW t \in Servers, proc'[t] = "down" PROVE Hosted(t)' = {} BY DEF IdleHosts
  <2>1. t # s /\ proc[t] = "down" BY <1>1
  <2>2. Hosted(t)' = Hosted(t) BY <1>2, <2>1 DEF Hosted
  <2> QED BY <2>1, <2>2 DEF OwnerInv, IdleHosts
<1> QED BY <1>7, <1>8 DEF OwnerInv

LEMMA OwnerGame ==
  ASSUME TypeOK, OwnerInv, NEW s \in Servers,
         \/ \E m : OnTCPPacket(s, m)
         \/ \E w \in Worlds, i \in Infos : WorldChanges(s, w, i)
         \/ UpdateWorlds(s) \/ FlushLocal(s) \/ LoseLink(s) \/ Crash(s)
  PROVE  OwnerInv'
<1>1. worldSubs' = worldSubs /\ used' = used /\ Listed' = Listed
  BY DEF OnTCPPacket, WorldChanges, UpdateWorlds, FlushLocal, LoseLink, Crash, masterVars, Listed
<1>2. /\ \A t \in Servers, w \in Worlds : w \in Hosted(t)' => w \in Hosted(t)
      /\ \A t \in Servers : proc'[t] = "down" => proc[t] = "down" \/ Hosted(t)' = {}
  <2>1. ASSUME NEW w \in Worlds, NEW i \in Infos, WorldChanges(s, w, i)
        PROVE  proc' = proc /\ \A t \in Servers, v \in Worlds : v \in Hosted(t)' => v \in Hosted(t)
    BY <2>1 DEF WorldChanges, Hosted, TypeOK
  <2>2. CASE Crash(s)
    <3>1. Hosted(s)' = {} BY <2>2 DEF Crash, Hosted, TypeOK
    <3>2. \A t \in Servers \ {s} : proc'[t] = proc[t] /\ Hosted(t)' = Hosted(t) BY <2>2 DEF Crash, Hosted, TypeOK
    <3> QED BY <3>1, <3>2
  <2>3. CASE (\E m : OnTCPPacket(s, m)) \/ UpdateWorlds(s) \/ FlushLocal(s) \/ LoseLink(s)
    <3>1. world' = world BY <2>3 DEF OnTCPPacket, UpdateWorlds, FlushLocal, LoseLink, gameVars
    <3>2. \A t \in Servers : proc'[t] = "down" => proc[t] = "down"
      BY <2>3 DEF OnTCPPacket, UpdateWorlds, FlushLocal, LoseLink, TypeOK
    <3> QED BY <3>1, <3>2 DEF Hosted
  <2> QED BY <2>1, <2>2, <2>3
<1>3. IdleHosts' BY <1>2 DEF OwnerInv, IdleHosts, Hosted
<1>4. CASE (\E m : OnTCPPacket(s, m)) \/ (\E w \in Worlds, i \in Infos : WorldChanges(s, w, i)) \/ LoseLink(s)
  <2>1. up' = up /\ local' = local /\ dirtyLocal' = dirtyLocal
    BY <1>4 DEF OnTCPPacket, WorldChanges, LoseLink, gameVars
  <2>2. \A w \in Worlds, t \in Servers : Mentions(t, w)' => Mentions(t, w) BY <1>1, <1>2, <2>1 DEF Mentions
  <2>3. OneOwner' BY <1>1, <2>2, OwnerKept DEF OwnerInv
  <2> QED BY <1>3, <2>3 DEF OwnerInv
<1>5. CASE Crash(s)
  <2>1. up' = up /\ \A t \in Servers, w \in Worlds :
               /\ w \in dirtyLocal'[t] => w \in dirtyLocal[t]
               /\ local'[t][w] # NewInfo => local[t][w] # NewInfo
    BY <1>5 DEF Crash, TypeOK
  <2>2. \A w \in Worlds, t \in Servers : Mentions(t, w)' => Mentions(t, w) BY <1>1, <1>2, <2>1 DEF Mentions
  <2>3. OneOwner' BY <1>1, <2>2, OwnerKept DEF OwnerInv
  <2> QED BY <1>3, <2>3 DEF OwnerInv
<1>6. CASE UpdateWorlds(s)
  <2>1. up' = up /\ \A t \in Servers, w \in Worlds :
               /\ w \in dirtyLocal'[t] => w \in dirtyLocal[t] \/ w \in Hosted(t)
               /\ local'[t][w] # NewInfo => local[t][w] # NewInfo \/ w \in Hosted(t)
    BY <1>6 DEF UpdateWorlds, Changed, TypeOK
  <2>2. \A w \in Worlds, t \in Servers : Mentions(t, w)' => Mentions(t, w) BY <1>1, <1>2, <2>1 DEF Mentions
  <2>3. OneOwner' BY <1>1, <2>2, OwnerKept DEF OwnerInv
  <2> QED BY <1>3, <2>3 DEF OwnerInv
<1>7. CASE FlushLocal(s)
  <2>1. local' = local /\ \A t \in Servers : dirtyLocal'[t] \subseteq dirtyLocal[t] BY <1>7 DEF FlushLocal, TypeOK
  <2>2. \A t \in Servers, w \in Worlds : About(up'[t], w) # {} => About(up[t], w) # {} \/ w \in dirtyLocal[t]
    BY <1>7, FlushType, ToMasterAbout DEF FlushLocal
  <2>3. \A w \in Worlds, t \in Servers : Mentions(t, w)' => Mentions(t, w)
    BY <1>1, <1>2, <2>1, <2>2 DEF Mentions
  <2>4. OneOwner' BY <1>1, <2>3, OwnerKept DEF OwnerInv
  <2> QED BY <1>3, <2>4 DEF OwnerInv
<1> QED BY <1>4, <1>5, <1>6, <1>7

LEMMA OwnerNext == TypeOK /\ OwnerInv /\ [Next]_vars => OwnerInv'
<1>1. ASSUME OwnerInv, UNCHANGED <<worldSubs, up, proc, gameVars, used>> PROVE OwnerInv'
  <2>1. \A t \in Servers : Hosted(t)' = Hosted(t) BY <1>1 DEF Hosted, gameVars
  <2>2. \A w \in Worlds, t \in Servers : Mentions(t, w)' => Mentions(t, w)
    BY <1>1, <2>1 DEF Mentions, Listed, gameVars
  <2>3. OneOwner' BY <1>1, <2>2, OwnerKept DEF OwnerInv
  <2> QED BY <1>1, <2>1, <2>3 DEF OwnerInv, IdleHosts
<1>2. FlushWorlds \/ UNCHANGED vars => UNCHANGED <<worldSubs, up, proc, gameVars, used>>
  BY DEF FlushWorlds, vars, masterVars, gameVars
<1>3. ASSUME TypeOK, OwnerInv, NEW s \in Servers, AnyStep(s) PROVE OwnerInv'
  BY <1>3, OwnerMaster, OwnerReady, OwnerGame DEF AnyStep
<1> QED BY <1>1, <1>2, <1>3, Steps
-----------------------------------------------------------------------------
(* The reports reach the Master.                                           *)

AllReach == \A t \in Servers, w \in Worlds : proc[t] = "linked" /\ w \in Hosted(t) => Reaches(t, w)

(* The first packet about the world is the report of the world itself.     *)
Announced(q, w) == \E i \in About(q, w) : q[i].kind = "init" /\ \A j \in About(q, w) : i <= j

LEMMA ReachesParts ==
  ASSUME NEW t, NEW w
  PROVE  Reaches(t, w) <=> /\ w \in Listed \/ Announced(up[t], w)
                           /\ w \in dirtyLocal[t] \/ WillSay(up[t], worldSubs[w].info, w, local[t][w])
BY DEF Reaches, Announced

LEMMA AnnouncedAppend ==
  ASSUME NEW S, NEW q \in Seq(S), NEW m \in S, NEW w, Announced(q, w), NEW p, p = Append(q, m)
  PROVE  Announced(p, w)
<1>1. PICK i \in About(q, w) : q[i].kind = "init" /\ \A j \in About(q, w) : i <= j BY DEF Announced
<1>2. i \in DOMAIN p /\ p[i] = q[i] /\ i \in 1..Len(q) BY DEF About
<1>3. i \in About(p, w) BY <1>2 DEF About
<1>4. ASSUME NEW j \in About(p, w) PROVE i <= j
  <2>1. CASE j \in DOMAIN q
    <3>1. j \in About(q, w) BY <1>4, <2>1 DEF About
    <3> QED BY <1>1, <3>1
  <2>2. CASE j \notin DOMAIN q
    <3>1. j = Len(q) + 1 BY <2>2 DEF About
    <3> QED BY <1>2, <3>1
  <2> QED BY <2>1, <2>2
<1> QED BY <1>1, <1>2, <1>3, <1>4 DEF Announced

(* The Master, for which the info of w is x, handles the head.             *)
LEMMA UpTail ==
  ASSUME NEW S, NEW q \in Seq(S), q # <<>>, NEW w, NEW x, NEW y,
         y = IF w \in DOMAIN Head(q).about THEN Head(q).about[w] ELSE x
  PROVE  /\ \A i : WillSay(q, x, w, i) => WillSay(Tail(q), y, w, i)
         /\ Announced(q, w) /\ w \in DOMAIN Head(q).about => Head(q).kind = "init"
         /\ Announced(q, w) /\ w \notin DOMAIN Head(q).about => Announced(Tail(q), w)
<1> DEFINE p == Tail(q)
           n == Len(q)
<1>1. /\ n \in Nat \ {0} /\ DOMAIN q = 1..n /\ DOMAIN p = 1..(n - 1) /\ \A j \in 1..(n - 1) : p[j] = q[j + 1]
      /\ q[1] = Head(q)
  OBVIOUS
<1> HIDE DEF p, n
<1>2. /\ About(q, w) \subseteq 1..n /\ About(p, w) \subseteq 1..(n - 1)
      /\ \A j \in 1..(n - 1) : j \in About(p, w) <=> j + 1 \in About(q, w)
      /\ 1 \in About(q, w) <=> w \in DOMAIN Head(q).about
  BY <1>1 DEF About
<1>3. /\ \A j \in 1..(n - 1) : IsLast(j, About(p, w)) <=> IsLast(j + 1, About(q, w))
      /\ About(p, w) = {} => \A k : IsLast(k, About(q, w)) <=> k = 1 /\ 1 \in About(q, w)
      /\ About(p, w) = {} /\ 1 \notin About(q, w) <=> About(q, w) = {}
      /\ About(p, w) # {} => ~IsLast(1, About(q, w))
  BY <1>1, <1>2, LastShift
<1>4. \A k \in 1..n : k = 1 \/ (k - 1 \in 1..(n - 1) /\ (k - 1) + 1 = k) BY <1>1
<1>5. ASSUME NEW i, WillSay(q, x, w, i) PROVE WillSay(p, y, w, i)
  <2>1. CASE About(q, w) = {} /\ x = i
    BY <1>2, <1>3, <2>1 DEF WillSay
  <2>2. ASSUME NEW k \in DOMAIN q, IsLast(k, About(q, w)), q[k].about[w] = i PROVE WillSay(p, y, w, i)
    <3>1. CASE k = 1
      <4>1. About(p, w) = {} /\ 1 \in About(q, w) BY <1>3, <2>2, <3>1 DEF IsLast
      <4>2. y = i BY <1>1, <1>2, <2>2, <3>1, <4>1
      <4> QED BY <4>1, <4>2 DEF WillSay
    <3>2. CASE k # 1
      <4>1. k - 1 \in DOMAIN p /\ IsLast(k - 1, About(p, w)) /\ p[k - 1] = q[k] BY <1>1, <1>3, <1>4, <2>2, <3>2
      <4> QED BY <2>2, <4>1 DEF WillSay
    <3> QED BY <3>1, <3>2
  <2> QED BY <1>5, <2>1, <2>2 DEF WillSay
<1>6. ASSUME Announced(q, w), w \in DOMAIN Head(q).about PROVE Head(q).kind = "init"
  <2>1. PICK i \in About(q, w) : q[i].kind = "init" /\ \A j \in About(q, w) : i <= j BY <1>6 DEF Announced
  <2>2. i \in 1..n /\ i <= 1 BY <1>2, <1>6, <2>1
  <2>3. i = 1 BY <1>1, <2>2
  <2> QED BY <1>1, <2>1, <2>3
<1>7. ASSUME Announced(q, w), w \notin DOMAIN Head(q).about PROVE Announced(p, w)
  <2>1. PICK i \in About(q, w) : q[i].kind = "init" /\ \A j \in About(q, w) : i <= j BY <1>7 DEF Announced
  <2>2. i \in 1..n /\ i # 1 BY <1>2, <1>7, <2>1
  <2>3. i - 1 \in 1..(n - 1) /\ (i - 1) + 1 = i BY <1>4, <2>2
  <2>4. i - 1 \in About(p, w) /\ p[i - 1].kind = "init" BY <1>1, <1>2, <2>1, <2>3
  <2>5. ASSUME NEW j \in About(p, w) PROVE i - 1 <= j
    <3>1. j \in 1..(n - 1) /\ i <= j + 1 BY <1>2, <2>1, <2>5
    <3> QED BY <1>1, <2>2, <3>1
  <2> QED BY <2>4, <2>5 DEF Announced
<1> QED BY <1>5, <1>6, <1>7 DEF p

LEMMA ReachesKept ==
  ASSUME NEW t \in Servers, NEW w \in Worlds, Reaches(t, w), up'[t] = up[t], local'[t][w] = local[t][w],
         w \in dirtyLocal[t] => w \in dirtyLocal'[t], worldSubs'[w] = worldSubs[w]
  PROVE  Reaches(t, w)'
<1>1. w \in Listed' <=> w \in Listed BY DEF Listed
<1>2. w \in Listed \/ Announced(up[t], w) BY ReachesParts
<1>3. w \in Listed' \/ Announced(up'[t], w) BY <1>1, <1>2
<1>4. w \in dirtyLocal[t] \/ WillSay(up[t], worldSubs[w].info, w, local[t][w]) BY ReachesParts
<1>5. w \in dirtyLocal'[t] \/ WillSay(up'[t], worldSubs'[w].info, w, local'[t][w]) BY <1>4
<1> QED BY <1>3, <1>5 DEF Reaches, Announced

(* Nobody but its server says anything of a world, or is listed for it.    *)
LEMMA OnlyOwner ==
  ASSUME TypeOK, OwnerInv, NEW t \in Servers, NEW w \in Worlds, w \in Hosted(t), NEW s \in Servers, s # t
  PROVE  /\ ~(w \in Listed /\ worldSubs[w].server = s)
         /\ up[s] # <<>> => w \notin DOMAIN Head(up[s]).about
<1>1. ~Mentions(s, w) BY DEF OwnerInv, OneOwner, Mentions
<1>2. up[s] \in Seq(UpMsg) BY DEF TypeOK
<1>3. About(up[s], w) = {} BY <1>1 DEF Mentions
<1> QED BY <1>1, <1>2, <1>3, AboutQueue DEF Mentions

(* The Master handles a packet of s.                                       *)
LEMMA ReachHandled ==
  ASSUME TypeOK, OwnerInv, AllReach, NEW s \in Servers, up[s] # <<>>,
         UNCHANGED <<proc, world, local, dirtyLocal>>, up' = [up EXCEPT ![s] = Tail(@)],
         \A w \in Worlds \ DOMAIN Head(up[s]).about : worldSubs'[w] = worldSubs[w],
         \A w \in DOMAIN Head(up[s]).about :
           w \in Listed \/ Head(up[s]).kind = "init" => w \in Listed' /\ worldSubs'[w].info = Head(up[s]).about[w]
  PROVE  AllReach'
<1> SUFFICES ASSUME NEW t \in Servers, NEW w \in Worlds, proc[t] = "linked", w \in Hosted(t)
             PROVE  Reaches(t, w)'
  BY DEF AllReach, Hosted
<1> DEFINE q == up[s]
<1>1. Reaches(t, w) BY DEF AllReach
<1>2. q \in Seq(UpMsg) /\ up'[s] = Tail(q) BY DEF TypeOK
<1>3. CASE t # s
  <2>1. w \notin DOMAIN Head(q).about BY <1>3, OnlyOwner
  <2>2. up'[t] = up[t] BY <1>3 DEF TypeOK
  <2> QED BY <1>1, <2>1, <2>2, ReachesKept
<1>4. CASE t = s
  <2>1. w \in Listed \/ Announced(q, w) BY <1>1, <1>4, ReachesParts
  <2>2. w \in DOMAIN Head(q).about => w \in Listed' /\ worldSubs'[w].info = Head(q).about[w]
    BY <1>2, <2>1, UpTail
  <2>3. w \notin DOMAIN Head(q).about => worldSubs'[w] = worldSubs[w] /\ (w \in Listed' <=> w \in Listed)
    BY DEF Listed
  <2>4. w \in Listed' \/ Announced(Tail(q), w) BY <1>2, <2>1, <2>2, <2>3, UpTail
  <2>5. worldSubs'[w].info = IF w \in DOMAIN Head(q).about THEN Head(q).about[w] ELSE worldSubs[w].info
    BY <2>2, <2>3
  <2>6. \A i : WillSay(q, worldSubs[w].info, w, i) => WillSay(Tail(q), worldSubs'[w].info, w, i)
    BY <1>2, <2>5, UpTail
  <2>7. w \in dirtyLocal[s] \/ WillSay(q, worldSubs[w].info, w, local[s][w]) BY <1>1, <1>4, ReachesParts
  <2>8. w \in dirtyLocal'[s] \/ WillSay(up'[s], worldSubs'[w].info, w, local'[s][w]) BY <1>2, <2>6, <2>7
  <2> QED BY <1>2, <1>4, <2>4, <2>8 DEF Reaches, Announced
<1> QED BY <1>3, <1>4

LEMMA ReachMaster ==
  ASSUME AllReadable, TypeOK, OwnerInv, AllReach, NEW s \in Servers,
         \/ \E w \in Worlds : OnWorldCreated(s, w)
         \/ \E m : WorldUpdate(s, m)
  PROVE  AllReach'
<1>1. ASSUME NEW v \in Worlds, OnWorldCreated(s, v) PROVE AllReach'
  <2>1. up[s] # <<>> /\ Head(up[s]) = InitOK(v) /\ up' = [up EXCEPT ![s] = Tail(@)]
    BY <1>1 DEF OnWorldCreated, FromServer
  <2>2. DOMAIN InitOK(v).about = {v} /\ InitOK(v).about[v] = NewInfo BY DEF InitOK
  <2>3. worldSubs' = [worldSubs EXCEPT ![v] = [server |-> s, info |-> NewInfo]] BY <1>1 DEF OnWorldCreated
  <2>4. v \in Listed' /\ worldSubs'[v].info = NewInfo
    BY <2>3, NoServerAssumption DEF Listed, Unlisted, TypeOK
  <2>5. \A w \in Worlds \ {v} : worldSubs'[w] = worldSubs[w] BY <2>3 DEF TypeOK
  <2>6. UNCHANGED <<proc, world, local, dirtyLocal>> BY <1>1 DEF OnWorldCreated, gameVars
  <2> QED BY <2>1, <2>2, <2>4, <2>5, <2>6, ReachHandled
<1>2. ASSUME NEW m, WorldUpdate(s, m) PROVE AllReach'
  <2>1. up[s] # <<>> /\ Head(up[s]) = m /\ up' = [up EXCEPT ![s] = Tail(@)] /\ m.kind = "update"
    BY <1>2 DEF WorldUpdate, FromServer
  <2>2. m \in UpMsg BY <1>2, FromServerType DEF WorldUpdate
  <2>3. Readable(m) /\ DOMAIN m.about \subseteq Worlds BY <2>2, AllRead, AboutTypes
  <2>4. Reported(m) = Listed \cap DOMAIN m.about BY <2>3 DEF Reported
  <2>5. \A w \in Worlds : w \notin Reported(m) => worldSubs'[w] = worldSubs[w] BY <1>2 DEF WorldUpdate
  <2>6. \A w \in Reported(m) :
          /\ w \in Worlds /\ worldSubs[w].server \in Servers
          /\ worldSubs'[w] = [server |-> worldSubs[w].server, info |-> m.about[w]]
    BY <1>2 DEF WorldUpdate, Reported, Listed, TypeOK
  <2>7. ASSUME NEW w \in Reported(m) PROVE w \in Listed' /\ worldSubs'[w].info = m.about[w]
    <3> DEFINE old == worldSubs[w].server
    <3>1. w \in Worlds /\ old \in Servers /\ worldSubs'[w] = [server |-> old, info |-> m.about[w]] BY <2>6
    <3> HIDE DEF old
    <3>2. worldSubs'[w].server # NoServer /\ worldSubs'[w].info = m.about[w] /\ w \in Worlds
      BY <3>1, NoServerAssumption
    <3>3. worldSubs'[w] # Unlisted BY <3>2 DEF Unlisted
    <3> QED BY <3>2, <3>3 DEF Listed
  <2>8. UNCHANGED <<proc, world, local, dirtyLocal>> BY <1>2 DEF WorldUpdate, gameVars
  <2> QED BY <2>1, <2>4, <2>5, <2>7, <2>8, ReachHandled
<1> QED BY <1>1, <1>2

(* Steps that neither report nor handle a report.                          *)
LEMMA ReachOther ==
  ASSUME TypeOK, OwnerInv, AllReach, NEW s \in Servers,
         \/ FlushWorlds
         \/ AddServer(s) \/ ServerReady(s) \/ RemoveServer(s)
         \/ \E m : OnTCPPacket(s, m)
         \/ \E w \in Worlds, i \in Infos : WorldChanges(s, w, i)
         \/ LoseLink(s) \/ Crash(s)
  PROVE  AllReach'
<1> SUFFICES ASSUME NEW t \in Servers, NEW w \in Worlds, proc'[t] = "linked", w \in Hosted(t)'
             PROVE  Reaches(t, w)'
  BY DEF AllReach
<1>1. CASE FlushWorlds \/ ServerReady(s) \/ \E m : OnTCPPacket(s, m)
  <2>1. UNCHANGED <<proc, world, worldSubs, up, local, dirtyLocal>>
    BY <1>1 DEF FlushWorlds, ServerReady, OnTCPPacket, masterVars, gameVars
  <2>2. Reaches(t, w) BY <2>1 DEF AllReach, Hosted
  <2> QED BY <2>1, <2>2, ReachesKept
<1>2. CASE AddServer(s)
  <2>1. UNCHANGED <<world, worldSubs, up, local, dirtyLocal>> /\ proc[s] = "down" BY <1>2 DEF AddServer, gameVars
  <2>2. w \in Hosted(t) BY <2>1 DEF Hosted
  <2>3. t # s BY <2>1, <2>2 DEF OwnerInv, IdleHosts
  <2>4. proc[t] = "linked" BY <1>2, <2>3 DEF AddServer, TypeOK
  <2>5. Reaches(t, w) BY <2>2, <2>4 DEF AllReach
  <2> QED BY <2>1, <2>5, ReachesKept
<1>3. CASE RemoveServer(s)
  <2>1. UNCHANGED <<proc, world, local, dirtyLocal>> /\ proc[s] # "linked" BY <1>3 DEF RemoveServer, gameVars
  <2>2. w \in Hosted(t) /\ t # s /\ proc[t] = "linked" BY <2>1 DEF Hosted
  <2>3. w \notin WorldsOf(s) BY <2>2, OnlyOwner DEF WorldsOf
  <2>4. worldSubs'[w] = worldSubs[w] /\ up'[t] = up[t] BY <1>3, <2>2, <2>3 DEF RemoveServer, Without, TypeOK
  <2>5. Reaches(t, w) BY <2>2 DEF AllReach
  <2> QED BY <2>1, <2>4, <2>5, ReachesKept
<1>4. ASSUME NEW v \in Worlds, NEW i \in Infos, WorldChanges(s, v, i) PROVE Reaches(t, w)'
  <2>1. UNCHANGED <<proc, worldSubs, up, local, dirtyLocal>> BY <1>4 DEF WorldChanges, masterVars
  <2>2. w \in Hosted(t) BY <1>4 DEF WorldChanges, Hosted, TypeOK
  <2>3. Reaches(t, w) BY <2>1, <2>2 DEF AllReach
  <2> QED BY <2>1, <2>3, ReachesKept
<1>5. CASE LoseLink(s) \/ Crash(s)
  <2>1. UNCHANGED <<worldSubs, up>> /\ t # s BY <1>5 DEF LoseLink, Crash, masterVars, TypeOK
  <2>2. proc'[t] = proc[t] /\ world'[t] = world[t] /\ local'[t] = local[t] /\ dirtyLocal'[t] = dirtyLocal[t]
    BY <1>5, <2>1 DEF LoseLink, Crash, gameVars, TypeOK
  <2>3. Reaches(t, w) BY <2>2 DEF AllReach, Hosted
  <2> QED BY <2>1, <2>2, <2>3, ReachesKept
<1> QED BY <1>1, <1>2, <1>3, <1>4, <1>5

LEMMA ReachReady ==
  ASSUME TypeOK, OwnerInv, AllReach, NEW s \in Servers, NEW v \in Worlds, NEW i \in Infos, WorldReady(s, v, i)
  PROVE  AllReach'
<1> SUFFICES ASSUME NEW t \in Servers, NEW w \in Worlds, proc'[t] = "linked", w \in Hosted(t)'
             PROVE  Reaches(t, w)'
  BY DEF AllReach
<1>1. UNCHANGED <<proc, worldSubs, local, dirtyLocal>> /\ v \notin used /\ proc[s] = "linked"
  BY DEF WorldReady, masterVars
<1> DEFINE m == InitOK(v)
<1>2. up[s] \in Seq(UpMsg) BY DEF TypeOK
<1>3. m \in UpMsg /\ DOMAIN m.about = {v} /\ m.about[v] = NewInfo /\ m.kind = "init"
  BY MessageTypes DEF InitOK
<1>4. up'[s] = Append(up[s], m) /\ \A u \in Servers \ {s} : up'[u] = up[u] BY DEF WorldReady, ToMaster, TypeOK
<1> HIDE DEF m
<1>5. CASE w = v
  <2>1. \A u \in Servers : ~Mentions(u, v) BY <1>1 DEF OwnerInv, OneOwner
  <2>2. \A u \in Servers \ {s} : v \notin Hosted(u)' BY <2>1 DEF WorldReady, Mentions, Hosted, TypeOK
  <2>3. t = s BY <1>5, <2>2
  <2>4. local'[s][v] = NewInfo /\ About(up[s], v) = {} BY <1>1, <2>1 DEF Mentions
  <2>5. WillSay(up'[s], worldSubs'[v].info, v, m.about[v]) BY <1>2, <1>3, <1>4, AppendAbout
  <2>6. Announced(up'[s], v)
    <3> DEFINE n == Len(up[s])
    <3>1. DOMAIN up'[s] = 1..(n + 1) /\ up'[s][n + 1] = m /\ n \in Nat
          /\ \A j \in 1..n : j \in DOMAIN up[s] /\ up'[s][j] = up[s][j]
      BY <1>2, <1>3, <1>4
    <3>2. About(up'[s], v) = {n + 1} BY <1>3, <2>4, <3>1 DEF About
    <3> QED BY <1>3, <3>1, <3>2 DEF Announced
  <2> QED BY <1>3, <1>5, <2>3, <2>4, <2>5, <2>6 DEF Reaches, Announced
<1>6. CASE w # v
  <2>1. w \in Hosted(t) BY <1>6 DEF WorldReady, Hosted, TypeOK
  <2>2. Reaches(t, w) BY <1>1, <2>1 DEF AllReach
  <2>3. CASE t # s BY <1>1, <1>4, <2>2, <2>3, ReachesKept
  <2>4. CASE t = s
    <3>1. \A j : WillSay(up'[s], worldSubs[w].info, w, j) <=> WillSay(up[s], worldSubs[w].info, w, j)
      BY <1>2, <1>3, <1>4, <1>6, AppendOther
    <3>2. Announced(up[s], w) => Announced(up'[s], w) BY <1>2, <1>3, <1>4, AnnouncedAppend
    <3>3. /\ w \in Listed \/ Announced(up[s], w)
          /\ w \in dirtyLocal[s] \/ WillSay(up[s], worldSubs[w].info, w, local[s][w])
      BY <2>2, <2>4, ReachesParts
    <3>4. w \in Listed' <=> w \in Listed BY <1>1 DEF Listed
    <3>5. w \in Listed' \/ Announced(up'[s], w) BY <3>2, <3>3, <3>4
    <3>6. w \in dirtyLocal'[s] \/ WillSay(up'[s], worldSubs'[w].info, w, local'[s][w]) BY <1>1, <3>1, <3>3
    <3> QED BY <2>4, <3>5, <3>6 DEF Reaches, Announced
  <2> QED BY <2>3, <2>4
<1> QED BY <1>5, <1>6

LEMMA ReachUpdateWorlds ==
  ASSUME TypeOK, AllReach, NEW s \in Servers, UpdateWorlds(s)
  PROVE  AllReach'
<1> SUFFICES ASSUME NEW t \in Servers, NEW w \in Worlds, proc'[t] = "linked", w \in Hosted(t)'
             PROVE  Reaches(t, w)'
  BY DEF AllReach
<1>1. UNCHANGED <<worldSubs, up, proc, world>> /\ Listed' = Listed BY DEF UpdateWorlds, masterVars, Listed
<1>2. Reaches(t, w) BY <1>1 DEF AllReach, Hosted
<1>3. CASE t # s \/ w \notin Changed(s)
  <2>1. local'[t][w] = local[t][w] /\ (w \in dirtyLocal[t] => w \in dirtyLocal'[t])
    BY <1>3 DEF UpdateWorlds, TypeOK
  <2> QED BY <1>1, <1>2, <2>1, ReachesKept
<1>4. CASE t = s /\ w \in Changed(s)
  <2>1. w \in dirtyLocal'[s] BY <1>4 DEF UpdateWorlds, TypeOK
  <2>2. w \in Listed \/ Announced(up[t], w) BY <1>2, ReachesParts
  <2> QED BY <1>1, <1>4, <2>1, <2>2 DEF Reaches, Announced
<1> QED BY <1>3, <1>4

LEMMA ReachFlushLocal ==
  ASSUME TypeOK, AllReach, NEW s \in Servers, FlushLocal(s)
  PROVE  AllReach'
<1> SUFFICES ASSUME NEW t \in Servers, NEW w \in Worlds, proc'[t] = "linked", w \in Hosted(t)'
             PROVE  Reaches(t, w)'
  BY DEF AllReach
<1> DEFINE m == Update([v \in dirtyLocal[s] |-> local[s][v]])
<1>1. UNCHANGED <<worldSubs, proc, world, local>> /\ Listed' = Listed BY DEF FlushLocal, masterVars, Listed
<1>2. Reaches(t, w) BY <1>1 DEF AllReach, Hosted
<1>3. m \in UpMsg /\ DOMAIN m.about = dirtyLocal[s] /\ \A v \in dirtyLocal[s] : m.about[v] = local[s][v]
  BY FlushType DEF Update
<1>4. ToMaster(s, m) BY DEF FlushLocal
<1> HIDE DEF m
<1>5. CASE t # s
  <2>1. up'[t] = up[t] /\ dirtyLocal'[t] = dirtyLocal[t] BY <1>4, <1>5 DEF FlushLocal, ToMaster, TypeOK
  <2> QED BY <1>1, <1>2, <2>1, ReachesKept
<1>6. CASE t = s
  <2>1. up[s] \in Seq(UpMsg) /\ up'[s] = Append(up[s], m) BY <1>1, <1>4, <1>6 DEF ToMaster, TypeOK
  <2>2. /\ w \in Listed \/ Announced(up[s], w)
        /\ w \in dirtyLocal[s] \/ WillSay(up[s], worldSubs[w].info, w, local[s][w])
    BY <1>2, <1>6, ReachesParts
  <2>3. w \in Listed' \/ Announced(up'[s], w) BY <1>1, <1>3, <2>1, <2>2, AnnouncedAppend
  <2>4. WillSay(up'[s], worldSubs'[w].info, w, local'[s][w])
    <3>1. CASE w \in dirtyLocal[s]
      <4>1. WillSay(up'[s], worldSubs[w].info, w, m.about[w]) BY <1>3, <2>1, <3>1, AppendAbout
      <4> QED BY <1>1, <1>3, <3>1, <4>1
    <3>2. CASE w \notin dirtyLocal[s]
      <4>1. \A j : WillSay(up'[s], worldSubs[w].info, w, j) <=> WillSay(up[s], worldSubs[w].info, w, j)
        BY <1>3, <2>1, <3>2, AppendOther
      <4> QED BY <1>1, <2>2, <3>2, <4>1
    <3> QED BY <3>1, <3>2
  <2> QED BY <1>6, <2>3, <2>4 DEF Reaches, Announced
<1> QED BY <1>5, <1>6

LEMMA ReachNext == AllReadable /\ TypeOK /\ OwnerInv /\ AllReach /\ [Next]_vars => AllReach'
<1> SUFFICES ASSUME AllReadable, TypeOK, OwnerInv, AllReach, [Next]_vars PROVE AllReach'
  OBVIOUS
<1>1. CASE UNCHANGED vars
  <2>1. \A t \in Servers, w \in Worlds : (Reaches(t, w)' <=> Reaches(t, w)) /\ Hosted(t)' = Hosted(t)
    BY <1>1 DEF Reaches, Hosted, Listed, vars, masterVars, gameVars
  <2> QED BY <1>1, <2>1 DEF AllReach, vars
<1>2. CASE FlushWorlds
  <2>1. CASE Servers = {} BY <2>1 DEF AllReach
  <2>2. CASE Servers # {} BY <1>2, <2>2, ReachOther
  <2> QED BY <2>1, <2>2
<1>3. ASSUME NEW s \in Servers, AnyStep(s) PROVE AllReach'
  BY <1>3, ReachMaster, ReachOther, ReachReady, ReachUpdateWorlds, ReachFlushLocal DEF AnyStep
<1> QED BY <1>1, <1>2, <1>3, Steps

(* While no packet is too long, what a connected server last noted of each *)
(* of its worlds is in the Master's list, or on its way, or waits for the  *)
(* timer, and the report of the world itself goes before any count of it.  *)
THEOREM ReportsReach == Spec => []ReportsReachMaster
<1>1. Init => ReportsReachMaster
  BY DEF Init, ReportsReachMaster
<1>2. TypeOK /\ OwnerInv /\ ReportsReachMaster /\ [Next]_vars => ReportsReachMaster'
  BY ReachNext DEF ReportsReachMaster, AllReach, Hosted
<1>3. Spec => [](TypeOK /\ OwnerInv)
  BY TypeInit, TypeNext, OwnerInit, OwnerNext, PTL DEF Spec
<1> QED BY <1>1, <1>2, <1>3, PTL DEF Spec
-----------------------------------------------------------------------------
(* Versions.  A connected server is at the present version less the        *)
(* changes that are still on their way to it.                              *)

IsChange(m) == m.kind \in {"created", "remove"}
ChangesAfter(q, i) == {j \in DOMAIN q : j > i /\ IsChange(q[j])}
Ahead(q, i) == Cardinality(ChangesAfter(q, i))

LEMMA AheadFinite ==
  ASSUME NEW S, NEW q \in Seq(S), NEW i \in Nat
  PROVE  IsFiniteSet(ChangesAfter(q, i)) /\ Ahead(q, i) \in Nat
<1>1. Len(q) \in Nat /\ DOMAIN q = 1..Len(q) OBVIOUS
<1>2. IsFiniteSet(1..Len(q)) BY <1>1, FS_Interval
<1>3. ChangesAfter(q, i) \in SUBSET (1..Len(q)) BY <1>1 DEF ChangesAfter
<1>4. IsFiniteSet(ChangesAfter(q, i)) BY <1>2, <1>3, FS_Subset
<1> QED BY <1>4, FS_CardinalityType DEF Ahead

LEMMA AheadEnd ==
  ASSUME NEW S, NEW q \in Seq(S)
  PROVE  Ahead(q, Len(q)) = 0
<1>1. ChangesAfter(q, Len(q)) = {} BY DEF ChangesAfter
<1> QED BY <1>1, FS_EmptySet DEF Ahead

LEMMA AheadAppend ==
  ASSUME NEW S, NEW q \in Seq(S), NEW m \in S, NEW i \in 0..Len(q)
  PROVE  Ahead(Append(q, m), i) = IF IsChange(m) THEN Ahead(q, i) + 1 ELSE Ahead(q, i)
<1> DEFINE n == Len(q)
           p == Append(q, m)
<1>1. /\ n \in Nat /\ DOMAIN q = 1..n /\ DOMAIN p = 1..(n + 1) /\ p[n + 1] = m /\ i <= n
      /\ \A j \in 1..n : p[j] = q[j]
  OBVIOUS
<1> HIDE DEF n, p
<1>2. ChangesAfter(q, i) \subseteq 1..n BY <1>1 DEF ChangesAfter
<1>3. ChangesAfter(p, i) = IF IsChange(m) THEN ChangesAfter(q, i) \cup {n + 1} ELSE ChangesAfter(q, i)
  BY <1>1 DEF ChangesAfter
<1>4. n + 1 \notin ChangesAfter(q, i) BY <1>1, <1>2
<1>5. IsFiniteSet(ChangesAfter(q, i)) BY AheadFinite
<1>6. Cardinality(ChangesAfter(q, i) \cup {n + 1}) = Cardinality(ChangesAfter(q, i)) + 1
  BY <1>4, <1>5, FS_AddElement
<1> QED BY <1>3, <1>6 DEF Ahead, p

LEMMA AheadHead ==
  ASSUME NEW S, NEW q \in Seq(S), q # <<>>
  PROVE  Ahead(q, 0) = IF IsChange(q[1]) THEN Ahead(q, 1) + 1 ELSE Ahead(q, 1)
<1>1. DOMAIN q = 1..Len(q) /\ 1 \in DOMAIN q OBVIOUS
<1>2. ChangesAfter(q, 0) = IF IsChange(q[1]) THEN ChangesAfter(q, 1) \cup {1} ELSE ChangesAfter(q, 1)
  BY <1>1 DEF ChangesAfter
<1>3. 1 \notin ChangesAfter(q, 1) BY DEF ChangesAfter
<1>4. IsFiniteSet(ChangesAfter(q, 1)) BY AheadFinite
<1>5. Cardinality(ChangesAfter(q, 1) \cup {1}) = Cardinality(ChangesAfter(q, 1)) + 1
  BY <1>3, <1>4, FS_AddElement
<1> QED BY <1>2, <1>5 DEF Ahead

LEMMA AheadTail ==
  ASSUME NEW S, NEW q \in Seq(S), q # <<>>, NEW i \in 0..(Len(q) - 1)
  PROVE  Ahead(Tail(q), i) = Ahead(q, i + 1)
<1> DEFINE n == Len(q)
           p == Tail(q)
           A == ChangesAfter(p, i)
           B == ChangesAfter(q, i + 1)
           f == [j \in A |-> j + 1]
<1>1. /\ n \in Nat \ {0} /\ DOMAIN q = 1..n /\ DOMAIN p = 1..(n - 1)
      /\ \A j \in 1..(n - 1) : p[j] = q[j + 1]
  OBVIOUS
<1>2. p \in Seq(S) /\ i \in Nat OBVIOUS
<1> HIDE DEF n, p
<1>3. A \subseteq 1..(n - 1) /\ B \subseteq 2..n BY <1>1 DEF ChangesAfter
<1>4. \A j \in 1..(n - 1) : j \in A <=> j + 1 \in B BY <1>1 DEF ChangesAfter
<1> HIDE DEF A, B
<1>5. \A k \in B : k - 1 \in 1..(n - 1) /\ (k - 1) + 1 = k BY <1>1, <1>3
<1>6. \A k \in B : k - 1 \in A /\ f[k - 1] = k BY <1>4, <1>5
<1>7. f \in [A -> B] BY <1>3, <1>4
<1>8. \A a, b \in A : f[a] = f[b] => a = b BY <1>3
<1>9. f \in Bijection(A, B)
  <2> HIDE DEF f
  <2> QED BY <1>6, <1>7, <1>8 DEF Bijection, Injection, Surjection, IsInjective
<1>10. IsFiniteSet(A) BY <1>2, AheadFinite DEF A
<1>11. Cardinality(A) = Cardinality(B)
  <2> HIDE DEF f
  <2>1. ExistsBijection(A, B) BY <1>9 DEF ExistsBijection
  <2> QED BY <1>10, <2>1, FS_Bijection
<1> QED BY <1>11 DEF Ahead, A, B, p

(* What a packet says, when it comes at the k-th of the versions V: a      *)
(* change is the step to it from the one before, a list is all of it.      *)
Tells(V, m, k) ==
  /\ m.kind = "created" =>
       /\ k - 1 \in DOMAIN V
       /\ \E w \in Worlds : DOMAIN m.about = {w} /\ w \notin V[k - 1] /\ V[k] = V[k - 1] \cup {w}
  /\ m.kind = "remove" =>
       /\ k - 1 \in DOMAIN V
       /\ DOMAIN m.about \subseteq V[k - 1] /\ V[k] = V[k - 1] \ DOMAIN m.about
  /\ m.kind = "list" => DOMAIN m.about = V[k]

(* The version of a server once the i-th packet of its queue is handled.   *)
After(V, q, i) == Len(V) - Ahead(q, i)

(* A server that shows X shows a part of the version it is at, and each    *)
(* packet of its queue takes it from one version to the next or tells of   *)
(* the version it comes at.                                                *)
Follows(V, q, X) ==
  /\ \A i \in 0..Len(q) : After(V, q, i) >= 1
  /\ \A i \in DOMAIN q : Tells(V, q[i], After(V, q, i))
  /\ X \subseteq V[After(V, q, 0)]

LEMMA AfterRange ==
  ASSUME NEW V \in Seq(SUBSET Worlds), NEW q \in Seq(DownMsg), NEW X, Follows(V, q, X), NEW i \in 0..Len(q)
  PROVE  After(V, q, i) \in 1..Len(V) /\ After(V, q, i) \in DOMAIN V
<1>1. Ahead(q, i) \in Nat /\ i \in Nat BY AheadFinite
<1>2. Len(V) \in Nat /\ DOMAIN V = 1..Len(V) OBVIOUS
<1>3. After(V, q, i) >= 1 BY DEF Follows
<1> QED BY <1>1, <1>2, <1>3 DEF After

(* The next packet at the end of the queue: a change that makes a new      *)
(* version, or another packet that does not.                               *)
LEMMA FollowsAppend ==
  ASSUME NEW V \in Seq(SUBSET Worlds), NEW q \in Seq(DownMsg), NEW X, Follows(V, q, X), NEW m \in DownMsg,
         NEW U, IF IsChange(m) THEN \E A \in SUBSET Worlds : U = Append(V, A) ELSE U = V,
         Tells(U, m, Len(U))
  PROVE  /\ Follows(U, Append(q, m), X)
         /\ After(U, Append(q, m), 0) = After(V, q, 0)
<1> DEFINE n == Len(q)
           N == Len(V)
           p == Append(q, m)
<1>1. n \in Nat /\ DOMAIN q = 1..n OBVIOUS
<1>2. N \in Nat /\ DOMAIN V = 1..N OBVIOUS
<1>3. /\ Len(U) = IF IsChange(m) THEN N + 1 ELSE N
      /\ DOMAIN U = 1..Len(U) /\ \A k \in 1..N : U[k] = V[k]
  BY <1>2
<1>4. Len(p) = n + 1 /\ DOMAIN p = 1..(n + 1) /\ p[n + 1] = m /\ \A i \in 1..n : p[i] = q[i]
  BY <1>1
<1>5. p \in Seq(DownMsg) OBVIOUS
<1>6. \A i \in 0..n : Ahead(q, i) \in Nat /\ Ahead(p, i) = IF IsChange(m) THEN Ahead(q, i) + 1 ELSE Ahead(q, i)
  BY <1>1, AheadAppend, AheadFinite
<1>7. Ahead(p, n + 1) = 0 BY <1>4, <1>5, AheadEnd
<1>8. \A i \in 0..n : After(V, q, i) \in 1..N BY AfterRange
<1> HIDE DEF n, N, p
<1>9. \A i \in 0..n : After(U, p, i) = After(V, q, i)
  BY <1>2, <1>3, <1>6 DEF After, N
<1>10. After(U, p, n + 1) = Len(U) BY <1>2, <1>3, <1>7 DEF After
<1>11. 0 \in 0..n BY <1>1
<1>12. N >= 1 /\ Len(U) >= 1 BY <1>2, <1>3, <1>8, <1>11
<1>13. ASSUME NEW i \in 0..(n + 1) PROVE After(U, p, i) >= 1
  <2>1. i \in 0..n \/ i = n + 1 BY <1>1
  <2> QED BY <1>8, <1>9, <1>10, <1>12, <2>1
<1>14. ASSUME NEW i \in 1..(n + 1) PROVE Tells(U, p[i], After(U, p, i))
  <2>1. CASE i \in 1..n
    <3>1. i \in 0..n /\ After(U, p, i) = After(V, q, i) /\ p[i] = q[i] BY <1>1, <1>4, <1>9, <2>1
    <3>2. Tells(V, q[i], After(V, q, i)) BY <1>1, <2>1 DEF Follows
    <3>3. After(V, q, i) \in 1..N BY <1>8, <3>1
    <3> DEFINE k == After(V, q, i)
    <3> HIDE DEF k
    <3>4. Tells(U, q[i], k) BY <1>2, <1>3, <3>2, <3>3 DEF Tells, k
    <3> QED BY <3>1, <3>4 DEF k
  <2>2. CASE i = n + 1
    BY <1>4, <1>10, <2>2
  <2> QED BY <1>1, <2>1, <2>2
<1>15. X \subseteq U[After(U, p, 0)] BY <1>3, <1>8, <1>9, <1>11 DEF Follows
<1>16. Follows(U, p, X) BY <1>4, <1>13, <1>14, <1>15 DEF Follows
<1> QED BY <1>9, <1>11, <1>16 DEF p

(* The head of the queue.                                                  *)
LEMMA FollowsHead ==
  ASSUME NEW V \in Seq(SUBSET Worlds), NEW q \in Seq(DownMsg), q # <<>>, NEW X, Follows(V, q, X),
         NEW m, m = Head(q), NEW k, k = After(V, q, 0), NEW h, h = After(V, Tail(q), 0)
  PROVE  /\ h = IF IsChange(m) THEN k + 1 ELSE k
         /\ Tells(V, m, h)
         /\ k \in 1..Len(V) /\ h \in 1..Len(V)
         /\ \A Y : Y \subseteq V[h] => Follows(V, Tail(q), Y)
<1> DEFINE n == Len(q)
           p == Tail(q)
<1>1. n \in Nat \ {0} /\ DOMAIN q = 1..n /\ m = q[1] OBVIOUS
<1>2. DOMAIN p = 1..(n - 1) /\ Len(p) = n - 1 /\ \A j \in 1..(n - 1) : p[j] = q[j + 1] OBVIOUS
<1>3. \A i \in 0..(n - 1) : Ahead(p, i) = Ahead(q, i + 1) BY AheadTail
<1>4. Ahead(q, 0) = IF IsChange(m) THEN Ahead(q, 1) + 1 ELSE Ahead(q, 1) BY <1>1, AheadHead
<1>5. Ahead(q, 0) \in Nat /\ Ahead(q, 1) \in Nat /\ Len(V) \in Nat BY AheadFinite
<1>6. \A i \in 0..n : After(V, q, i) \in 1..Len(V) BY AfterRange
<1> HIDE DEF n, p
<1>7. \A i \in 0..(n - 1) : i + 1 \in 0..n /\ After(V, p, i) = After(V, q, i + 1) BY <1>1, <1>3 DEF After
<1>8. 0 \in 0..(n - 1) /\ 0 \in 0..n /\ 1 \in 0..n BY <1>1
<1>9. h = After(V, q, 1) BY <1>7, <1>8 DEF p
<1>10. h = IF IsChange(m) THEN k + 1 ELSE k BY <1>4, <1>5, <1>9 DEF After
<1>11. Tells(V, m, h) BY <1>1, <1>9 DEF Follows
<1>12. ASSUME NEW Y, Y \subseteq V[h] PROVE Follows(V, p, Y)
  <2>1. \A i \in 0..Len(p) : After(V, p, i) >= 1 BY <1>2, <1>6, <1>7
  <2>2. ASSUME NEW i \in DOMAIN p PROVE Tells(V, p[i], After(V, p, i))
    <3>1. i \in 0..(n - 1) /\ i + 1 \in DOMAIN q /\ p[i] = q[i + 1] BY <1>1, <1>2
    <3>2. Tells(V, q[i + 1], After(V, q, i + 1)) BY <3>1 DEF Follows
    <3> QED BY <1>7, <3>1, <3>2
  <2> QED BY <1>12, <2>1, <2>2 DEF Follows, p
<1> QED BY <1>6, <1>8, <1>9, <1>10, <1>11, <1>12 DEF p

-----------------------------------------------------------------------------
(* The versions of the Master's list, and the reports that make new ones.  *)

(* The reports of w in a queue to the Master. *)
Inits(q, w) == {i \in About(q, w) : q[i].kind = "init"}

(* They are of a world that no version has had, and there is one at most.  *)
NewReports(V, q) ==
  \A w \in Worlds : \A i \in Inits(q, w) :
    (\A k \in DOMAIN V : w \notin V[k]) /\ \A j \in Inits(q, w) : i = j

VersionsOK == versions \in Seq(SUBSET Worlds) /\ versions # <<>> /\ versions[Len(versions)] = Listed
ReportsNew ==
  /\ \A k \in DOMAIN versions : versions[k] \subseteq used
  /\ \A s \in Servers : NewReports(versions, up[s])

ShownOn(s) == {w \in Worlds : list[s][w] # NoInfo}
ListsFollow == \A s \in Servers : Linked(s) => Follows(versions, down[s], ShownOn(s))

VersionInv == VersionsOK /\ ReportsNew /\ ListsFollow

LEMMA VersionInit == VInit => VersionInv
<1> SUFFICES ASSUME VInit PROVE VersionInv OBVIOUS
<1>1. Listed = {} BY DEF VInit, Init, Listed
<1>2. versions = <<{}>> BY <1>1 DEF VInit
<1>3. VersionsOK BY <1>1, <1>2 DEF VersionsOK
<1>4. \A s \in Servers : NewReports(versions, up[s])
  BY DEF VInit, Init, Inits, About, NewReports
<1>5. \A s \in Servers : ~Linked(s) BY DEF VInit, Init, Linked
<1> QED BY <1>2, <1>3, <1>4, <1>5 DEF VersionInv, ReportsNew, ListsFollow

LEMMA NewReportsTail ==
  ASSUME NEW q \in Seq(UpMsg), q # <<>>, NEW V, NewReports(V, q)
  PROVE  /\ NewReports(V, Tail(q))
         /\ \A w \in Worlds : w \in DOMAIN Head(q).about /\ Head(q).kind = "init" => Inits(Tail(q), w) = {}
<1> DEFINE n == Len(q)
           p == Tail(q)
<1>1. n \in Nat \ {0} /\ DOMAIN q = 1..n /\ DOMAIN p = 1..(n - 1) /\ \A j \in 1..(n - 1) : p[j] = q[j + 1]
  OBVIOUS
<1>2. Head(q) = q[1] OBVIOUS
<1> HIDE DEF n, p
<1>3. \A w : \A j \in Inits(p, w) : j \in 1..(n - 1) /\ j + 1 \in Inits(q, w)
  BY <1>1 DEF Inits, About
<1>4. \A w : w \in DOMAIN Head(q).about /\ Head(q).kind = "init" => 1 \in Inits(q, w)
  BY <1>1, <1>2 DEF Inits, About
<1>5. NewReports(V, p) BY <1>3 DEF NewReports
<1>6. ASSUME NEW w \in Worlds, w \in DOMAIN Head(q).about, Head(q).kind = "init", NEW j \in Inits(p, w) PROVE FALSE
  <2>1. j + 1 \in Inits(q, w) /\ 1 \in Inits(q, w) /\ j \in 1..(n - 1) BY <1>3, <1>4, <1>6
  <2>2. j + 1 = 1 BY <2>1 DEF NewReports
  <2> QED BY <1>1, <2>1, <2>2
<1> QED BY <1>5, <1>6 DEF p

LEMMA NewReportsAppend ==
  ASSUME NEW q \in Seq(UpMsg), NEW V, NewReports(V, q), NEW m \in UpMsg,
         m.kind = "init" => \A w \in DOMAIN m.about : About(q, w) = {} /\ \A k \in DOMAIN V : w \notin V[k]
  PROVE  NewReports(V, Append(q, m))
<1> DEFINE n == Len(q)
           p == Append(q, m)
<1>1. n \in Nat /\ DOMAIN q = 1..n /\ DOMAIN p = 1..(n + 1) /\ p[n + 1] = m /\ \A i \in 1..n : p[i] = q[i]
  OBVIOUS
<1> HIDE DEF n, p
<1>2. \A w : \A i \in Inits(p, w) : i \in Inits(q, w) \/ (i = n + 1 /\ w \in DOMAIN m.about /\ m.kind = "init")
  BY <1>1 DEF Inits, About
<1>3. \A w : m.kind = "init" /\ w \in DOMAIN m.about => Inits(q, w) = {} BY DEF Inits
<1>4. NewReports(V, p)
  <2> SUFFICES ASSUME NEW w \in Worlds, NEW i \in Inits(p, w)
               PROVE  (\A k \in DOMAIN V : w \notin V[k]) /\ \A j \in Inits(p, w) : i = j
    BY DEF NewReports
  <2>1. CASE m.kind = "init" /\ w \in DOMAIN m.about BY <1>2, <1>3, <2>1
  <2>2. CASE ~(m.kind = "init" /\ w \in DOMAIN m.about) BY <1>2, <2>2 DEF NewReports
  <2> QED BY <2>1, <2>2
<1> QED BY <1>4 DEF p

(* A new version has nothing that the present one has not, but perhaps one *)
(* world that is not reported any more.                                    *)
LEMMA NewReportsVersion ==
  ASSUME NEW V \in Seq(SUBSET Worlds), V # <<>>, NEW q, NewReports(V, q), NEW A \in SUBSET Worlds,
         \A w \in A : w \in V[Len(V)] \/ Inits(q, w) = {}
  PROVE  NewReports(Append(V, A), q)
<1>1. Len(V) \in Nat \ {0} /\ DOMAIN V = 1..Len(V) /\ DOMAIN Append(V, A) = 1..(Len(V) + 1) OBVIOUS
<1>2. Append(V, A)[Len(V) + 1] = A /\ \A k \in 1..Len(V) : Append(V, A)[k] = V[k] OBVIOUS
<1> SUFFICES ASSUME NEW w \in Worlds, NEW i \in Inits(q, w), NEW k \in DOMAIN Append(V, A) PROVE w \notin Append(V, A)[k]
  BY DEF NewReports
<1>3. k \in 1..Len(V) \/ k = Len(V) + 1 BY <1>1
<1> QED BY <1>1, <1>2, <1>3 DEF NewReports

LEMMA VersionsStep ==
  ASSUME TypeOK', VersionsOK, versions' = IF Listed' = Listed THEN versions ELSE Append(versions, Listed')
  PROVE  VersionsOK' /\ Listed' \in SUBSET Worlds
BY DEF VersionsOK, Listed

(* The first part of ReportsNew: what a version lists was reported.        *)
LEMMA VersionsUsed ==
  ASSUME VersionsOK, ReportsNew, used \subseteq used', Listed' \in SUBSET Worlds,
         versions' = IF Listed' = Listed THEN versions ELSE Append(versions, Listed'),
         Listed' \subseteq Listed \cup used
  PROVE  \A k \in DOMAIN versions' : versions'[k] \subseteq used'
<1>1. Len(versions) \in Nat \ {0} /\ DOMAIN versions = 1..Len(versions) BY DEF VersionsOK
<1>2. Listed \subseteq used BY <1>1 DEF VersionsOK, ReportsNew
<1>3. CASE Listed' = Listed BY <1>3 DEF ReportsNew
<1>4. CASE Listed' # Listed
  <2>1. /\ DOMAIN versions' = 1..(Len(versions) + 1) /\ versions'[Len(versions) + 1] = Listed'
        /\ \A k \in 1..Len(versions) : versions'[k] = versions[k]
    BY <1>1, <1>4 DEF VersionsOK
  <2>2. \A k \in DOMAIN versions' : k \in 1..Len(versions) \/ k = Len(versions) + 1 BY <1>1, <2>1
  <2> QED BY <1>1, <1>2, <2>1, <2>2 DEF ReportsNew
<1> QED BY <1>3, <1>4

-----------------------------------------------------------------------------
(* The refinement mapping: the version a server is at, and what it shows.  *)

AtOf(s) == IF Linked(s) THEN Len(versions) - Cardinality(OnTheirWay(s)) ELSE 0
ShownOf(s) == IF Linked(s) THEN ShownOn(s) ELSE {}
Same(s) == AtOf(s)' = AtOf(s) /\ ShownOf(s)' = ShownOf(s)

LEMMA AtOfIs ==
  ASSUME TypeOK, TypeOK', NEW s \in Servers
  PROVE  /\ AtOf(s) = IF Linked(s) THEN After(versions, down[s], 0) ELSE 0
         /\ AtOf(s)' = IF Linked(s)' THEN After(versions', down'[s], 0) ELSE 0
<1>1. ASSUME NEW q \in Seq(DownMsg)
      PROVE  {i \in DOMAIN q : q[i].kind \in {"created", "remove"}} = ChangesAfter(q, 0)
  BY DEF ChangesAfter, IsChange
<1>2. down[s] \in Seq(DownMsg) /\ down'[s] \in Seq(DownMsg) BY DEF TypeOK
<1>3. OnTheirWay(s) = ChangesAfter(down[s], 0) BY <1>1, <1>2 DEF OnTheirWay
<1>4. OnTheirWay(s)' = ChangesAfter(down'[s], 0) BY <1>1, <1>2 DEF OnTheirWay
<1> QED BY <1>3, <1>4 DEF AtOf, After, Ahead

LEMMA AtRange ==
  ASSUME TypeOK, TypeOK', VersionsOK, ListsFollow, NEW s \in Servers
  PROVE  Linked(s) => AtOf(s) \in DOMAIN versions /\ AtOf(s) \in 1..Len(versions)
<1>1. down[s] \in Seq(DownMsg) /\ 0 \in 0..Len(down[s]) BY DEF TypeOK
<1> QED BY <1>1, AtOfIs, AfterRange DEF VersionsOK, ListsFollow

(* A step that leaves versions, links, queues to the servers and lists.    *)
LEMMA QueuesKept ==
  ASSUME ListsFollow, UNCHANGED <<versions, down, proc, list>>
  PROVE  ListsFollow' /\ \A t \in Servers : Same(t)
<1>1. ListsFollow' BY DEF ListsFollow, Linked, ShownOn
<1>2. \A t \in Servers : Same(t) BY DEF Same, AtOf, ShownOf, Linked, ShownOn, OnTheirWay
<1> QED BY <1>1, <1>2

(* A step that sends a packet to the connected servers, all of them if it  *)
(* is a change.                                                            *)
LEMMA QueuesAppend ==
  ASSUME TypeOK, TypeOK', VersionsOK, ListsFollow, UNCHANGED <<proc, list>>, NEW m \in DownMsg,
         IF IsChange(m) THEN \E A \in SUBSET Worlds : versions' = Append(versions, A) ELSE versions' = versions,
         Tells(versions', m, Len(versions')),
         \A t \in Servers : Linked(t) => down'[t] = Append(down[t], m) \/ (~IsChange(m) /\ down'[t] = down[t])
  PROVE  ListsFollow' /\ \A t \in Servers : Same(t)
<1>1. ASSUME NEW t \in Servers
      PROVE  /\ Linked(t)' = Linked(t) /\ ShownOn(t)' = ShownOn(t)
             /\ Linked(t) => /\ Follows(versions', down'[t], ShownOn(t))
                             /\ After(versions', down'[t], 0) = After(versions, down[t], 0)
  <2>1. Linked(t)' = Linked(t) /\ ShownOn(t)' = ShownOn(t) BY DEF Linked, ShownOn
  <2>2. down[t] \in Seq(DownMsg) /\ versions \in Seq(SUBSET Worlds) BY DEF TypeOK, VersionsOK
  <2>3. CASE Linked(t) /\ down'[t] = Append(down[t], m)
    <3>1. Follows(versions, down[t], ShownOn(t)) BY <2>3 DEF ListsFollow
    <3> QED BY <2>1, <2>2, <2>3, <3>1, FollowsAppend
  <2>4. CASE Linked(t) /\ ~IsChange(m) /\ down'[t] = down[t]
    BY <2>1, <2>4 DEF ListsFollow
  <2> QED BY <2>1, <2>3, <2>4
<1>2. ListsFollow' BY <1>1 DEF ListsFollow
<1>3. \A t \in Servers : Same(t) BY <1>1, AtOfIs DEF Same, ShownOf
<1> QED BY <1>2, <1>3

(* The Master's steps that list no new world take reports off the queues.  *)
LEMMA ReportsTaken ==
  ASSUME TypeOK, VersionsOK, ReportsNew, UNCHANGED used, Listed' \subseteq Listed, Listed' \in SUBSET Worlds,
         versions' = IF Listed' = Listed THEN versions ELSE Append(versions, Listed'),
         \A t \in Servers : up'[t] = up[t] \/ up'[t] = <<>> \/ (up[t] # <<>> /\ up'[t] = Tail(up[t]))
  PROVE  ReportsNew'
<1>1. ASSUME NEW t \in Servers PROVE NewReports(versions', up'[t])
  <2>1. up[t] \in Seq(UpMsg) /\ NewReports(versions, up[t]) BY DEF TypeOK, ReportsNew
  <2>2. NewReports(versions, <<>>) BY DEF NewReports, Inits, About
  <2>3. NewReports(versions, up'[t]) BY <2>1, <2>2, NewReportsTail
  <2>4. \A w \in Listed' : w \in versions[Len(versions)] BY DEF VersionsOK
  <2> QED BY <2>3, <2>4, NewReportsVersion DEF VersionsOK
<1> QED BY <1>1, VersionsUsed DEF ReportsNew

-----------------------------------------------------------------------------
(* The steps of the Master and the game servers.                           *)

SameVersions == versions' = IF Listed' = Listed THEN versions ELSE Append(versions, Listed')

LEMMA AppendVersion ==
  ASSUME NEW V \in Seq(SUBSET Worlds), NEW A \in SUBSET Worlds, NEW U, U = Append(V, A)
  PROVE  /\ Len(U) = Len(V) + 1 /\ DOMAIN U = 1..(Len(V) + 1) /\ U[Len(V) + 1] = A
         /\ \A k \in 1..Len(V) : U[k] = V[k]
OBVIOUS

LEMMA CreatedOpens ==
  ASSUME TypeOK, TypeOK', LinkInv, OwnerInv, VersionInv, SameVersions,
         NEW s \in Servers, NEW w \in Worlds, OnWorldCreated(s, w)
  PROVE  /\ VersionInv'
         /\ \A i \in DOMAIN versions : w \notin versions[i]
         /\ versions' = Append(versions, versions[Len(versions)] \cup {w})
         /\ \A t \in Servers : Same(t)
<1>1. up[s] \in Seq(UpMsg) /\ up[s] # <<>> /\ Head(up[s]) = InitOK(w) /\ up'[s] = Tail(up[s])
      /\ \A t \in Servers \ {s} : up'[t] = up[t]
  BY DEF OnWorldCreated, FromServer, TypeOK
<1>2. w \in DOMAIN Head(up[s]).about /\ Head(up[s]).kind = "init" BY <1>1 DEF InitOK
<1>3. 1 \in Inits(up[s], w) BY <1>1, <1>2 DEF Inits, About
<1>4. \A i \in DOMAIN versions : w \notin versions[i] BY <1>3 DEF VersionInv, ReportsNew, NewReports
<1>5. Len(versions) \in Nat \ {0} /\ DOMAIN versions = 1..Len(versions) /\ versions[Len(versions)] = Listed
  BY DEF VersionInv, VersionsOK
<1>6. Listed' = Listed \cup {w}
  BY NoServerAssumption DEF OnWorldCreated, Listed, TypeOK, Unlisted
<1>7. w \notin Listed BY <1>4, <1>5
<1>8. versions' = Append(versions, Listed \cup {w}) /\ Listed \cup {w} \in SUBSET Worlds
  BY <1>6, <1>7 DEF SameVersions, Listed
<1>9. VersionsOK' BY VersionsStep DEF VersionInv, SameVersions
<1>10. w \in used /\ \A t \in Servers \ {s} : About(up[t], w) = {}
  <2>1. Mentions(s, w) BY <1>3 DEF Mentions, Inits
  <2> QED BY <2>1 DEF OwnerInv, OneOwner, Mentions
<1>11. ReportsNew'
  <2>1. \A k \in DOMAIN versions' : versions'[k] \subseteq used'
    BY <1>6, <1>8, <1>10, VersionsUsed DEF VersionInv, SameVersions, OnWorldCreated
  <2>2. ASSUME NEW t \in Servers PROVE NewReports(versions', up'[t])
    <3>1. NewReports(versions, up[t]) BY DEF VersionInv, ReportsNew
    <3>2. NewReports(versions, up'[t]) /\ Inits(up'[t], w) = {}
      <4>1. CASE t = s BY <1>1, <1>2, <3>1, <4>1, NewReportsTail
      <4>2. CASE t # s BY <1>1, <1>10, <3>1, <4>2 DEF Inits
      <4> QED BY <4>1, <4>2
    <3>3. \A v \in Listed \cup {w} : v \in versions[Len(versions)] \/ Inits(up'[t], v) = {} BY <1>5, <3>2
    <3> QED BY <1>8, <3>2, <3>3, NewReportsVersion DEF VersionInv, VersionsOK
  <2> QED BY <2>1, <2>2 DEF ReportsNew
<1>12. ListsFollow' /\ \A t \in Servers : Same(t)
  <2>1. Created(w) \in DownMsg /\ DOMAIN Created(w).about = {w} /\ Created(w).kind = "created" /\ IsChange(Created(w))
    BY MessageTypes DEF Created, IsChange
  <2>2. /\ Len(versions') = Len(versions) + 1 /\ versions'[Len(versions) + 1] = Listed \cup {w}
        /\ versions'[Len(versions)] = Listed /\ DOMAIN versions' = 1..(Len(versions) + 1)
    <3> DEFINE A == Listed \cup {w}
    <3>1. A \in SUBSET Worlds /\ versions' = Append(versions, A) /\ versions \in Seq(SUBSET Worlds)
      BY <1>8 DEF VersionInv, VersionsOK
    <3> HIDE DEF A
    <3>2. /\ Len(versions') = Len(versions) + 1 /\ DOMAIN versions' = 1..(Len(versions) + 1)
          /\ versions'[Len(versions) + 1] = A /\ \A k \in 1..Len(versions) : versions'[k] = versions[k]
      BY <3>1, AppendVersion
    <3> QED BY <1>5, <3>2 DEF A
  <2>3. Len(versions') - 1 = Len(versions) /\ Len(versions') - 1 \in DOMAIN versions' BY <1>5, <2>2
  <2>4. Tells(versions', Created(w), Len(versions')) BY <1>7, <2>1, <2>2, <2>3 DEF Tells
  <2>5. \A t \in Servers : Linked(t) => down'[t] = Append(down[t], Created(w))
    BY BroadcastLinked DEF Linked, OnWorldCreated
  <2>6. UNCHANGED <<proc, list>> BY DEF OnWorldCreated, gameVars
  <2> QED BY <1>8, <2>1, <2>4, <2>5, <2>6, QueuesAppend DEF VersionInv
<1> QED BY <1>4, <1>5, <1>8, <1>9, <1>11, <1>12 DEF VersionInv

LEMMA RemoveCloses ==
  ASSUME TypeOK, TypeOK', LinkInv, VersionInv, SameVersions, NEW s \in Servers, RemoveServer(s)
  PROVE  /\ VersionInv' /\ \A t \in Servers : Same(t)
         /\ \/ versions' = versions
            \/ /\ WorldsOf(s) # {} /\ WorldsOf(s) \subseteq versions[Len(versions)]
               /\ versions' = Append(versions, versions[Len(versions)] \ WorldsOf(s))
<1> DEFINE W == WorldsOf(s)
<1>1. Len(versions) \in Nat \ {0} /\ DOMAIN versions = 1..Len(versions) /\ versions[Len(versions)] = Listed
  BY DEF VersionInv, VersionsOK
<1>2. Listed' = Listed \ W /\ W \subseteq Listed /\ Listed' \in SUBSET Worlds
  BY DEF RemoveServer, Listed, Without, WorldsOf
<1>3. UNCHANGED <<proc, list, used>> /\ \A t \in Servers : up'[t] = up[t] \/ up'[t] = <<>>
  BY DEF RemoveServer, gameVars, TypeOK
<1>4. VersionsOK' BY VersionsStep DEF VersionInv, SameVersions
<1>5. ReportsNew' BY <1>2, <1>3, ReportsTaken DEF VersionInv, SameVersions
<1>6. CASE W = {}
  <2>1. versions' = versions /\ down' = down BY <1>2, <1>6 DEF SameVersions, RemoveServer
  <2> QED BY <1>3, <1>4, <1>5, <2>1, QueuesKept DEF VersionInv
<1>7. CASE W # {}
  <2>1. versions' = Append(versions, Listed') BY <1>2, <1>7 DEF SameVersions
  <2>2. /\ Len(versions') = Len(versions) + 1 /\ versions'[Len(versions) + 1] = Listed \ W
        /\ versions'[Len(versions)] = Listed /\ DOMAIN versions' = 1..(Len(versions) + 1)
    <3> DEFINE A == Listed \ W
    <3>1. A \in SUBSET Worlds /\ versions' = Append(versions, A) /\ versions \in Seq(SUBSET Worlds)
      BY <1>2, <2>1 DEF VersionInv, VersionsOK
    <3> HIDE DEF A
    <3>2. /\ Len(versions') = Len(versions) + 1 /\ DOMAIN versions' = 1..(Len(versions) + 1)
          /\ versions'[Len(versions) + 1] = A /\ \A k \in 1..Len(versions) : versions'[k] = versions[k]
      BY <3>1, AppendVersion
    <3> QED BY <1>1, <3>2 DEF A
  <2>3. Len(versions') - 1 = Len(versions) /\ Len(versions') - 1 \in DOMAIN versions' BY <1>1, <2>2
  <2>4. Remove(W) \in DownMsg /\ DOMAIN Remove(W).about = W /\ Remove(W).kind = "remove" /\ IsChange(Remove(W))
    BY MessageTypes DEF Remove, IsChange, WorldsOf, Listed
  <2>5. Tells(versions', Remove(W), Len(versions')) BY <1>2, <2>2, <2>3, <2>4 DEF Tells
  <2>6. \A t \in Servers : Linked(t) => down'[t] = Append(down[t], Remove(W))
    BY <1>7, BroadcastLinked DEF Linked, RemoveServer
  <2>7. ListsFollow' /\ \A t \in Servers : Same(t)
    BY <1>2, <1>3, <2>1, <2>4, <2>5, <2>6, QueuesAppend DEF VersionInv
  <2> QED BY <1>1, <1>2, <1>4, <1>5, <1>7, <2>1, <2>7 DEF VersionInv
<1> QED BY <1>6, <1>7

LEMMA FlushSame ==
  ASSUME TypeOK, TypeOK', LinkInv, VersionInv, SameVersions, FlushWorlds
  PROVE  VersionInv' /\ versions' = versions /\ \A t \in Servers : Same(t)
<1> DEFINE W == dirtyWorlds \cap Listed
           f == ListedInfo(W)
<1>1. Listed' = Listed /\ versions' = versions /\ UNCHANGED <<proc, list, used, up>>
  BY DEF FlushWorlds, Listed, SameVersions, gameVars
<1>2. VersionsOK' /\ Listed' \in SUBSET Worlds BY VersionsStep DEF VersionInv, SameVersions
<1>3. ReportsNew' BY <1>1, <1>2, ReportsTaken DEF VersionInv, SameVersions
<1>4. Update(f) \in DownMsg /\ Update(f).kind = "update" /\ ~IsChange(Update(f))
  BY ListedInfoType, MessageTypes DEF Update, IsChange
<1>5. Tells(versions', Update(f), Len(versions')) BY <1>4 DEF Tells
<1>6. \A t \in Servers : Linked(t) => down'[t] = Append(down[t], Update(f)) \/ down'[t] = down[t]
  BY BroadcastLinked DEF Linked, FlushWorlds
<1> HIDE DEF f
<1>7. ListsFollow' /\ \A t \in Servers : Same(t)
  BY <1>1, <1>4, <1>5, <1>6, QueuesAppend DEF VersionInv
<1> QED BY <1>1, <1>2, <1>3, <1>7 DEF VersionInv

LEMMA ReadySame ==
  ASSUME TypeOK, TypeOK', LinkInv, VersionInv, SameVersions, NEW s \in Servers, ServerReady(s)
  PROVE  VersionInv' /\ versions' = versions /\ \A t \in Servers : Same(t)
<1> DEFINE f == ListedInfo(Listed)
<1>1. Listed' = Listed /\ versions' = versions /\ UNCHANGED <<proc, list, used, up>>
  BY DEF ServerReady, Listed, SameVersions, gameVars
<1>2. VersionsOK' /\ Listed' \in SUBSET Worlds BY VersionsStep DEF VersionInv, SameVersions
<1>3. ReportsNew' BY <1>1, <1>2, ReportsTaken DEF VersionInv, SameVersions
<1>4. List(f) \in DownMsg /\ List(f).kind = "list" /\ DOMAIN List(f).about = Listed /\ ~IsChange(List(f))
  BY ListedInfoType, MessageTypes DEF List, IsChange, ListedInfo
<1>5. Tells(versions', List(f), Len(versions')) BY <1>1, <1>4 DEF Tells, VersionInv, VersionsOK
<1>6. \A t \in Servers : down'[t] = Append(down[t], List(f)) \/ down'[t] = down[t]
  BY DEF ServerReady, TypeOK
<1> HIDE DEF f
<1>7. ListsFollow' /\ \A t \in Servers : Same(t)
  BY <1>1, <1>4, <1>5, <1>6, QueuesAppend DEF VersionInv
<1> QED BY <1>1, <1>2, <1>3, <1>7 DEF VersionInv

(* Steps that change nothing WorldList knows, and may report something.    *)
LEMMA SilentSame ==
  ASSUME TypeOK, TypeOK', VersionInv, SameVersions, Listed' = Listed, UNCHANGED <<down, proc, list>>, ReportsNew'
  PROVE  VersionInv' /\ versions' = versions /\ \A t \in Servers : Same(t)
<1>1. versions' = versions BY DEF SameVersions
<1>2. VersionsOK' BY VersionsStep DEF VersionInv, SameVersions
<1> QED BY <1>1, <1>2, QueuesKept DEF VersionInv

LEMMA UpdateSame ==
  ASSUME TypeOK, TypeOK', VersionInv, SameVersions, NEW s \in Servers, NEW m, WorldUpdate(s, m)
  PROVE  VersionInv' /\ versions' = versions /\ \A t \in Servers : Same(t)
<1>1. \A w \in Reported(m) : w \in Listed /\ worldSubs'[w].server \in Servers
  BY DEF WorldUpdate, Reported, Listed, TypeOK
<1>2. Listed' = Listed BY <1>1, NoServerAssumption DEF WorldUpdate, Listed, Unlisted
<1>3. UNCHANGED <<down, proc, list, used>> /\ \A t \in Servers : up'[t] = up[t] \/ (up[t] # <<>> /\ up'[t] = Tail(up[t]))
  BY DEF WorldUpdate, FromServer, gameVars, TypeOK
<1>4. ReportsNew' BY <1>2, <1>3, ReportsTaken DEF VersionInv, SameVersions, Listed
<1> QED BY <1>2, <1>3, <1>4, SilentSame

LEMMA SendSame ==
  ASSUME TypeOK, TypeOK', VersionInv, SameVersions, UNCHANGED <<worldSubs, down, proc, list>>, used \subseteq used',
         NEW s \in Servers, NEW m \in UpMsg, ToMaster(s, m),
         m.kind = "init" => \A w \in DOMAIN m.about : w \notin used /\ About(up[s], w) = {}
  PROVE  VersionInv' /\ versions' = versions /\ \A t \in Servers : Same(t)
<1>1. Listed' = Listed /\ versions' = versions BY DEF Listed, SameVersions
<1>2. \A w : w \notin used => \A k \in DOMAIN versions : w \notin versions[k] BY DEF VersionInv, ReportsNew
<1>3. ASSUME NEW t \in Servers PROVE NewReports(versions', up'[t])
  <2>1. NewReports(versions, up[t]) /\ up[t] \in Seq(UpMsg) BY DEF VersionInv, ReportsNew, TypeOK
  <2>2. up'[t] = up[t] \/ (t = s /\ up'[t] = Append(up[t], m)) BY DEF ToMaster, TypeOK
  <2> QED BY <1>1, <1>2, <2>1, <2>2, NewReportsAppend
<1>4. ReportsNew' BY <1>1, <1>3 DEF VersionInv, ReportsNew
<1> QED BY <1>1, <1>4, SilentSame

LEMMA GameSame ==
  ASSUME TypeOK, TypeOK', OwnerInv, VersionInv, SameVersions, NEW s \in Servers,
         \/ \E w \in Worlds, i \in Infos : WorldReady(s, w, i) \/ WorldChanges(s, w, i)
         \/ UpdateWorlds(s) \/ FlushLocal(s)
  PROVE  VersionInv' /\ versions' = versions /\ \A t \in Servers : Same(t)
<1>1. ASSUME NEW w \in Worlds, NEW i \in Infos, WorldReady(s, w, i)
      PROVE  VersionInv' /\ versions' = versions /\ \A t \in Servers : Same(t)
  <2>1. InitOK(w) \in UpMsg /\ DOMAIN InitOK(w).about = {w} BY MessageTypes DEF InitOK
  <2>2. w \notin used /\ About(up[s], w) = {} BY <1>1 DEF WorldReady, OwnerInv, OneOwner, Mentions
  <2> QED BY <1>1, <2>1, <2>2, SendSame DEF WorldReady, masterVars
<1>2. CASE (\E w \in Worlds, i \in Infos : WorldChanges(s, w, i)) \/ UpdateWorlds(s)
  <2>1. UNCHANGED <<worldSubs, down, proc, list, up, used>>
    BY <1>2 DEF WorldChanges, UpdateWorlds, masterVars
  <2>2. Listed' = Listed BY <2>1 DEF Listed
  <2>3. ReportsNew' BY <2>1, <2>2 DEF VersionInv, ReportsNew, SameVersions
  <2> QED BY <2>1, <2>2, <2>3, SilentSame
<1>3. CASE FlushLocal(s)
  <2> DEFINE m == Update([w \in dirtyLocal[s] |-> local[s][w]])
  <2>1. m \in UpMsg /\ m.kind = "update" BY FlushType
  <2>2. ToMaster(s, m) /\ UNCHANGED <<worldSubs, down, proc, list, used>> BY <1>3 DEF FlushLocal, masterVars
  <2> HIDE DEF m
  <2> QED BY <2>1, <2>2, SendSame
<1> QED BY <1>1, <1>2, <1>3

LEMMA AddConnects ==
  ASSUME TypeOK, TypeOK', LinkInv, VersionInv, SameVersions, NEW s \in Servers, AddServer(s)
  PROVE  /\ VersionInv' /\ versions' = versions /\ \A t \in Servers \ {s} : Same(t)
         /\ AtOf(s) = 0 /\ AtOf(s)' = Len(versions) /\ ShownOf(s)' = {}
<1>1. Listed' = Listed /\ versions' = versions /\ UNCHANGED <<down, list, up, used>>
  BY DEF AddServer, Listed, SameVersions, gameVars
<1>2. VersionsOK' /\ Listed' \in SUBSET Worlds BY VersionsStep DEF VersionInv, SameVersions
<1>3. ReportsNew' BY <1>1, <1>2, ReportsTaken DEF VersionInv, SameVersions
<1>4. ~Linked(s) /\ Linked(s)' /\ \A t \in Servers \ {s} : Linked(t)' = Linked(t) BY DEF AddServer, Linked, TypeOK
<1>5. down[s] = <<>> /\ ShownOn(s) = {} BY DEF AddServer, LinkInv, ShownOn
<1>6. Len(versions) \in Nat \ {0} BY DEF VersionInv, VersionsOK
<1>7. After(versions, <<>>, 0) = Len(versions)
  <2>1. <<>> \in Seq(DownMsg) /\ Len(<<>>) = 0 OBVIOUS
  <2>2. Ahead(<<>>, 0) = 0 BY <2>1, AheadEnd
  <2> QED BY <1>6, <2>2 DEF After
<1>8. Follows(versions, <<>>, {})
  <2>1. \A i \in 0..Len(<<>>) : i = 0 OBVIOUS
  <2>2. DOMAIN <<>> = {} OBVIOUS
  <2> QED BY <1>6, <1>7, <2>1, <2>2 DEF Follows
<1>9. ListsFollow'
  <2> SUFFICES ASSUME NEW t \in Servers, Linked(t)' PROVE Follows(versions', down'[t], ShownOn(t)') BY DEF ListsFollow
  <2>1. ShownOn(t)' = ShownOn(t) BY <1>1 DEF ShownOn
  <2> QED BY <1>1, <1>4, <1>5, <1>8, <2>1 DEF VersionInv, ListsFollow
<1>10. \A t \in Servers \ {s} : Same(t) BY <1>1, <1>4 DEF Same, AtOf, ShownOf, OnTheirWay, ShownOn
<1>11. AtOf(s) = 0 /\ AtOf(s)' = Len(versions) BY <1>1, <1>4, <1>5, <1>7, AtOfIs
<1>12. ShownOf(s)' = {} BY <1>1, <1>5 DEF ShownOf, ShownOn
<1> QED BY <1>1, <1>2, <1>3, <1>9, <1>10, <1>11, <1>12 DEF VersionInv

(* A link that is lost, and a process that ends, connected or not.         *)
LEMMA LossDisconnects ==
  ASSUME TypeOK, TypeOK', LinkInv, VersionInv, SameVersions, NEW s \in Servers, LoseLink(s) \/ Crash(s)
  PROVE  /\ VersionInv' /\ versions' = versions /\ \A t \in Servers \ {s} : Same(t)
         /\ AtOf(s)' = 0 /\ ShownOf(s)' = {} /\ (~Linked(s) => Same(s))
<1>1. Listed' = Listed /\ versions' = versions /\ UNCHANGED <<up, used>>
  BY DEF LoseLink, Crash, Listed, SameVersions, masterVars
<1>2. VersionsOK' /\ Listed' \in SUBSET Worlds BY VersionsStep DEF VersionInv, SameVersions
<1>3. ReportsNew' BY <1>1, <1>2, ReportsTaken DEF VersionInv, SameVersions
<1>4. ~Linked(s)' BY DEF LoseLink, Crash, Linked, TypeOK
<1>5. \A t \in Servers \ {s} : proc'[t] = proc[t] /\ down'[t] = down[t] /\ list'[t] = list[t]
  BY DEF LoseLink, Crash, gameVars, TypeOK
<1>6. ListsFollow' BY <1>1, <1>4, <1>5 DEF VersionInv, ListsFollow, Linked, ShownOn
<1>7. \A t \in Servers \ {s} : Same(t) BY <1>1, <1>5 DEF Same, AtOf, ShownOf, Linked, OnTheirWay, ShownOn
<1>8. AtOf(s)' = 0 /\ ShownOf(s)' = {} BY <1>4 DEF AtOf, ShownOf
<1>9. ~Linked(s) => AtOf(s) = 0 /\ ShownOf(s) = {} BY DEF AtOf, ShownOf
<1> QED BY <1>1, <1>2, <1>3, <1>6, <1>7, <1>8, <1>9 DEF VersionInv, Same

(* A server handles the packet at the head of its queue.                   *)
LEMMA PacketFollows ==
  ASSUME AllReadable, TypeOK, TypeOK', VersionInv, SameVersions, NEW s \in Servers, NEW m, OnTCPPacket(s, m)
  PROVE  /\ VersionInv' /\ versions' = versions /\ \A t \in Servers \ {s} : Same(t)
         /\ Linked(s) /\ AtOf(s) \in 1..Len(versions) /\ AtOf(s)' \in 1..Len(versions)
         /\ \/ Same(s)
            \/ AtOf(s)' = AtOf(s) /\ ShownOf(s)' = versions[AtOf(s)]
            \/ /\ AtOf(s)' = AtOf(s) + 1
               /\ LET old == versions[AtOf(s)]
                      new == versions[AtOf(s) + 1]
                  IN  ShownOf(s)' = (ShownOf(s) \cup (new \ old)) \ (old \ new)
<1> DEFINE k == AtOf(s)
           h == AtOf(s)'
           X == ShownOn(s)
           Y == ShownOn(s)'
           V == versions
<1>1. Listed' = Listed /\ versions' = versions /\ UNCHANGED <<proc, up, used>>
  BY DEF OnTCPPacket, Listed, SameVersions, masterVars
<1>2. VersionsOK' /\ Listed' \in SUBSET Worlds BY VersionsStep DEF VersionInv, SameVersions
<1>3. ReportsNew' BY <1>1, <1>2, ReportsTaken DEF VersionInv, SameVersions
<1>4. down[s] \in Seq(DownMsg) /\ down[s] # <<>> /\ m = Head(down[s]) /\ down'[s] = Tail(down[s])
      /\ Linked(s) /\ Linked(s)' /\ m \in DownMsg
  BY FromMasterType DEF OnTCPPacket, FromMaster, TypeOK, Linked
<1>5. \A t \in Servers \ {s} : proc'[t] = proc[t] /\ down'[t] = down[t] /\ list'[t] = list[t]
  BY DEF OnTCPPacket, FromMaster, TypeOK
<1>6. \A w \in Worlds : list'[s][w] = Shown(s, m, w) BY DEF OnTCPPacket, TypeOK
<1>7. /\ V \in Seq(SUBSET Worlds) /\ Follows(V, down[s], X)
      /\ k = After(V, down[s], 0) /\ h = After(V, Tail(down[s]), 0)
  BY <1>1, <1>4, AtOfIs DEF VersionInv, VersionsOK, ListsFollow
<1>8. /\ h = IF IsChange(m) THEN k + 1 ELSE k
      /\ Tells(V, m, h)
      /\ k \in 1..Len(V) /\ h \in 1..Len(V)
      /\ \A Z : Z \subseteq V[h] => Follows(V, Tail(down[s]), Z)
  BY <1>4, <1>7, FollowsHead
<1>9. X \subseteq V[k] BY <1>7 DEF Follows
<1>10. /\ DOMAIN m.about \subseteq Worlds
       /\ \A w \in DOMAIN m.about : IF m.kind = "remove" THEN m.about[w] = NoInfo ELSE m.about[w] # NoInfo
  BY <1>4, AboutTypes, InfoAssumption
<1>11. Readable(m) BY <1>10, AllRead
<1>12. Y = IF m.kind = "update" THEN X ELSE IF m.kind = "remove" THEN X \ DOMAIN m.about ELSE X \cup DOMAIN m.about
  BY <1>6, <1>10, <1>11 DEF ShownOn, Shown, Said
<1>13. m.kind \in {"created", "list", "update", "remove"} BY <1>4 DEF DownMsg
<1>14. ShownOf(s) = X /\ ShownOf(s)' = Y BY <1>4 DEF ShownOf
<1> HIDE DEF k, h, X, Y, V
<1>15. /\ m.kind = "update" => h = k /\ Y = X
       /\ m.kind = "list" => h = k /\ Y = V[k]
       /\ m.kind = "created" => h = k + 1 /\ \E w : w \notin V[k] /\ V[k + 1] = V[k] \cup {w} /\ Y = X \cup {w}
       /\ m.kind = "remove" => h = k + 1 /\ \E W : W \subseteq V[k] /\ V[k + 1] = V[k] \ W /\ Y = X \ W
  <2>1. k + 1 - 1 = k BY <1>8
  <2>2. ASSUME m.kind = "update" PROVE h = k /\ Y = X BY <1>8, <1>12, <2>2 DEF IsChange
  <2>3. ASSUME m.kind = "list" PROVE h = k /\ Y = V[k]
    <3>1. h = k /\ DOMAIN m.about = V[k] BY <1>8, <2>3 DEF IsChange, Tells
    <3>2. Y = X \cup DOMAIN m.about BY <1>12, <2>3
    <3> QED BY <1>9, <3>1, <3>2
  <2>4. ASSUME m.kind = "created"
        PROVE  h = k + 1 /\ \E w : w \notin V[k] /\ V[k + 1] = V[k] \cup {w} /\ Y = X \cup {w}
    <3>1. h = k + 1 BY <1>8, <2>4 DEF IsChange
    <3>2. PICK w \in Worlds : DOMAIN m.about = {w} /\ w \notin V[k] /\ V[k + 1] = V[k] \cup {w}
      BY <1>8, <2>1, <2>4, <3>1 DEF Tells
    <3>3. Y = X \cup {w} BY <1>12, <2>4, <3>2
    <3> QED BY <3>1, <3>2, <3>3
  <2>5. ASSUME m.kind = "remove"
        PROVE  h = k + 1 /\ \E W : W \subseteq V[k] /\ V[k + 1] = V[k] \ W /\ Y = X \ W
    <3>1. h = k + 1 BY <1>8, <2>5 DEF IsChange
    <3>2. DOMAIN m.about \subseteq V[k] /\ V[k + 1] = V[k] \ DOMAIN m.about
      BY <1>8, <2>1, <2>5, <3>1 DEF Tells
    <3>3. Y = X \ DOMAIN m.about BY <1>12, <2>5
    <3> QED BY <3>1, <3>2, <3>3
  <2> QED BY <2>2, <2>3, <2>4, <2>5
<1>16. Y \subseteq V[h] BY <1>9, <1>13, <1>15
<1>17. ListsFollow'
  <2>1. Follows(V, Tail(down[s]), Y) BY <1>8, <1>16
  <2> QED BY <1>1, <1>4, <1>5, <2>1 DEF VersionInv, ListsFollow, Linked, ShownOn, V, Y
<1>18. \A t \in Servers \ {s} : Same(t) BY <1>1, <1>5 DEF Same, AtOf, ShownOf, Linked, OnTheirWay, ShownOn
<1>19. \/ h = k /\ (Y = X \/ Y = V[k])
       \/ h = k + 1 /\ Y = (X \cup (V[k + 1] \ V[k])) \ (V[k] \ V[k + 1])
  <2>1. CASE m.kind = "created"
    <3>1. PICK w : w \notin V[k] /\ V[k + 1] = V[k] \cup {w} /\ Y = X \cup {w} BY <1>15, <2>1
    <3>2. V[k + 1] \ V[k] = {w} /\ V[k] \ V[k + 1] = {} BY <3>1
    <3> QED BY <1>15, <2>1, <3>1, <3>2
  <2>2. CASE m.kind = "remove"
    <3>1. PICK W : W \subseteq V[k] /\ V[k + 1] = V[k] \ W /\ Y = X \ W BY <1>15, <2>2
    <3>2. V[k + 1] \ V[k] = {} /\ V[k] \ V[k + 1] = W BY <3>1
    <3> QED BY <1>15, <2>2, <3>1, <3>2
  <2> QED BY <1>13, <1>15, <2>1, <2>2
<1>20. VersionInv' BY <1>2, <1>3, <1>17 DEF VersionInv
<1> QED BY <1>1, <1>4, <1>8, <1>14, <1>18, <1>19, <1>20 DEF Same, k, h, X, Y, V

-----------------------------------------------------------------------------
(* The refinement.                                                         *)

RefineInv == TypeOK /\ LinkInv /\ OwnerInv /\ VersionInv

LEMMA AbstractStutter ==
  ASSUME versions' = versions, \A t \in Servers : Same(t)
  PROVE  UNCHANGED Abstract!vars
BY DEF Same, AtOf, ShownOf, ShownOn, Abstract!vars

LEMMA AbstractOpen ==
  ASSUME NEW w \in Worlds, \A i \in DOMAIN versions : w \notin versions[i],
         versions' = Append(versions, versions[Len(versions)] \cup {w}), \A t \in Servers : Same(t)
  PROVE  Abstract!Open(w)
BY DEF Same, AtOf, ShownOf, ShownOn, Abstract!Open, Abstract!Ever, Abstract!Present

LEMMA AbstractClose ==
  ASSUME NEW W, W # {}, W \subseteq versions[Len(versions)],
         versions' = Append(versions, versions[Len(versions)] \ W), \A t \in Servers : Same(t)
  PROVE  Abstract!Close(W)
BY DEF Same, AtOf, ShownOf, ShownOn, Abstract!Close, Abstract!Present

(* Steps of one server. *)
LEMMA AbstractServer ==
  ASSUME NEW s \in Servers, versions' = versions, \A t \in Servers \ {s} : Same(t)
  PROVE  /\ AtOf(s) = 0 /\ AtOf(s)' = Len(versions) /\ ShownOf(s)' = {} => Abstract!Connect(s)
         /\ AtOf(s) # 0 /\ AtOf(s)' = 0 /\ ShownOf(s)' = {} => Abstract!Disconnect(s)
         /\ AtOf(s) # 0 /\ AtOf(s)' = AtOf(s) /\ ShownOf(s)' = versions[AtOf(s)] => Abstract!Learn(s)
         /\ LET old == versions[AtOf(s)]
                new == versions[AtOf(s) + 1]
            IN  /\ AtOf(s) # 0 /\ AtOf(s) < Len(versions) /\ AtOf(s)' = AtOf(s) + 1
                /\ ShownOf(s)' = (ShownOf(s) \cup (new \ old)) \ (old \ new)
                => Abstract!Follow(s)
<1> DEFINE at == [t \in Servers |-> AtOf(t)]
           shown == [t \in Servers |-> ShownOf(t)]
<1>1. ASSUME NEW a, NEW X, AtOf(s)' = a, ShownOf(s)' = X
      PROVE  at' = [at EXCEPT ![s] = a] /\ shown' = [shown EXCEPT ![s] = X]
  BY <1>1 DEF Same
<1>2. /\ at = [t \in Servers |-> IF Linked(t) THEN Len(versions) - Cardinality(OnTheirWay(t)) ELSE 0]
      /\ shown = [t \in Servers |-> IF Linked(t) THEN {w \in Worlds : list[t][w] # NoInfo} ELSE {}]
  BY DEF AtOf, ShownOf, ShownOn
<1>3. /\ at' = [t \in Servers |-> IF Linked(t) THEN Len(versions) - Cardinality(OnTheirWay(t)) ELSE 0]'
      /\ shown' = [t \in Servers |-> IF Linked(t) THEN {w \in Worlds : list[t][w] # NoInfo} ELSE {}]'
  BY DEF AtOf, ShownOf, ShownOn
<1>4. at[s] = AtOf(s) /\ shown[s] = ShownOf(s) OBVIOUS
<1> HIDE DEF at, shown
<1>5. ASSUME AtOf(s) = 0, AtOf(s)' = Len(versions), ShownOf(s)' = {} PROVE Abstract!Connect(s)
  <2>1. at[s] = 0 /\ at' = [at EXCEPT ![s] = Len(versions)] /\ shown' = [shown EXCEPT ![s] = {}] BY <1>1, <1>4, <1>5
  <2> QED BY <1>2, <1>3, <2>1 DEF Abstract!Connect
<1>6. ASSUME AtOf(s) # 0, AtOf(s)' = 0, ShownOf(s)' = {} PROVE Abstract!Disconnect(s)
  <2>1. at[s] # 0 /\ at' = [at EXCEPT ![s] = 0] /\ shown' = [shown EXCEPT ![s] = {}] BY <1>1, <1>4, <1>6
  <2> QED BY <1>2, <1>3, <2>1 DEF Abstract!Disconnect
<1>7. ASSUME AtOf(s) # 0, AtOf(s)' = AtOf(s), ShownOf(s)' = versions[AtOf(s)] PROVE Abstract!Learn(s)
  <2>1. /\ at[s] # 0 /\ at' = [at EXCEPT ![s] = at[s]] /\ shown' = [shown EXCEPT ![s] = versions[at[s]]]
        /\ at = [at EXCEPT ![s] = at[s]]
    BY <1>1, <1>2, <1>4, <1>7
  <2> QED BY <1>2, <1>3, <2>1 DEF Abstract!Learn
<1> DEFINE old == versions[AtOf(s)]
           new == versions[AtOf(s) + 1]
<1>8. ASSUME AtOf(s) # 0, AtOf(s) < Len(versions), AtOf(s)' = AtOf(s) + 1,
             ShownOf(s)' = (ShownOf(s) \cup (new \ old)) \ (old \ new)
      PROVE  Abstract!Follow(s)
  <2>1. /\ at[s] # 0 /\ at[s] < Len(versions) /\ at' = [at EXCEPT ![s] = at[s] + 1]
        /\ shown' = [shown EXCEPT ![s] = (shown[s] \cup (versions[at[s] + 1] \ versions[at[s]]))
                                         \ (versions[at[s]] \ versions[at[s] + 1])]
    BY <1>1, <1>4, <1>8
  <2> QED BY <1>2, <1>3, <2>1 DEF Abstract!Follow
<1> QED BY <1>5, <1>6, <1>7, <1>8

LEMMA RefineStep ==
  ASSUME AllReadable, RefineInv, TypeOK', NEW s \in Servers, AnyStep(s), SameVersions
  PROVE  VersionInv' /\ [Abstract!Next]_Abstract!vars
<1> USE DEF RefineInv
<1>1. Len(versions) \in Nat \ {0} BY DEF VersionInv, VersionsOK
<1>2. ASSUME NEW w \in Worlds, OnWorldCreated(s, w) PROVE VersionInv' /\ Abstract!Next
  <2>1. VersionInv' /\ Abstract!Open(w) BY <1>2, CreatedOpens, AbstractOpen
  <2> QED BY <2>1 DEF Abstract!Next
<1>3. CASE RemoveServer(s)
  <2>1. WorldsOf(s) \in SUBSET Worlds BY DEF WorldsOf, Listed
  <2>2. VersionInv' BY <1>3, RemoveCloses
  <2>3. CASE versions' = versions BY <1>3, <2>2, <2>3, RemoveCloses, AbstractStutter
  <2>4. CASE versions' # versions
    <3>1. Abstract!Close(WorldsOf(s)) BY <1>3, <2>4, RemoveCloses, AbstractClose
    <3> QED BY <2>1, <2>2, <3>1 DEF Abstract!Next
  <2> QED BY <2>3, <2>4
<1>4. CASE AddServer(s)
  <2>1. VersionInv' /\ Abstract!Connect(s) BY <1>4, AddConnects, AbstractServer
  <2> QED BY <2>1 DEF Abstract!Next
<1>5. CASE LoseLink(s) \/ Crash(s)
  <2>1. VersionInv' /\ versions' = versions BY <1>5, LossDisconnects
  <2>2. CASE Linked(s)
    <3>1. AtOf(s) # 0 BY <2>2, AtRange DEF VersionInv
    <3>2. Abstract!Disconnect(s) BY <1>5, <3>1, LossDisconnects, AbstractServer
    <3> QED BY <2>1, <3>2 DEF Abstract!Next
  <2>3. CASE ~Linked(s)
    <3>1. \A t \in Servers : Same(t) BY <1>5, <2>3, LossDisconnects
    <3> QED BY <2>1, <3>1, AbstractStutter
  <2> QED BY <2>2, <2>3
<1>6. ASSUME NEW m, OnTCPPacket(s, m) PROVE VersionInv' /\ [Abstract!Next]_Abstract!vars
  <2> DEFINE old == versions[AtOf(s)]
             new == versions[AtOf(s) + 1]
  <2>1. /\ VersionInv' /\ versions' = versions /\ \A t \in Servers \ {s} : Same(t)
        /\ AtOf(s) \in 1..Len(versions) /\ AtOf(s)' \in 1..Len(versions)
        /\ \/ Same(s)
           \/ AtOf(s)' = AtOf(s) /\ ShownOf(s)' = versions[AtOf(s)]
           \/ AtOf(s)' = AtOf(s) + 1 /\ ShownOf(s)' = (ShownOf(s) \cup (new \ old)) \ (old \ new)
    BY <1>6, PacketFollows
  <2>2. CASE Same(s) BY <2>1, <2>2, AbstractStutter
  <2>3. CASE AtOf(s)' = AtOf(s) /\ ShownOf(s)' = versions[AtOf(s)]
    <3>1. AtOf(s) # 0 BY <1>1, <2>1
    <3>2. Abstract!Learn(s) BY <2>1, <2>3, <3>1, AbstractServer
    <3> QED BY <2>1, <3>2 DEF Abstract!Next
  <2>4. CASE AtOf(s)' = AtOf(s) + 1 /\ ShownOf(s)' = (ShownOf(s) \cup (new \ old)) \ (old \ new)
    <3>1. AtOf(s) # 0 /\ AtOf(s) < Len(versions) BY <1>1, <2>1, <2>4
    <3>2. Abstract!Follow(s) BY <2>1, <2>4, <3>1, AbstractServer
    <3> QED BY <2>1, <3>2 DEF Abstract!Next
  <2> QED BY <2>1, <2>2, <2>3, <2>4
<1>7. ASSUME VersionInv' /\ versions' = versions /\ \A t \in Servers : Same(t)
      PROVE  VersionInv' /\ [Abstract!Next]_Abstract!vars
  BY <1>7, AbstractStutter
<1>8. CASE \/ \E m : WorldUpdate(s, m)
           \/ ServerReady(s)
           \/ \E w \in Worlds, i \in Infos : WorldReady(s, w, i) \/ WorldChanges(s, w, i)
           \/ UpdateWorlds(s) \/ FlushLocal(s)
  BY <1>7, <1>8, UpdateSame, ReadySame, GameSame
<1> QED BY <1>2, <1>3, <1>4, <1>5, <1>6, <1>8 DEF AnyStep

LEMMA RefineNext ==
  ASSUME AllReadable, RefineInv, [VNext]_versionVars
  PROVE  RefineInv' /\ [Abstract!Next]_Abstract!vars
<1>1. [Next]_vars /\ SameVersions
  <2>1. CASE VNext BY <2>1 DEF VNext, SameVersions
  <2>2. CASE UNCHANGED versionVars
    <3>1. Listed' = Listed BY <2>2 DEF versionVars, vars, masterVars, Listed
    <3> QED BY <2>2, <3>1 DEF versionVars, SameVersions
  <2> QED BY <2>1, <2>2
<1>2. TypeOK' /\ LinkInv' /\ OwnerInv'
  BY <1>1, TypeNext, LinkNext, OwnerNext DEF RefineInv
<1>3. VersionInv' /\ [Abstract!Next]_Abstract!vars
  <2>1. ASSUME NEW s \in Servers, AnyStep(s) PROVE VersionInv' /\ [Abstract!Next]_Abstract!vars
    BY <1>1, <1>2, <2>1, RefineStep
  <2>2. CASE FlushWorlds BY <1>1, <1>2, <2>2, FlushSame, AbstractStutter DEF RefineInv
  <2>3. CASE UNCHANGED vars
    <3>1. UNCHANGED <<worldSubs, down, proc, list, up, used>> /\ Listed' = Listed
      BY <2>3 DEF vars, masterVars, gameVars, Listed
    <3>2. ReportsNew' BY <1>1, <3>1 DEF RefineInv, VersionInv, ReportsNew, SameVersions
    <3> QED BY <1>1, <1>2, <3>1, <3>2, SilentSame, AbstractStutter DEF RefineInv
  <2> QED BY <1>1, <2>1, <2>2, <2>3, Steps
<1> QED BY <1>2, <1>3 DEF RefineInv

(* The Master and the game servers implement WorldList: for any numbers of *)
(* servers and worlds, as long as every packet can be read, each list      *)
(* follows the Master's list version by version, whatever connects,        *)
(* disconnects and crashes in between.                                     *)
THEOREM Refines == AllReadable => (VSpec => ImplementsWorldList)
<1> SUFFICES ASSUME AllReadable PROVE VSpec => ImplementsWorldList
  OBVIOUS
<1>1. VInit => RefineInv
  BY TypeInit, LinkInit, OwnerInit, VersionInit DEF VInit, RefineInv
<1>2. RefineInv /\ [VNext]_versionVars => RefineInv' /\ [Abstract!Next]_Abstract!vars
  BY RefineNext
<1>3. VInit => Abstract!Init
  <2> SUFFICES ASSUME VInit PROVE Abstract!Init OBVIOUS
  <2>1. versions = <<{}>> BY DEF VInit, Init, Listed
  <2>2. \A s \in Servers : ~Linked(s) BY DEF VInit, Init, Linked
  <2> QED BY <2>1, <2>2 DEF Abstract!Init
<1> QED BY <1>1, <1>2, <1>3, PTL DEF VSpec, ImplementsWorldList, Abstract!Spec

(* What WorldList_proofs proves of WorldList holds of the program's lists. *)
ListTheorems == INSTANCE WorldList_proofs WITH
  at <- [s \in Servers |-> IF Linked(s) THEN Len(versions) - Cardinality(OnTheirWay(s)) ELSE 0],
  shown <- [s \in Servers |-> IF Linked(s) THEN {w \in Worlds : list[s][w] # NoInfo} ELSE {}]

(* A connected game server never shows a world that its version of the     *)
(* Master's list does not have, and a world that was taken off the list is *)
(* in no later version.                                                    *)
THEOREM ListsAreParts == AllReadable => (VSpec => [](Abstract!ShowsPartOfVersion /\ Abstract!NeverReopened))
<1>1. ListTheorems!Spec => []ListTheorems!ShowsPartOfVersion BY ListTheorems!ShowsPart
<1>2. ListTheorems!Spec => []ListTheorems!NeverReopened BY ListTheorems!ClosedForGood
<1>3. Abstract!Init <=> ListTheorems!Init BY DEF Abstract!Init, ListTheorems!Init
<1>4. [Abstract!Next]_Abstract!vars <=> [ListTheorems!Next]_ListTheorems!vars
  BY DEF Abstract!vars, Abstract!Next, Abstract!Open, Abstract!Close, Abstract!Connect, Abstract!Disconnect,
         Abstract!Follow, Abstract!Learn, Abstract!Present, Abstract!Ever,
         ListTheorems!vars, ListTheorems!Next, ListTheorems!Open, ListTheorems!Close, ListTheorems!Connect,
         ListTheorems!Disconnect, ListTheorems!Follow, ListTheorems!Learn, ListTheorems!Present, ListTheorems!Ever
<1>5. /\ Abstract!ShowsPartOfVersion <=> ListTheorems!ShowsPartOfVersion
      /\ Abstract!NeverReopened <=> ListTheorems!NeverReopened
  BY DEF Abstract!ShowsPartOfVersion, Abstract!NeverReopened, ListTheorems!ShowsPartOfVersion, ListTheorems!NeverReopened
<1>6. Abstract!Spec <=> ListTheorems!Spec BY <1>3, <1>4, PTL DEF Abstract!Spec, ListTheorems!Spec
<1>7. ListTheorems!Spec => [](Abstract!ShowsPartOfVersion /\ Abstract!NeverReopened) BY <1>1, <1>2, <1>5, PTL
<1> QED BY <1>6, <1>7, Refines DEF ImplementsWorldList
=============================================================================
