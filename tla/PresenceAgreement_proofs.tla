---------------------- MODULE PresenceAgreement_proofs ----------------------
(***************************************************************************)
(* What the two sides of a link agree on, for any users, servers, worlds   *)
(* and bounds.  The last packet on its way about a user decides: upwards,  *)
(* whether the server will be subscribed; downwards, what it will show.    *)
(* Adding a packet about the user sets both, adding another leaves them,   *)
(* and handling a packet leaves them, for the handler does what the packet *)
(* says.  Each step of Next is one of these three, or ends the link.       *)
(***************************************************************************)
EXTENDS PlayerPresence_proofs, SequenceTheorems

(* Queues: A are the places of the packets that matter, Y the places of    *)
(* those that say yes.                                                     *)

LastSays(A, Y) == \E i \in A : i \in Y /\ \A j \in A : j <= i

(* B and Z are the places after one packet more came to n packets.         *)
Appended(n, A, Y, B, Z) ==
  /\ n \in Nat /\ A \in SUBSET (1..n)
  /\ B = A \/ B = A \cup {n + 1}
  /\ \A i \in A : i \in Z <=> i \in Y

(* B and Z are the places after the first of n packets was handled.        *)
Handled(n, A, Y, B, Z) ==
  /\ n \in Nat /\ A \in SUBSET (1..n)
  /\ \A i : i \in B <=> i \in 1..(n - 1) /\ i + 1 \in A
  /\ \A i \in B : i \in Z <=> i + 1 \in Y

LEMMA LastAppended ==
  ASSUME NEW n, NEW A, NEW Y, NEW B, NEW Z, Appended(n, A, Y, B, Z)
  PROVE  /\ LastSays(B, Z) <=> IF n + 1 \in B THEN n + 1 \in Z ELSE LastSays(A, Y)
         /\ B = {} <=> n + 1 \notin B /\ A = {}
<1> USE DEF Appended
<1>1. \A i \in A : i \in 1..n /\ ~(n + 1 <= i) /\ i <= n + 1
  OBVIOUS
<1>2. CASE B = A
  BY <1>1, <1>2 DEF LastSays
<1>3. CASE B = A \cup {n + 1}
  BY <1>1, <1>3 DEF LastSays
<1> QED BY <1>2, <1>3

LEMMA FirstRemoved ==
  ASSUME NEW n, NEW A, NEW Y, NEW B, NEW Z, Handled(n, A, Y, B, Z)
  PROVE  /\ B # {} => A # {} /\ (LastSays(B, Z) <=> LastSays(A, Y))
         /\ B = {} => ~LastSays(B, Z) /\ (A = {} <=> 1 \notin A) /\ (LastSays(A, Y) <=> 1 \in A /\ 1 \in Y)
<1> USE DEF Handled
<1>1. \A i \in A : i = 1 \/ (i - 1 \in B /\ i = (i - 1) + 1)
  OBVIOUS
<1>2. CASE B = {}
  <2>1. A = {} \/ A = {1}
    BY <1>1, <1>2
  <2> QED BY <1>2, <2>1 DEF LastSays
<1>3. CASE B # {}
  <2>1. ASSUME LastSays(B, Z) PROVE LastSays(A, Y)
    <3>1. PICK i \in B : i \in Z /\ \A j \in B : j <= i
      BY <2>1 DEF LastSays
    <3>2. i + 1 \in A /\ i + 1 \in Y /\ i \in 1..(n - 1)
      BY <3>1
    <3>3. \A j \in A : j <= i + 1
      BY <1>1, <3>1, <3>2
    <3> QED BY <3>2, <3>3 DEF LastSays
  <2>2. ASSUME LastSays(A, Y) PROVE LastSays(B, Z)
    <3>1. PICK i \in A : i \in Y /\ \A j \in A : j <= i
      BY <2>2 DEF LastSays
    <3>2. i # 1
      BY <1>3, <3>1
    <3>3. i - 1 \in B /\ i - 1 \in Z
      BY <1>1, <3>1, <3>2
    <3>4. \A j \in B : j <= i - 1
      BY <3>1
    <3> QED BY <3>3, <3>4 DEF LastSays
  <2> QED BY <1>3, <2>1, <2>2
<1> QED BY <1>2, <1>3

LEMMA AppendAt ==
  ASSUME NEW S, NEW q \in Seq(S), NEW e
  PROVE  /\ DOMAIN Append(q, e) = 1..(Len(q) + 1) /\ DOMAIN q = 1..Len(q) /\ Len(q) \in Nat
         /\ \A i \in DOMAIN q : Append(q, e)[i] = q[i]
         /\ Append(q, e)[Len(q) + 1] = e
OBVIOUS

LEMMA TailAt ==
  ASSUME NEW S, NEW q \in Seq(S), q # <<>>
  PROVE  /\ DOMAIN Tail(q) = 1..(Len(q) - 1) /\ DOMAIN q = 1..Len(q) /\ Len(q) \in Nat \ {0}
         /\ \A i \in DOMAIN Tail(q) : Tail(q)[i] = q[i + 1]
         /\ Head(q) = q[1]
<1>1. Len(q) \in Nat \ {0} /\ DOMAIN q = 1..Len(q)
  BY EmptySeq, LenProperties
<1>2. /\ Tail(q) \in Seq(S) /\ Len(Tail(q)) = Len(q) - 1
      /\ \A i \in 1 .. Len(Tail(q)) : Tail(q)[i] = q[i + 1]
  BY HeadTailProperties
<1>3. DOMAIN Tail(q) = 1..Len(Tail(q))
  BY <1>2, LenProperties
<1>4. Head(q) = q[1]
  OBVIOUS
<1> QED BY <1>1, <1>2, <1>3, <1>4

(* Upwards: whether the server is subscribed to u once q is handled.       *)

Subs(q) == {i \in DOMAIN q : q[i].kind = "sub"}
WillOf(q, u, b) == (About(q, u) = {} /\ b) \/ LastSays(About(q, u), Subs(q))

LEMMA WillAppend ==
  ASSUME NEW q \in Seq(UpMsg), NEW e \in UpMsg, NEW u, NEW b
  PROVE  WillOf(Append(q, e), u, b) <=> IF u \in e.users THEN e.kind = "sub" ELSE WillOf(q, u, b)
<1> DEFINE r == Append(q, e)
<1>1. /\ DOMAIN r = 1..(Len(q) + 1) /\ DOMAIN q = 1..Len(q) /\ Len(q) \in Nat
      /\ \A i \in DOMAIN q : r[i] = q[i]
      /\ r[Len(q) + 1] = e
  BY AppendAt
<1> HIDE DEF r
<1>2. /\ About(q, u) \in SUBSET (1..Len(q))
      /\ About(r, u) = IF u \in e.users THEN About(q, u) \cup {Len(q) + 1} ELSE About(q, u)
      /\ About(r, u) = About(q, u) \/ About(r, u) = About(q, u) \cup {Len(q) + 1}
      /\ Len(q) + 1 \in About(r, u) <=> u \in e.users
  BY <1>1 DEF About
<1>3. /\ \A i \in About(q, u) : i \in Subs(r) <=> i \in Subs(q)
      /\ Len(q) + 1 \in Subs(r) <=> e.kind = "sub"
  BY <1>1, <1>2 DEF Subs
<1>4. Appended(Len(q), About(q, u), Subs(q), About(r, u), Subs(r))
  BY <1>1, <1>2, <1>3 DEF Appended
<1>5. /\ LastSays(About(r, u), Subs(r)) <=>
           IF Len(q) + 1 \in About(r, u) THEN Len(q) + 1 \in Subs(r) ELSE LastSays(About(q, u), Subs(q))
      /\ About(r, u) = {} <=> Len(q) + 1 \notin About(r, u) /\ About(q, u) = {}
  BY <1>4, LastAppended
<1> QED BY <1>2, <1>3, <1>5, Zenon DEF WillOf, r

LEMMA WillTail ==
  ASSUME NEW q \in Seq(UpMsg), q # <<>>, NEW u, NEW b, NEW c,
         c <=> IF u \in Head(q).users THEN Head(q).kind = "sub" ELSE b
  PROVE  WillOf(Tail(q), u, c) <=> WillOf(q, u, b)
<1> DEFINE r == Tail(q)
<1>1. /\ DOMAIN r = 1..(Len(q) - 1) /\ DOMAIN q = 1..Len(q) /\ Len(q) \in Nat \ {0}
      /\ \A i \in DOMAIN r : r[i] = q[i + 1]
      /\ Head(q) = q[1]
  BY TailAt
<1> HIDE DEF r
<1>2. /\ About(q, u) \in SUBSET (1..Len(q))
      /\ \A i : i \in About(r, u) <=> i \in 1..(Len(q) - 1) /\ i + 1 \in About(q, u)
      /\ \A i \in About(r, u) : i \in Subs(r) <=> i + 1 \in Subs(q)
  BY <1>1 DEF About, Subs
<1>3. c <=> IF 1 \in About(q, u) THEN 1 \in Subs(q) ELSE b
  BY <1>1 DEF About, Subs
<1>4. Handled(Len(q), About(q, u), Subs(q), About(r, u), Subs(r))
  BY <1>1, <1>2 DEF Handled
<1>5. /\ About(r, u) # {} => About(q, u) # {} /\ (LastSays(About(r, u), Subs(r)) <=> LastSays(About(q, u), Subs(q)))
      /\ About(r, u) = {} => /\ ~LastSays(About(r, u), Subs(r))
                             /\ About(q, u) = {} <=> 1 \notin About(q, u)
                             /\ LastSays(About(q, u), Subs(q)) <=> 1 \in About(q, u) /\ 1 \in Subs(q)
  BY <1>4, FirstRemoved
<1> QED BY <1>3, <1>5, Zenon DEF WillOf, r

(* Downwards: what the server shows of u once q is handled.                *)

Mentions(q, u) == {i \in DOMAIN q : u \in DOMAIN q[i].status}
Greets(q, u) == {i \in Mentions(q, u) : q[i].status[u]}
ToldOf(q, u, b) == (Mentions(q, u) = {} /\ b) \/ LastSays(Mentions(q, u), Greets(q, u))

LEMMA ToldAppend ==
  ASSUME NEW q \in Seq(DownMsg), NEW e \in DownMsg, NEW u, NEW b
  PROVE  ToldOf(Append(q, e), u, b) <=> IF u \in DOMAIN e.status THEN e.status[u] ELSE ToldOf(q, u, b)
<1> DEFINE r == Append(q, e)
<1>1. /\ DOMAIN r = 1..(Len(q) + 1) /\ DOMAIN q = 1..Len(q) /\ Len(q) \in Nat
      /\ \A i \in DOMAIN q : r[i] = q[i]
      /\ r[Len(q) + 1] = e
  BY AppendAt
<1> HIDE DEF r
<1>2. /\ Mentions(q, u) \in SUBSET (1..Len(q))
      /\ Mentions(r, u) = IF u \in DOMAIN e.status THEN Mentions(q, u) \cup {Len(q) + 1} ELSE Mentions(q, u)
      /\ Mentions(r, u) = Mentions(q, u) \/ Mentions(r, u) = Mentions(q, u) \cup {Len(q) + 1}
      /\ Len(q) + 1 \in Mentions(r, u) <=> u \in DOMAIN e.status
  BY <1>1 DEF Mentions
<1>3. /\ \A i \in Mentions(q, u) : i \in Greets(r, u) <=> i \in Greets(q, u)
      /\ u \in DOMAIN e.status => (Len(q) + 1 \in Greets(r, u) <=> e.status[u])
  BY <1>1, <1>2 DEF Greets
<1>4. Appended(Len(q), Mentions(q, u), Greets(q, u), Mentions(r, u), Greets(r, u))
  BY <1>1, <1>2, <1>3 DEF Appended
<1>5. /\ LastSays(Mentions(r, u), Greets(r, u)) <=>
           IF Len(q) + 1 \in Mentions(r, u) THEN Len(q) + 1 \in Greets(r, u) ELSE LastSays(Mentions(q, u), Greets(q, u))
      /\ Mentions(r, u) = {} <=> Len(q) + 1 \notin Mentions(r, u) /\ Mentions(q, u) = {}
  BY <1>4, LastAppended
<1> QED BY <1>2, <1>3, <1>5, Zenon DEF ToldOf, r

LEMMA ToldTail ==
  ASSUME NEW q \in Seq(DownMsg), q # <<>>, NEW u, NEW b, NEW c,
         c <=> IF u \in DOMAIN Head(q).status THEN Head(q).status[u] ELSE b
  PROVE  ToldOf(Tail(q), u, c) <=> ToldOf(q, u, b)
<1> DEFINE r == Tail(q)
<1>1. /\ DOMAIN r = 1..(Len(q) - 1) /\ DOMAIN q = 1..Len(q) /\ Len(q) \in Nat \ {0}
      /\ \A i \in DOMAIN r : r[i] = q[i + 1]
      /\ Head(q) = q[1]
  BY TailAt
<1> HIDE DEF r
<1>2. /\ Mentions(q, u) \in SUBSET (1..Len(q))
      /\ \A i : i \in Mentions(r, u) <=> i \in 1..(Len(q) - 1) /\ i + 1 \in Mentions(q, u)
      /\ \A i \in Mentions(r, u) : i \in Greets(r, u) <=> i + 1 \in Greets(q, u)
  BY <1>1 DEF Mentions, Greets
<1>3. c <=> IF 1 \in Mentions(q, u) THEN 1 \in Greets(q, u) ELSE b
  BY <1>1 DEF Mentions, Greets
<1>4. Handled(Len(q), Mentions(q, u), Greets(q, u), Mentions(r, u), Greets(r, u))
  BY <1>1, <1>2 DEF Handled
<1>5. /\ Mentions(r, u) # {} => /\ Mentions(q, u) # {}
                                /\ LastSays(Mentions(r, u), Greets(r, u)) <=> LastSays(Mentions(q, u), Greets(q, u))
      /\ Mentions(r, u) = {} => /\ ~LastSays(Mentions(r, u), Greets(r, u))
                                /\ Mentions(q, u) = {} <=> 1 \notin Mentions(q, u)
                                /\ LastSays(Mentions(q, u), Greets(q, u)) <=> 1 \in Mentions(q, u) /\ 1 \in Greets(q, u)
  BY <1>4, FirstRemoved
<1> QED BY <1>3, <1>5, Zenon DEF ToldOf, r

-----------------------------------------------------------------------------
(* A linked server is registered; one the Master does not know has no      *)
(* packet waiting there, and one that is down has no world and watches     *)
(* nobody.                                                                 *)

LinkOf(s) ==
  /\ proc[s] = "linked" => registered[s]
  /\ ~registered[s] => up[s] = <<>>
  /\ proc[s] = "down" => /\ \A u \in Users : presence[s][u] = NoPresence
                         /\ \A w \in Worlds : world[s][w] = "none"
LinkInv == \A s \in Servers : LinkOf(s)

LinkTypes ==
  /\ up \in [Servers -> Seq(UpMsg)] /\ down \in [Servers -> Seq(DownMsg)]
  /\ proc \in [Servers -> {"down", "linked", "cut"}]
  /\ registered \in [Servers -> BOOLEAN] /\ presence \in [Servers -> [Users -> Watch]]
  /\ world \in [Servers -> [Worlds -> {"none", "loading", "ready"}]]
  /\ toSub \in [Servers -> SUBSET Users] /\ subs \in [Users -> SUBSET Servers]

LEMMA LinkTyped == TypesInv => LinkTypes
BY DEF TypesInv, LinkTypes, QueuesTypeOK, MasterInv, MasterTypeOK, WatchInv, WorldsTyped

(* The steps of a game server that are not an answer to a packet.          *)
OwnStep(s) == UpdateSubscribe(s) \/ UpdateUnsubscribe(s) \/ WorldSteps(s)

(* They touch nothing of the other servers and nothing at the Master, send *)
(* only over a link, and a server that is down takes none with an effect.  *)
LEMMA OwnStepFrame ==
  ASSUME LinkTypes, NEW s \in Servers, OwnStep(s)
  PROVE  /\ UNCHANGED <<masterVars, down, proc>>
         /\ \A t \in Servers \ {s} : /\ presence'[t] = presence[t] /\ up'[t] = up[t]
                                     /\ world'[t] = world[t] /\ toSub'[t] = toSub[t]
         /\ proc[s] # "linked" => up' = up
<1>1. UNCHANGED <<masterVars, down, proc>>
  BY Zenon DEF OwnStep, UpdateSubscribe, UpdateUnsubscribe, WorldSteps, StartWorldLoad, OnHeartMonitorAdded,
     OnHeartMonitorRemoved
<1>2. \/ presence' = presence
      \/ \E f : presence' = [presence EXCEPT ![s] = f]
      \/ \E u, p : presence' = [presence EXCEPT ![s][u] = p]
  BY Zenon DEF OwnStep, UpdateSubscribe, UpdateUnsubscribe, WorldSteps, StartWorldLoad, OnHeartMonitorAdded,
     OnHeartMonitorRemoved, RequestPresenceAsap, RequestPresenceLater, ReleasePresence
<1>3. up' = up \/ (proc[s] = "linked" /\ \E m : up' = [up EXCEPT ![s] = Append(@, m)])
  BY Zenon DEF OwnStep, UpdateSubscribe, UpdateUnsubscribe, WorldSteps, StartWorldLoad, OnHeartMonitorAdded,
     OnHeartMonitorRemoved, RequestPresenceAsap, RequestPresenceLater, ToMaster
<1>4. world' = world \/ \E w, st : world' = [world EXCEPT ![s][w] = st]
  BY Zenon DEF OwnStep, UpdateSubscribe, UpdateUnsubscribe, WorldSteps, StartWorldLoad, OnHeartMonitorAdded,
     OnHeartMonitorRemoved
<1>5. toSub' = toSub \/ \E f : toSub' = [toSub EXCEPT ![s] = f]
  BY Zenon DEF OwnStep, UpdateSubscribe, UpdateUnsubscribe, WorldSteps, StartWorldLoad, OnHeartMonitorAdded,
     OnHeartMonitorRemoved, RequestPresenceAsap, RequestPresenceLater, ReleasePresence
<1> QED BY <1>1, <1>2, <1>3, <1>4, <1>5 DEF LinkTypes

LEMMA DownIsStill ==
  ASSUME TypesInv, NEW s \in Servers, OwnStep(s), proc[s] = "down", LinkOf(s)
  PROVE  presence'[s] = presence[s] /\ world'[s] = world[s]
<1> USE DEF LinkOf
<1>1. \A u \in Users : presence[s][u].ref = -1
  BY DEF NoPresence
<1>2. ~WorldSteps(s)
  BY Zenon DEF WorldSteps, StartWorldLoad, OnHeartMonitorAdded, OnHeartMonitorRemoved
<1>3. CASE UpdateSubscribe(s)
  BY <1>3 DEF UpdateSubscribe
<1>4. CASE UpdateUnsubscribe(s)
  <2>1. presence'[s] = [u \in Users |-> presence[s][u]] /\ world' = world
    BY <1>1, <1>4 DEF UpdateUnsubscribe, TypesInv, WatchInv
  <2> QED BY <2>1 DEF TypesInv, WatchInv
<1> QED BY <1>2, <1>3, <1>4 DEF OwnStep

LEMMA LinkOther ==
  ASSUME NEW s, LinkOf(s), proc'[s] = proc[s], registered'[s] = registered[s], up'[s] = up[s],
         proc[s] = "down" => presence'[s] = presence[s] /\ world'[s] = world[s]
  PROVE  LinkOf(s)'
BY DEF LinkOf

LEMMA LinkNext == TypesInv /\ LinkInv /\ [Next]_vars => LinkInv'
<1> SUFFICES ASSUME TypesInv, LinkInv, [Next]_vars PROVE LinkInv'
  OBVIOUS
<1> USE DEF LinkInv
<1>0. LinkTypes
  BY LinkTyped
<1>1. CASE UNCHANGED <<proc, registered, up, presence, world>>
  BY <1>1, LinkOther
<1>2. ASSUME NEW s \in Servers, FromServerHandlers(s) PROVE LinkInv'
  <2>1. registered[s] /\ UNCHANGED <<proc, registered, presence, world>> /\ up' = [up EXCEPT ![s] = Tail(@)]
    BY <1>2 DEF FromServerHandlers, PlayerSubscribe, PlayerUnSubscribe, FromServer, gameVars
  <2> QED BY <1>0, <2>1 DEF LinkOf, LinkTypes
<1>3. ASSUME NEW s \in Servers, FromMasterHandlers(s) PROVE LinkInv'
  <2>1. proc[s] = "linked" /\ UNCHANGED <<proc, registered, up>>
    BY <1>3 DEF FromMasterHandlers, OnUpdate, OnSnapshot, FromMaster, masterVars
  <2>2. \A t \in Servers \ {s} : presence'[t] = presence[t] /\ world'[t] = world[t]
    BY <1>0, <1>3 DEF FromMasterHandlers, OnUpdate, OnSnapshot, LinkTypes
  <2> QED BY <2>1, <2>2 DEF LinkOf
<1>4. ASSUME NEW s \in Servers, OwnStep(s) PROVE LinkInv'
  <2>1. ASSUME NEW t \in Servers, t # s PROVE LinkOf(t)'
    BY <1>0, <1>4, <2>1, OwnStepFrame, LinkOther DEF masterVars
  <2>2. LinkOf(s)'
    <3>1. UNCHANGED <<proc, registered>> /\ (proc[s] # "linked" => up' = up)
      BY <1>0, <1>4, OwnStepFrame DEF masterVars
    <3> QED BY <1>4, <3>1, DownIsStill DEF LinkOf
  <2> QED BY <2>1, <2>2
<1>5. ASSUME NEW s \in Servers, AddServer(s) \/ RemoveServer(s) \/ LoseLink(s) \/ Crash(s) PROVE LinkInv'
  <2>1. ASSUME NEW t \in Servers, t # s PROVE LinkOf(t)'
    <3>1. /\ proc'[t] = proc[t] /\ registered'[t] = registered[t] /\ up'[t] = up[t]
          /\ presence'[t] = presence[t] /\ world'[t] = world[t]
      BY <1>0, <1>5, <2>1 DEF AddServer, RemoveServer, LoseLink, Crash, gameVars, masterVars, LinkTypes
    <3> QED BY <3>1, LinkOther
  <2>2. ASSUME AddServer(s) PROVE LinkOf(s)'
    BY <1>0, <2>2 DEF AddServer, LinkOf, LinkTypes
  <2>3. ASSUME RemoveServer(s) PROVE LinkOf(s)'
    BY <1>0, <2>3 DEF RemoveServer, LinkOf, LinkTypes, gameVars
  <2>4. ASSUME LoseLink(s) PROVE LinkOf(s)'
    BY <1>0, <2>4 DEF LoseLink, LinkOf, LinkTypes, masterVars
  <2>5. ASSUME Crash(s) PROVE LinkOf(s)'
    BY <1>0, <2>5 DEF Crash, LinkOf, LinkTypes, masterVars
  <2> QED BY <1>5, <2>1, <2>2, <2>3, <2>4, <2>5
<1>6. FlushPresence \/ Sessions \/ UNCHANGED vars => UNCHANGED <<proc, registered, up, presence, world>>
  BY Zenon DEF FlushPresence, Sessions, CreateSession, MoveSession, EndSession, vars, gameVars, masterVars
<1> QED BY <1>1, <1>2, <1>3, <1>4, <1>5, <1>6, Zenon DEF Next, OwnStep

-----------------------------------------------------------------------------
(* Both sides agree on what is subscribed.                                 *)

AgreeOf(s) ==
  proc[s] = "linked" =>
    \A u \in Users :
      /\ presence[s][u].ref > 0 /\ u \notin toSub[s] => WillBeSubscribed(s, u)
      /\ presence[s][u].ref = -1 => ~WillBeSubscribed(s, u)
AgreeInv == \A s \in Servers : AgreeOf(s)

LEMMA WillIs == \A s, u : WillBeSubscribed(s, u) <=> WillOf(up[s], u, s \in subs[u])
BY DEF WillBeSubscribed, WillOf, LastSays, Subs, About

LEMMA WillIsNext == \A s, u : WillBeSubscribed(s, u)' <=> WillOf(up'[s], u, s \in subs'[u])
BY DEF WillBeSubscribed, WillOf, LastSays, Subs, About

LEMMA WillSame ==
  ASSUME NEW s, NEW u, up'[s] = up[s], s \in subs'[u] <=> s \in subs[u]
  PROVE  WillBeSubscribed(s, u)' <=> WillBeSubscribed(s, u)
BY DEF WillBeSubscribed, About

(* The Master does what the packet says.                                   *)
LEMMA WillHandled ==
  ASSUME LinkTypes, NEW s \in Servers, FromServerHandlers(s), NEW t \in Servers, NEW u \in Users
  PROVE  WillBeSubscribed(t, u)' <=> WillBeSubscribed(t, u)
<1>1. PICK U \in SUBSET Users : PlayerSubscribe(s, U) \/ PlayerUnSubscribe(s, U)
  BY DEF FromServerHandlers
<1>2. /\ up[s] \in Seq(UpMsg) /\ up[s] # <<>> /\ up' = [up EXCEPT ![s] = Tail(@)]
      /\ up \in [Servers -> Seq(UpMsg)] /\ subs \in [Users -> SUBSET Servers]
  BY <1>1 DEF PlayerSubscribe, PlayerUnSubscribe, FromServer, LinkTypes
<1>3. /\ Head(up[s]).users = U
      /\ s \in subs'[u] <=> IF u \in Head(up[s]).users THEN Head(up[s]).kind = "sub" ELSE s \in subs[u]
      /\ t # s => (t \in subs'[u] <=> t \in subs[u])
  BY <1>1, <1>2 DEF PlayerSubscribe, PlayerUnSubscribe, FromServer, Subscribe, Unsubscribe, Unsubscribed
<1>4. CASE t = s
  <2>1. WillOf(Tail(up[s]), u, s \in subs'[u]) <=> WillOf(up[s], u, s \in subs[u])
    BY <1>2, <1>3, WillTail
  <2> QED BY <1>2, <1>4, <2>1, WillIs, WillIsNext
<1>5. CASE t # s
  BY <1>2, <1>3, <1>5, WillSame
<1> QED BY <1>4, <1>5

LEMMA WillSent ==
  ASSUME LinkTypes, NEW s \in Servers, proc[s] = "linked", NEW U \in SUBSET Users, NEW m \in UpMsg,
         m.users = U, ToMaster(s, U, m), subs' = subs, NEW u \in Users
  PROVE  WillBeSubscribed(s, u)' <=> IF u \in U THEN m.kind = "sub" ELSE WillBeSubscribed(s, u)
<1>1. up[s] \in Seq(UpMsg) /\ up \in [Servers -> Seq(UpMsg)]
  BY DEF LinkTypes
<1>2. CASE U = {}
  BY <1>2, WillSame DEF ToMaster
<1>3. CASE U # {}
  <2>1. up'[s] = Append(up[s], m)
    BY <1>1, <1>3 DEF ToMaster
  <2>2. WillOf(Append(up[s], m), u, s \in subs[u]) <=>
          IF u \in U THEN m.kind = "sub" ELSE WillOf(up[s], u, s \in subs[u])
    BY <1>1, WillAppend
  <2> QED BY <2>1, <2>2, WillIs, WillIsNext
<1> QED BY <1>2, <1>3

LEMMA AgreeSame ==
  ASSUME NEW s, AgreeOf(s), proc'[s] = "linked" => proc[s] = "linked", toSub'[s] = toSub[s],
         \A u \in Users : /\ presence'[s][u].ref = presence[s][u].ref
                          /\ WillBeSubscribed(s, u)' <=> WillBeSubscribed(s, u)
  PROVE  AgreeOf(s)'
<1>1. ASSUME NEW u \in Users, proc'[s] = "linked"
      PROVE  /\ presence'[s][u].ref > 0 /\ u \notin toSub'[s] => WillBeSubscribed(s, u)'
             /\ presence'[s][u].ref = -1 => ~WillBeSubscribed(s, u)'
  BY <1>1 DEF AgreeOf
<1> QED BY <1>1 DEF AgreeOf

(* Who is needed for the first time is subscribed or due to be.            *)
LEMMA AgreeRequest ==
  ASSUME TypesInv, NEW s \in Servers, AgreeOf(s), proc' = proc, subs' = subs,
         NEW n \in [Users -> Nat], RequestPresenceLater(s, n) \/ RequestPresenceAsap(s, n)
  PROVE  AgreeOf(s)'
<1> SUFFICES ASSUME proc[s] = "linked" PROVE AgreeOf(s)'
  BY DEF AgreeOf
<1>0. LinkTypes /\ WatchInv
  BY LinkTyped DEF TypesInv
<1> DEFINE new == NewlyNeeded(s, n)
<1>1. /\ new \in SUBSET Users
      /\ \A u \in new : n[u] > 0
      /\ \A u \in Users \ new : n[u] > 0 => presence[s][u].ref > 0
  BY <1>0, WatchFields DEF NewlyNeeded, WatchInv
<1>2. presence'[s] = Needed(s, n)
  BY <1>0 DEF RequestPresenceLater, RequestPresenceAsap, LinkTypes
<1>3. \A u \in Users : /\ n[u] = 0 => presence'[s][u] = presence[s][u]
                       /\ n[u] > 0 => presence'[s][u].ref > 0
  BY <1>0, <1>2, NeededTyped
<1>4. \A u \in Users : n[u] \in Nat
  OBVIOUS
<1>5. CASE RequestPresenceLater(s, n)
  <2>1. toSub'[s] = toSub[s] \cup new /\ up' = up
    BY <1>0, <1>5 DEF RequestPresenceLater, LinkTypes
  <2>2. \A u \in Users : WillBeSubscribed(s, u)' <=> WillBeSubscribed(s, u)
    BY <2>1, WillSame
  <2> HIDE DEF new
  <2>3. ASSUME NEW u \in Users
        PROVE  /\ presence'[s][u].ref > 0 /\ u \notin toSub'[s] => WillBeSubscribed(s, u)'
               /\ presence'[s][u].ref = -1 => ~WillBeSubscribed(s, u)'
    BY <1>1, <1>3, <1>4, <2>1, <2>2 DEF AgreeOf
  <2> QED BY <2>3 DEF AgreeOf
<1>6. CASE RequestPresenceAsap(s, n)
  <2>1. toSub'[s] = toSub[s] \ new /\ ToMaster(s, new, Subscribe(new))
    BY <1>0, <1>6 DEF RequestPresenceAsap, LinkTypes
  <2>2. Subscribe(new) \in UpMsg /\ Subscribe(new).users = new /\ Subscribe(new).kind = "sub"
    BY <1>1, PacketsTyped DEF Subscribe
  <2> HIDE DEF new
  <2>3. \A u \in Users : WillBeSubscribed(s, u)' <=> (u \in new \/ WillBeSubscribed(s, u))
    BY <1>0, <1>1, <2>1, <2>2, WillSent
  <2>4. ASSUME NEW u \in Users
        PROVE  /\ presence'[s][u].ref > 0 /\ u \notin toSub'[s] => WillBeSubscribed(s, u)'
               /\ presence'[s][u].ref = -1 => ~WillBeSubscribed(s, u)'
    BY <1>1, <1>3, <1>4, <2>1, <2>3 DEF AgreeOf
  <2> QED BY <2>4 DEF AgreeOf
<1> QED BY <1>5, <1>6

(* Who is released for the last time stays subscribed for a while.         *)
LEMMA AgreeRelease ==
  ASSUME TypesInv, NEW s \in Servers, AgreeOf(s), UNCHANGED <<proc, up, subs>>,
         NEW v \in Users, ReleasePresence(s, v)
  PROVE  AgreeOf(s)'
<1> DEFINE ref == presence[s][v].ref
<1>0. LinkTypes /\ WatchInv
  BY LinkTyped DEF TypesInv
<1>1. ref \in Nat \cup {-1} /\ presence[s][v] \in Watch
  BY <1>0, WatchFields DEF WatchInv
<1>2. \A u \in Users : WillBeSubscribed(s, u)' <=> WillBeSubscribed(s, u)
  BY WillSame
<1>3. \A u \in Users \ {v} : presence'[s][u] = presence[s][u] /\ (u \in toSub'[s] <=> u \in toSub[s])
  BY <1>0 DEF ReleasePresence, LinkTypes
<1>4. /\ ref > 1 => presence'[s][v].ref > 0 /\ toSub' = toSub
      /\ ref = 1 => presence'[s][v].ref = 0
      /\ ref \in {-1, 0} => presence' = presence
  <2>1. CASE ref > 0
    <3>1. ref - 1 \in Nat
      BY <1>1, <2>1
    <3>2. presence'[s][v] = [presence[s][v] EXCEPT !.ref = ref - 1]
      BY <1>0, <2>1 DEF ReleasePresence, LinkTypes
    <3>3. presence'[s][v].ref = ref - 1
      BY <1>1, <3>1, <3>2, RefUpdate
    <3>4. ref > 1 => toSub' = toSub
      BY <1>1 DEF ReleasePresence
    <3> QED BY <1>1, <2>1, <3>3, <3>4
  <2>2. CASE ~(ref > 0)
    BY <1>1, <2>2 DEF ReleasePresence
  <2> QED BY <2>1, <2>2
<1> HIDE DEF ref
<1>5. ASSUME NEW u \in Users, proc[s] = "linked"
      PROVE  /\ presence'[s][u].ref > 0 /\ u \notin toSub'[s] => WillBeSubscribed(s, u)'
             /\ presence'[s][u].ref = -1 => ~WillBeSubscribed(s, u)'
  BY <1>1, <1>2, <1>3, <1>4, <1>5 DEF AgreeOf, ref
<1> QED BY <1>5 DEF AgreeOf

LEMMA AgreeTimer ==
  ASSUME TypesInv, NEW s \in Servers, AgreeOf(s), UpdateSubscribe(s) \/ UpdateUnsubscribe(s)
  PROVE  AgreeOf(s)'
<1>0. LinkTypes /\ WatchInv /\ proc' = proc /\ subs' = subs
  BY LinkTyped DEF TypesInv, UpdateSubscribe, UpdateUnsubscribe, masterVars
<1> SUFFICES ASSUME proc[s] = "linked" PROVE AgreeOf(s)'
  BY <1>0 DEF AgreeOf
<1>1. CASE UpdateSubscribe(s)
  <2> DEFINE list == {u \in toSub[s] : presence[s][u].ref > 0}
  <2>1. list = toSub[s] /\ toSub[s] \in SUBSET Users
    BY <1>0 DEF WatchInv, NoForgottenSubscription
  <2>2. toSub'[s] = {} /\ presence' = presence /\ ToMaster(s, toSub[s], Subscribe(toSub[s]))
    BY <1>0, <1>1, <2>1 DEF UpdateSubscribe, LinkTypes
  <2>3. /\ Subscribe(toSub[s]) \in UpMsg
        /\ Subscribe(toSub[s]).users = toSub[s] /\ Subscribe(toSub[s]).kind = "sub"
    BY <2>1, PacketsTyped DEF Subscribe
  <2>4. \A u \in Users : WillBeSubscribed(s, u)' <=> (u \in toSub[s] \/ WillBeSubscribed(s, u))
    BY <1>0, <2>1, <2>2, <2>3, WillSent
  <2>5. \A u \in toSub[s] : presence[s][u].ref # -1
    BY <2>1
  <2> HIDE DEF list
  <2>6. ASSUME NEW u \in Users
        PROVE  /\ presence'[s][u].ref > 0 /\ u \notin toSub'[s] => WillBeSubscribed(s, u)'
               /\ presence'[s][u].ref = -1 => ~WillBeSubscribed(s, u)'
    BY <2>2, <2>4, <2>5 DEF AgreeOf
  <2> QED BY <2>6 DEF AgreeOf
<1>2. CASE UpdateUnsubscribe(s)
  <2> DEFINE list == {u \in toUnsub[s] : presence[s][u].ref = 0}
  <2>1. list \in SUBSET Users
    BY <1>0 DEF WatchInv
  <2>2. toSub' = toSub /\ ToMaster(s, list, Unsubscribe(list))
    BY <1>2 DEF UpdateUnsubscribe
  <2>3. \A u \in Users : presence'[s][u] = IF u \in list THEN NoPresence ELSE presence[s][u]
    BY <1>0, <1>2 DEF UpdateUnsubscribe, LinkTypes
  <2>4. Unsubscribe(list) \in UpMsg /\ Unsubscribe(list).users = list /\ Unsubscribe(list).kind = "unsub"
    BY <2>1, PacketsTyped DEF Unsubscribe
  <2> HIDE DEF list
  <2>5. \A u \in Users : WillBeSubscribed(s, u)' <=> (u \notin list /\ WillBeSubscribed(s, u))
    BY <1>0, <2>1, <2>2, <2>4, WillSent
  <2>6. ASSUME NEW u \in Users
        PROVE  /\ presence'[s][u].ref > 0 /\ u \notin toSub'[s] => WillBeSubscribed(s, u)'
               /\ presence'[s][u].ref = -1 => ~WillBeSubscribed(s, u)'
    BY <2>2, <2>3, <2>5 DEF AgreeOf, NoPresence
  <2> QED BY <2>6 DEF AgreeOf
<1> QED BY <1>1, <1>2

LEMMA AgreeOwnStep ==
  ASSUME TypesInv, NEW s \in Servers, AgreeOf(s), OwnStep(s)
  PROVE  AgreeOf(s)'
<1>0. UNCHANGED <<proc, subs>>
  BY LinkTyped, OwnStepFrame DEF masterVars
<1>1. CASE UpdateSubscribe(s) \/ UpdateUnsubscribe(s)
  BY <1>1, AgreeTimer
<1>2. ASSUME NEW w \in Worlds, NEW q \in SavedMonitors, StartWorldLoad(s, w, q) PROVE AgreeOf(s)'
  <2>1. CASE RequestPresenceAsap(s, RequiredTimes(s, q))
    BY <1>0, <2>1, AgreeRequest, RequiredTimesTyped
  <2>2. CASE UNCHANGED <<presence, toSub, toUnsub, up>>
    BY <1>0, <2>2, AgreeSame, WillSame
  <2> QED BY <1>2, <2>1, <2>2, Zenon DEF StartWorldLoad
<1>3. ASSUME NEW w \in Worlds, NEW u \in Users, OnHeartMonitorAdded(s, w, u) PROVE AgreeOf(s)'
  <2>1. RequestPresenceLater(s, [v \in Users |-> IF v = u THEN 1 ELSE 0])
    BY <1>3, Zenon DEF OnHeartMonitorAdded
  <2>2. [v \in Users |-> IF v = u THEN 1 ELSE 0] \in [Users -> Nat]
    OBVIOUS
  <2> QED BY <1>0, <2>1, <2>2, AgreeRequest
<1>4. ASSUME NEW w \in Worlds, NEW u \in Users, OnHeartMonitorRemoved(s, w, u) PROVE AgreeOf(s)'
  <2>1. ReleasePresence(s, u) /\ UNCHANGED up
    BY <1>4, Zenon DEF OnHeartMonitorRemoved
  <2> QED BY <1>0, <2>1, AgreeRelease
<1> QED BY <1>1, <1>2, <1>3, <1>4, Zenon DEF OwnStep, WorldSteps

(* A packet changes no count.                                              *)
LEMMA NotedRef ==
  ASSUME WatchInv, NEW s \in Servers, NEW m \in DownMsg, NEW u \in Users
  PROVE  Noted(s, m.status)[u].ref = presence[s][u].ref
<1>1. presence[s][u] \in Watch
  BY DEF WatchInv
<1>2. CASE u \in DOMAIN m.status /\ Known(s, u)
  <2>1. Noted(s, m.status)[u] = [presence[s][u] EXCEPT !.on = m.status[u]] /\ m.status[u] \in BOOLEAN
    BY <1>2 DEF Noted, DownMsg
  <2> QED BY <1>1, <1>2, <2>1, OnUpdateTyped DEF Known
<1>3. CASE ~(u \in DOMAIN m.status /\ Known(s, u))
  BY <1>3 DEF Noted
<1> QED BY <1>2, <1>3

LEMMA AgreeOther ==
  ASSUME NEW s \in Servers, AgreeOf(s), proc'[s] = "linked" => proc[s] = "linked",
         toSub'[s] = toSub[s], presence'[s] = presence[s], up'[s] = up[s],
         \A u \in Users : s \in subs'[u] <=> s \in subs[u]
  PROVE  AgreeOf(s)'
BY AgreeSame, WillSame

LEMMA AgreeServer ==
  ASSUME TypesInv, LinkInv, AgreeInv, NEW s \in Servers,
         AddServer(s) \/ RemoveServer(s) \/ LoseLink(s) \/ Crash(s)
  PROVE  AgreeInv'
<1>0. LinkTypes /\ SubscribersRegistered /\ LinkOf(s)
  BY LinkTyped DEF TypesInv, MasterInv, LinkInv
<1>1. ASSUME NEW t \in Servers, t # s PROVE AgreeOf(t)'
  <2>1. /\ proc'[t] = proc[t] /\ up'[t] = up[t] /\ presence'[t] = presence[t] /\ toSub'[t] = toSub[t]
        /\ \A u \in Users : t \in subs'[u] <=> t \in subs[u]
    BY <1>0, <1>1 DEF AddServer, RemoveServer, LoseLink, Crash, gameVars, masterVars, LinkTypes, Unsubscribed
  <2> QED BY <2>1, AgreeOther DEF AgreeInv
<1>2. ASSUME AddServer(s) PROVE AgreeOf(s)'
  <2>1. /\ up'[s] = <<>> /\ \A u \in Users : presence'[s][u] = NoPresence /\ s \notin subs'[u]
    BY <1>0, <1>2 DEF AddServer, gameVars, LinkOf, SubscribersRegistered
  <2>2. \A u \in Users : About(up'[s], u) = {}
    BY <2>1 DEF About
  <2>3. \A u \in Users : ~WillBeSubscribed(s, u)'
    BY <2>1, <2>2, WillIsNext DEF WillOf, LastSays
  <2>4. \A u \in Users : ~(presence'[s][u].ref > 0)
    BY <2>1 DEF NoPresence
  <2> QED BY <2>3, <2>4 DEF AgreeOf
<1>3. ASSUME RemoveServer(s) \/ LoseLink(s) \/ Crash(s) PROVE proc'[s] # "linked"
  BY <1>0, <1>3 DEF RemoveServer, LoseLink, Crash, LinkTypes
<1>4. AgreeOf(s)'
  BY <1>2, <1>3 DEF AgreeOf
<1> QED BY <1>1, <1>4 DEF AgreeInv

LEMMA AgreeNext == TypesInv /\ LinkInv /\ AgreeInv /\ [Next]_vars => AgreeInv'
<1> SUFFICES ASSUME TypesInv, LinkInv, AgreeInv, [Next]_vars PROVE AgreeInv'
  OBVIOUS
<1>0. LinkTypes /\ WatchInv
  BY LinkTyped DEF TypesInv
<1>1. CASE UNCHANGED <<proc, up, presence, toSub, subs>>
  BY <1>1, AgreeOther DEF AgreeInv
<1>2. ASSUME NEW s \in Servers, FromServerHandlers(s) PROVE AgreeInv'
  <2>1. UNCHANGED <<proc, presence, toSub>>
    BY <1>2 DEF FromServerHandlers, gameVars
  <2>2. \A t \in Servers, u \in Users : WillBeSubscribed(t, u)' <=> WillBeSubscribed(t, u)
    BY <1>0, <1>2, WillHandled
  <2> QED BY <2>1, <2>2, AgreeSame DEF AgreeInv
<1>3. ASSUME NEW s \in Servers, FromMasterHandlers(s) PROVE AgreeInv'
  <2>1. PICK m \in DownMsg : OnUpdate(s, m) \/ OnSnapshot(s, m)
    BY <1>3 DEF FromMasterHandlers
  <2>2. UNCHANGED <<proc, up, subs, toSub>> /\ presence' = [presence EXCEPT ![s] = Noted(s, m.status)]
    BY <2>1 DEF OnUpdate, OnSnapshot, masterVars
  <2>3. \A t \in Servers, u \in Users : presence'[t][u].ref = presence[t][u].ref
    BY <1>0, <2>2, NotedRef DEF LinkTypes
  <2> QED BY <2>2, <2>3, AgreeSame, WillSame DEF AgreeInv
<1>4. ASSUME NEW s \in Servers, OwnStep(s) PROVE AgreeInv'
  <2>1. ASSUME NEW t \in Servers, t # s PROVE AgreeOf(t)'
    BY <1>0, <1>4, <2>1, OwnStepFrame, AgreeOther DEF AgreeInv, masterVars
  <2> QED BY <1>4, <2>1, AgreeOwnStep DEF AgreeInv
<1>5. ASSUME NEW s \in Servers, AddServer(s) \/ RemoveServer(s) \/ LoseLink(s) \/ Crash(s) PROVE AgreeInv'
  BY <1>5, AgreeServer
<1>6. FlushPresence \/ Sessions \/ UNCHANGED vars => UNCHANGED <<proc, up, presence, toSub, subs>>
  BY Zenon DEF FlushPresence, Sessions, CreateSession, MoveSession, EndSession, vars, gameVars, masterVars
<1> QED BY <1>1, <1>2, <1>3, <1>4, <1>5, <1>6, Zenon DEF Next, OwnStep

LEMMA LinkInit == Init => LinkInv /\ AgreeInv
<1> SUFFICES ASSUME Init PROVE LinkInv /\ AgreeInv
  OBVIOUS
<1>1. LinkInv
  BY DEF Init, LinkInv, LinkOf
<1>2. \A s \in Servers, u \in Users : About(up[s], u) = {} /\ s \notin subs[u]
  BY DEF Init, About
<1>3. \A s \in Servers, u \in Users : ~WillBeSubscribed(s, u) /\ ~(presence[s][u].ref > 0)
  BY <1>2 DEF Init, NoPresence, WillBeSubscribed
<1> QED BY <1>1, <1>3 DEF AgreeInv, AgreeOf

LEMMA AgreeCorrect == Spec => [](TypesInv /\ LinkInv /\ AgreeInv)
BY TypesCorrect, LinkInit, LinkNext, AgreeNext, PTL DEF Spec

(* While a server is linked the two sides agree: who is needed and not due *)
(* to be subscribed will be once what is on its way is handled, and who is *)
(* not watched will not, however worlds, monitors, timers, packets and     *)
(* restarts interleave.                                                    *)
THEOREM SubscriptionsAgree == Spec => []SubscriptionAgrees
<1>1. TypesInv /\ AgreeInv => SubscriptionAgrees
  <2> SUFFICES ASSUME TypesInv, AgreeInv, NEW s \in Servers, NEW u \in Users, proc[s] = "linked"
               PROVE  /\ presence[s][u].ref > 0 /\ u \notin toSub[s] => WillBeSubscribed(s, u)
                      /\ ~Known(s, u) => ~WillBeSubscribed(s, u)
    BY DEF SubscriptionAgrees
  <2>1. ~Known(s, u) => presence[s][u].ref = -1
    BY DEF Known, NoPresence
  <2> QED BY <2>1 DEF AgreeInv, AgreeOf
<1> QED BY <1>1, AgreeCorrect, PTL

-----------------------------------------------------------------------------
(* A server is told of a login.  Told looks at what it shows once it has   *)
(* handled what is on its way down; Due holds when the Master owes nothing *)
(* more about u: s is subscribed, asks nothing about u and no change of u  *)
(* waits to be sent.                                                       *)

Due(s, u) == s \in subs[u] /\ About(up[s], u) = {} /\ u \notin dirty /\ Online(u)
Told(s, u) == ToldOf(down[s], u, presence[s][u].on)
ToldAll(s) == proc[s] = "linked" => \A u \in Users : Due(s, u) => Told(s, u)
ToldInv == \A s \in Servers : ToldAll(s)

LEMMA ToldIs ==
  \A s, u : /\ Told(s, u) <=> ToldOf(down[s], u, presence[s][u].on)
            /\ Told(s, u)' <=> ToldOf(down'[s], u, presence'[s][u].on)
BY DEF Told, ToldOf, LastSays, Mentions, Greets

LEMMA DueNext ==
  \A s, u : Due(s, u)' <=>
    s \in subs'[u] /\ About(up'[s], u) = {} /\ u \notin dirty' /\ session'[u] # NoServer
BY DEF Due, Online, About

LEMMA ToldSame ==
  ASSUME NEW s, ToldAll(s), proc'[s] = "linked" => proc[s] = "linked",
         \A u \in Users : Due(s, u)' => Due(s, u) /\ (Told(s, u) => Told(s, u)')
  PROVE  ToldAll(s)'
<1>1. ASSUME NEW u \in Users, proc'[s] = "linked", Due(s, u)' PROVE Told(s, u)'
  BY <1>1 DEF ToldAll
<1> QED BY <1>1 DEF ToldAll

LEMMA ToldOther ==
  ASSUME NEW s, ToldAll(s), proc'[s] = proc[s], up'[s] = up[s], down'[s] = down[s], presence'[s] = presence[s],
         \A u \in Users : Due(s, u)' => Due(s, u)
  PROVE  ToldAll(s)'
<1>1. \A u \in Users : Told(s, u)' <=> Told(s, u)
  BY ToldIs
<1> QED BY <1>1, ToldSame

LEMMA AboutAppended ==
  ASSUME NEW q \in Seq(UpMsg), NEW e \in UpMsg, NEW u
  PROVE  About(Append(q, e), u) = {} <=> About(q, u) = {} /\ u \notin e.users
<1>1. /\ DOMAIN Append(q, e) = 1..(Len(q) + 1) /\ DOMAIN q = 1..Len(q) /\ Len(q) \in Nat
      /\ \A i \in DOMAIN q : Append(q, e)[i] = q[i]
      /\ Append(q, e)[Len(q) + 1] = e
  BY AppendAt
<1> QED BY <1>1 DEF About

LEMMA AboutHandled ==
  ASSUME NEW q \in Seq(UpMsg), q # <<>>, NEW u, About(Tail(q), u) = {}
  PROVE  About(q, u) = {} \/ u \in Head(q).users
<1>1. /\ DOMAIN Tail(q) = 1..(Len(q) - 1) /\ DOMAIN q = 1..Len(q) /\ Len(q) \in Nat \ {0}
      /\ \A i \in DOMAIN Tail(q) : Tail(q)[i] = q[i + 1]
      /\ Head(q) = q[1]
  BY TailAt
<1>2. ASSUME NEW i \in DOMAIN q, u \in q[i].users, i # 1 PROVE FALSE
  <2>1. i - 1 \in DOMAIN Tail(q) /\ Tail(q)[i - 1] = q[i]
    BY <1>1, <1>2
  <2> QED BY <1>2, <2>1 DEF About
<1> QED BY <1>1, <1>2 DEF About

(* A change of a user with a subscriber left stays due to be sent.         *)
LEMMA DirtyKept ==
  ASSUME NEW s, NEW t, NEW u, NEW U, t # s, t \in subs[u], u \in dirty, dirty \ LastLeft(s, U) \subseteq dirty'
  PROVE  u \in dirty'
BY DEF LastLeft

(* Handling a subscription answers with the present status.                *)
LEMMA ToldHandled ==
  ASSUME TypesInv, ToldInv, NEW s \in Servers, FromServerHandlers(s)
  PROVE  ToldInv'
<1>0. LinkTypes
  BY LinkTyped
<1>1. PICK U \in SUBSET Users : PlayerSubscribe(s, U) \/ PlayerUnSubscribe(s, U)
  BY DEF FromServerHandlers
<1>2. UNCHANGED <<proc, presence, session>>
  BY <1>1 DEF FromServerHandlers, gameVars, PlayerSubscribe, PlayerUnSubscribe
<1>3. /\ up[s] \in Seq(UpMsg) /\ up[s] # <<>> /\ up' = [up EXCEPT ![s] = Tail(@)] /\ Head(up[s]).users = U
      /\ up \in [Servers -> Seq(UpMsg)]
  BY <1>0, <1>1 DEF PlayerSubscribe, PlayerUnSubscribe, FromServer, LinkTypes, Subscribe, Unsubscribe
<1>4. dirty \ LastLeft(s, U) \subseteq dirty'
  BY <1>1 DEF PlayerSubscribe, PlayerUnSubscribe
<1>5. \A t \in Servers, u \in Users : t # s \/ u \notin U => (t \in subs'[u] <=> t \in subs[u])
  BY <1>0, <1>1 DEF PlayerSubscribe, PlayerUnSubscribe, Unsubscribed, LinkTypes
<1>6. ASSUME NEW t \in Servers, NEW u \in Users, t # s \/ u \notin U, Due(t, u)' PROVE Due(t, u)
  <2>1. t \in subs[u] /\ session[u] # NoServer /\ About(up'[t], u) = {} /\ u \notin dirty'
    BY <1>2, <1>5, <1>6, DueNext
  <2>2. u \notin dirty
    BY <1>4, <1>6, <2>1, DirtyKept DEF LastLeft
  <2>3. About(up[t], u) = {}
    BY <1>3, <1>6, <2>1, AboutHandled
  <2> QED BY <2>1, <2>2, <2>3 DEF Due, Online
<1>7. ASSUME NEW t \in Servers, t # s PROVE ToldAll(t)'
  <2>1. up'[t] = up[t] /\ down'[t] = down[t]
    BY <1>0, <1>1, <1>3, <1>7 DEF PlayerSubscribe, PlayerUnSubscribe, LinkTypes
  <2> QED BY <1>2, <1>6, <1>7, <2>1, ToldOther DEF ToldInv
<1>8. ToldAll(s)'
  <2> SUFFICES ASSUME proc[s] = "linked", NEW u \in Users, Due(s, u)' PROVE Told(s, u)'
    BY <1>2 DEF ToldAll
  <2>1. CASE PlayerUnSubscribe(s, U)
    <3>1. s \in subs'[u] /\ s \in [x \in Users |-> IF x \in U THEN subs[x] \ {s} ELSE subs[x]][u]
      BY <2>1, DueNext DEF PlayerUnSubscribe, Unsubscribed
    <3>2. u \notin U
      BY <3>1
    <3>3. Told(s, u)
      BY <1>6, <3>2 DEF ToldInv, ToldAll
    <3> QED BY <1>2, <2>1, <3>3, ToldIs DEF PlayerUnSubscribe
  <2>2. CASE PlayerSubscribe(s, U)
    <3> DEFINE m == Snapshot(BuildElements(U))
    <3>1. m \in DownMsg /\ DOMAIN m.status = U /\ (u \in U => (m.status[u] <=> session[u] # NoServer))
      BY PacketsTyped DEF Snapshot, BuildElements, Online
    <3>2. down[s] \in Seq(DownMsg) /\ down'[s] = Append(down[s], m)
      BY <1>0, <2>2 DEF PlayerSubscribe, LinkTypes
    <3> HIDE DEF m
    <3>3. Told(s, u)' <=> IF u \in U THEN m.status[u] ELSE Told(s, u)
      <4>1. ToldOf(Append(down[s], m), u, presence[s][u].on) <=>
              IF u \in U THEN m.status[u] ELSE ToldOf(down[s], u, presence[s][u].on)
        BY <3>1, <3>2, ToldAppend
      <4> QED BY <1>2, <3>2, <4>1, ToldIs
    <3>4. CASE u \in U
      BY <1>2, <3>1, <3>3, <3>4, DueNext
    <3>5. CASE u \notin U
      BY <1>6, <3>3, <3>5 DEF ToldInv, ToldAll
    <3> QED BY <3>4, <3>5
  <2> QED BY <1>1, <2>1, <2>2
<1> QED BY <1>7, <1>8 DEF ToldInv

(* A packet is noted for whom the server still watches; who is subscribed  *)
(* and not asked about any more is.                                        *)
LEMMA ToldNoted ==
  ASSUME TypesInv, AgreeInv, ToldInv, NEW s \in Servers, FromMasterHandlers(s)
  PROVE  ToldInv'
<1>0. LinkTypes /\ WatchInv
  BY LinkTyped DEF TypesInv
<1>1. PICK m \in DownMsg : OnUpdate(s, m) \/ OnSnapshot(s, m)
  BY DEF FromMasterHandlers
<1>2. /\ UNCHANGED <<proc, up, subs, dirty, session>> /\ proc[s] = "linked"
      /\ presence' = [presence EXCEPT ![s] = Noted(s, m.status)]
      /\ down[s] \in Seq(DownMsg) /\ down[s] # <<>> /\ Head(down[s]) = m /\ down' = [down EXCEPT ![s] = Tail(@)]
  BY <1>0, <1>1 DEF OnUpdate, OnSnapshot, FromMaster, masterVars, LinkTypes
<1>3. \A t \in Servers, u \in Users : Due(t, u)' <=> Due(t, u)
  BY <1>2, DueNext DEF Due, Online
<1>4. ASSUME NEW t \in Servers, t # s PROVE ToldAll(t)'
  <2>1. presence'[t] = presence[t] /\ down'[t] = down[t]
    BY <1>0, <1>2, <1>4 DEF LinkTypes
  <2> QED BY <1>2, <1>3, <2>1, ToldOther DEF ToldInv
<1>5. ASSUME NEW u \in Users, Due(s, u) PROVE Told(s, u)'
  <2>1. Told(s, u)
    BY <1>2, <1>5 DEF ToldInv, ToldAll
  <2>2. Known(s, u)
    <3>1. WillBeSubscribed(s, u)
      BY <1>5 DEF Due, WillBeSubscribed
    <3> QED BY <1>2, <3>1 DEF AgreeInv, AgreeOf, Known, NoPresence
  <2>3. presence'[s][u].on <=> IF u \in DOMAIN m.status THEN m.status[u] ELSE presence[s][u].on
    <3>1. presence'[s][u] = Noted(s, m.status)[u]
      BY <1>0, <1>2 DEF LinkTypes
    <3>2. CASE u \in DOMAIN m.status
      <4>1. presence'[s][u] = [presence[s][u] EXCEPT !.on = m.status[u]]
        BY <2>2, <3>1, <3>2 DEF Noted
      <4>2. presence[s][u] \in PresenceRecord
        BY <1>0, <2>2, WatchFields DEF WatchInv, Known
      <4> QED BY <3>2, <4>1, <4>2 DEF PresenceRecord
    <3>3. CASE u \notin DOMAIN m.status
      BY <3>1, <3>3 DEF Noted
    <3> QED BY <3>2, <3>3
  <2>4. ToldOf(Tail(down[s]), u, presence'[s][u].on) <=> ToldOf(down[s], u, presence[s][u].on)
    BY <1>2, <2>3, ToldTail
  <2>5. down'[s] = Tail(down[s])
    BY <1>0, <1>2 DEF LinkTypes
  <2> QED BY <2>1, <2>4, <2>5, ToldIs
<1>6. ToldAll(s)'
  BY <1>3, <1>5 DEF ToldAll
<1> QED BY <1>4, <1>6 DEF ToldInv

LEMMA RefKeepsOn ==
  ASSUME NEW p \in Watch, NEW n
  PROVE  [p EXCEPT !.ref = n].on = p.on
BY DEF Watch, PresenceRecord, NoPresence

(* Counting never changes what is shown; who is forgotten is asked about.  *)
LEMMA OwnStepShows ==
  ASSUME TypesInv, NEW s \in Servers, OwnStep(s), proc[s] = "linked", NEW u \in Users
  PROVE  About(up'[s], u) = {} => About(up[s], u) = {} /\ presence'[s][u].on = presence[s][u].on
<1>0. LinkTypes /\ WatchInv /\ presence[s][u] \in Watch
  BY LinkTyped DEF TypesInv, WatchInv
<1>1. About(up'[s], u) = {} => About(up[s], u) = {}
  <2>1. \/ up' = up
        \/ \E U \in SUBSET Users : \/ up' = [up EXCEPT ![s] = Append(@, Subscribe(U))]
                                   \/ up' = [up EXCEPT ![s] = Append(@, Unsubscribe(U))]
    <3>1. \E U \in SUBSET Users : ToMaster(s, U, Subscribe(U)) \/ ToMaster(s, U, Unsubscribe(U)) \/ up' = up
      <4>1. \A n : NewlyNeeded(s, n) \in SUBSET Users
        BY DEF NewlyNeeded
      <4>2. /\ {x \in toSub[s] : presence[s][x].ref > 0} \in SUBSET Users
            /\ {x \in toUnsub[s] : presence[s][x].ref = 0} \in SUBSET Users
        BY <1>0 DEF WatchInv
      <4> QED BY <4>1, <4>2, Zenon DEF OwnStep, UpdateSubscribe, UpdateUnsubscribe, WorldSteps, StartWorldLoad,
                OnHeartMonitorAdded, OnHeartMonitorRemoved, RequestPresenceAsap, RequestPresenceLater
    <3> QED BY <3>1, Zenon DEF ToMaster
  <2>2. up[s] \in Seq(UpMsg) /\ \A U \in SUBSET Users : Subscribe(U) \in UpMsg /\ Unsubscribe(U) \in UpMsg
    BY <1>0, PacketsTyped DEF LinkTypes
  <2>3. up'[s] = up[s] \/ \E e \in UpMsg : up'[s] = Append(up[s], e)
    BY <1>0, <2>1, <2>2 DEF LinkTypes
  <2> QED BY <2>2, <2>3, AboutAppended
<1>2. CASE UpdateSubscribe(s)
  BY <1>1, <1>2 DEF UpdateSubscribe
<1>3. CASE UpdateUnsubscribe(s)
  <2> DEFINE list == {x \in toUnsub[s] : presence[s][x].ref = 0}
  <2>1. presence'[s][u] = IF u \in list THEN NoPresence ELSE presence[s][u]
    BY <1>0, <1>3 DEF UpdateUnsubscribe, LinkTypes
  <2>2. list \in SUBSET Users /\ ToMaster(s, list, Unsubscribe(list))
    BY <1>0, <1>3 DEF UpdateUnsubscribe, WatchInv
  <2>3. Unsubscribe(list) \in UpMsg /\ Unsubscribe(list).users = list /\ up[s] \in Seq(UpMsg)
    BY <1>0, <2>2, PacketsTyped DEF Unsubscribe, LinkTypes
  <2> HIDE DEF list
  <2>4. u \in list => up'[s] = Append(up[s], Unsubscribe(list))
    BY <1>0, <2>2 DEF ToMaster, LinkTypes
  <2>5. u \in list => About(up'[s], u) # {}
    BY <2>3, <2>4, AboutAppended
  <2> QED BY <1>1, <2>1, <2>5
<1>4. CASE WorldSteps(s)
  <2>1. \A n : Needed(s, n)[u].on = presence[s][u].on
    BY <1>0, RefKeepsOn DEF Needed
  <2>2. ASSUME NEW v \in Users, ReleasePresence(s, v) PROVE presence'[s][u].on = presence[s][u].on
    <3> DEFINE p == [presence[s][v] EXCEPT !.ref = presence[s][v].ref - 1]
    <3>1. presence' = presence \/ presence' = [presence EXCEPT ![s][v] = p]
      BY <2>2 DEF ReleasePresence
    <3>2. v = u => p.on = presence[s][u].on
      BY <1>0, RefKeepsOn
    <3> HIDE DEF p
    <3>3. presence'[s][u] = presence[s][u] \/ (v = u /\ presence'[s][u] = p)
      BY <1>0, <3>1 DEF LinkTypes
    <3> QED BY <3>2, <3>3
  <2>3. \/ presence' = presence
        \/ \E n : presence' = [presence EXCEPT ![s] = Needed(s, n)]
        \/ \E v \in Users : ReleasePresence(s, v)
    BY <1>4, Zenon DEF WorldSteps, StartWorldLoad, OnHeartMonitorAdded, OnHeartMonitorRemoved,
       RequestPresenceAsap, RequestPresenceLater
  <2>4. presence'[s][u].on = presence[s][u].on
    BY <1>0, <2>1, <2>2, <2>3 DEF LinkTypes
  <2> QED BY <1>1, <2>4
<1> QED BY <1>2, <1>3, <1>4 DEF OwnStep

LEMMA ToldOwnStep ==
  ASSUME TypesInv, ToldInv, NEW s \in Servers, OwnStep(s)
  PROVE  ToldInv'
<1>0. LinkTypes /\ UNCHANGED <<subs, dirty, session, proc, down>>
  BY LinkTyped, OwnStepFrame DEF masterVars
<1>1. ASSUME NEW t \in Servers, t # s PROVE ToldAll(t)'
  <2>1. up'[t] = up[t] /\ presence'[t] = presence[t]
    BY <1>0, <1>1, OwnStepFrame
  <2> QED BY <1>0, <2>1, ToldOther, DueNext DEF ToldInv, Due, Online
<1>2. ToldAll(s)'
  <2> SUFFICES ASSUME proc[s] = "linked" PROVE ToldAll(s)'
    BY <1>0 DEF ToldAll
  <2>1. ASSUME NEW u \in Users, Due(s, u)' PROVE Due(s, u) /\ (Told(s, u) => Told(s, u)')
    <3>1. About(up'[s], u) = {}
      BY <2>1, DueNext
    <3>2. About(up[s], u) = {} /\ presence'[s][u].on = presence[s][u].on
      BY <3>1, OwnStepShows
    <3> QED BY <1>0, <2>1, <3>2, DueNext, ToldIs DEF Due, Online
  <2> QED BY <2>1, ToldSame DEF ToldInv
<1> QED BY <1>1, <1>2 DEF ToldInv

(* A login or logout of a watched user is due to be sent.                  *)
LEMMA ToldSessions ==
  ASSUME TypesInv, ToldInv, Sessions
  PROVE  ToldInv'
<1>0. /\ UNCHANGED <<subs, up, down, proc, presence>>
      /\ session \in [Users -> Servers \cup {NoServer}]
  BY DEF TypesInv, MasterInv, MasterTypeOK, Sessions, CreateSession, MoveSession, EndSession, gameVars
<1>1. ASSUME NEW s \in Servers, NEW u \in Users, Due(s, u)' PROVE Due(s, u)
  <2>1. s \in subs[u] /\ About(up[s], u) = {} /\ u \notin dirty' /\ session'[u] # NoServer
    BY <1>0, <1>1, DueNext
  <2>2. PICK v \in Users : EndSession(v) \/ \E t \in Servers : CreateSession(v, t) \/ MoveSession(v, t)
    BY DEF Sessions
  <2>3. dirty \subseteq dirty'
    BY <2>2 DEF CreateSession, MoveSession, EndSession, OnPlayerStatusChanged
  <2>4. CASE v # u
    <3>1. session'[u] = session[u]
      BY <1>0, <2>2, <2>4 DEF CreateSession, MoveSession, EndSession
    <3> QED BY <2>1, <2>3, <3>1 DEF Due, Online
  <2>5. CASE v = u
    <3>1. ~(EndSession(u) \/ \E t \in Servers : CreateSession(u, t))
      BY <2>1 DEF CreateSession, EndSession, OnPlayerStatusChanged
    <3>2. session[u] # NoServer
      BY <2>2, <2>5, <3>1 DEF MoveSession
    <3> QED BY <2>1, <2>3, <3>2 DEF Due, Online
  <2> QED BY <2>4, <2>5
<1> QED BY <1>0, <1>1, ToldOther DEF ToldInv

(* The timer sends every subscriber the present status.                    *)
LEMMA ToldFlush ==
  ASSUME TypesInv, LinkInv, ToldInv, FlushPresence
  PROVE  ToldInv'
<1>0. LinkTypes /\ dirty \subseteq Users /\ UNCHANGED <<session, subs, up, proc, presence>>
  BY LinkTyped DEF TypesInv, MasterInv, MasterTypeOK, FlushPresence, gameVars
<1> SUFFICES ASSUME NEW s \in Servers, proc[s] = "linked", NEW u \in Users, Due(s, u)' PROVE Told(s, u)'
  BY <1>0 DEF ToldInv, ToldAll
<1>1. s \in subs[u] /\ About(up[s], u) = {} /\ session[u] # NoServer
  BY <1>0, DueNext
<1> DEFINE m == Update(BuildElements(ChangedFor(s)))
<1>2. registered[s] /\ ChangedFor(s) \in SUBSET Users
  BY <1>0 DEF LinkInv, LinkOf, ChangedFor
<1>3. /\ m \in DownMsg /\ DOMAIN m.status = ChangedFor(s)
      /\ u \in ChangedFor(s) => (m.status[u] <=> session[u] # NoServer)
  BY <1>2, PacketsTyped DEF Update, BuildElements, Online
<1>4. down[s] \in Seq(DownMsg) /\ down'[s] = IF ChangedFor(s) # {} THEN Append(down[s], m) ELSE down[s]
  BY <1>0, <1>2 DEF FlushPresence, LinkTypes
<1> HIDE DEF m
<1>5. ToldOf(Append(down[s], m), u, presence[s][u].on) <=>
        IF u \in ChangedFor(s) THEN m.status[u] ELSE ToldOf(down[s], u, presence[s][u].on)
  BY <1>3, <1>4, ToldAppend
<1>6. CASE u \in dirty
  BY <1>0, <1>1, <1>3, <1>4, <1>5, <1>6, ToldIs DEF ChangedFor
<1>7. CASE u \notin dirty
  <2>1. Told(s, u) /\ u \notin ChangedFor(s)
    BY <1>1, <1>7 DEF ToldInv, ToldAll, Due, Online, ChangedFor
  <2> QED BY <1>0, <1>4, <1>5, <2>1, ToldIs
<1> QED BY <1>6, <1>7

LEMMA ToldServer ==
  ASSUME TypesInv, LinkInv, ToldInv, NEW s \in Servers,
         AddServer(s) \/ RemoveServer(s) \/ LoseLink(s) \/ Crash(s)
  PROVE  ToldInv'
<1>0. LinkTypes /\ SubscribersRegistered /\ session \in [Users -> Servers \cup {NoServer}]
  BY LinkTyped DEF TypesInv, MasterInv, MasterTypeOK
<1>1. /\ \A t \in Servers \ {s} : /\ proc'[t] = proc[t] /\ up'[t] = up[t] /\ down'[t] = down[t]
                                  /\ presence'[t] = presence[t]
      /\ \A t \in Servers \ {s}, u \in Users : t \in subs'[u] <=> t \in subs[u]
  BY <1>0 DEF AddServer, RemoveServer, LoseLink, Crash, gameVars, masterVars, LinkTypes, Unsubscribed
<1>2. /\ \A u \in Users : session'[u] # NoServer => session[u] # NoServer
      /\ dirty \ LastLeft(s, Users) \subseteq dirty'
  BY <1>0 DEF AddServer, RemoveServer, LoseLink, Crash, masterVars, EndSessionsByServer
<1>3. ASSUME NEW t \in Servers, t # s PROVE ToldAll(t)'
  <2>1. ASSUME NEW u \in Users, Due(t, u)' PROVE Due(t, u)
    <3>1. t \in subs[u] /\ About(up[t], u) = {} /\ u \notin dirty' /\ session[u] # NoServer
      BY <1>1, <1>2, <1>3, <2>1, DueNext
    <3>2. u \notin dirty
      BY <1>2, <1>3, <3>1, DirtyKept
    <3> QED BY <3>1, <3>2 DEF Due, Online
  <2> QED BY <1>1, <1>3, <2>1, ToldOther DEF ToldInv
<1>4. CASE AddServer(s)
  <2>1. \A u \in Users : s \notin subs'[u]
    BY <1>0, <1>4 DEF AddServer, SubscribersRegistered
  <2>2. ToldAll(s)'
    BY <2>1, DueNext DEF ToldAll
  <2> QED BY <1>3, <2>2 DEF ToldInv
<1>5. CASE RemoveServer(s) \/ LoseLink(s) \/ Crash(s)
  <2>1. proc'[s] # "linked"
    BY <1>0, <1>5 DEF RemoveServer, LoseLink, Crash, LinkTypes
  <2> QED BY <1>3, <2>1 DEF ToldInv, ToldAll
<1> QED BY <1>4, <1>5

LEMMA ToldNext == TypesInv /\ LinkInv /\ AgreeInv /\ ToldInv /\ [Next]_vars => ToldInv'
<1> SUFFICES ASSUME TypesInv, LinkInv, AgreeInv, ToldInv, [Next]_vars PROVE ToldInv'
  OBVIOUS
<1>1. CASE UNCHANGED vars
  <2>1. UNCHANGED <<proc, up, down, presence, subs, dirty, session>>
    BY <1>1 DEF vars, masterVars, gameVars
  <2> QED BY <2>1, ToldOther, DueNext DEF ToldInv, Due, Online
<1>2. ASSUME NEW s \in Servers, OwnStep(s) PROVE ToldInv'
  BY <1>2, ToldOwnStep
<1>3. ASSUME NEW s \in Servers, AddServer(s) \/ RemoveServer(s) \/ LoseLink(s) \/ Crash(s) PROVE ToldInv'
  BY <1>3, ToldServer
<1> QED BY <1>1, <1>2, <1>3, ToldFlush, ToldSessions, ToldHandled, ToldNoted, Zenon DEF Next, OwnStep

(* A server never goes on showing as offline a user who is online: when    *)
(* nothing about the user is on its way, what it shows includes the login, *)
(* however logins, subscriptions, timers, packets and restarts interleave. *)
THEOREM LoginsAreSeen == Spec => []SeesLogin
<1>1. Init => ToldInv
  BY DEF Init, ToldInv, ToldAll, Due
<1>2. LinkInv /\ ToldInv => SeesLogin
  <2> SUFFICES ASSUME ToldInv, NEW s \in Servers, NEW u \in Users, Settled(s, u), Online(u)
               PROVE  presence[s][u].on
    BY DEF SeesLogin
  <2>1. Told(s, u) /\ Mentions(down[s], u) = {}
    BY DEF Settled, ToldInv, ToldAll, Due, Mentions
  <2> QED BY <2>1 DEF Told, ToldOf, LastSays
<1> QED BY <1>1, <1>2, AgreeCorrect, ToldNext, PTL DEF Spec
=============================================================================
