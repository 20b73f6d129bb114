-------------------------- MODULE WorldInit_proofs --------------------------
(***************************************************************************)
(* Proofs about how a world comes to be ready, for any users, servers,     *)
(* names and bounds: the Master orders each instance once, its server      *)
(* loads it and reports it once, and only then is anybody routed there.    *)
(*                                                                         *)
(* An instance passes four stages at its server: the order is on its way,  *)
(* the server loads it, the report is on its way, and the Master has it    *)
(* ready.  InitInv says that it is at one of them at a time, and nowhere   *)
(* else than at the server the directory names.                            *)
(*                                                                         *)
(* The second part is about the Master's count of an instance's players:   *)
(* CountInv says that JOIN and LEAVE packets, in the order they come, take *)
(* it to the number of members without ever going below zero.              *)
(***************************************************************************)
EXTENDS WorldSessions_proofs

USE DEF Inst, InstOrNone, Registered

(* The packets of a queue, and those of one kind about one instance.       *)
Msgs(q) == {q[i] : i \in DOMAIN q}
Queue(q) == q \in Seq(Msgs(q))
About(m, k, w) == m.kind = k /\ m.inst = w
Has(q, k, w) == \E m \in Msgs(q) : About(m, k, w)
Once(q, k, w) == \A i, j \in DOMAIN q : About(q[i], k, w) /\ About(q[j], k, w) => i = j

(* Without a link nothing is queued to a server, one that is down runs     *)
(* nothing, and from one the Master does not know nothing is queued.       *)
LinkInv ==
  \A s \in Servers :
    /\ proc[s] = "linked" => Registered(s)
    /\ proc[s] # "linked" => down[s] = <<>>
    /\ proc[s] = "down" => \A w \in Inst : gw[s][w].state = "none"
    /\ ~Registered(s) => up[s] = <<>>

(* What the packets to a server may say.                                   *)
DownInv ==
  \A s \in Servers :
    /\ Queue(down[s])
    /\ \A m \in Msgs(down[s]) :
         /\ m.kind = "winit" => m.inst \in Inst /\
              (worlds[m.inst].state # "none" => m = InitWorld(worlds[m.inst].name, m.inst))
         /\ m.kind = "route" =>
              /\ m.server \in Servers /\ m.inst \in Inst /\ m.inst < nextInst
              /\ worlds[m.inst].state # "none" =>
                   /\ worlds[m.inst].server = m.server
                   /\ proc[m.server] = "linked" => gw[m.server][m.inst].state = "ready"

(* Only the server the directory names has to do with an instance.         *)
Knows(s, w) == Has(down[s], "winit", w) \/ gw[s][w].state # "none" \/ Has(up[s], "init", w)
OwnerInv ==
  \A s \in Servers, w \in Inst :
    Knows(s, w) => w < nextInst /\ (worlds[w].state # "none" => worlds[w].server = s)

(* It is at one stage at a time there.                                     *)
StageInv ==
  \A s \in Servers, w \in Inst :
    /\ Once(down[s], "winit", w) /\ Once(up[s], "init", w)
    /\ Has(down[s], "winit", w) => gw[s][w].state = "none" /\ ~Has(up[s], "init", w)
    /\ Has(up[s], "init", w) => gw[s][w].state # "loading" /\ (proc[s] = "linked" => gw[s][w].state = "ready")

(* At the Master it is loading while it is at one of the first three.      *)
StateInv ==
  \A w \in Inst : LET s == worlds[w].server IN
    worlds[w].state # "none" /\ proc[s] = "linked" =>
      /\ worlds[w].state = "loading" =>
           Has(down[s], "winit", w) \/ gw[s][w].state = "loading" \/ Has(up[s], "init", w)
      /\ worlds[w].state = "ready" => gw[s][w].state = "ready" /\ ~Has(up[s], "init", w)

DownFunction == down = [s \in Servers |-> down[s]]
InitInv == DownFunction /\ LinkInv /\ DownInv /\ OwnerInv /\ StageInv /\ StateInv
Typed == MasterInv /\ GameTypeOK

-----------------------------------------------------------------------------
(* Queues.                                                                 *)

LEMMA QueueOf ==
  ASSUME NEW S, NEW q \in Seq(S)
  PROVE  Queue(q) /\ Msgs(q) \subseteq S
<1>1. q \in [1..Len(q) -> S] /\ DOMAIN q = 1..Len(q) /\ Len(q) \in Nat
  OBVIOUS
<1>2. q \in [1..Len(q) -> Msgs(q)]
  BY <1>1 DEF Msgs
<1> QED
  BY <1>1, <1>2, IsASeq, SeqDef DEF Queue, Msgs

LEMMA ConcatMsgs ==
  ASSUME NEW q, Queue(q), NEW r, Queue(r)
  PROVE  /\ Queue(q \o r)
         /\ Msgs(q \o r) = Msgs(q) \cup Msgs(r)
         /\ \A k, w : Has(q \o r, k, w) <=> Has(q, k, w) \/ Has(r, k, w)
         /\ \A k, w : Once(q, k, w) /\ ~Has(r, k, w) => Once(q \o r, k, w)
         /\ \A k, w : Once(r, k, w) /\ ~Has(q, k, w) => Once(q \o r, k, w)
<1> DEFINE S == Msgs(q) \cup Msgs(r)
<1>1. q \in Seq(S) /\ r \in Seq(S)
  BY SeqMonotonic DEF Queue
<1> HIDE DEF S
<1>2. /\ q \o r \in Seq(S) /\ Len(q) \in Nat /\ Len(r) \in Nat
      /\ DOMAIN q = 1..Len(q) /\ DOMAIN r = 1..Len(r) /\ DOMAIN (q \o r) = 1..(Len(q) + Len(r))
      /\ \A i \in 1..(Len(q) + Len(r)) : (q \o r)[i] = IF i <= Len(q) THEN q[i] ELSE r[i - Len(q)]
  BY <1>1
<1> DEFINE c == q \o r
<1> HIDE DEF c
<1>3. Msgs(c) = Msgs(q) \cup Msgs(r)
  <2>1. ASSUME NEW i \in 1..Len(r) PROVE c[i + Len(q)] = r[i] /\ i + Len(q) \in 1..(Len(q) + Len(r))
    BY <1>2 DEF c
  <2>2. ASSUME NEW i \in 1..Len(q) PROVE c[i] = q[i] /\ i \in 1..(Len(q) + Len(r))
    BY <1>2 DEF c
  <2>3. ASSUME NEW i \in DOMAIN c PROVE (i \in 1..Len(q) /\ c[i] = q[i]) \/ (i - Len(q) \in 1..Len(r) /\ c[i] = r[i - Len(q)])
    BY <1>2 DEF c
  <2>4. DOMAIN c = 1..(Len(q) + Len(r))
    BY <1>2 DEF c
  <2> QED
    BY <1>2, <2>1, <2>2, <2>3, <2>4 DEF Msgs
<1>4. Queue(c)
  BY <1>2, QueueOf DEF c
<1>5. \A k, w : Has(c, k, w) <=> Has(q, k, w) \/ Has(r, k, w)
  BY <1>3 DEF Has
<1>6. ASSUME NEW k, NEW w, Once(q, k, w), ~Has(r, k, w)
      PROVE  Once(c, k, w)
  <2>1. \A i \in DOMAIN c : About(c[i], k, w) => i \in DOMAIN q /\ c[i] = q[i]
    BY <1>2, <1>6 DEF Has, Msgs, c
  <2> QED
    BY <1>6, <2>1 DEF Once
<1>7. ASSUME NEW k, NEW w, Once(r, k, w), ~Has(q, k, w)
      PROVE  Once(c, k, w)
  <2>1. \A i \in DOMAIN c : About(c[i], k, w) => i - Len(q) \in DOMAIN r /\ c[i] = r[i - Len(q)] /\ i \in Nat
    BY <1>2, <1>7 DEF Has, Msgs, c
  <2>2. \A i, j \in Nat : i - Len(q) = j - Len(q) => i = j
    BY <1>2
  <2> QED
    BY <1>7, <2>1, <2>2 DEF Once
<1> QED
  BY <1>3, <1>4, <1>5, <1>6, <1>7 DEF c

LEMMA TailMsgs ==
  ASSUME NEW q, Queue(q), q # <<>>
  PROVE  /\ Queue(Tail(q))
         /\ Head(q) \in Msgs(q) /\ Msgs(q) = Msgs(Tail(q)) \cup {Head(q)}
         /\ \A k, w : Has(Tail(q), k, w) => Has(q, k, w)
         /\ \A k, w : ~About(Head(q), k, w) => (Has(Tail(q), k, w) <=> Has(q, k, w))
         /\ \A k, w : About(Head(q), k, w) => Has(q, k, w)
         /\ \A k, w : Once(q, k, w) => Once(Tail(q), k, w) /\ (About(Head(q), k, w) => ~Has(Tail(q), k, w))
<1> DEFINE t == Tail(q)
<1>1. /\ t \in Seq(Msgs(q)) /\ Len(q) \in Nat /\ Len(q) > 0 /\ DOMAIN q = 1..Len(q)
      /\ DOMAIN t = 1..(Len(q) - 1) /\ \A i \in 1..(Len(q) - 1) : t[i] = q[i + 1]
  BY DEF Queue
<1>2. Head(q) = q[1]
  BY DEF Queue
<1> HIDE DEF t
<1>3. Msgs(q) = Msgs(t) \cup {q[1]} /\ q[1] \in Msgs(q)
  <2>1. ASSUME NEW i \in DOMAIN q PROVE i = 1 \/ (i - 1 \in DOMAIN t /\ t[i - 1] = q[i])
    BY <1>1
  <2>2. ASSUME NEW i \in DOMAIN t PROVE i + 1 \in DOMAIN q /\ t[i] = q[i + 1]
    BY <1>1
  <2>3. 1 \in DOMAIN q
    BY <1>1
  <2> QED
    BY <2>1, <2>2, <2>3 DEF Msgs
<1>4. Queue(t)
  BY <1>1, QueueOf
<1>5. ASSUME NEW k, NEW w, Once(q, k, w)
      PROVE  Once(t, k, w) /\ (About(q[1], k, w) => ~Has(t, k, w))
  <2>1. \A i \in DOMAIN t : i + 1 \in DOMAIN q /\ t[i] = q[i + 1] /\ i \in Nat /\ i # 0
    BY <1>1
  <2>2. 1 \in DOMAIN q
    BY <1>1
  <2>3. \A i, j \in Nat : (i + 1 = j + 1 => i = j) /\ (i # 0 => i + 1 # 1)
    OBVIOUS
  <2> QED
    BY <1>5, <2>1, <2>2, <2>3 DEF Once, Has, Msgs
<1> QED
  BY <1>2, <1>3, <1>4, <1>5 DEF t, Has

LEMMA OneMessage ==
  ASSUME NEW m
  PROVE  /\ Queue(<<m>>) /\ Msgs(<<m>>) = {m}
         /\ \A k, w : Has(<<m>>, k, w) <=> About(m, k, w)
         /\ \A k, w : Once(<<m>>, k, w)
<1> DEFINE q == <<m>>
<1>1. q \in Seq({m}) /\ DOMAIN q = {1} /\ q[1] = m
  OBVIOUS
<1> HIDE DEF q
<1>2. Msgs(q) = {m}
  BY <1>1 DEF Msgs
<1>3. Queue(q)
  BY <1>1, QueueOf
<1> QED
  BY <1>1, <1>2, <1>3 DEF q, Has, Once

LEMMA NoMessage ==
  /\ Queue(<<>>) /\ Msgs(<<>>) = {}
  /\ \A k, w : ~Has(<<>>, k, w) /\ Once(<<>>, k, w)
<1>1. <<>> \in Seq({}) /\ DOMAIN <<>> = {}
  OBVIOUS
<1> QED
  BY <1>1, QueueOf DEF Msgs, Has, Once

-----------------------------------------------------------------------------
(* Steps that leave the stages of all worlds alone.                        *)

(* A packet that moves no world, and a route to a ready world.             *)
Fine(m) ==
  /\ m.kind # "winit"
  /\ m.kind = "route" =>
       /\ m.inst \in Inst /\ m.server \in Servers
       /\ worlds[m.inst].state = "ready" /\ worlds[m.inst].server = m.server

DownKept(s) ==
  /\ Queue(down'[s]) /\ (proc[s] # "linked" => down'[s] = <<>>)
  /\ \A m \in Msgs(down'[s]) : m \in Msgs(down[s]) \/ Fine(m)
  /\ \A w \in Inst : (Has(down'[s], "winit", w) <=> Has(down[s], "winit", w)) /\ Once(down'[s], "winit", w)
UpKept(s) ==
  /\ ~Registered(s) => up'[s] = <<>>
  /\ \A w \in Inst : (Has(up'[s], "init", w) <=> Has(up[s], "init", w)) /\ Once(up'[s], "init", w)
DownsKept == DownFunction' /\ \A s \in Servers : DownKept(s)
UpsKept == \A s \in Servers : UpKept(s)
WorldsKept ==
  \A w \in Inst : worlds'[w].state = worlds[w].state /\
    (worlds[w].state # "none" => worlds'[w].name = worlds[w].name /\ worlds'[w].server = worlds[w].server)
StatesKept == \A s \in Servers, w \in Inst : gw'[s][w].state = gw[s][w].state

LEMMA QuietStep ==
  ASSUME Typed, InitInv, UNCHANGED <<nextInst, proc>>, WorldsKept, StatesKept,
         \A s \in Servers : srv'[s] # "none" <=> srv[s] # "none", DownsKept, UpsKept
  PROVE  InitInv'
<1> USE DEF DownsKept, UpsKept
<1>1. LinkInv'
  <2> SUFFICES ASSUME NEW s \in Servers
               PROVE  /\ proc[s] = "linked" => srv'[s] # "none"
                      /\ proc[s] # "linked" => down'[s] = <<>>
                      /\ proc[s] = "down" => \A w \in Inst : gw'[s][w].state = "none"
                      /\ srv'[s] = "none" => up'[s] = <<>>
    BY DEF LinkInv
  <2>1. proc[s] = "linked" => srv'[s] # "none"
    BY DEF InitInv, LinkInv
  <2>2. proc[s] = "down" => \A w \in Inst : gw'[s][w].state = "none"
    BY DEF InitInv, LinkInv, StatesKept
  <2> QED
    BY <2>1, <2>2 DEF DownKept, UpKept
<1>2. DownInv'
  <2> SUFFICES ASSUME NEW s \in Servers, NEW m \in Msgs(down'[s])
               PROVE  /\ m.kind = "winit" => m.inst \in Inst /\
                           (worlds'[m.inst].state # "none" => m = InitWorld(worlds'[m.inst].name, m.inst))
                      /\ m.kind = "route" =>
                           /\ m.server \in Servers /\ m.inst \in Inst /\ m.inst < nextInst
                           /\ worlds'[m.inst].state # "none" =>
                                /\ worlds'[m.inst].server = m.server
                                /\ proc[m.server] = "linked" => gw'[m.server][m.inst].state = "ready"
    BY Zenon DEF DownInv, DownKept
  <2>1. CASE m \in Msgs(down[s])
    <3>1. /\ m.kind = "winit" => m.inst \in Inst /\
               (worlds[m.inst].state # "none" => m = InitWorld(worlds[m.inst].name, m.inst))
          /\ m.kind = "route" =>
               /\ m.server \in Servers /\ m.inst \in Inst /\ m.inst < nextInst
               /\ worlds[m.inst].state # "none" =>
                    /\ worlds[m.inst].server = m.server
                    /\ proc[m.server] = "linked" => gw[m.server][m.inst].state = "ready"
      BY <2>1 DEF InitInv, DownInv
    <3>2. ASSUME m.kind = "winit", worlds'[m.inst].state # "none", m.inst \in Inst
          PROVE  worlds[m.inst].state # "none" /\ worlds'[m.inst].name = worlds[m.inst].name
      BY <3>2 DEF WorldsKept
    <3>3. ASSUME m.kind = "route", worlds'[m.inst].state # "none", m.inst \in Inst
          PROVE  worlds[m.inst].state # "none" /\ worlds'[m.inst].server = worlds[m.inst].server
      BY <3>3 DEF WorldsKept
    <3> QED
      BY <3>1, <3>2, <3>3 DEF StatesKept
  <2>2. CASE Fine(m)
    <3>1. ASSUME m.kind = "route" PROVE m.inst < nextInst
      BY <2>2, <3>1 DEF Fine, Typed, MasterInv, MasterTypeOK, NextInstFresh, NoWorld
    <3> QED
      BY <2>2, <3>1 DEF Fine, InitInv, StateInv, WorldsKept, StatesKept
  <2> QED
    BY <2>1, <2>2 DEF DownKept
<1>3. OwnerInv'
  <2> SUFFICES ASSUME NEW s \in Servers, NEW w \in Inst, Knows(s, w)'
               PROVE  w < nextInst' /\ (worlds'[w].state # "none" => worlds'[w].server = s)
    BY Zenon DEF OwnerInv
  <2>1. Knows(s, w)
    BY DEF Knows, DownKept, UpKept, StatesKept
  <2> QED
    BY <2>1 DEF InitInv, OwnerInv, WorldsKept
<1>4. StageInv'
  BY DEF InitInv, StageInv, DownKept, UpKept, StatesKept
<1>5. StateInv'
  <2> SUFFICES ASSUME NEW w \in Inst, worlds'[w].state # "none", proc[worlds'[w].server] = "linked"
               PROVE  LET s == worlds'[w].server IN
                      /\ worlds'[w].state = "loading" =>
                           Has(down'[s], "winit", w) \/ gw'[s][w].state = "loading" \/ Has(up'[s], "init", w)
                      /\ worlds'[w].state = "ready" => gw'[s][w].state = "ready" /\ ~Has(up'[s], "init", w)
    BY Zenon DEF StateInv
  <2>1. worlds[w].state # "none" /\ worlds'[w].server = worlds[w].server /\ worlds[w].server \in Servers
    BY KnownWorld DEF WorldsKept, Typed
  <2> QED
    BY <2>1 DEF InitInv, StateInv, WorldsKept, StatesKept, DownKept, UpKept
<1> QED
  BY <1>1, <1>2, <1>3, <1>4, <1>5 DEF InitInv

LEMMA SameQueues ==
  ASSUME InitInv
  PROVE  (down' = down => DownsKept) /\ (up' = up => UpsKept)
<1>1. ASSUME down' = down, NEW s \in Servers PROVE DownKept(s)
  BY <1>1, Zenon DEF InitInv, LinkInv, DownInv, StageInv, DownKept
<1>2. ASSUME up' = up, NEW s \in Servers PROVE UpKept(s)
  BY <1>2, Zenon DEF InitInv, LinkInv, StageInv, UpKept
<1>3. down' = down => DownFunction'
  BY DEF InitInv, DownFunction
<1> QED
  BY <1>1, <1>2, <1>3 DEF DownsKept, UpsKept

LEMMA DownSent ==
  ASSUME Typed, InitInv, NEW s \in Servers, NEW m, Fine(m), ToServer(s, m)
  PROVE  DownsKept
<1>1. CASE proc[s] # "linked"
  BY <1>1, SameQueues DEF ToServer
<1>2. CASE proc[s] = "linked"
  <2>1. /\ Queue(down[s]) /\ down'[s] = Append(down[s], m) /\ DownFunction'
        /\ \A t \in Servers \ {s} : down'[t] = down[t]
    BY <1>2 DEF ToServer, InitInv, DownInv, DownFunction
  <2>2. down'[s] = down[s] \o <<m>>
    BY <2>1, AppendIsConcat DEF Queue
  <2>3. \A w \in Inst : ~About(m, "winit", w)
    BY DEF Fine, About
  <2>4. /\ Queue(down'[s]) /\ Msgs(down'[s]) = Msgs(down[s]) \cup {m}
        /\ \A w \in Inst : Has(down'[s], "winit", w) <=> Has(down[s], "winit", w)
        /\ \A w \in Inst : Once(down[s], "winit", w) => Once(down'[s], "winit", w)
    BY <2>1, <2>2, <2>3, OneMessage, ConcatMsgs
  <2>5. DownKept(s)
    BY <1>2, <2>4 DEF DownKept, InitInv, StageInv
  <2>6. ASSUME NEW t \in Servers \ {s} PROVE DownKept(t)
    BY <2>1, <2>6 DEF InitInv, LinkInv, DownInv, StageInv, DownKept
  <2> QED
    BY <2>1, <2>5, <2>6 DEF DownsKept
<1> QED
  BY <1>1, <1>2

LEMMA DownTaken ==
  ASSUME Typed, InitInv, NEW s \in Servers, NEW m, m.kind # "winit", FromMaster(s, m)
  PROVE  DownsKept
<1>1. /\ Queue(down[s]) /\ down[s] # <<>> /\ Head(down[s]) = m /\ proc[s] = "linked"
      /\ down'[s] = Tail(down[s]) /\ DownFunction' /\ \A t \in Servers \ {s} : down'[t] = down[t]
  BY DEF FromMaster, Arrives, InitInv, DownInv, DownFunction
<1>2. \A w \in Inst : ~About(m, "winit", w)
  BY DEF About
<1>3. DownKept(s)
  BY <1>1, <1>2, TailMsgs DEF DownKept, InitInv, StageInv
<1>4. ASSUME NEW t \in Servers \ {s} PROVE DownKept(t)
  BY <1>1, <1>4 DEF InitInv, LinkInv, DownInv, StageInv, DownKept
<1> QED
  BY <1>1, <1>3, <1>4 DEF DownsKept

LEMMA UpTaken ==
  ASSUME Typed, InitInv, NEW s \in Servers, NEW m, m.kind # "init", FromServer(s, m)
  PROVE  UpsKept
<1>1. /\ up[s] \in Seq(UpMsg) /\ up[s] # <<>> /\ Head(up[s]) = m /\ Registered(s)
      /\ up'[s] = Tail(up[s]) /\ \A t \in Servers \ {s} : up'[t] = up[t]
  BY DEF FromServer, Arrives, Typed, GameTypeOK
<1>2. Queue(up[s])
  BY <1>1, QueueOf
<1>3. \A w \in Inst : ~About(m, "init", w)
  BY DEF About
<1>4. UpKept(s)
  BY <1>1, <1>2, <1>3, TailMsgs DEF UpKept, InitInv, StageInv
<1>5. ASSUME NEW t \in Servers \ {s} PROVE UpKept(t)
  BY <1>1, <1>5 DEF InitInv, LinkInv, StageInv, UpKept
<1> QED
  BY <1>4, <1>5 DEF UpsKept

(* Packets of a game server that report no world.                          *)
Plain(ms) == Queue(ms) /\ \A m \in Msgs(ms) : m.kind # "init"

LEMMA PlainMsgs ==
  /\ Plain(<<>>)
  /\ \A m : m.kind # "init" => Plain(<<m>>)
  /\ \A q, r : Plain(q) /\ Plain(r) => Plain(q \o r)
BY NoMessage, OneMessage, ConcatMsgs DEF Plain

LEMMA UpSent ==
  ASSUME Typed, InitInv, NEW s \in Servers, NEW ms, Plain(ms), ToMaster(s, ms)
  PROVE  UpsKept
<1>1. CASE proc[s] # "linked"
  BY <1>1, SameQueues DEF ToMaster
<1>2. CASE proc[s] = "linked"
  <2>1. /\ up[s] \in Seq(UpMsg) /\ Registered(s)
        /\ up'[s] = up[s] \o ms /\ \A t \in Servers \ {s} : up'[t] = up[t]
    BY <1>2 DEF ToMaster, Typed, GameTypeOK, InitInv, LinkInv
  <2>2. Queue(up[s]) /\ Queue(ms) /\ \A w \in Inst : ~Has(ms, "init", w)
    BY <2>1, QueueOf DEF Plain, Has, About
  <2>3. UpKept(s)
    BY <2>1, <2>2, ConcatMsgs DEF UpKept, InitInv, StageInv
  <2>4. ASSUME NEW t \in Servers \ {s} PROVE UpKept(t)
    BY <2>1, <2>4 DEF InitInv, LinkInv, StageInv, UpKept
  <2> QED
    BY <2>3, <2>4 DEF UpsKept
<1> QED
  BY <1>1, <1>2

-----------------------------------------------------------------------------
(* Steps of the Master.                                                    *)

(* A step that only writes the waiting list or the count of a world.       *)
LEMMA FieldKept ==
  ASSUME Typed, NEW w \in Inst, NEW q,
         \/ worlds' = [worlds EXCEPT ![w].waiting = q]
         \/ worlds' = [worlds EXCEPT ![w].count = q]
  PROVE  WorldsKept
<1> DEFINE r == worlds[w]
           x == [r EXCEPT !.waiting = q]
           y == [r EXCEPT !.count = q]
<1>1. worlds \in [Inst -> WorldRecord \cup {NoWorld}]
  BY DEF Typed, MasterInv, MasterTypeOK
<1>2. /\ r = [state |-> r.state, name |-> r.name, server |-> r.server, waiting |-> r.waiting, count |-> r.count]
  BY <1>1 DEF WorldRecord, NoWorld
<1>3. (worlds' = [worlds EXCEPT ![w] = x]) \/ (worlds' = [worlds EXCEPT ![w] = y])
  OBVIOUS
<1> HIDE DEF r
<1>4. x.state = r.state /\ x.name = r.name /\ x.server = r.server
  BY <1>2
<1>5. y.state = r.state /\ y.name = r.name /\ y.server = r.server
  BY <1>2
<1> HIDE DEF x, y
<1>6. worlds'[w] = x \/ worlds'[w] = y
  BY <1>1, <1>3
<1>7. \A v \in Inst \ {w} : worlds'[v] = worlds[v]
  BY <1>1, <1>3
<1> QED
  BY <1>4, <1>5, <1>6, <1>7 DEF WorldsKept, r

LEMMA JoinRequestQuiet ==
  ASSUME Typed, InitInv, NEW s \in Servers, NEW u \in Users, NEW n \in Names,
         HandlePlayerJoinRequest(s, u, n), UNCHANGED <<proc, gw>>
  PROVE  InitInv'
<1> DEFINE w == GetWorldByName(n)
<1>1. UpsKept /\ UNCHANGED <<srv, nextInst>>
  BY UpTaken DEF HandlePlayerJoinRequest, Join
<1>2. StatesKept
  BY DEF StatesKept
<1>3. w # 0 => w \in Inst /\ worlds[w].state # "none"
  BY DEF GetWorldByName, Typed, MasterInv, MasterTypeOK
<1> HIDE DEF w
<1>4. CASE w = 0
  BY <1>1, <1>2, <1>4, SameQueues, QuietStep DEF HandlePlayerJoinRequest, WorldsKept, w
<1>5. CASE w # 0 /\ AttachPending(w, s, u)
  <2>1. DownsKept
    BY <1>5, SameQueues DEF AttachPending
  <2>2. worlds' = worlds \/ \E q : worlds' = [worlds EXCEPT ![w].waiting = q]
    BY <1>5 DEF AttachPending
  <2>3. WorldsKept
    BY <2>2, <1>3, <1>5, FieldKept DEF WorldsKept
  <2> QED
    BY <1>1, <1>2, <2>1, <2>3, QuietStep
<1>6. CASE w # 0 /\ worlds[w].state = "ready" /\ RoutePlayerToExistingWorld(w, s, u)
  <2> DEFINE m == Route(u, worlds[w].server, w)
  <2>1. ToServer(s, m) /\ WorldsKept
    BY <1>6 DEF RoutePlayerToExistingWorld, WorldsKept
  <2>2. Fine(m)
    BY <1>3, <1>6, KnownWorld DEF Fine, Route, Typed
  <2>3. DownsKept
    BY <2>1, <2>2, DownSent
  <2> QED
    BY <1>1, <1>2, <2>1, <2>3, QuietStep
<1> QED
  BY <1>4, <1>5, <1>6 DEF HandlePlayerJoinRequest, w

LEMMA SessionQuiet ==
  ASSUME Typed, InitInv, NEW s \in Servers, NEW u \in Users, UNCHANGED <<proc, gw>>,
         \/ \E w \in Inst : WorldPlayerJoin(s, u, w) \/ WorldPlayerLeave(s, u, w)
         \/ PlayerEndSession(s, u)
         \/ \E id \in 0..MaxCmds : PlayerCheckSession(s, u, id)
  PROVE  InitInv'
<1>1. StatesKept
  BY DEF StatesKept
<1>2. ASSUME NEW w \in Inst, WorldPlayerJoin(s, u, w) \/ WorldPlayerLeave(s, u, w)
      PROVE  InitInv'
  <2>1. UpsKept
    BY <1>2, UpTaken DEF WorldPlayerJoin, WorldPlayerLeave, Joined, Left
  <2>2. worlds' = worlds \/ \E c : worlds' = [worlds EXCEPT ![w].count = c]
    BY <1>2 DEF WorldPlayerJoin, WorldPlayerLeave
  <2>3. WorldsKept
    BY <2>2, FieldKept DEF WorldsKept
  <2>4. UNCHANGED <<srv, nextInst, down>>
    BY <1>2 DEF WorldPlayerJoin, WorldPlayerLeave
  <2> QED
    BY <1>1, <2>1, <2>3, <2>4, SameQueues, QuietStep
<1>3. CASE PlayerEndSession(s, u)
  <2>1. UpsKept /\ UNCHANGED <<srv, nextInst, down, worlds>>
    BY <1>3, UpTaken DEF PlayerEndSession, EndPlayer
  <2> QED
    BY <1>1, <2>1, SameQueues, QuietStep DEF WorldsKept
<1>4. ASSUME NEW id \in 0..MaxCmds, PlayerCheckSession(s, u, id)
      PROVE  InitInv'
  <2>1. UpsKept /\ UNCHANGED <<srv, nextInst, worlds>>
    BY <1>4, UpTaken DEF PlayerCheckSession, Check, masterVars
  <2>2. \E ok, v : ToServer(s, Checked(u, id, ok, v))
    BY <1>4 DEF PlayerCheckSession
  <2>3. \A ok, v : Fine(Checked(u, id, ok, v))
    BY DEF Fine, Checked
  <2>4. DownsKept
    BY <2>2, <2>3, DownSent
  <2> QED
    BY <1>1, <2>1, <2>4, QuietStep DEF WorldsKept
<1> QED
  BY <1>2, <1>3, <1>4

LEMMA ConnectionQuiet ==
  ASSUME Typed, InitInv, NEW s \in Servers, (\E u \in Users : SendToGame(u, s)) \/ ServerReady(s)
  PROVE  InitInv'
<1>1. CASE \E u \in Users : SendToGame(u, s)
  <2>1. UNCHANGED <<srv, worlds, nextInst, up, down, proc, gw>>
    BY <1>1 DEF SendToGame, gameVars
  <2> QED
    BY <2>1, SameQueues, QuietStep DEF WorldsKept, StatesKept
<1>2. CASE ServerReady(s)
  <2>1. UNCHANGED <<worlds, nextInst, up, down, proc, gw>>
    BY <1>2 DEF ServerReady, gameVars
  <2>2. \A t \in Servers : srv'[t] # "none" <=> srv[t] # "none"
    BY <1>2 DEF ServerReady, Typed, MasterInv, MasterTypeOK
  <2> QED
    BY <2>1, <2>2, SameQueues, QuietStep DEF WorldsKept, StatesKept
<1> QED
  BY <1>1, <1>2

LEMMA FailQuiet ==
  ASSUME Typed, InitInv, NEW s \in Servers, NEW u, ToServer(s, JoinFail(u)),
         UNCHANGED <<srv, worlds, nextInst, up, proc, gw>>
  PROVE  InitInv'
<1>1. Fine(JoinFail(u))
  BY DEF Fine, JoinFail
<1>2. DownsKept
  BY <1>1, DownSent
<1> QED
  BY <1>2, SameQueues, QuietStep DEF WorldsKept, StatesKept

(* A new instance: nobody has to do with its id yet, and its server gets   *)
(* the only order.                                                         *)
LEMMA NewWorld ==
  ASSUME Typed, InitInv, NEW s \in Servers, NEW n \in Names, NEW r, nextInst \in Inst,
         srv[s] # "none",
         r.state = "loading", r.name = n, r.server = s,
         worlds' = [worlds EXCEPT ![nextInst] = r],
         ToServer(s, InitWorld(n, nextInst)), nextInst' = nextInst + 1,
         UNCHANGED <<srv, up, proc, gw>>
  PROVE  InitInv'
<1> DEFINE x == nextInst
           m == InitWorld(n, x)
<1> HIDE DEF x, m
<1>1. worlds[x].state = "none" /\ \A t \in Servers : ~Knows(t, x)
  BY DEF x, Typed, MasterInv, NextInstFresh, NoWorld, InitInv, OwnerInv
<1>2. worlds'[x] = r /\ \A w \in Inst \ {x} : worlds'[w] = worlds[w]
  BY DEF x, Typed, MasterInv, MasterTypeOK
<1>3. /\ DownFunction'
      /\ \A t \in Servers \ {s} : down'[t] = down[t]
      /\ proc[s] # "linked" => down'[s] = down[s]
      /\ proc[s] = "linked" => down'[s] = Append(down[s], m)
  BY DEF ToServer, InitInv, DownFunction, m, x
<1>4. /\ m.kind = "winit" /\ m.inst = x /\ m.name = n /\ m = InitWorld(n, x)
      /\ \A w : About(m, "winit", w) <=> w = x
  BY DEF m, InitWorld, About
<1>5. ASSUME proc[s] = "linked"
      PROVE  /\ Queue(down'[s]) /\ Msgs(down'[s]) = Msgs(down[s]) \cup {m}
             /\ \A w \in Inst : Has(down'[s], "winit", w) <=> (Has(down[s], "winit", w) \/ w = x)
             /\ \A w \in Inst : Once(down'[s], "winit", w)
  <2>1. Queue(down[s]) /\ ~Has(down[s], "winit", x) /\ \A w \in Inst : Once(down[s], "winit", w)
    BY <1>1 DEF InitInv, DownInv, StageInv, Knows
  <2>2. down'[s] = down[s] \o <<m>>
    BY <1>3, <1>5, <2>1, AppendIsConcat DEF Queue
  <2>3. /\ Queue(<<m>>) /\ Msgs(<<m>>) = {m} /\ \A w : Once(<<m>>, "winit", w)
        /\ \A w : Has(<<m>>, "winit", w) <=> w = x
    BY <1>4, OneMessage
  <2> QED
    BY <2>1, <2>2, <2>3, ConcatMsgs
<1>6. x \in Inst /\ x' = x + 1
  BY DEF x
<1>7. LinkInv'
  BY <1>3 DEF InitInv, LinkInv
<1>8. DownInv'
  <2> SUFFICES ASSUME NEW t \in Servers
               PROVE  /\ Queue(down'[t])
                      /\ \A k \in Msgs(down'[t]) :
                           /\ k.kind = "winit" => k.inst \in Inst /\
                                (worlds'[k.inst].state # "none" => k = InitWorld(worlds'[k.inst].name, k.inst))
                           /\ k.kind = "route" =>
                                /\ k.server \in Servers /\ k.inst \in Inst /\ k.inst < nextInst'
                                /\ worlds'[k.inst].state # "none" =>
                                     /\ worlds'[k.inst].server = k.server
                                     /\ proc[k.server] = "linked" => gw[k.server][k.inst].state = "ready"
    BY Zenon DEF DownInv
  <2>1. Queue(down'[t])
    BY <1>3, <1>5 DEF InitInv, DownInv
  <2>2. ASSUME NEW k \in Msgs(down'[t]) PROVE k \in Msgs(down[t]) \/ k = m
    BY <1>3, <1>5, <2>2
  <2>3. ASSUME NEW k \in Msgs(down[t]), k.kind = "winit"
        PROVE  k.inst \in Inst /\ (worlds'[k.inst].state # "none" => k = InitWorld(worlds'[k.inst].name, k.inst))
    <3>1. k.inst \in Inst /\ (worlds[k.inst].state # "none" => k = InitWorld(worlds[k.inst].name, k.inst))
      BY <2>3 DEF InitInv, DownInv
    <3>2. k.inst # x
      BY <1>1, <1>6, <2>3 DEF Knows, Has, About
    <3> QED
      BY <1>2, <3>1, <3>2
  <2>4. ASSUME NEW k \in Msgs(down[t]), k.kind = "route"
        PROVE  /\ k.server \in Servers /\ k.inst \in Inst /\ k.inst < nextInst'
               /\ worlds'[k.inst].state # "none" =>
                    /\ worlds'[k.inst].server = k.server
                    /\ proc[k.server] = "linked" => gw[k.server][k.inst].state = "ready"
    <3>1. /\ k.server \in Servers /\ k.inst \in Inst /\ k.inst < x
          /\ worlds[k.inst].state # "none" =>
               /\ worlds[k.inst].server = k.server
               /\ proc[k.server] = "linked" => gw[k.server][k.inst].state = "ready"
      BY <2>4 DEF InitInv, DownInv, x
    <3> QED
      BY <1>2, <1>6, <3>1 DEF x
  <2>5. m.inst \in Inst /\ m.kind # "route" /\ m = InitWorld(worlds'[m.inst].name, m.inst)
    BY <1>2, <1>4, <1>6
  <2> QED
    BY <2>1, <2>2, <2>3, <2>4, <2>5
<1>9. OwnerInv'
  <2> SUFFICES ASSUME NEW t \in Servers, NEW w \in Inst, Knows(t, w)'
               PROVE  w < nextInst' /\ (worlds'[w].state # "none" => worlds'[w].server = t)
    BY Zenon DEF OwnerInv
  <2>1. Knows(t, w) \/ (t = s /\ w = x)
    BY <1>3, <1>5 DEF Knows
  <2>2. CASE Knows(t, w)
    BY <1>1, <1>2, <1>6, <2>2 DEF InitInv, OwnerInv, x
  <2>3. CASE t = s /\ w = x
    BY <1>2, <1>6, <2>3 DEF x
  <2> QED
    BY <2>1, <2>2, <2>3
<1>10. StageInv'
  <2>1. ASSUME NEW t \in Servers, NEW w \in Inst
        PROVE  /\ Once(down'[t], "winit", w)
               /\ Has(down'[t], "winit", w) => gw[t][w].state = "none" /\ ~Has(up[t], "init", w)
    BY <1>1, <1>3, <1>5 DEF InitInv, StageInv, Knows
  <2> QED
    BY <2>1 DEF InitInv, StageInv
<1>11. StateInv'
  <2> SUFFICES ASSUME NEW w \in Inst, worlds'[w].state # "none", proc[worlds'[w].server] = "linked"
               PROVE  LET t == worlds'[w].server IN
                      /\ worlds'[w].state = "loading" =>
                           Has(down'[t], "winit", w) \/ gw[t][w].state = "loading" \/ Has(up[t], "init", w)
                      /\ worlds'[w].state = "ready" => gw[t][w].state = "ready" /\ ~Has(up[t], "init", w)
    BY Zenon DEF StateInv
  <2>1. CASE w = x
    BY <1>2, <1>5, <2>1
  <2>2. CASE w # x
    <3>1. worlds'[w] = worlds[w] /\ worlds[w].server \in Servers
      BY <1>2, <2>2, KnownWorld DEF Typed
    <3>2. Has(down[worlds[w].server], "winit", w) => Has(down'[worlds[w].server], "winit", w)
      BY <1>3, <1>5, <3>1
    <3> QED
      BY <3>1, <3>2 DEF InitInv, StateInv
  <2> QED
    BY <2>1, <2>2
<1> QED
  BY <1>3, <1>7, <1>8, <1>9, <1>10, <1>11 DEF InitInv

LEMMA CreateWorld ==
  ASSUME Typed, InitInv, NEW s \in Servers, NEW u \in Users, NEW n \in Names,
         CreateWorldSessionAndNotice(n, u, s), UNCHANGED <<srv, up, proc, gw>>
  PROVE  InitInv'
<1>1. CASE ReadyServers = {}
  BY <1>1, FailQuiet DEF CreateWorldSessionAndNotice
<1>2. ASSUME nextInst <= MaxInst, nextInst' = nextInst + 1, NEW t \in ReadyServers,
             worlds' = [worlds EXCEPT ![nextInst] =
               [state |-> "loading", name |-> n, server |-> t,
                waiting |-> <<[user |-> u, source |-> s]>>, count |-> 0]],
             ToServer(t, InitWorld(n, nextInst))
      PROVE  InitInv'
  <2>1. nextInst \in Inst
    BY <1>2, BoundsAssumption DEF Typed, MasterInv, MasterTypeOK
  <2>2. t \in Servers /\ srv[t] # "none"
    BY <1>2 DEF ReadyServers
  <2> QED
    BY <1>2, <2>1, <2>2, NewWorld
<1> QED
  BY <1>1, <1>2 DEF CreateWorldSessionAndNotice

LEMMA DatabaseInit ==
  ASSUME Typed, InitInv, DatabaseResults
  PROVE  InitInv'
<1>1. PICK t \in DBTask : CheckWorldExistCB(t) \/ CreateWorldCB(t)
  BY DEF DatabaseResults
<1>2. t.source \in Servers /\ t.user \in Users /\ t.name \in Names
  BY DEF DBTask
<1>3. UNCHANGED <<srv, up, proc, gw>>
  BY <1>1 DEF DatabaseResults, CheckWorldExistCB, CreateWorldCB, gameVars
<1>4. \/ UNCHANGED <<worlds, nextInst, down>>
      \/ ToServer(t.source, JoinFail(t.user)) /\ UNCHANGED <<worlds, nextInst>>
      \/ CreateWorldSessionAndNotice(t.name, t.user, t.source)
  BY <1>1, Zenon DEF CheckWorldExistCB, CreateWorldCB
<1>5. CASE UNCHANGED <<worlds, nextInst, down>>
  BY <1>3, <1>5, SameQueues, QuietStep DEF WorldsKept, StatesKept
<1> QED
  BY <1>2, <1>3, <1>4, <1>5, FailQuiet, CreateWorld

(* The replies to those who wait are routes to the world.                  *)
LEMMA RepliesAreRoutes ==
  ASSUME Typed, NEW s \in Servers, NEW w \in Inst, worlds[w].state # "none"
  PROVE  /\ Queue(RepliesTo(s, w))
         /\ \A m \in Msgs(RepliesTo(s, w)) : m.kind = "route" /\ m.inst = w /\ m.server = worlds[w].server
<1> DEFINE place(k) == CHOOSE i \in Waiters(s, w) : Cardinality({j \in Waiters(s, w) : j <= i}) = k
           e(k) == Route(worlds[w].waiting[place(k)].user, worlds[w].server, w)
           n == Cardinality(Waiters(s, w))
           q == [k \in 1..n |-> e(k)]
           S == {e(k) : k \in 1..n}
<1>1. RepliesTo(s, w) = q
  BY DEF RepliesTo
<1>2. n \in Nat
  <2>1. worlds[w].waiting \in Seq(Waiting)
    BY KnownWorld DEF Typed
  <2>2. Waiters(s, w) \subseteq 1..Len(worlds[w].waiting) /\ Len(worlds[w].waiting) \in Nat
    BY <2>1 DEF Waiters
  <2>3. IsFiniteSet(1..Len(worlds[w].waiting))
    <3>1. 1 \in Int /\ Len(worlds[w].waiting) \in Int
      BY <2>2
    <3> QED
      BY <3>1, FS_Interval
  <2>4. IsFiniteSet(Waiters(s, w))
    <3>1. Waiters(s, w) \in SUBSET (1..Len(worlds[w].waiting))
      BY <2>2
    <3> QED
      BY <2>3, <3>1, FS_Subset
  <2> QED
    BY <2>4, FS_CardinalityType
<1>3. \A k : e(k).kind = "route" /\ e(k).inst = w /\ e(k).server = worlds[w].server
  BY DEF Route
<1> HIDE DEF e, n
<1>4. q \in Seq(S)
  BY <1>2, SeqDef
<1>5. \A m \in S : m.kind = "route" /\ m.inst = w /\ m.server = worlds[w].server
  BY <1>3
<1> HIDE DEF q, S
<1> QED
  BY <1>1, <1>4, <1>5, QueueOf

(* The report of the server arrives, which only the server of the world    *)
(* can have sent: it has the world ready.                                  *)
LEMMA WorldInitArrives ==
  ASSUME Typed, InitInv, NEW s \in Servers, NEW w \in Inst, HandleWorldInit(s, w), UNCHANGED <<proc, gw>>
  PROVE  InitInv'
<1> DEFINE m == InitOK(w)
<1>1. m.kind = "init" /\ \A v : About(m, "init", v) <=> v = w
  BY DEF InitOK, About
<1> HIDE DEF m
<1>2. /\ Queue(up[s]) /\ up[s] # <<>> /\ Head(up[s]) = m /\ srv[s] # "none"
      /\ up'[s] = Tail(up[s]) /\ \A t \in Servers \ {s} : up'[t] = up[t]
  <2>1. /\ up[s] # <<>> /\ Head(up[s]) = m /\ srv[s] # "none" /\ up' = [up EXCEPT ![s] = Tail(@)]
    BY DEF HandleWorldInit, FromServer, Arrives, m
  <2>2. up \in [Servers -> Seq(UpMsg)]
    BY DEF Typed, GameTypeOK
  <2> QED
    BY <2>1, <2>2, QueueOf
<1>3. /\ Has(up[s], "init", w) /\ ~Has(up'[s], "init", w)
      /\ \A v \in Inst : v # w => (Has(up'[s], "init", v) <=> Has(up[s], "init", v))
      /\ \A v \in Inst : Once(up'[s], "init", v)
  BY <1>1, <1>2, TailMsgs DEF InitInv, StageInv
<1>4. /\ worlds[w].state # "none" => worlds[w].server = s
      /\ ~Has(down[s], "winit", w) /\ gw[s][w].state # "loading"
      /\ proc[s] = "linked" => gw[s][w].state = "ready"
  BY <1>3 DEF InitInv, OwnerInv, StageInv, Knows
<1>5. UNCHANGED <<srv, nextInst>>
  BY DEF HandleWorldInit
<1>6. /\ \A v \in Inst \ {w} : worlds'[v] = worlds[v]
      /\ worlds[w].state = "none" => worlds' = worlds /\ down' = down
      /\ worlds[w].state # "none" =>
           worlds'[w].state = "ready" /\ worlds'[w].name = worlds[w].name /\ worlds'[w].server = s
  <2>1. CASE worlds[w].state = "none"
    BY <2>1 DEF HandleWorldInit
  <2>2. CASE worlds[w].state # "none"
    <3> DEFINE r == [worlds[w] EXCEPT !.state = "ready", !.waiting = <<>>]
    <3>1. worlds' = [worlds EXCEPT ![w] = r] /\ worlds \in [Inst -> WorldRecord \cup {NoWorld}]
      BY <2>2 DEF HandleWorldInit, Typed, MasterInv, MasterTypeOK
    <3>2. r.state = "ready" /\ r.name = worlds[w].name /\ r.server = worlds[w].server
      BY <2>2, KnownWorld, ReadyUpdate DEF Typed
    <3> HIDE DEF r
    <3> QED
      BY <1>4, <2>2, <3>1, <3>2
  <2> QED
    BY <2>1, <2>2
<1>7. \A v \in Inst : worlds'[v].state # "none" <=> worlds[v].state # "none"
  BY <1>6
<1>8. \A v \in Inst : worlds[v].state # "none" =>
        worlds'[v].name = worlds[v].name /\ worlds'[v].server = worlds[v].server
  BY <1>4, <1>6
<1>9. /\ DownFunction'
      /\ \A t \in Servers :
           /\ Queue(down'[t]) /\ (proc[t] # "linked" => down'[t] = down[t])
           /\ \A k \in Msgs(down'[t]) :
                \/ k \in Msgs(down[t])
                \/ worlds[w].state # "none" /\ k.kind = "route" /\ k.inst = w /\ k.server = s
           /\ \A v \in Inst :
                (Has(down'[t], "winit", v) <=> Has(down[t], "winit", v)) /\ Once(down'[t], "winit", v)
  <2>1. CASE worlds[w].state = "none"
    BY <1>6, <2>1 DEF InitInv, DownFunction, DownInv, StageInv
  <2>2. CASE worlds[w].state # "none"
    <3>1. down' = [t \in Servers |->
                     IF proc[t] = "linked" /\ srv[t] # "none" THEN down[t] \o RepliesTo(t, w) ELSE down[t]]
      BY <2>2 DEF HandleWorldInit
    <3>2. DownFunction'
      BY <3>1 DEF DownFunction
    <3>3. ASSUME NEW t \in Servers
          PROVE  /\ Queue(down'[t]) /\ (proc[t] # "linked" => down'[t] = down[t])
                 /\ \A k \in Msgs(down'[t]) :
                      k \in Msgs(down[t]) \/ (k.kind = "route" /\ k.inst = w /\ k.server = s)
                 /\ \A v \in Inst :
                      (Has(down'[t], "winit", v) <=> Has(down[t], "winit", v)) /\ Once(down'[t], "winit", v)
      <4>1. Queue(down[t]) /\ \A v \in Inst : Once(down[t], "winit", v)
        BY DEF InitInv, DownInv, StageInv
      <4>2. /\ Queue(RepliesTo(t, w))
            /\ \A k \in Msgs(RepliesTo(t, w)) : k.kind = "route" /\ k.inst = w /\ k.server = s
        BY <1>4, <2>2, RepliesAreRoutes
      <4>3. \A v : ~Has(RepliesTo(t, w), "winit", v)
        BY <4>2 DEF Has, About
      <4>4. CASE proc[t] = "linked" /\ srv[t] # "none"
        <5>1. down'[t] = down[t] \o RepliesTo(t, w)
          BY <3>1, <4>4
        <5> QED
          BY <4>1, <4>2, <4>3, <4>4, <5>1, ConcatMsgs
      <4>5. CASE ~(proc[t] = "linked" /\ srv[t] # "none")
        <5>1. down'[t] = down[t]
          BY <3>1, <4>5
        <5> QED
          BY <4>1, <5>1
      <4> QED
        BY <4>4, <4>5
    <3> QED
      BY <2>2, <3>2, <3>3
  <2> QED
    BY <2>1, <2>2
<1>10. LinkInv'
  BY <1>2, <1>5, <1>9 DEF InitInv, LinkInv
<1>11. DownInv'
  <2> SUFFICES ASSUME NEW t \in Servers, NEW k \in Msgs(down'[t])
               PROVE  /\ k.kind = "winit" => k.inst \in Inst /\
                           (worlds'[k.inst].state # "none" => k = InitWorld(worlds'[k.inst].name, k.inst))
                      /\ k.kind = "route" =>
                           /\ k.server \in Servers /\ k.inst \in Inst /\ k.inst < nextInst
                           /\ worlds'[k.inst].state # "none" =>
                                /\ worlds'[k.inst].server = k.server
                                /\ proc[k.server] = "linked" => gw[k.server][k.inst].state = "ready"
    BY <1>5, <1>9, Zenon DEF DownInv
  <2>1. CASE k \in Msgs(down[t])
    <3>1. /\ k.kind = "winit" => k.inst \in Inst /\
               (worlds[k.inst].state # "none" => k = InitWorld(worlds[k.inst].name, k.inst))
          /\ k.kind = "route" =>
               /\ k.server \in Servers /\ k.inst \in Inst /\ k.inst < nextInst
               /\ worlds[k.inst].state # "none" =>
                    /\ worlds[k.inst].server = k.server
                    /\ proc[k.server] = "linked" => gw[k.server][k.inst].state = "ready"
      BY <2>1 DEF InitInv, DownInv
    <3> QED
      BY <1>7, <1>8, <3>1
  <2>2. CASE worlds[w].state # "none" /\ k.kind = "route" /\ k.inst = w /\ k.server = s
    <3>1. w < nextInst
      BY <1>3 DEF InitInv, OwnerInv, Knows
    <3> QED
      BY <1>4, <1>6, <2>2, <3>1
  <2> QED
    BY <1>9, <2>1, <2>2
<1>12. OwnerInv'
  <2> SUFFICES ASSUME NEW t \in Servers, NEW v \in Inst, Knows(t, v)'
               PROVE  v < nextInst /\ (worlds'[v].state # "none" => worlds'[v].server = t)
    BY <1>5, Zenon DEF OwnerInv
  <2>1. Knows(t, v)
    BY <1>2, <1>3, <1>9 DEF Knows
  <2> QED
    BY <1>7, <1>8, <2>1 DEF InitInv, OwnerInv
<1>13. StageInv'
  <2> SUFFICES ASSUME NEW t \in Servers, NEW v \in Inst
               PROVE  /\ Once(down'[t], "winit", v) /\ Once(up'[t], "init", v)
                      /\ Has(down'[t], "winit", v) => gw[t][v].state = "none" /\ ~Has(up'[t], "init", v)
                      /\ Has(up'[t], "init", v) =>
                           gw[t][v].state # "loading" /\ (proc[t] = "linked" => gw[t][v].state = "ready")
    BY Zenon DEF StageInv
  <2>1. Has(up'[t], "init", v) => Has(up[t], "init", v)
    BY <1>2, <1>3
  <2>2. Once(up'[t], "init", v)
    BY <1>2, <1>3 DEF InitInv, StageInv
  <2> QED
    BY <1>9, <2>1, <2>2 DEF InitInv, StageInv
<1>14. StateInv'
  <2> SUFFICES ASSUME NEW v \in Inst, worlds'[v].state # "none", proc[worlds'[v].server] = "linked"
               PROVE  LET t == worlds'[v].server IN
                      /\ worlds'[v].state = "loading" =>
                           Has(down'[t], "winit", v) \/ gw[t][v].state = "loading" \/ Has(up'[t], "init", v)
                      /\ worlds'[v].state = "ready" => gw[t][v].state = "ready" /\ ~Has(up'[t], "init", v)
    BY Zenon DEF StateInv
  <2>1. CASE v = w
    BY <1>3, <1>4, <1>6, <1>7, <2>1
  <2>2. CASE v # w
    <3>1. worlds'[v] = worlds[v] /\ worlds[v].server \in Servers
      BY <1>6, <2>2, KnownWorld DEF Typed
    <3>2. /\ Has(down'[worlds[v].server], "winit", v) <=> Has(down[worlds[v].server], "winit", v)
          /\ Has(up'[worlds[v].server], "init", v) <=> Has(up[worlds[v].server], "init", v)
      BY <1>2, <1>3, <1>9, <2>2, <3>1
    <3> QED
      BY <3>1, <3>2 DEF InitInv, StateInv
  <2> QED
    BY <2>1, <2>2
<1> QED
  BY <1>9, <1>10, <1>11, <1>12, <1>13, <1>14 DEF InitInv

-----------------------------------------------------------------------------
(* Servers that come and go.                                               *)

LEMMA AddServerInit ==
  ASSUME Typed, InitInv, NEW s \in Servers, AddServer(s)
  PROVE  InitInv'
<1>1. /\ srv[s] = "none" /\ proc[s] = "down" /\ srv'[s] = "authed" /\ proc'[s] = "linked"
      /\ \A t \in Servers \ {s} : srv'[t] = srv[t] /\ proc'[t] = proc[t]
      /\ UNCHANGED <<worlds, nextInst, up, down, gw>>
  BY DEF AddServer, gameVars, Typed, MasterInv, MasterTypeOK, GameTypeOK
<1>2. up[s] = <<>> /\ down[s] = <<>> /\ \A w \in Inst : gw[s][w].state = "none"
  BY <1>1 DEF InitInv, LinkInv
<1>3. \A w \in Inst : worlds[w].state # "none" => worlds[w].server \in Servers \ {s}
  BY <1>1, KnownWorld DEF Typed
<1>4. \A w \in Inst : ~Has(up[s], "init", w)
  BY <1>2, NoMessage
<1>5. LinkInv'
  BY <1>1, <1>2 DEF InitInv, LinkInv
<1>6. DownInv'
  <2> SUFFICES ASSUME NEW t \in Servers
               PROVE  /\ Queue(down[t])
                      /\ \A m \in Msgs(down[t]) :
                           /\ m.kind = "winit" => m.inst \in Inst /\
                                (worlds[m.inst].state # "none" => m = InitWorld(worlds[m.inst].name, m.inst))
                           /\ m.kind = "route" =>
                                /\ m.server \in Servers /\ m.inst \in Inst /\ m.inst < nextInst
                                /\ worlds[m.inst].state # "none" =>
                                     /\ worlds[m.inst].server = m.server
                                     /\ proc'[m.server] = "linked" => gw[m.server][m.inst].state = "ready"
    BY <1>1, Zenon DEF DownInv
  <2> QED
    BY <1>1, <1>3 DEF InitInv, DownInv
<1>7. OwnerInv'
  BY <1>1 DEF InitInv, OwnerInv, Knows
<1>8. StageInv'
  BY <1>1, <1>4 DEF InitInv, StageInv
<1>9. StateInv'
  <2> SUFFICES ASSUME NEW w \in Inst, worlds[w].state # "none", proc'[worlds[w].server] = "linked"
               PROVE  LET t == worlds[w].server IN
                      /\ worlds[w].state = "loading" =>
                           Has(down[t], "winit", w) \/ gw[t][w].state = "loading" \/ Has(up[t], "init", w)
                      /\ worlds[w].state = "ready" => gw[t][w].state = "ready" /\ ~Has(up[t], "init", w)
    BY <1>1, Zenon DEF StateInv
  <2> QED
    BY <1>1, <1>3 DEF InitInv, StateInv
<1>10. DownFunction'
  BY <1>1 DEF InitInv, DownFunction
<1> QED
  BY <1>5, <1>6, <1>7, <1>8, <1>9, <1>10 DEF InitInv

(* Packets and worlds may only get fewer, and a server whose link is lost  *)
(* has none of either any more.                                            *)
LEMMA FewerWorlds ==
  ASSUME Typed, InitInv, DownFunction', LinkInv', nextInst' = nextInst,
         \A w \in Inst : worlds'[w].state # "none" => worlds'[w] = worlds[w],
         \A s \in Servers :
           /\ down'[s] = down[s] \/ down'[s] = <<>>
           /\ up'[s] = up[s] \/ up'[s] = <<>>
           /\ proc'[s] = "linked" =>
                proc[s] = "linked" /\ down'[s] = down[s] /\ up'[s] = up[s] /\ gw'[s] = gw[s]
           /\ gw'[s] = gw[s] \/ \A w \in Inst : gw'[s][w].state = "none"
  PROVE  InitInv'
<1>1. ASSUME NEW s \in Servers
      PROVE  /\ Queue(down'[s]) /\ Msgs(down'[s]) \subseteq Msgs(down[s])
             /\ \A w \in Inst : /\ Has(down'[s], "winit", w) => Has(down[s], "winit", w)
                                /\ Has(up'[s], "init", w) => Has(up[s], "init", w)
                                /\ Once(down'[s], "winit", w) /\ Once(up'[s], "init", w)
                                /\ gw'[s][w].state = gw[s][w].state \/ gw'[s][w].state = "none"
  BY NoMessage DEF InitInv, DownInv, StageInv
<1>2. DownInv'
  <2> SUFFICES ASSUME NEW t \in Servers, NEW m \in Msgs(down'[t])
               PROVE  /\ m.kind = "winit" => m.inst \in Inst /\
                           (worlds'[m.inst].state # "none" => m = InitWorld(worlds'[m.inst].name, m.inst))
                      /\ m.kind = "route" =>
                           /\ m.server \in Servers /\ m.inst \in Inst /\ m.inst < nextInst
                           /\ worlds'[m.inst].state # "none" =>
                                /\ worlds'[m.inst].server = m.server
                                /\ proc'[m.server] = "linked" => gw'[m.server][m.inst].state = "ready"
    BY <1>1, Zenon DEF DownInv
  <2>1. m \in Msgs(down[t])
    BY <1>1
  <2>2. m.kind = "winit" => m.inst \in Inst /\
             (worlds[m.inst].state # "none" => m = InitWorld(worlds[m.inst].name, m.inst))
    BY <2>1 DEF InitInv, DownInv
  <2>3. m.kind = "route" =>
             /\ m.server \in Servers /\ m.inst \in Inst /\ m.inst < nextInst
             /\ worlds[m.inst].state # "none" =>
                  /\ worlds[m.inst].server = m.server
                  /\ proc[m.server] = "linked" => gw[m.server][m.inst].state = "ready"
    BY <2>1 DEF InitInv, DownInv
  <2> QED
    BY <2>2, <2>3
<1>3. OwnerInv'
  BY <1>1 DEF InitInv, OwnerInv, Knows
<1>4. StageInv'
  <2> SUFFICES ASSUME NEW t \in Servers, NEW w \in Inst
               PROVE  /\ Has(down'[t], "winit", w) => gw'[t][w].state = "none" /\ ~Has(up'[t], "init", w)
                      /\ Has(up'[t], "init", w) =>
                           /\ gw'[t][w].state # "loading"
                           /\ proc'[t] = "linked" => gw'[t][w].state = "ready"
    BY <1>1, Zenon DEF StageInv
  <2> QED
    BY <1>1 DEF InitInv, StageInv
<1>5. StateInv'
  <2> SUFFICES ASSUME NEW w \in Inst, worlds'[w].state # "none", proc'[worlds'[w].server] = "linked"
               PROVE  LET t == worlds'[w].server IN
                      /\ worlds'[w].state = "loading" =>
                           Has(down'[t], "winit", w) \/ gw'[t][w].state = "loading" \/ Has(up'[t], "init", w)
                      /\ worlds'[w].state = "ready" => gw'[t][w].state = "ready" /\ ~Has(up'[t], "init", w)
    BY Zenon DEF StateInv
  <2>1. worlds'[w] = worlds[w] /\ worlds[w].server \in Servers
    BY KnownWorld DEF Typed
  <2> QED
    BY <2>1 DEF InitInv, StateInv
<1> QED
  BY <1>2, <1>3, <1>4, <1>5 DEF InitInv

LEMMA RemoveServerInit ==
  ASSUME Typed, InitInv, NEW s \in Servers, RemoveServer(s)
  PROVE  InitInv'
<1>1. /\ proc[s] # "linked" /\ srv'[s] = "none" /\ up'[s] = <<>>
      /\ \A t \in Servers \ {s} : srv'[t] = srv[t] /\ up'[t] = up[t]
      /\ UNCHANGED <<nextInst, down, proc, gw>>
  BY DEF RemoveServer, gameVars, Typed, MasterInv, MasterTypeOK, GameTypeOK
<1>2. \A w \in Inst : worlds'[w].state # "none" => worlds'[w] = worlds[w]
  BY DEF RemoveServer, WorldsWithout, NoWorld
<1>3. LinkInv'
  BY <1>1 DEF InitInv, LinkInv
<1>4. DownFunction'
  BY <1>1 DEF InitInv, DownFunction
<1> QED
  BY <1>1, <1>2, <1>3, <1>4, FewerWorlds

LEMMA LossesInit ==
  ASSUME Typed, InitInv, NEW s \in Servers, Losses(s)
  PROVE  InitInv'
<1>1. /\ proc'[s] # "linked" /\ down'[s] = <<>> /\ DownFunction'
      /\ \A t \in Servers \ {s} : proc'[t] = proc[t] /\ down'[t] = down[t]
      /\ UNCHANGED <<srv, worlds, nextInst, up>>
  BY DEF Losses, LoseLink, Crash, masterVars, GameTypeOK, Typed, InitInv, DownFunction
<1>2. /\ \A t \in Servers \ {s} : gw'[t] = gw[t]
      /\ proc'[s] = "down" => \A w \in Inst : gw'[s][w].state = "none"
      /\ gw'[s] = gw[s] \/ \A w \in Inst : gw'[s][w].state = "none"
  <2>1. CASE LoseLink(s)
    BY <2>1 DEF LoseLink, gameVars, Typed, GameTypeOK
  <2>2. CASE Crash(s)
    BY <2>2 DEF Crash, Typed, GameTypeOK, NoGameWorld
  <2> QED
    BY <2>1, <2>2 DEF Losses
<1>3. LinkInv'
  BY <1>1, <1>2 DEF InitInv, LinkInv
<1> QED
  BY <1>1, <1>2, <1>3, FewerWorlds

-----------------------------------------------------------------------------
(* Steps of a game server.                                                 *)

(* A world of a server moves on: its order is taken, or what it waited for *)
(* is there.  It is reported just when it is ready now.                    *)
LEMMA WorldMoves ==
  ASSUME Typed, InitInv, NEW s \in Servers, NEW w \in Inst, Knows(s, w), proc[s] = "linked",
         UNCHANGED <<srv, worlds, nextInst, proc>>, DownFunction',
         gw[s][w].state # "ready", gw'[s][w].state \in {"loading", "ready"}, ~Has(up[s], "init", w),
         ~Has(down'[s], "winit", w), Has(up'[s], "init", w) <=> gw'[s][w].state = "ready",
         \A t \in Servers :
           /\ Queue(down'[t]) /\ Msgs(down'[t]) \subseteq Msgs(down[t])
           /\ proc[t] # "linked" => down'[t] = down[t]
           /\ \A v \in Inst : Once(down'[t], "winit", v) /\ Once(up'[t], "init", v),
         \A t \in Servers \ {s} : up'[t] = up[t] /\ gw'[t] = gw[t] /\ down'[t] = down[t],
         \A v \in Inst \ {w} :
           /\ gw'[s][v].state = gw[s][v].state
           /\ Has(down'[s], "winit", v) <=> Has(down[s], "winit", v)
           /\ Has(up'[s], "init", v) <=> Has(up[s], "init", v)
  PROVE  InitInv'
<1>1. worlds[w].state # "none" => worlds[w].server = s /\ worlds[w].state # "ready"
  BY DEF InitInv, OwnerInv, StateInv
<1>2. LinkInv'
  BY DEF InitInv, LinkInv
<1>3. DownInv'
  <2> SUFFICES ASSUME NEW t \in Servers, NEW m \in Msgs(down'[t])
               PROVE  /\ m.kind = "winit" => m.inst \in Inst /\
                           (worlds[m.inst].state # "none" => m = InitWorld(worlds[m.inst].name, m.inst))
                      /\ m.kind = "route" =>
                           /\ m.server \in Servers /\ m.inst \in Inst /\ m.inst < nextInst
                           /\ worlds[m.inst].state # "none" =>
                                /\ worlds[m.inst].server = m.server
                                /\ proc[m.server] = "linked" => gw'[m.server][m.inst].state = "ready"
    BY Zenon DEF DownInv
  <2>1. m \in Msgs(down[t])
    OBVIOUS
  <2>2. m.kind = "winit" => m.inst \in Inst /\
             (worlds[m.inst].state # "none" => m = InitWorld(worlds[m.inst].name, m.inst))
    BY <2>1 DEF InitInv, DownInv
  <2>3. m.kind = "route" =>
             /\ m.server \in Servers /\ m.inst \in Inst /\ m.inst < nextInst
             /\ worlds[m.inst].state # "none" =>
                  /\ worlds[m.inst].server = m.server
                  /\ proc[m.server] = "linked" => gw[m.server][m.inst].state = "ready"
    BY <2>1 DEF InitInv, DownInv
  <2>4. \A v \in Servers, i \in Inst : gw[v][i].state = "ready" => gw'[v][i].state = "ready"
    OBVIOUS
  <2> QED
    BY <2>2, <2>3, <2>4
<1>4. OwnerInv'
  <2> SUFFICES ASSUME NEW t \in Servers, NEW v \in Inst, Knows(t, v)'
               PROVE  v < nextInst /\ (worlds[v].state # "none" => worlds[v].server = t)
    BY Zenon DEF OwnerInv
  <2>1. Knows(t, v)
    BY DEF Knows
  <2> QED
    BY <2>1 DEF InitInv, OwnerInv
<1>5. StageInv'
  <2> SUFFICES ASSUME NEW t \in Servers, NEW v \in Inst
               PROVE  /\ Has(down'[t], "winit", v) => gw'[t][v].state = "none" /\ ~Has(up'[t], "init", v)
                      /\ Has(up'[t], "init", v) =>
                           gw'[t][v].state # "loading" /\ (proc[t] = "linked" => gw'[t][v].state = "ready")
    BY Zenon DEF StageInv
  <2> QED
    BY DEF InitInv, StageInv
<1>6. StateInv'
  <2> SUFFICES ASSUME NEW v \in Inst, worlds[v].state # "none", proc[worlds[v].server] = "linked"
               PROVE  LET t == worlds[v].server IN
                      /\ worlds[v].state = "loading" =>
                           Has(down'[t], "winit", v) \/ gw'[t][v].state = "loading" \/ Has(up'[t], "init", v)
                      /\ worlds[v].state = "ready" => gw'[t][v].state = "ready" /\ ~Has(up'[t], "init", v)
    BY Zenon DEF StateInv
  <2>1. CASE v = w
    BY <1>1, <2>1
  <2>2. CASE v # w
    <3>1. worlds[v].server \in Servers
      BY KnownWorld DEF Typed
    <3> DEFINE i == worlds[v].server
    <3>2. /\ worlds[v].state = "loading" =>
               Has(down[i], "winit", v) \/ gw[i][v].state = "loading" \/ Has(up[i], "init", v)
          /\ worlds[v].state = "ready" => gw[i][v].state = "ready" /\ ~Has(up[i], "init", v)
      BY DEF InitInv, StateInv
    <3> HIDE DEF i
    <3>3. i \in Servers
      BY <3>1 DEF i
    <3>4. /\ gw'[i][v].state = gw[i][v].state
          /\ Has(down'[i], "winit", v) <=> Has(down[i], "winit", v)
          /\ Has(up'[i], "init", v) <=> Has(up[i], "init", v)
      BY <2>2, <3>3
    <3> QED
      BY <3>2, <3>4 DEF i
  <2> QED
    BY <2>1, <2>2
<1> QED
  BY <1>2, <1>3, <1>4, <1>5, <1>6 DEF InitInv

(* The report of a world that has not been reported.                       *)
LEMMA ReportSent ==
  ASSUME Typed, InitInv, NEW s \in Servers, NEW w \in Inst, proc[s] = "linked", ~Has(up[s], "init", w),
         ToMaster(s, <<InitOK(w)>>)
  PROVE  /\ Has(up'[s], "init", w)
         /\ \A v \in Inst \ {w} : Has(up'[s], "init", v) <=> Has(up[s], "init", v)
         /\ \A t \in Servers \ {s} : up'[t] = up[t]
         /\ \A t \in Servers, v \in Inst : Once(up'[t], "init", v)
<1> DEFINE m == InitOK(w)
<1>1. \A v : About(m, "init", v) <=> v = w
  BY DEF InitOK, About
<1> HIDE DEF m
<1>2. up[s] \in Seq(UpMsg) /\ up'[s] = up[s] \o <<m>> /\ \A t \in Servers \ {s} : up'[t] = up[t]
  BY DEF ToMaster, Typed, GameTypeOK, m
<1>3. Queue(up[s]) /\ \A t \in Servers, v \in Inst : Once(up[t], "init", v)
  BY <1>2, QueueOf DEF InitInv, StageInv
<1>4. /\ Queue(<<m>>) /\ \A v : Once(<<m>>, "init", v)
      /\ \A v : Has(<<m>>, "init", v) <=> v = w
  BY <1>1, OneMessage
<1>5. \A v \in Inst : Has(up'[s], "init", v) <=> (Has(up[s], "init", v) \/ v = w)
  BY <1>2, <1>3, <1>4, ConcatMsgs
<1>6. \A v \in Inst : Once(up'[s], "init", v)
  <2> SUFFICES ASSUME NEW v \in Inst PROVE Once(up'[s], "init", v)
    OBVIOUS
  <2>1. CASE v = w
    BY <1>2, <1>3, <1>4, <2>1, ConcatMsgs
  <2>2. CASE v # w
    BY <1>2, <1>3, <1>4, <2>2, ConcatMsgs
  <2> QED
    BY <2>1, <2>2
<1> QED
  BY <1>2, <1>3, <1>5, <1>6

LEMMA OrderTaken ==
  ASSUME Typed, InitInv, NEW s \in Servers, NEW n \in Names, NEW w \in Inst, GameHandleWorldInit(s, n, w)
  PROVE  InitInv'
<1> DEFINE m == InitWorld(n, w)
<1>1. \A v : About(m, "winit", v) <=> v = w
  BY DEF InitWorld, About
<1> HIDE DEF m
<1>2. /\ proc[s] = "linked" /\ Queue(down[s]) /\ down[s] # <<>> /\ Head(down[s]) = m
      /\ down'[s] = Tail(down[s]) /\ DownFunction' /\ \A t \in Servers \ {s} : down'[t] = down[t]
      /\ UNCHANGED <<srv, worlds, nextInst, proc>>
  BY DEF GameHandleWorldInit, FromMaster, Arrives, InitInv, DownInv, DownFunction, masterVars, m
<1>3. /\ Has(down[s], "winit", w) /\ ~Has(down'[s], "winit", w)
      /\ \A v \in Inst \ {w} : Has(down'[s], "winit", v) <=> Has(down[s], "winit", v)
  BY <1>1, <1>2, TailMsgs DEF InitInv, StageInv
<1>4. Knows(s, w) /\ gw[s][w].state = "none" /\ ~Has(up[s], "init", w)
  BY <1>3 DEF Knows, InitInv, StageInv
<1>5. \A t \in Servers :
        /\ Queue(down'[t]) /\ Msgs(down'[t]) \subseteq Msgs(down[t])
        /\ proc[t] # "linked" => down'[t] = down[t]
        /\ \A v \in Inst : Once(down'[t], "winit", v)
  BY <1>2, TailMsgs DEF InitInv, DownInv, StageInv
<1>6. /\ \A t \in Servers \ {s} : gw'[t] = gw[t]
      /\ \A v \in Inst \ {w} : gw'[s][v].state = gw[s][v].state
      /\ \/ gw'[s][w].state = "ready" /\ ToMaster(s, <<InitOK(w)>>)
         \/ gw'[s][w].state = "loading" /\ UNCHANGED up
  <2>1. ASSUME NEW st \in {"ready", "loading"},
               gw' = [gw EXCEPT ![s][w] = [NoGameWorld EXCEPT !.state = st, !.name = n]]
        PROVE  /\ \A t \in Servers \ {s} : gw'[t] = gw[t]
               /\ \A v \in Inst \ {w} : gw'[s][v].state = gw[s][v].state
               /\ gw'[s][w].state = st
    <3> DEFINE r == [NoGameWorld EXCEPT !.state = st, !.name = n]
    <3>1. r.state = st
      BY DEF NoGameWorld
    <3>2. gw' = [gw EXCEPT ![s] = [gw[s] EXCEPT ![w] = r]]
      BY <2>1
    <3>3. gw \in [Servers -> [Inst -> GameWorldRecord \cup {NoGameWorld}]]
      BY DEF Typed, GameTypeOK
    <3> HIDE DEF r
    <3> QED
      BY <3>1, <3>2, <3>3
  <2> QED
    BY <2>1 DEF GameHandleWorldInit
<1>7. CASE gw'[s][w].state = "ready" /\ ToMaster(s, <<InitOK(w)>>)
  <2>1. /\ Has(up'[s], "init", w)
        /\ \A v \in Inst \ {w} : Has(up'[s], "init", v) <=> Has(up[s], "init", v)
        /\ \A t \in Servers \ {s} : up'[t] = up[t]
        /\ \A t \in Servers, v \in Inst : Once(up'[t], "init", v)
    BY <1>2, <1>4, <1>7, ReportSent
  <2> QED
    BY <1>2, <1>3, <1>4, <1>5, <1>6, <1>7, <2>1, WorldMoves
<1>8. CASE gw'[s][w].state = "loading" /\ UNCHANGED up
  <2>1. \A t \in Servers, v \in Inst : Once(up'[t], "init", v)
    BY <1>8 DEF InitInv, StageInv
  <2> QED
    BY <1>2, <1>3, <1>4, <1>5, <1>6, <1>8, <2>1, WorldMoves
<1> QED
  BY <1>6, <1>7, <1>8

LEMMA PresenceComes ==
  ASSUME Typed, InitInv, NEW s \in Servers, NEW w \in Inst, OnWorldPresenceReady(s, w)
  PROVE  InitInv'
<1>1. /\ proc[s] = "linked" /\ gw[s][w].state = "loading" /\ ToMaster(s, <<InitOK(w)>>)
      /\ UNCHANGED <<srv, worlds, nextInst, proc, down>> /\ DownFunction'
  BY DEF OnWorldPresenceReady, masterVars, InitInv, DownFunction
<1>2. Knows(s, w) /\ ~Has(up[s], "init", w) /\ ~Has(down[s], "winit", w)
  BY <1>1 DEF Knows, InitInv, StageInv
<1>3. /\ Has(up'[s], "init", w)
      /\ \A v \in Inst \ {w} : Has(up'[s], "init", v) <=> Has(up[s], "init", v)
      /\ \A t \in Servers \ {s} : up'[t] = up[t]
      /\ \A t \in Servers, v \in Inst : Once(up'[t], "init", v)
  BY <1>1, <1>2, ReportSent
<1>4. /\ gw'[s][w].state = "ready" /\ \A t \in Servers \ {s} : gw'[t] = gw[t]
      /\ \A v \in Inst \ {w} : gw'[s][v].state = gw[s][v].state
  <2>1. gw' = [gw EXCEPT ![s] = [gw[s] EXCEPT ![w] = [gw[s][w] EXCEPT !.state = "ready"]]]
    BY DEF OnWorldPresenceReady
  <2>2. gw \in [Servers -> [Inst -> GameWorldRecord \cup {NoGameWorld}]]
    BY DEF Typed, GameTypeOK
  <2>3. [gw[s][w] EXCEPT !.state = "ready"].state = "ready"
    BY <2>2 DEF GameWorldRecord, NoGameWorld
  <2> QED
    BY <2>1, <2>2, <2>3
<1>5. \A t \in Servers : Queue(down'[t]) /\ \A v \in Inst : Once(down'[t], "winit", v)
  BY <1>1 DEF InitInv, DownInv, StageInv
<1> QED
  BY <1>1, <1>2, <1>3, <1>4, <1>5, WorldMoves

-----------------------------------------------------------------------------
(* Players come and go: no world of a server changes its state.            *)

LEMMA MemberStates ==
  ASSUME NEW ws \in ServerWorlds, NEW w \in Inst, ws[w].state # "none", NEW u \in Users
  PROVE  \A v \in Inst : WithPlayer(ws, w, u)[v].state = ws[v].state
<1> DEFINE r == [ws[w] EXCEPT !.players = [ws[w].players EXCEPT ![u] = ws[w].players[u] + 1]]
<1>1. WithPlayer(ws, w, u) = [ws EXCEPT ![w] = r]
  BY DEF WithPlayer
<1>2. r.state = ws[w].state
  BY HostedWorld DEF GameWorldRecord
<1> HIDE DEF r
<1> QED
  BY <1>1, <1>2 DEF ServerWorlds

LEMMA LeaveQuiet ==
  ASSUME Typed, InitInv, NEW s \in Servers, NEW u \in Users, NEW w \in InstOrNone, NEW p,
         NEW ms, Plain(ms), PlayerLeaveWorld(s, u, w, p, ms)
  PROVE  StatesKept /\ UpsKept
<1>1. gw \in [Servers -> ServerWorlds]
  BY DEF Typed, GameTypeOK, ServerWorlds
<1>2. CASE IsMember(s, w, u)
  <2>1. gw' = [gw EXCEPT ![s] = WithoutPlayer(gw[s], w, u)] /\ ToMaster(s, <<Left(u, w)>> \o ms)
    BY <1>2 DEF PlayerLeaveWorld
  <2>2. Plain(<<Left(u, w)>> \o ms)
    BY PlainMsgs DEF Left
  <2>3. UpsKept
    BY <2>1, <2>2, UpSent
  <2>4. \A v \in Inst : WithoutPlayer(gw[s], w, u)[v].state = gw[s][v].state
    BY <1>1, <1>2, MembersTyped DEF IsMember, Hosts
  <2> QED
    BY <1>1, <2>1, <2>3, <2>4 DEF StatesKept
<1>3. CASE ~IsMember(s, w, u)
  BY <1>3, UpSent DEF PlayerLeaveWorld, StatesKept
<1> QED
  BY <1>2, <1>3

LEMMA EnterQuiet ==
  ASSUME Typed, InitInv, NEW s \in Servers, NEW u \in Users, NEW w \in Inst, NEW p \in PlayerRecord,
         EnterWorld(s, u, w, p)
  PROVE  StatesKept /\ UpsKept
<1> DEFINE leaves == IsMember(s, p.world, u)
           ws == IF leaves THEN WithoutPlayer(gw[s], p.world, u) ELSE gw[s]
           ms == (IF leaves THEN <<Left(u, p.world)>> ELSE <<>>) \o <<Joined(u, w)>>
<1>1. gw \in [Servers -> ServerWorlds] /\ p.world \in InstOrNone
  BY PlayerFields DEF Typed, GameTypeOK, ServerWorlds
<1>2. CASE gw[s][w].state # "ready" \/ p.world = w
  BY <1>2, SameQueues DEF EnterWorld, StatesKept
<1>3. CASE ~(gw[s][w].state # "ready" \/ p.world = w)
  <2>1. gw' = [gw EXCEPT ![s] = WithPlayer(ws, w, u)] /\ ToMaster(s, ms)
    BY <1>3, Zenon DEF EnterWorld
  <2>2. Plain(ms)
    <3>1. Plain(<<Joined(u, w)>>) /\ Plain(<<Left(u, p.world)>>) /\ Plain(<<>>)
      BY PlainMsgs DEF Joined, Left
    <3> QED
      BY <3>1, PlainMsgs
  <2>3. UpsKept
    <3> HIDE DEF ms
    <3> QED
      BY <2>1, <2>2, UpSent
  <2>4. leaves => /\ WithoutPlayer(gw[s], p.world, u) \in ServerWorlds
                  /\ \A v \in Inst : WithoutPlayer(gw[s], p.world, u)[v].state = gw[s][v].state
    BY <1>1, MembersTyped DEF IsMember, Hosts
  <2>5. ws \in ServerWorlds /\ \A v \in Inst : ws[v].state = gw[s][v].state
    BY <1>1, <2>4
  <2> HIDE DEF ws
  <2>6. \A v \in Inst : WithPlayer(ws, w, u)[v].state = gw[s][v].state
    BY <1>3, <2>5, MemberStates
  <2> QED
    BY <1>1, <2>1, <2>3, <2>6 DEF StatesKept
<1> QED
  BY <1>2, <1>3

LEMMA JoinByNameQuiet ==
  ASSUME Typed, InitInv, NEW s \in Servers, NEW u \in Users, NEW n, NEW p \in PlayerRecord,
         JoinByName(s, u, n, p)
  PROVE  StatesKept /\ UpsKept
<1>1. CASE ToMaster(s, <<Join(u, n)>>) /\ UNCHANGED gw
  <2>1. Plain(<<Join(u, n)>>)
    BY PlainMsgs DEF Join
  <2> QED
    BY <1>1, <2>1, UpSent DEF StatesKept
<1>2. CASE \E w \in Inst : EnterWorld(s, u, w, p)
  BY <1>2, EnterQuiet
<1> QED
  BY <1>1, <1>2 DEF JoinByName

LEMMA LogOffQuiet ==
  ASSUME Typed, InitInv, NEW s \in Servers, NEW u \in Users, NEW p, NEW ms, Plain(ms), LogOff(s, u, p, ms)
  PROVE  StatesKept /\ UpsKept
<1>1. CASE obj[s][u].st = "game"
  <2>1. obj[s][u].world \in InstOrNone
    BY <1>1 DEF Typed, GameTypeOK, PlayerRecord, NoPlayer
  <2>2. PlayerLeaveWorld(s, u, obj[s][u].world, p, ms)
    BY <1>1 DEF LogOff
  <2> QED
    BY <2>1, <2>2, LeaveQuiet
<1>2. CASE obj[s][u].st # "game"
  BY <1>2, UpSent, SameQueues DEF LogOff, StatesKept
<1> QED
  BY <1>1, <1>2

(* What a client does, and what its player does on a server.               *)
LEMMA PlayersQuiet ==
  ASSUME Typed, InitInv, NEW s \in Servers, NEW u \in Users,
         \/ \E n \in Names : PlayerJoinRequest(s, u, n)
         \/ QuitToExit(s, u) \/ Quit(s, u) \/ OnEventDisconnect(s, u)
         \/ UpdatePlayers(s, u) \/ StartLoginRequest(s, u) \/ EnterGame(s, u)
  PROVE  InitInv'
<1>1. UNCHANGED <<srv, worlds, nextInst, proc, down>>
  BY DEF PlayerJoinRequest, QuitToExit, Quit, OnEventDisconnect, UpdatePlayers, StartLoginRequest,
         EnterGame, masterVars
<1>2. Plain(<<EndPlayer(u)>>) /\ Plain(<<>>) /\ Plain(<<Check(u, cmds)>>)
  BY PlainMsgs DEF EndPlayer, Check
<1>3. WorldsAndPlayersTyped
  BY FieldsTyped DEF Typed
<1>4. ASSUME NEW n \in Names, PlayerJoinRequest(s, u, n) PROVE StatesKept /\ UpsKept
  <2>1. obj[s][u] \in PlayerRecord /\ JoinByName(s, u, n, obj[s][u])
    BY <1>3, <1>4, KnownPlayer DEF PlayerJoinRequest, Playing
  <2> QED
    BY <2>1, JoinByNameQuiet
<1>5. ASSUME QuitToExit(s, u) PROVE StatesKept /\ UpsKept
  <2>1. obj[s][u] \in PlayerRecord
    BY <1>3, <1>5, KnownPlayer DEF QuitToExit, Playing
  <2>2. obj[s][u].world \in InstOrNone
    BY <2>1, PlayerFields
  <2> QED
    BY <1>2, <1>5, <2>2, LeaveQuiet DEF QuitToExit
<1>6. ASSUME Quit(s, u) PROVE StatesKept /\ UpsKept
  BY <1>2, <1>6, LogOffQuiet DEF Quit
<1>7. ASSUME OnEventDisconnect(s, u) PROVE StatesKept /\ UpsKept
  BY <1>2, <1>7, LogOffQuiet, SameQueues DEF OnEventDisconnect, StatesKept
<1>8. ASSUME UpdatePlayers(s, u) PROVE StatesKept /\ UpsKept
  BY <1>8, SameQueues DEF UpdatePlayers, StatesKept
<1>9. ASSUME StartLoginRequest(s, u) PROVE StatesKept /\ UpsKept
  BY <1>2, <1>9, UpSent DEF StartLoginRequest, StatesKept
<1>10. ASSUME EnterGame(s, u) PROVE StatesKept /\ UpsKept
  <2> DEFINE p == [obj[s][u] EXCEPT !.st = "game", !.world = 0]
             w == obj[s][u].world
  <2>1. obj[s][u] \in PlayerRecord /\ 0 \in InstOrNone
    BY <1>3, <1>10, KnownPlayer, BoundsAssumption DEF EnterGame
  <2>2. p \in PlayerRecord
    BY <2>1 DEF PlayerRecord
  <2>3. JoinByName(s, u, gw[s][w].name, p) \/ UNCHANGED <<gw, up>>
    BY <1>10 DEF EnterGame
  <2> HIDE DEF p, w
  <2> QED
    BY <2>2, <2>3, JoinByNameQuiet, SameQueues DEF StatesKept
<1>11. StatesKept /\ UpsKept
  BY <1>4, <1>5, <1>6, <1>7, <1>8, <1>9, <1>10
<1> QED
  BY <1>1, <1>11, SameQueues, QuietStep DEF WorldsKept

(* A packet of the Master that orders no world.                            *)
LEMMA AnswersQuiet ==
  ASSUME Typed, InitInv, NEW s \in Servers, NEW u \in Users,
         \/ HandleJoinFail(s, u)
         \/ \E t \in Servers, w \in Inst : HandlePlayerJoin(s, u, t, w)
         \/ \E id \in 0..MaxCmds, ok \in BOOLEAN, w \in InstOrNone : HandleCheckSession(s, u, id, ok, w)
  PROVE  InitInv'
<1>1. UNCHANGED <<srv, worlds, nextInst, proc>>
  BY DEF HandleJoinFail, HandlePlayerJoin, HandleCheckSession, masterVars
<1>2. DownsKept
  BY DownTaken DEF HandleJoinFail, HandlePlayerJoin, HandleCheckSession, JoinFail, Route, Checked
<1>3. CASE UNCHANGED <<gw, up>>
  BY <1>1, <1>2, <1>3, SameQueues, QuietStep DEF WorldsKept, StatesKept
<1>4. ASSUME NEW t \in Servers, NEW w \in Inst, HandlePlayerJoin(s, u, t, w), ~UNCHANGED <<gw, up>>
      PROVE  InitInv'
  <2>1. obj[s][u].st # "none" /\ (LogOff(s, u, Deleted(obj[s][u]), <<>>) \/ EnterWorld(s, u, w, obj[s][u]))
    BY <1>4 DEF HandlePlayerJoin, gameVars
  <2>2. obj[s][u] \in PlayerRecord
    BY <2>1, FieldsTyped, KnownPlayer DEF Typed
  <2>3. StatesKept /\ UpsKept
    BY <2>1, <2>2, LogOffQuiet, EnterQuiet, PlainMsgs
  <2> QED
    BY <1>1, <1>2, <2>3, QuietStep DEF WorldsKept
<1>5. UNCHANGED <<gw, up>> \/ \E t \in Servers, w \in Inst : HandlePlayerJoin(s, u, t, w)
  BY DEF HandleJoinFail, HandleCheckSession, gameVars
<1> QED
  BY <1>3, <1>4, <1>5

-----------------------------------------------------------------------------
(* All steps.                                                              *)

LEMMA InitEstablished == Init => InitInv
<1> SUFFICES ASSUME Init PROVE InitInv
  OBVIOUS
<1>1. /\ \A s \in Servers : down[s] = <<>> /\ up[s] = <<>> /\ proc[s] = "linked" /\ srv[s] = "ready"
      /\ \A s \in Servers, w \in Inst : gw[s][w].state = "none"
      /\ \A w \in Inst : worlds[w].state = "none"
  BY DEF Init, NoGameWorld, NoWorld
<1>2. DownFunction
  BY DEF Init, DownFunction
<1> QED
  BY <1>1, <1>2, NoMessage DEF InitInv, LinkInv, DownInv, OwnerInv, StageInv, StateInv, Knows

LEMMA InitStep == Typed /\ InitInv /\ [Next]_vars => InitInv'
<1> SUFFICES ASSUME Typed, InitInv, [Next]_vars PROVE InitInv'
  OBVIOUS
<1>1. CASE UNCHANGED vars
  <2>1. UNCHANGED <<srv, worlds, nextInst, proc, gw, up, down>>
    BY <1>1 DEF vars, masterVars, gameVars
  <2> QED
    BY <2>1, SameQueues, QuietStep DEF WorldsKept, StatesKept
<1>2. CASE DatabaseResults
  BY <1>2, DatabaseInit
<1>3. ASSUME NEW u \in Users, ConnectFails(u) PROVE InitInv'
  <2>1. UNCHANGED <<srv, worlds, nextInst, proc, gw, up, down>>
    BY <1>3 DEF ConnectFails, masterVars, gameVars
  <2> QED
    BY <2>1, SameQueues, QuietStep DEF WorldsKept, StatesKept
<1>4. ASSUME NEW s \in Servers, FromServerHandlers(s) PROVE InitInv'
  <2>1. UNCHANGED <<proc, gw>>
    BY <1>4 DEF FromServerHandlers, gameVars
  <2>2. ASSUME NEW u \in Users, NEW n \in Names, HandlePlayerJoinRequest(s, u, n) PROVE InitInv'
    BY <2>1, <2>2, JoinRequestQuiet
  <2>3. ASSUME NEW w \in Inst, HandleWorldInit(s, w) PROVE InitInv'
    BY <2>1, <2>3, WorldInitArrives
  <2>4. ASSUME NEW u \in Users, NEW w \in Inst, WorldPlayerJoin(s, u, w) \/ WorldPlayerLeave(s, u, w)
        PROVE  InitInv'
    BY <2>1, <2>4, SessionQuiet
  <2>5. ASSUME NEW u \in Users, PlayerEndSession(s, u) \/ \E id \in 0..MaxCmds : PlayerCheckSession(s, u, id)
        PROVE  InitInv'
    BY <2>1, <2>5, SessionQuiet
  <2> QED
    BY <1>4, <2>2, <2>3, <2>4, <2>5, Zenon DEF FromServerHandlers
<1>5. ASSUME NEW s \in Servers, FromMasterHandlers(s) PROVE InitInv'
  <2>1. ASSUME NEW n \in Names, NEW w \in Inst, GameHandleWorldInit(s, n, w) PROVE InitInv'
    BY <2>1, OrderTaken
  <2>2. ASSUME NEW u \in Users,
               \/ HandleJoinFail(s, u)
               \/ \E t \in Servers, w \in Inst : HandlePlayerJoin(s, u, t, w)
               \/ \E id \in 0..MaxCmds, ok \in BOOLEAN, w \in InstOrNone : HandleCheckSession(s, u, id, ok, w)
        PROVE  InitInv'
    BY <2>2, AnswersQuiet
  <2> QED
    BY <1>5, <2>1, <2>2, Zenon DEF FromMasterHandlers
<1>6. ASSUME NEW s \in Servers, NEW u \in Users,
             \/ \E n \in Names : PlayerJoinRequest(s, u, n)
             \/ QuitToExit(s, u) \/ Quit(s, u) \/ OnEventDisconnect(s, u)
             \/ UpdatePlayers(s, u) \/ StartLoginRequest(s, u) \/ EnterGame(s, u)
      PROVE  InitInv'
  BY <1>6, PlayersQuiet
<1>7. ASSUME NEW s \in Servers, (\E u \in Users : SendToGame(u, s)) \/ ServerReady(s) PROVE InitInv'
  BY <1>7, ConnectionQuiet
<1>8. ASSUME NEW s \in Servers, AddServer(s) \/ RemoveServer(s) \/ Losses(s) PROVE InitInv'
  BY <1>8, AddServerInit, RemoveServerInit, LossesInit
<1>9. ASSUME NEW s \in Servers, NEW w \in Inst, OnWorldPresenceReady(s, w) PROVE InitInv'
  BY <1>9, PresenceComes
<1>10. CASE Next
  BY <1>2, <1>3, <1>4, <1>5, <1>6, <1>7, <1>8, <1>9, <1>10, Zenon DEF Next, Clients
<1> QED
  BY <1>1, <1>10

LEMMA InitCorrect == Spec => [](Typed /\ InitInv)
<1>1. Typed /\ InitInv /\ [Next]_vars => InitInv'
  BY InitStep
<1>2. Init => InitInv
  BY InitEstablished
<1>3. Typed <=> MasterInv /\ GameTypeOK
  BY DEF Typed
<1> QED
  BY <1>1, <1>2, <1>3, MasterCorrect, GameTyped, PTL DEF Spec

(* A route leads to a world that its server has ready, for as long as that *)
(* server is connected and the Master lists the world: every route is sent *)
(* after the server reported the world, and a world that is ready never    *)
(* stops being so while its server runs.                                   *)
THEOREM RoutesReachReadyWorlds == Spec => []RouteReachesReadyWorld
<1>1. InitInv => RouteReachesReadyWorld
  <2> SUFFICES ASSUME InitInv, NEW s \in Servers, NEW i \in DOMAIN down[s],
                      down[s][i].kind = "route", worlds[down[s][i].inst].state # "none",
                      proc[down[s][i].server] = "linked"
               PROVE  /\ worlds[down[s][i].inst].server = down[s][i].server
                      /\ gw[down[s][i].server][down[s][i].inst].state = "ready"
    BY Zenon DEF RouteReachesReadyWorld
  <2>1. down[s][i] \in Msgs(down[s])
    BY DEF Msgs
  <2> QED
    BY <2>1 DEF InitInv, DownInv
<1> QED
  BY <1>1, InitCorrect, PTL

(* A packet that may be queued at most once is counted by whether it is.   *)
LEMMA CountOnce ==
  ASSUME NEW q, NEW m, NEW k, NEW w, Once(q, k, w), \A x \in Msgs(q) : About(x, k, w) <=> x = m
  PROVE  CountIn(q, m) = IF Has(q, k, w) THEN 1 ELSE 0
<1> DEFINE S == {i \in DOMAIN q : q[i] = m}
<1>1. CASE Has(q, k, w)
  <2>1. PICK i \in DOMAIN q : About(q[i], k, w)
    BY <1>1 DEF Has, Msgs
  <2>2. S = {i}
    BY <2>1 DEF Once, Msgs
  <2> QED
    BY <1>1, <2>2, FS_Singleton DEF CountIn
<1>2. CASE ~Has(q, k, w)
  <2>1. S = {}
    BY <1>2 DEF Has, Msgs
  <2> QED
    BY <1>2, <2>1, FS_EmptySet DEF CountIn
<1> QED
  BY <1>1, <1>2

(* While its server is connected, a loading world is at exactly one of the *)
(* three stages on its way to be ready and a ready one at none: the Master *)
(* orders it once, the server loads it once and reports it once, and no    *)
(* world stays loading with nobody at work on it.                          *)
THEOREM InitsInProgress == Spec => []InitInProgress
<1>1. Typed /\ InitInv => InitInProgress
  <2> SUFFICES ASSUME Typed, InitInv, NEW w \in Inst, worlds[w].state # "none",
                      proc[worlds[w].server] = "linked"
               PROVE  LET s == worlds[w].server IN
                      CountIn(down[s], InitWorld(worlds[w].name, w)) + CountIn(up[s], InitOK(w))
                        + (IF gw[s][w].state = "loading" THEN 1 ELSE 0)
                      = IF worlds[w].state = "loading" THEN 1 ELSE 0
    BY Zenon DEF InitInProgress
  <2> DEFINE s == worlds[w].server
             ordered == Has(down[s], "winit", w)
             reported == Has(up[s], "init", w)
             loads == gw[s][w].state = "loading"
  <2>1. s \in Servers /\ worlds[w].state \in {"loading", "ready"}
    BY KnownWorld DEF Typed
  <2>2. CountIn(down[s], InitWorld(worlds[w].name, w)) = IF ordered THEN 1 ELSE 0
    <3> DEFINE m == InitWorld(worlds[w].name, w)
    <3>1. \A x \in Msgs(down[s]) : About(x, "winit", w) => x = m
      BY <2>1 DEF InitInv, DownInv, About
    <3>2. About(m, "winit", w)
      BY DEF About, InitWorld
    <3>3. Once(down[s], "winit", w)
      BY <2>1 DEF InitInv, StageInv
    <3> HIDE DEF m
    <3>4. \A x \in Msgs(down[s]) : About(x, "winit", w) <=> x = m
      BY <3>1, <3>2
    <3> QED
      BY <3>3, <3>4, CountOnce DEF m
  <2>3. CountIn(up[s], InitOK(w)) = IF reported THEN 1 ELSE 0
    <3> DEFINE m == InitOK(w)
    <3>1. Msgs(up[s]) \subseteq UpMsg
      BY <2>1, QueueOf DEF Typed, GameTypeOK
    <3>2. \A x \in UpMsg : About(x, "init", w) => x = m
      BY DEF UpMsg, About, InitOK
    <3>3. About(m, "init", w)
      BY DEF About, InitOK
    <3>4. Once(up[s], "init", w)
      BY <2>1 DEF InitInv, StageInv
    <3> HIDE DEF m
    <3>5. \A x \in Msgs(up[s]) : About(x, "init", w) <=> x = m
      BY <3>1, <3>2, <3>3
    <3> QED
      BY <3>4, <3>5, CountOnce DEF m
  <2>4. /\ ordered => gw[s][w].state = "none" /\ ~reported
        /\ reported => ~loads
    BY <2>1 DEF InitInv, StageInv
  <2>5. /\ worlds[w].state = "loading" => ordered \/ loads \/ reported
        /\ worlds[w].state = "ready" => gw[s][w].state = "ready" /\ ~reported
    BY DEF InitInv, StateInv
  <2> HIDE DEF s, ordered, reported
  <2> QED
    BY <2>1, <2>2, <2>3, <2>4, <2>5 DEF s
<1> QED
  BY <1>1, InitCorrect, PTL
-----------------------------------------------------------------------------
(* The count of the players of a world.                                    *)

(* How many of the first n packets are of kind k about instance w.         *)
Marks(q, n, k, w) == {i \in 1..n : About(q[i], k, w)}
Tally(q, n, k, w) == Cardinality(Marks(q, n, k, w))

LEMMA TallyNat ==
  ASSUME NEW q, NEW n \in Nat, NEW k, NEW w
  PROVE  /\ IsFiniteSet(Marks(q, n, k, w)) /\ Tally(q, n, k, w) \in Nat
         /\ Tally(q, 0, k, w) = 0
<1>1. 1 \in Int /\ n \in Int
  OBVIOUS
<1>2. IsFiniteSet(1..n)
  BY <1>1, FS_Interval
<1>3. IsFiniteSet(Marks(q, n, k, w))
  BY <1>2, FS_Subset DEF Marks
<1>4. Marks(q, 0, k, w) = {}
  BY DEF Marks
<1> QED
  BY <1>3, <1>4, FS_CardinalityType, FS_EmptySet DEF Tally

LEMMA TallyNext ==
  ASSUME NEW q, NEW n \in Nat, NEW k, NEW w
  PROVE  Tally(q, n + 1, k, w) = Tally(q, n, k, w) + (IF About(q[n + 1], k, w) THEN 1 ELSE 0)
<1>1. 1..(n + 1) = (1..n) \cup {n + 1} /\ n + 1 \notin 1..n
  OBVIOUS
<1>2. IsFiniteSet(Marks(q, n, k, w)) /\ Tally(q, n, k, w) \in Nat
  BY TallyNat
<1>3. CASE About(q[n + 1], k, w)
  <2>1. Marks(q, n + 1, k, w) = Marks(q, n, k, w) \cup {n + 1} /\ n + 1 \notin Marks(q, n, k, w)
    BY <1>1, <1>3 DEF Marks
  <2> QED
    BY <1>2, <1>3, <2>1, FS_AddElement DEF Tally
<1>4. CASE ~About(q[n + 1], k, w)
  <2>1. Marks(q, n + 1, k, w) = Marks(q, n, k, w)
    BY <1>1, <1>4 DEF Marks
  <2> QED
    BY <1>2, <1>4, <2>1 DEF Tally
<1> QED
  BY <1>3, <1>4

LEMMA TallyAppend ==
  ASSUME NEW S, NEW q \in Seq(S), NEW m \in S, NEW n \in 0..Len(q), NEW k, NEW w
  PROVE  Tally(Append(q, m), n, k, w) = Tally(q, n, k, w)
<1>1. \A i \in 1..n : Append(q, m)[i] = q[i]
  OBVIOUS
<1>2. Marks(Append(q, m), n, k, w) = Marks(q, n, k, w)
  BY <1>1 DEF Marks
<1> QED
  BY <1>2 DEF Tally

LEMMA TallyTail ==
  ASSUME NEW S, NEW q \in Seq(S), q # <<>>, NEW n \in 0..(Len(q) - 1), NEW k, NEW w
  PROVE  Tally(q, n + 1, k, w) = Tally(Tail(q), n, k, w) + (IF About(Head(q), k, w) THEN 1 ELSE 0)
<1> DEFINE t == Tail(q)
           h == IF About(Head(q), k, w) THEN 1 ELSE 0
           T == {i \in Nat : i <= Len(q) - 1 /\ Tally(q, i + 1, k, w) # Tally(t, i, k, w) + h}
<1>1. /\ Len(q) \in Nat /\ Head(q) = q[1]
      /\ \A i \in Nat : i + 1 <= Len(q) - 1 => t[i + 1] = q[(i + 1) + 1]
  OBVIOUS
<1>2. h \in Nat
  OBVIOUS
<1>3. 0 \notin T
  <2>1. Tally(q, 0 + 1, k, w) = Tally(q, 0, k, w) + (IF About(q[0 + 1], k, w) THEN 1 ELSE 0)
    BY TallyNext
  <2>2. Tally(q, 0, k, w) = 0 /\ Tally(t, 0, k, w) = 0
    BY TallyNat
  <2>3. 0 + 1 = 1
    OBVIOUS
  <2> QED
    BY <1>1, <2>1, <2>2, <2>3
<1> HIDE DEF t, h
<1>4. ASSUME NEW i \in Nat, i + 1 <= Len(q) - 1, i \notin T
      PROVE  i + 1 \notin T
  <2>1. Tally(q, i + 1, k, w) = Tally(t, i, k, w) + h
    BY <1>1, <1>4
  <2>2. Tally(q, (i + 1) + 1, k, w) = Tally(q, i + 1, k, w) + (IF About(q[(i + 1) + 1], k, w) THEN 1 ELSE 0)
    <3>1. i + 1 \in Nat
      OBVIOUS
    <3> QED
      BY <3>1, TallyNext
  <2>3. Tally(t, i + 1, k, w) = Tally(t, i, k, w) + (IF About(t[i + 1], k, w) THEN 1 ELSE 0)
    BY TallyNext
  <2>4. t[i + 1] = q[(i + 1) + 1]
    BY <1>1, <1>4
  <2>5. Tally(t, i, k, w) \in Nat
    BY TallyNat
  <2> QED
    BY <1>2, <2>1, <2>2, <2>3, <2>4, <2>5
<1>5. T = {}
  <2> SUFFICES ASSUME T # {} PROVE FALSE
    OBVIOUS
  <2>1. T \in SUBSET Nat
    OBVIOUS
  <2>2. PICK i \in T : \A j \in T : i <= j
    BY <2>1, Least
  <2>3. i - 1 \in Nat /\ ~(i <= i - 1) /\ (i - 1) + 1 = i /\ i <= Len(q) - 1
    BY <1>1, <1>3, <2>2
  <2>4. i - 1 \notin T
    BY <2>2, <2>3
  <2> HIDE DEF T
  <2>5. (i - 1) + 1 \notin T
    BY <1>4, <2>3, <2>4
  <2> QED
    BY <2>2, <2>3, <2>5
<1> QED
  BY <1>1, <1>5 DEF t, h

(* The members of a world.                                                 *)
LEMMA EntryAdded ==
  ASSUME NEW ps \in [Users -> Nat], NEW u \in Users, IsFiniteSet(Entries(ps))
  PROVE  LET qs == [ps EXCEPT ![u] = @ + 1] IN
         /\ IsFiniteSet(Entries(qs)) /\ Cardinality(Entries(ps)) \in Nat
         /\ Cardinality(Entries(qs)) = Cardinality(Entries(ps)) + 1
<1> DEFINE qs == [ps EXCEPT ![u] = @ + 1]
           e == <<u, ps[u] + 1>>
<1>1. /\ DOMAIN qs = Users /\ DOMAIN ps = Users /\ qs[u] = ps[u] + 1 /\ ps[u] \in Nat
      /\ \A v \in Users \ {u} : qs[v] = ps[v]
  OBVIOUS
<1>2. 1..(ps[u] + 1) = (1..ps[u]) \cup {ps[u] + 1} /\ ps[u] + 1 \notin 1..ps[u]
  BY <1>1
<1> HIDE DEF qs
<1>3. Entries(qs) = Entries(ps) \cup {e} /\ e \notin Entries(ps)
  BY <1>1, <1>2 DEF Entries
<1> HIDE DEF e
<1>4. IsFiniteSet(Entries(qs)) /\ Cardinality(Entries(qs)) = Cardinality(Entries(ps)) + 1
  BY <1>3, FS_AddElement
<1>5. Cardinality(Entries(ps)) \in Nat
  BY FS_CardinalityType
<1> QED
  BY <1>4, <1>5 DEF qs

LEMMA EntryRemoved ==
  ASSUME NEW ps \in [Users -> Nat], NEW u \in Users, ps[u] > 0, IsFiniteSet(Entries(ps))
  PROVE  LET qs == [ps EXCEPT ![u] = @ - 1] IN
         /\ IsFiniteSet(Entries(qs)) /\ Cardinality(Entries(qs)) \in Nat
         /\ Cardinality(Entries(ps)) = Cardinality(Entries(qs)) + 1
<1> DEFINE qs == [ps EXCEPT ![u] = @ - 1]
           e == <<u, ps[u]>>
<1>1. /\ DOMAIN qs = Users /\ DOMAIN ps = Users /\ qs[u] = ps[u] - 1 /\ ps[u] \in Nat
      /\ \A v \in Users \ {u} : qs[v] = ps[v]
  OBVIOUS
<1>2. 1..ps[u] = (1..(ps[u] - 1)) \cup {ps[u]} /\ ps[u] \notin 1..(ps[u] - 1)
  BY <1>1
<1> HIDE DEF qs
<1>3. Entries(ps) = Entries(qs) \cup {e} /\ e \notin Entries(qs)
  BY <1>1, <1>2 DEF Entries
<1>4. Entries(qs) \in SUBSET Entries(ps)
  BY <1>3
<1> HIDE DEF e
<1>5. IsFiniteSet(Entries(qs))
  BY <1>4, FS_Subset
<1>6. Cardinality(Entries(qs)) \in Nat
  BY <1>5, FS_CardinalityType
<1>7. Cardinality(Entries(ps)) = Cardinality(Entries(qs)) + 1
  BY <1>3, <1>5, FS_AddElement
<1> QED
  BY <1>5, <1>6, <1>7 DEF qs

LEMMA NoEntries == IsFiniteSet(Entries([u \in Users |-> 0])) /\ Cardinality(Entries([u \in Users |-> 0])) = 0
<1>1. Entries([u \in Users |-> 0]) = {}
  BY DEF Entries
<1> QED
  BY <1>1, FS_EmptySet

(* The count c the Master has of world w and the queue q of its server     *)
(* agree with the n members there: handled in order, the packets lead from *)
(* c to n and never below zero.                                            *)
Balance(c, q, i, w) == c + Tally(q, i, "joined", w) - Tally(q, i, "left", w)
Balanced(c, q, w, n) ==
  /\ c \in Nat /\ n \in Nat
  /\ \A i \in 0..Len(q) : Balance(c, q, i, w) >= 0
  /\ Balance(c, q, Len(q), w) = n

(* What a packet changes in the count of w.                                *)
Change(m, w) ==
  (IF About(m, "joined", w) THEN 1 ELSE 0) - (IF About(m, "left", w) THEN 1 ELSE 0)

LEMMA BalancedAppend ==
  ASSUME NEW S, NEW q \in Seq(S), NEW m \in S, NEW w, NEW c, NEW n, Balanced(c, q, w, n),
         n + Change(m, w) >= 0
  PROVE  Balanced(c, Append(q, m), w, n + Change(m, w))
<1> DEFINE r == Append(q, m)
<1>1. Len(q) \in Nat /\ Len(r) = Len(q) + 1 /\ r[Len(q) + 1] = m
  OBVIOUS
<1>2. \A i \in 0..Len(q) : Balance(c, r, i, w) = Balance(c, q, i, w)
  BY TallyAppend DEF Balance
<1>3. /\ Tally(r, Len(q) + 1, "joined", w)
           = Tally(r, Len(q), "joined", w) + (IF About(m, "joined", w) THEN 1 ELSE 0)
      /\ Tally(r, Len(q) + 1, "left", w)
           = Tally(r, Len(q), "left", w) + (IF About(m, "left", w) THEN 1 ELSE 0)
      /\ Tally(r, Len(q), "joined", w) \in Nat /\ Tally(r, Len(q), "left", w) \in Nat
  BY <1>1, TallyNext, TallyNat
<1> HIDE DEF r
<1>4. c \in Nat /\ n \in Nat /\ Balance(c, q, Len(q), w) = n
  BY DEF Balanced
<1>5. Balance(c, r, Len(q) + 1, w) = n + Change(m, w)
  <2>1. Balance(c, r, Len(q), w) = n
    BY <1>1, <1>2, <1>4
  <2> QED
    BY <1>3, <1>4, <2>1 DEF Balance, Change
<1>6. n + Change(m, w) \in Nat
  BY <1>4 DEF Change
<1>7. ASSUME NEW i \in 0..Len(r) PROVE Balance(c, r, i, w) >= 0
  <2>1. i \in 0..Len(q) \/ i = Len(q) + 1
    BY <1>1
  <2> QED
    BY <1>2, <1>5, <2>1 DEF Balanced
<1> QED
  BY <1>1, <1>4, <1>5, <1>6, <1>7 DEF Balanced, r

LEMMA BalancedTail ==
  ASSUME NEW S, NEW q \in Seq(S), q # <<>>, NEW w, NEW c, NEW n, Balanced(c, q, w, n)
  PROVE  c + Change(Head(q), w) >= 0 /\ Balanced(c + Change(Head(q), w), Tail(q), w, n)
<1> DEFINE t == Tail(q)
           d == Change(Head(q), w)
<1>1. Len(q) \in Nat /\ Len(q) # 0 /\ Len(t) = Len(q) - 1
  OBVIOUS
<1>2. c \in Nat /\ n \in Nat /\ d \in Int
  BY DEF Balanced, Change
<1>3. ASSUME NEW i \in 0..(Len(q) - 1) PROVE Balance(c + d, t, i, w) = Balance(c, q, i + 1, w)
  <2> DEFINE one == IF About(Head(q), "joined", w) THEN 1 ELSE 0
             two == IF About(Head(q), "left", w) THEN 1 ELSE 0
  <2>1. /\ Tally(q, i + 1, "joined", w) = Tally(t, i, "joined", w) + one
        /\ Tally(q, i + 1, "left", w) = Tally(t, i, "left", w) + two
        /\ Tally(t, i, "joined", w) \in Nat /\ Tally(t, i, "left", w) \in Nat
    <3>1. i \in Nat
      BY <1>1
    <3> QED
      BY <1>3, <3>1, TallyTail, TallyNat
  <2>2. d = one - two /\ one \in Nat /\ two \in Nat
    BY DEF Change
  <2>3. /\ Balance(c + d, t, i, w) = (c + d) + Tally(t, i, "joined", w) - Tally(t, i, "left", w)
        /\ Balance(c, q, i + 1, w) = c + Tally(q, i + 1, "joined", w) - Tally(q, i + 1, "left", w)
    BY Zenon DEF Balance
  <2> HIDE DEF t, d, one, two
  <2> QED
    BY <1>2, <2>1, <2>2, <2>3
<1>4. Balance(c + d, t, 0, w) = c + d
  <2>1. Tally(t, 0, "joined", w) = 0 /\ Tally(t, 0, "left", w) = 0
    BY TallyNat
  <2> HIDE DEF t, d
  <2> QED
    BY <1>2, <2>1 DEF Balance
<1> HIDE DEF t, d
<1>5. \A i \in 0..Len(t) : Balance(c + d, t, i, w) >= 0
  <2> SUFFICES ASSUME NEW i \in 0..Len(t) PROVE Balance(c + d, t, i, w) >= 0
    OBVIOUS
  <2>1. i \in 0..(Len(q) - 1) /\ i + 1 \in 0..Len(q)
    BY <1>1
  <2> QED
    BY <1>3, <2>1 DEF Balanced
<1>6. Balance(c + d, t, Len(t), w) = n
  <2>1. Len(t) \in 0..(Len(q) - 1) /\ Len(t) + 1 = Len(q)
    BY <1>1
  <2> QED
    BY <1>3, <2>1 DEF Balanced
<1>7. c + d >= 0
  <2>1. 0 \in 0..Len(t)
    BY <1>1
  <2> QED
    BY <1>4, <1>5, <2>1
<1> QED
  BY <1>2, <1>5, <1>6, <1>7 DEF Balanced, t, d

(* What server s hosts and has sent agrees with the Master's counts, and   *)
(* what it has sent is about worlds that are its own.                      *)
Mine(s, w) == w \in Inst /\ w < nextInst /\ (worlds[w].state # "none" => worlds[w].server = s)
Owned(s, q) == \A m \in Msgs(q) : m.kind \in {"joined", "left"} => Mine(s, m.inst)
Agrees(s, ws, q) ==
  \A w \in Inst :
    /\ IsFiniteSet(Entries(ws[w].players))
    /\ worlds[w].state # "none" /\ worlds[w].server = s =>
         Balanced(worlds[w].count, q, w, Cardinality(Entries(ws[w].players)))
Fit(s, ws, q) == ws \in ServerWorlds /\ q \in Seq(UpMsg) /\ Owned(s, q) /\ Agrees(s, ws, q)
CountInv ==
  \A s \in Servers : Owned(s, up[s]) /\ (proc[s] = "linked" => Agrees(s, gw[s], up[s]))

LEMMA OwnedAppend ==
  ASSUME NEW s, NEW q \in Seq(UpMsg), Owned(s, q), NEW m \in UpMsg,
         m.kind \in {"joined", "left"} => Mine(s, m.inst)
  PROVE  Append(q, m) \in Seq(UpMsg) /\ Owned(s, Append(q, m))
<1>1. Append(q, m) = q \o <<m>> /\ Queue(q)
  BY QueueOf
<1>2. Queue(<<m>>) /\ Msgs(<<m>>) = {m}
  BY OneMessage
<1>3. Msgs(q \o <<m>>) = Msgs(q) \cup {m}
  BY <1>1, <1>2, ConcatMsgs
<1> QED
  BY <1>1, <1>3 DEF Owned

LEMMA FitOther ==
  ASSUME NEW s, NEW ws, NEW q, Fit(s, ws, q), NEW m \in UpMsg, m.kind \notin {"joined", "left"}
  PROVE  Fit(s, ws, Append(q, m))
<1>1. Append(q, m) \in Seq(UpMsg) /\ Owned(s, Append(q, m))
  BY OwnedAppend DEF Fit
<1>2. Agrees(s, ws, Append(q, m))
  <2> SUFFICES ASSUME NEW w \in Inst, worlds[w].state # "none", worlds[w].server = s
               PROVE  Balanced(worlds[w].count, Append(q, m), w, Cardinality(Entries(ws[w].players)))
    BY DEF Agrees, Fit
  <2> DEFINE n == Cardinality(Entries(ws[w].players))
  <2>1. Balanced(worlds[w].count, q, w, n) /\ q \in Seq(UpMsg)
    BY DEF Agrees, Fit
  <2> HIDE DEF n
  <2>2. Change(m, w) = 0 /\ n \in Nat
    BY <2>1 DEF Change, About, Balanced
  <2>3. n + Change(m, w) = n /\ n + Change(m, w) >= 0
    BY <2>2
  <2>4. Balanced(worlds[w].count, Append(q, m), w, n + Change(m, w))
    BY <2>1, <2>3, BalancedAppend
  <2> QED
    BY <2>3, <2>4 DEF n
<1> QED
  BY <1>1, <1>2 DEF Fit

(* A packet that changes the members of w as it says.                      *)
LEMMA FitMember ==
  ASSUME NEW s, NEW ws, NEW q, Fit(s, ws, q), NEW w \in Inst, Mine(s, w), NEW m \in UpMsg,
         m.kind \in {"joined", "left"}, m.inst = w,
         NEW vs \in ServerWorlds, \A v \in Inst \ {w} : vs[v] = ws[v],
         IsFiniteSet(Entries(vs[w].players)),
         Cardinality(Entries(vs[w].players)) \in Nat, Cardinality(Entries(ws[w].players)) \in Nat,
         Cardinality(Entries(vs[w].players)) = Cardinality(Entries(ws[w].players)) + Change(m, w)
  PROVE  Fit(s, vs, Append(q, m))
<1>1. Append(q, m) \in Seq(UpMsg) /\ Owned(s, Append(q, m))
  BY OwnedAppend DEF Fit
<1>2. ASSUME NEW v \in Inst, worlds[v].state # "none", worlds[v].server = s
      PROVE  Balanced(worlds[v].count, Append(q, m), v, Cardinality(Entries(vs[v].players)))
  <2> DEFINE n == Cardinality(Entries(ws[v].players))
             k == Cardinality(Entries(vs[v].players))
  <2>1. Balanced(worlds[v].count, q, v, n) /\ q \in Seq(UpMsg)
    BY <1>2 DEF Agrees, Fit
  <2>2. n \in Nat
    BY <2>1 DEF Balanced
  <2>3. k = n + Change(m, v) /\ k >= 0
    <3>1. CASE v = w
      BY <3>1
    <3>2. CASE v # w
      <4>1. Change(m, v) = 0 /\ k = n
        BY <3>2 DEF Change, About
      <4> HIDE DEF n, k
      <4> QED
        BY <4>1, <2>2
    <3> QED
      BY <3>1, <3>2
  <2> HIDE DEF n, k
  <2>4. Balanced(worlds[v].count, Append(q, m), v, n + Change(m, v))
    BY <2>1, <2>3, BalancedAppend
  <2> QED
    BY <2>3, <2>4 DEF k
<1>3. \A v \in Inst : IsFiniteSet(Entries(vs[v].players))
  BY DEF Fit, Agrees
<1> QED
  BY <1>1, <1>2, <1>3 DEF Fit, Agrees

LEMMA FitJoin ==
  ASSUME NEW s, NEW ws, NEW q, Fit(s, ws, q), NEW w \in Inst, Mine(s, w), ws[w].state # "none",
         NEW u \in Users
  PROVE  Fit(s, WithPlayer(ws, w, u), Append(q, Joined(u, w)))
<1> DEFINE ps == ws[w].players
           qs == [ps EXCEPT ![u] = @ + 1]
           vs == WithPlayer(ws, w, u)
           m == Joined(u, w)
<1>1. ws \in ServerWorlds /\ IsFiniteSet(Entries(ps)) /\ w # 0
  BY DEF Fit, Agrees
<1>2. ps \in [Users -> Nat] /\ ws[w] \in GameWorldRecord /\ vs \in ServerWorlds
  BY <1>1, HostedWorld, MembersTyped
<1>3. /\ IsFiniteSet(Entries(qs)) /\ Cardinality(Entries(ps)) \in Nat
      /\ Cardinality(Entries(qs)) = Cardinality(Entries(ps)) + 1
  BY <1>1, <1>2, EntryAdded
<1>4. vs[w].players = qs /\ \A v \in Inst \ {w} : vs[v] = ws[v]
  <2>1. vs = [ws EXCEPT ![w] = [ws[w] EXCEPT !.players = qs]]
    BY DEF WithPlayer
  <2>2. [ws[w] EXCEPT !.players = qs].players = qs
    BY <1>2 DEF GameWorldRecord
  <2> HIDE DEF vs, qs
  <2> QED
    BY <1>1, <2>1, <2>2 DEF ServerWorlds
<1>5. m \in UpMsg /\ m.kind = "joined" /\ m.inst = w /\ Change(m, w) = 1
  BY DEF Joined, UpMsg, Change, About
<1> HIDE DEF ps, qs, vs, m
<1>6. Cardinality(Entries(qs)) \in Nat /\ Cardinality(Entries(qs)) = Cardinality(Entries(ps)) + Change(m, w)
  BY <1>3, <1>5
<1> QED
  BY <1>2, <1>3, <1>4, <1>5, <1>6, FitMember DEF ps, vs, m

LEMMA FitLeave ==
  ASSUME NEW s, NEW ws, NEW q, Fit(s, ws, q), NEW w \in Inst, Mine(s, w), ws[w].state # "none",
         NEW u \in Users, ws[w].players[u] > 0
  PROVE  Fit(s, WithoutPlayer(ws, w, u), Append(q, Left(u, w)))
<1> DEFINE ps == ws[w].players
           qs == [ps EXCEPT ![u] = @ - 1]
           vs == WithoutPlayer(ws, w, u)
           m == Left(u, w)
<1>1. ws \in ServerWorlds /\ IsFiniteSet(Entries(ps)) /\ w # 0
  BY DEF Fit, Agrees
<1>2. ps \in [Users -> Nat] /\ ws[w] \in GameWorldRecord /\ vs \in ServerWorlds
  BY <1>1, HostedWorld, MembersTyped
<1>3. /\ IsFiniteSet(Entries(qs)) /\ Cardinality(Entries(qs)) \in Nat
      /\ Cardinality(Entries(ps)) = Cardinality(Entries(qs)) + 1
  BY <1>1, <1>2, EntryRemoved
<1>4. vs[w].players = qs /\ \A v \in Inst \ {w} : vs[v] = ws[v]
  <2>1. vs = [ws EXCEPT ![w] = [ws[w] EXCEPT !.players = qs]]
    BY DEF WithoutPlayer
  <2>2. [ws[w] EXCEPT !.players = qs].players = qs
    BY <1>2 DEF GameWorldRecord
  <2> HIDE DEF vs, qs
  <2> QED
    BY <1>1, <2>1, <2>2 DEF ServerWorlds
<1>5. m \in UpMsg /\ m.kind = "left" /\ m.inst = w /\ Change(m, w) = -1
  BY DEF Left, UpMsg, Change, About
<1> HIDE DEF ps, qs, vs, m
<1>6. Cardinality(Entries(ps)) \in Nat /\ Cardinality(Entries(qs)) = Cardinality(Entries(ps)) + Change(m, w)
  BY <1>3, <1>5
<1> QED
  BY <1>2, <1>3, <1>4, <1>5, <1>6, FitMember DEF ps, vs, m

(* Steps of server s.                                                      *)
Fits(s) ==
  /\ \A t \in Servers \ {s} : gw'[t] = gw[t] /\ up'[t] = up[t]
  /\ Owned(s, up'[s]) /\ (proc[s] = "linked" => Agrees(s, gw'[s], up'[s]))
Before == Typed /\ InitInv /\ CountInv

LEMMA ServerStep ==
  ASSUME CountInv, NEW s \in Servers, Fits(s), UNCHANGED <<worlds, nextInst, proc>>
  PROVE  CountInv'
<1>1. \A t \in Servers : Owned(t, up'[t]) /\ (proc[t] = "linked" => Agrees(t, gw'[t], up'[t]))
  BY DEF Fits, CountInv
<1> QED
  BY <1>1, Zenon DEF CountInv, Owned, Mine, Agrees

LEMMA Hosted ==
  ASSUME InitInv, NEW s \in Servers, NEW w \in Inst, gw[s][w].state # "none"
  PROVE  Mine(s, w)
BY DEF InitInv, OwnerInv, Knows, Mine

LEMMA LinkedFit ==
  ASSUME Before, NEW s \in Servers
  PROVE  /\ gw \in [Servers -> ServerWorlds] /\ up \in [Servers -> Seq(UpMsg)]
         /\ proc[s] = "linked" => Fit(s, gw[s], up[s])
<1>1. gw \in [Servers -> ServerWorlds] /\ up \in [Servers -> Seq(UpMsg)]
  BY FieldsTyped DEF Before, Typed, WorldsAndPlayersTyped
<1> QED
  BY <1>1 DEF Before, CountInv, Fit

LEMMA NothingSent ==
  ASSUME Before, NEW s \in Servers, UNCHANGED <<gw, up>>
  PROVE  Fits(s)
BY DEF Before, CountInv, Fits

(* What a server that is not connected sends is dropped.                   *)
LEMMA CutOff ==
  ASSUME Before, NEW s \in Servers, proc[s] # "linked", NEW ms, ToMaster(s, ms),
         \A t \in Servers \ {s} : gw'[t] = gw[t]
  PROVE  Fits(s)
BY DEF Before, CountInv, Fits, ToMaster

(* What server s sends while its worlds become vs.                         *)
LEMMA LinkedSends ==
  ASSUME Before, NEW s \in Servers, proc[s] = "linked", NEW vs, NEW ms, Fit(s, vs, up[s] \o ms),
         ToMaster(s, ms), gw' = [gw EXCEPT ![s] = vs]
  PROVE  Fits(s)
<1>1. gw'[s] = vs /\ up'[s] = up[s] \o ms
      /\ \A t \in Servers \ {s} : gw'[t] = gw[t] /\ up'[t] = up[t]
  BY LinkedFit DEF ToMaster
<1> QED
  BY <1>1 DEF Fits, Fit

LEMMA OtherSent ==
  ASSUME Before, NEW s \in Servers, UNCHANGED gw,
         NEW m \in UpMsg, m.kind \notin {"joined", "left"}, ToMaster(s, <<m>>)
  PROVE  Fits(s)
<1>1. CASE proc[s] = "linked"
  <2>1. Fit(s, gw[s], up[s]) /\ up[s] \in Seq(UpMsg) /\ gw \in [Servers -> ServerWorlds]
    BY <1>1, LinkedFit
  <2>2. Fit(s, gw[s], Append(up[s], m)) /\ Append(up[s], m) = up[s] \o <<m>>
    BY <2>1, FitOther
  <2>3. gw' = [gw EXCEPT ![s] = gw[s]]
    BY <2>1
  <2>4. Fit(s, gw[s], up[s] \o <<m>>)
    BY <2>2
  <2> QED
    BY <1>1, <2>3, <2>4, LinkedSends
<1> QED
  BY <1>1, CutOff

LEMMA NoneSent ==
  ASSUME Before, NEW s \in Servers, UNCHANGED gw, ToMaster(s, <<>>)
  PROVE  Fits(s)
<1>1. up' = up
  <2>1. up \in [Servers -> Seq(UpMsg)]
    BY LinkedFit
  <2>2. up[s] \o <<>> = up[s]
    BY <2>1
  <2> QED
    BY <2>1, <2>2 DEF ToMaster
<1> QED
  BY <1>1, NothingSent

LEMMA LeaveFits ==
  ASSUME Before, NEW s \in Servers, NEW u \in Users, NEW w \in InstOrNone, NEW p, NEW after,
         after = <<>> \/ after = <<EndPlayer(u)>>, PlayerLeaveWorld(s, u, w, p, after)
  PROVE  Fits(s)
<1>1. EndPlayer(u) \in UpMsg /\ EndPlayer(u).kind = "end"
  BY DEF EndPlayer, UpMsg
<1>2. CASE ~IsMember(s, w, u)
  <2>1. UNCHANGED gw /\ ToMaster(s, after)
    BY <1>2 DEF PlayerLeaveWorld
  <2> QED
    BY <1>1, <2>1, OtherSent, NoneSent
<1>3. CASE IsMember(s, w, u)
  <2> DEFINE m == Left(u, w)
             vs == WithoutPlayer(gw[s], w, u)
  <2>1. gw' = [gw EXCEPT ![s] = vs] /\ ToMaster(s, <<m>> \o after)
    BY <1>3 DEF PlayerLeaveWorld
  <2>2. gw[s][w].state # "none" /\ gw[s][w].players[u] > 0 /\ w \in Inst
    BY <1>3 DEF IsMember, Hosts
  <2>3. CASE proc[s] # "linked"
    <3>1. \A t \in Servers \ {s} : gw'[t] = gw[t]
      BY <2>1, LinkedFit
    <3> QED
      BY <2>1, <2>3, <3>1, CutOff
  <2>4. CASE proc[s] = "linked"
    <3>1. Fit(s, gw[s], up[s]) /\ Mine(s, w) /\ up[s] \in Seq(UpMsg)
      BY <2>2, <2>4, LinkedFit, Hosted DEF Before
    <3>2. Fit(s, vs, Append(up[s], m))
      BY <2>2, <3>1, FitLeave
    <3>3. Fit(s, vs, Append(Append(up[s], m), EndPlayer(u)))
      <4> HIDE DEF m, vs
      <4> QED
        BY <1>1, <3>2, FitOther
    <3> HIDE DEF vs
    <3>4. m \in UpMsg
      BY <2>2 DEF Left, UpMsg
    <3> HIDE DEF m
    <3>5. /\ up[s] \o (<<m>> \o <<>>) = Append(up[s], m)
          /\ up[s] \o (<<m>> \o <<EndPlayer(u)>>) = Append(Append(up[s], m), EndPlayer(u))
      <4> DEFINE e == EndPlayer(u)
      <4> HIDE DEF e
      <4> QED
        BY <1>1, <3>1, <3>4
    <3>6. Fit(s, vs, up[s] \o (<<m>> \o after))
      BY <3>2, <3>3, <3>5
    <3> QED
      BY <2>1, <2>4, <3>6, LinkedSends
  <2> QED
    BY <2>3, <2>4
<1> QED
  BY <1>2, <1>3

LEMMA EnterFits ==
  ASSUME Before, NEW s \in Servers, NEW u \in Users, NEW w \in Inst, NEW p \in PlayerRecord,
         EnterWorld(s, u, w, p)
  PROVE  Fits(s)
<1> DEFINE leaves == IsMember(s, p.world, u)
           ws == IF leaves THEN WithoutPlayer(gw[s], p.world, u) ELSE gw[s]
           ms == IF leaves THEN <<Left(u, p.world)>> ELSE <<>>
           q == IF leaves THEN Append(up[s], Left(u, p.world)) ELSE up[s]
<1>1. CASE gw[s][w].state # "ready" \/ p.world = w
  BY <1>1, NothingSent DEF EnterWorld
<1>2. CASE ~(gw[s][w].state # "ready" \/ p.world = w)
  <2>1. gw' = [gw EXCEPT ![s] = WithPlayer(ws, w, u)] /\ ToMaster(s, ms \o <<Joined(u, w)>>)
    BY <1>2, Zenon DEF EnterWorld
  <2>2. CASE proc[s] # "linked"
    <3>1. \A t \in Servers \ {s} : gw'[t] = gw[t]
      BY <2>1, LinkedFit
    <3> QED
      BY <2>1, <2>2, <3>1, CutOff
  <2>3. CASE proc[s] = "linked"
    <3>1. Fit(s, gw[s], up[s]) /\ up[s] \in Seq(UpMsg) /\ gw[s] \in ServerWorlds
      BY <2>3, LinkedFit
    <3>2. p.world \in InstOrNone
      BY PlayerFields
    <3>3. ASSUME leaves
          PROVE  /\ Fit(s, WithoutPlayer(gw[s], p.world, u), Append(up[s], Left(u, p.world)))
                 /\ WithoutPlayer(gw[s], p.world, u)[w].state = gw[s][w].state
                 /\ Left(u, p.world) \in UpMsg
      <4>1. /\ gw[s][p.world].state # "none" /\ gw[s][p.world].players[u] > 0
            /\ p.world \in Inst /\ p.world # 0
        BY <3>2, <3>3 DEF IsMember, Hosts
      <4>2. Mine(s, p.world)
        BY <4>1, Hosted DEF Before
      <4>3. Fit(s, WithoutPlayer(gw[s], p.world, u), Append(up[s], Left(u, p.world)))
        BY <3>1, <4>1, <4>2, FitLeave
      <4>4. WithoutPlayer(gw[s], p.world, u)[w].state = gw[s][w].state
        BY <3>1, <3>2, <4>1, MembersTyped
      <4>5. Left(u, p.world) \in UpMsg
        BY <4>1 DEF Left, UpMsg
      <4> QED
        BY <4>3, <4>4, <4>5
    <3>4. Fit(s, ws, q) /\ ws[w].state = gw[s][w].state
      BY <3>1, <3>3
    <3>5. gw[s][w].state # "none" /\ Mine(s, w)
      BY <1>2, Hosted DEF Before
    <3>6. Fit(s, WithPlayer(ws, w, u), Append(q, Joined(u, w)))
      <4> HIDE DEF ws, q
      <4> QED
        BY <3>4, <3>5, FitJoin
    <3>7. up[s] \o (ms \o <<Joined(u, w)>>) = Append(q, Joined(u, w))
      <4>1. Joined(u, w) \in UpMsg
        BY DEF Joined, UpMsg
      <4> DEFINE j == Joined(u, w)
                 l == Left(u, p.world)
      <4> HIDE DEF j, l
      <4>2. \A x \in UpMsg : up[s] \o (<<x>> \o <<j>>) = Append(Append(up[s], x), j)
        BY <3>1, <4>1 DEF j
      <4>3. up[s] \o (<<>> \o <<j>>) = Append(up[s], j)
        BY <3>1, <4>1 DEF j
      <4>4. leaves => l \in UpMsg
        BY <3>3 DEF l
      <4> QED
        BY <4>2, <4>3, <4>4 DEF l, j
    <3> HIDE DEF ws, ms, q
    <3>8. Fit(s, WithPlayer(ws, w, u), up[s] \o (ms \o <<Joined(u, w)>>))
      BY <3>6, <3>7
    <3> QED
      BY <2>1, <2>3, <3>8, LinkedSends
  <2> QED
    BY <2>2, <2>3
<1> QED
  BY <1>1, <1>2

LEMMA JoinByNameFits ==
  ASSUME Before, NEW s \in Servers, NEW u \in Users, NEW n \in Names, NEW p \in PlayerRecord,
         JoinByName(s, u, n, p)
  PROVE  Fits(s)
<1>1. CASE ToMaster(s, <<Join(u, n)>>) /\ UNCHANGED gw
  <2>1. Join(u, n) \in UpMsg /\ Join(u, n).kind = "join"
    BY DEF Join, UpMsg
  <2> QED
    BY <1>1, <2>1, OtherSent
<1>2. CASE \E w \in Inst : EnterWorld(s, u, w, p)
  BY <1>2, EnterFits
<1> QED
  BY <1>1, <1>2 DEF JoinByName

LEMMA LogOffFits ==
  ASSUME Before, NEW s \in Servers, NEW u \in Users, NEW p, NEW ms, ms = <<>> \/ ms = <<EndPlayer(u)>>,
         LogOff(s, u, p, ms)
  PROVE  Fits(s)
<1>1. CASE obj[s][u].st = "game"
  <2>1. obj[s][u].world \in InstOrNone
    BY <1>1 DEF Before, Typed, GameTypeOK, PlayerRecord, NoPlayer
  <2>2. PlayerLeaveWorld(s, u, obj[s][u].world, p, ms)
    BY <1>1 DEF LogOff
  <2> QED
    BY <2>1, <2>2, LeaveFits
<1>2. CASE obj[s][u].st # "game"
  <2>1. EndPlayer(u) \in UpMsg /\ EndPlayer(u).kind = "end"
    BY DEF EndPlayer, UpMsg
  <2>2. UNCHANGED gw /\ (UNCHANGED up \/ ToMaster(s, ms))
    BY <1>2 DEF LogOff
  <2> QED
    BY <2>1, <2>2, NothingSent, NoneSent, OtherSent
<1> QED
  BY <1>1, <1>2

LEMMA PlayersFit ==
  ASSUME Before, NEW s \in Servers, NEW u \in Users,
         \/ \E n \in Names : PlayerJoinRequest(s, u, n)
         \/ QuitToExit(s, u) \/ Quit(s, u) \/ OnEventDisconnect(s, u)
         \/ UpdatePlayers(s, u) \/ StartLoginRequest(s, u) \/ EnterGame(s, u)
  PROVE  CountInv'
<1>1. UNCHANGED <<worlds, nextInst, proc>>
  BY DEF PlayerJoinRequest, QuitToExit, Quit, OnEventDisconnect, UpdatePlayers, StartLoginRequest,
         EnterGame, masterVars
<1>2. WorldsAndPlayersTyped
  BY FieldsTyped DEF Before, Typed
<1>3. ASSUME NEW n \in Names, PlayerJoinRequest(s, u, n) PROVE Fits(s)
  <2>1. obj[s][u] \in PlayerRecord /\ JoinByName(s, u, n, obj[s][u])
    BY <1>2, <1>3, KnownPlayer DEF PlayerJoinRequest, Playing
  <2> QED
    BY <2>1, JoinByNameFits
<1>4. ASSUME QuitToExit(s, u) PROVE Fits(s)
  <2>1. obj[s][u] \in PlayerRecord
    BY <1>2, <1>4, KnownPlayer DEF QuitToExit, Playing
  <2>2. obj[s][u].world \in InstOrNone
    BY <2>1, PlayerFields
  <2> QED
    BY <1>4, <2>2, LeaveFits DEF QuitToExit
<1>5. ASSUME Quit(s, u) PROVE Fits(s)
  BY <1>5, LogOffFits DEF Quit
<1>6. ASSUME OnEventDisconnect(s, u) PROVE Fits(s)
  BY <1>6, LogOffFits, NothingSent DEF OnEventDisconnect
<1>7. ASSUME UpdatePlayers(s, u) PROVE Fits(s)
  BY <1>7, NothingSent DEF UpdatePlayers
<1>8. ASSUME StartLoginRequest(s, u) PROVE Fits(s)
  <2>1. ToMaster(s, <<Check(u, cmds)>>) /\ UNCHANGED gw
    BY <1>8 DEF StartLoginRequest
  <2>2. Check(u, cmds) \in UpMsg /\ Check(u, cmds).kind = "check"
    BY DEF Check, UpMsg, Before, Typed, GameTypeOK
  <2> QED
    BY <2>1, <2>2, OtherSent
<1>9. ASSUME EnterGame(s, u) PROVE Fits(s)
  <2> DEFINE p == [obj[s][u] EXCEPT !.st = "game", !.world = 0]
             w == obj[s][u].world
  <2>1. obj[s][u] \in PlayerRecord /\ 0 \in InstOrNone
    BY <1>2, <1>9, KnownPlayer, BoundsAssumption DEF EnterGame
  <2>2. p \in PlayerRecord
    BY <2>1 DEF PlayerRecord
  <2>3. (Hosts(s, w) /\ JoinByName(s, u, gw[s][w].name, p)) \/ UNCHANGED <<gw, up>>
    BY <1>9 DEF EnterGame
  <2>4. w \in InstOrNone
    BY <2>1, PlayerFields
  <2>5. Hosts(s, w) => gw[s][w].name \in Names
    <3>1. gw[s] \in ServerWorlds
      BY <1>2 DEF WorldsAndPlayersTyped
    <3> HIDE DEF w
    <3> QED
      BY <2>4, <3>1, HostedWorld DEF Hosts, GameWorldRecord
  <2> HIDE DEF p, w
  <2> QED
    BY <2>2, <2>3, <2>5, JoinByNameFits, NothingSent
<1>10. Fits(s)
  BY <1>3, <1>4, <1>5, <1>6, <1>7, <1>8, <1>9
<1> QED
  BY <1>1, <1>10, ServerStep DEF Before

LEMMA SamePlayersSent ==
  ASSUME Before, NEW s \in Servers, proc[s] = "linked",
         NEW vs \in ServerWorlds, \A v \in Inst : vs[v].players = gw[s][v].players,
         gw' = [gw EXCEPT ![s] = vs],
         UNCHANGED up \/ \E w \in Inst : ToMaster(s, <<InitOK(w)>>)
  PROVE  Fits(s)
<1>1. Fit(s, gw[s], up[s]) /\ up \in [Servers -> Seq(UpMsg)]
  BY LinkedFit
<1>2. Fit(s, vs, up[s])
  BY <1>1 DEF Fit, Agrees
<1>3. CASE UNCHANGED up
  <2>1. gw'[s] = vs /\ \A t \in Servers \ {s} : gw'[t] = gw[t]
    BY LinkedFit
  <2> QED
    BY <1>2, <1>3, <2>1 DEF Fits, Fit
<1>4. ASSUME NEW w \in Inst, ToMaster(s, <<InitOK(w)>>)
      PROVE  Fits(s)
  <2>1. InitOK(w) \in UpMsg /\ InitOK(w).kind = "init"
    BY DEF InitOK, UpMsg
  <2>2. Fit(s, vs, Append(up[s], InitOK(w)))
    BY <1>2, <2>1, FitOther
  <2>3. Append(up[s], InitOK(w)) = up[s] \o <<InitOK(w)>>
    BY <1>1, <2>1
  <2>4. Fit(s, vs, up[s] \o <<InitOK(w)>>)
    BY <2>2, <2>3
  <2> QED
    BY <1>4, <2>4, LinkedSends
<1> QED
  BY <1>3, <1>4

(* A world that loads or becomes ready has the members it had: none before *)
(* it is ordered.                                                          *)
LEMMA WorldsFit ==
  ASSUME Before, GameTypeOK', NEW s \in Servers, NEW w \in Inst,
         (\E n \in Names : GameHandleWorldInit(s, n, w)) \/ OnWorldPresenceReady(s, w)
  PROVE  CountInv'
<1>1. gw \in [Servers -> ServerWorlds] /\ gw' \in [Servers -> ServerWorlds]
  BY FieldsTyped DEF Before, Typed, GameTypeOK, ServerWorlds
<1>2. proc[s] = "linked" /\ UNCHANGED <<worlds, nextInst, proc>>
  BY DEF GameHandleWorldInit, OnWorldPresenceReady, FromMaster, masterVars
<1>3. UNCHANGED up \/ ToMaster(s, <<InitOK(w)>>)
  BY DEF GameHandleWorldInit, OnWorldPresenceReady
<1>4. ASSUME NEW n \in Names, GameHandleWorldInit(s, n, w)
      PROVE  \A v \in Inst : gw'[s][v].players = gw[s][v].players
  <2>1. gw[s][w].state = "none"
    <3>1. Queue(down[s]) /\ Arrives(down[s], InitWorld(n, w))
      BY <1>4 DEF GameHandleWorldInit, FromMaster, Before, InitInv, DownInv
    <3>2. Has(down[s], "winit", w)
      BY <3>1, TailMsgs DEF Arrives, InitWorld, About
    <3> QED
      BY <3>2 DEF Before, InitInv, StageInv
  <2>2. gw[s][w].players = [u \in Users |-> 0]
    <3>1. gw[s][w] \in GameWorldRecord \cup {NoGameWorld}
      BY <1>1 DEF ServerWorlds
    <3> QED
      BY <2>1, <3>1 DEF GameWorldRecord, NoGameWorld
  <2>3. PICK r : gw' = [gw EXCEPT ![s][w] = r] /\ r.players = [u \in Users |-> 0]
    <3> DEFINE x(st) == [NoGameWorld EXCEPT !.state = st, !.name = n]
    <3>1. \A st : x(st).players = [u \in Users |-> 0]
      BY DEF NoGameWorld
    <3>2. \E st : gw' = [gw EXCEPT ![s][w] = x(st)]
      BY <1>4 DEF GameHandleWorldInit
    <3> HIDE DEF x
    <3> QED
      BY <3>1, <3>2
  <2> QED
    BY <1>1, <2>2, <2>3 DEF ServerWorlds
<1>5. ASSUME OnWorldPresenceReady(s, w)
      PROVE  \A v \in Inst : gw'[s][v].players = gw[s][v].players
  <2>1. gw' = [gw EXCEPT ![s][w].state = "ready"] /\ gw[s][w] \in GameWorldRecord
    BY <1>1, <1>5 DEF OnWorldPresenceReady, ServerWorlds, NoGameWorld
  <2> DEFINE r == [gw[s][w] EXCEPT !.state = "ready"]
  <2>2. gw' = [gw EXCEPT ![s][w] = r] /\ r.players = gw[s][w].players
    BY <2>1 DEF GameWorldRecord
  <2> HIDE DEF r
  <2> QED
    BY <1>1, <2>2 DEF ServerWorlds
<1>6. gw' = [gw EXCEPT ![s] = gw'[s]] /\ gw'[s] \in ServerWorlds
  <2>1. \E x : gw' = [gw EXCEPT ![s] = x]
    BY DEF GameHandleWorldInit, OnWorldPresenceReady
  <2> QED
    BY <1>1, <2>1
<1>7. \A v \in Inst : gw'[s][v].players = gw[s][v].players
  BY <1>4, <1>5
<1>8. Fits(s)
  BY <1>2, <1>3, <1>6, <1>7, SamePlayersSent
<1> QED
  BY <1>2, <1>8, ServerStep DEF Before

LEMMA AnswersFit ==
  ASSUME Before, NEW s \in Servers, NEW u \in Users,
         \/ HandleJoinFail(s, u)
         \/ \E t \in Servers, w \in Inst : HandlePlayerJoin(s, u, t, w)
         \/ \E id \in 0..MaxCmds, ok \in BOOLEAN, w \in InstOrNone : HandleCheckSession(s, u, id, ok, w)
  PROVE  CountInv'
<1>1. UNCHANGED <<worlds, nextInst, proc>>
  BY DEF HandleJoinFail, HandlePlayerJoin, HandleCheckSession, masterVars
<1>2. CASE UNCHANGED <<gw, up>>
  BY <1>1, <1>2, NothingSent, ServerStep DEF Before
<1>3. ASSUME NEW t \in Servers, NEW w \in Inst, HandlePlayerJoin(s, u, t, w), ~UNCHANGED <<gw, up>>
      PROVE  CountInv'
  <2>1. obj[s][u].st # "none" /\ (LogOff(s, u, Deleted(obj[s][u]), <<>>) \/ EnterWorld(s, u, w, obj[s][u]))
    BY <1>3 DEF HandlePlayerJoin, gameVars
  <2>2. obj[s][u] \in PlayerRecord
    BY <2>1, FieldsTyped, KnownPlayer DEF Before, Typed
  <2>3. Fits(s)
    BY <2>1, <2>2, LogOffFits, EnterFits
  <2> QED
    BY <1>1, <2>3, ServerStep DEF Before
<1>4. UNCHANGED <<gw, up>> \/ \E t \in Servers, w \in Inst : HandlePlayerJoin(s, u, t, w)
  BY DEF HandleJoinFail, HandleCheckSession, gameVars
<1> QED
  BY <1>2, <1>3, <1>4

(* Steps that put nothing into the queues to the Master: of the worlds     *)
(* there are none new, and a count changes as the packet taken says.       *)
Counted(w, s) ==
  \/ up'[s] = up[s] /\ worlds'[w].count = worlds[w].count
  \/ /\ up[s] # <<>> /\ up'[s] = Tail(up[s])
     /\ worlds'[w].count = worlds[w].count + Change(Head(up[s]), w)

LEMMA CountKept ==
  ASSUME Before, nextInst' = nextInst,
         \A w \in Inst : worlds'[w].state # "none" =>
           worlds[w].state # "none" /\ worlds'[w].server = worlds[w].server,
         \A s \in Servers : Msgs(up'[s]) \subseteq Msgs(up[s]),
         \A s \in Servers : proc'[s] = "linked" =>
           /\ gw'[s] = gw[s] /\ (proc[s] = "linked" \/ \A v \in Inst : gw[s][v] = NoGameWorld)
           /\ \A w \in Inst : worlds'[w].state # "none" /\ worlds'[w].server = s =>
                proc[s] = "linked" /\ Counted(w, s)
  PROVE  CountInv'
<1>1. ASSUME NEW s \in Servers, NEW m \in Msgs(up'[s]), m.kind \in {"joined", "left"}
      PROVE  m.inst \in Inst /\ m.inst < nextInst /\ (worlds'[m.inst].state # "none" => worlds'[m.inst].server = s)
  BY <1>1 DEF Before, CountInv, Owned, Mine
<1>2. ASSUME NEW s \in Servers, proc'[s] = "linked", NEW w \in Inst
      PROVE  IsFiniteSet(Entries(gw'[s][w].players))
  <2>1. CASE proc[s] = "linked"
    BY <1>2, <2>1 DEF Before, CountInv, Agrees
  <2>2. CASE gw[s][w] = NoGameWorld
    BY <1>2, <2>2, NoEntries DEF NoGameWorld
  <2> QED
    BY <1>2, <2>1, <2>2
<1>3. ASSUME NEW s \in Servers, proc'[s] = "linked", NEW w \in Inst,
             worlds'[w].state # "none", worlds'[w].server = s
      PROVE  Balanced(worlds'[w].count, up'[s], w, Cardinality(Entries(gw'[s][w].players)))
  <2> DEFINE n == Cardinality(Entries(gw[s][w].players))
             c == worlds[w].count
             q == up[s]
  <2>1. proc[s] = "linked" /\ Counted(w, s) /\ gw'[s] = gw[s]
    BY <1>3
  <2>2. Balanced(c, q, w, n) /\ q \in Seq(UpMsg)
    BY <1>3, <2>1, LinkedFit DEF Fit, Agrees
  <2> HIDE DEF n
  <2>3. CASE up'[s] = up[s] /\ worlds'[w].count = worlds[w].count
    BY <2>1, <2>2, <2>3 DEF n
  <2>4. CASE q # <<>> /\ up'[s] = Tail(q) /\ worlds'[w].count = c + Change(Head(q), w)
    <3>1. Balanced(c + Change(Head(q), w), Tail(q), w, n)
      BY <2>2, <2>4, BalancedTail
    <3> QED
      BY <2>1, <2>4, <3>1 DEF n
  <2> QED
    BY <2>1, <2>3, <2>4 DEF Counted
<1>4. ASSUME NEW s \in Servers PROVE Owned(s, up[s])'
  BY <1>1, Zenon DEF Owned, Mine
<1>5. ASSUME NEW s \in Servers, proc'[s] = "linked" PROVE Agrees(s, gw[s], up[s])'
  BY <1>2, <1>3, <1>5, Zenon DEF Agrees
<1> QED
  BY <1>4, <1>5, Zenon DEF CountInv

(* One packet of server s is taken off its queue.                          *)
LEMMA PacketCounted ==
  ASSUME Before, NEW s \in Servers, NEW m, FromServer(s, m), UNCHANGED <<nextInst, gw, proc>>,
         \A w \in Inst : worlds'[w].state # "none" =>
           worlds[w].state # "none" /\ worlds'[w].server = worlds[w].server,
         \A w \in Inst : worlds'[w].state # "none" /\ proc[worlds[w].server] = "linked" =>
           worlds'[w].count = worlds[w].count + (IF worlds[w].server = s THEN Change(m, w) ELSE 0)
  PROVE  CountInv'
<1>1. /\ up \in [Servers -> Seq(UpMsg)] /\ up[s] # <<>> /\ Head(up[s]) = m
      /\ up'[s] = Tail(up[s]) /\ \A t \in Servers \ {s} : up'[t] = up[t]
  BY LinkedFit DEF FromServer, Arrives
<1>2. Msgs(up'[s]) \subseteq Msgs(up[s])
  <2>1. Queue(up[s])
    BY <1>1, QueueOf
  <2> QED
    BY <1>1, <2>1, TailMsgs
<1>3. \A w \in Inst : worlds[w].state # "none" => worlds[w].count \in Nat
  BY KnownWorld DEF WorldRecord, Before, Typed
<1>4. ASSUME NEW t \in Servers, proc[t] = "linked", NEW w \in Inst,
             worlds'[w].state # "none", worlds'[w].server = t
      PROVE  Counted(w, t)
  <2>1. worlds[w].server = t /\ worlds[w].count \in Nat
    BY <1>3, <1>4
  <2>2. worlds'[w].count = worlds[w].count + (IF t = s THEN Change(m, w) ELSE 0)
    BY <1>4, <2>1
  <2> QED
    BY <1>1, <2>1, <2>2 DEF Counted
<1> QED
  BY <1>1, <1>2, <1>4, CountKept

(* A step of the Master that writes no count and takes no packet about a   *)
(* member.                                                                 *)
LEMMA OtherCounted ==
  ASSUME Before, NEW s \in Servers, NEW m, m.kind \notin {"joined", "left"}, FromServer(s, m),
         UNCHANGED <<nextInst, gw, proc>>,
         \A w \in Inst : worlds'[w].state # "none" =>
           /\ worlds[w].state # "none" /\ worlds'[w].server = worlds[w].server
           /\ worlds'[w].count = worlds[w].count
  PROVE  CountInv'
<1>1. \A w \in Inst : worlds[w].state # "none" => worlds[w].count \in Nat
  BY KnownWorld DEF WorldRecord, Before, Typed
<1>2. \A w \in Inst : Change(m, w) = 0
  BY DEF Change, About
<1>3. ASSUME NEW w \in Inst, worlds'[w].state # "none"
      PROVE  worlds'[w].count = worlds[w].count + (IF worlds[w].server = s THEN Change(m, w) ELSE 0)
  BY <1>1, <1>2, <1>3
<1> QED
  BY <1>3, PacketCounted

LEMMA MemberPackets ==
  ASSUME Before, NEW s \in Servers, NEW u \in Users, NEW w \in Inst,
         WorldPlayerJoin(s, u, w) \/ WorldPlayerLeave(s, u, w), UNCHANGED <<gw, proc>>
  PROVE  CountInv'
<1>1. PICK m : m \in {Joined(u, w), Left(u, w)} /\ FromServer(s, m)
               /\ (m = Joined(u, w) => WorldPlayerJoin(s, u, w)) /\ (m = Left(u, w) => WorldPlayerLeave(s, u, w))
  <2>1. Joined(u, w) # Left(u, w)
    BY DEF Joined, Left
  <2>2. /\ WorldPlayerJoin(s, u, w) => FromServer(s, Joined(u, w))
        /\ WorldPlayerLeave(s, u, w) => FromServer(s, Left(u, w))
    BY DEF WorldPlayerJoin, WorldPlayerLeave
  <2> QED
    BY <2>1, <2>2
<1>2. /\ up \in [Servers -> Seq(UpMsg)] /\ up[s] # <<>> /\ Head(up[s]) = m
  BY <1>1, LinkedFit DEF FromServer, Arrives
<1>3. m.kind \in {"joined", "left"} /\ m.inst = w
  BY <1>1 DEF Joined, Left
<1>4. worlds[w].state # "none" => worlds[w].server = s
  <2>1. m \in Msgs(up[s])
    <3>1. Queue(up[s])
      BY <1>2, QueueOf
    <3> QED
      BY <1>2, <3>1, TailMsgs
  <2> QED
    BY <1>3, <2>1 DEF Before, CountInv, Owned, Mine
<1>5. worlds \in [Inst -> WorldRecord \cup {NoWorld}]
  BY DEF Before, Typed, MasterInv, MasterTypeOK
<1>6. \A v \in Inst \ {w} : Change(m, v) = 0
  BY <1>3 DEF Change, About
<1>7. /\ m = Joined(u, w) => Change(m, w) = 1
      /\ m = Left(u, w) => Change(m, w) = -1
  BY DEF Change, About, Joined, Left
<1>8. ASSUME worlds[w].state # "none", proc[s] = "linked", m = Left(u, w) PROVE worlds[w].count # 0
  <2> DEFINE n == Cardinality(Entries(gw[s][w].players))
  <2>1. Balanced(worlds[w].count, up[s], w, n)
    BY <1>4, <1>8 DEF Before, CountInv, Agrees
  <2> HIDE DEF n
  <2>2. worlds[w].count + Change(m, w) >= 0
    BY <1>2, <2>1, BalancedTail
  <2> QED
    BY <1>7, <1>8, <2>2
<1>9. CASE worlds[w].state = "none" \/ (m = Left(u, w) /\ worlds[w].count = 0)
  <2>1. worlds' = worlds
    BY <1>1, <1>9, Zenon DEF WorldPlayerJoin, WorldPlayerLeave
  <2>2. ASSUME NEW v \in Inst, worlds'[v].state # "none", proc[worlds[v].server] = "linked"
        PROVE  worlds'[v].count = worlds[v].count + (IF worlds[v].server = s THEN Change(m, v) ELSE 0)
    <3>1. v # w
      BY <1>4, <1>8, <1>9, <2>1, <2>2
    <3>2. worlds[v].count \in Nat
      BY <1>5, <2>1, <2>2 DEF WorldRecord, NoWorld
    <3> QED
      BY <1>6, <2>1, <3>1, <3>2
  <2>3. nextInst' = nextInst
    BY DEF WorldPlayerJoin, WorldPlayerLeave
  <2> QED
    BY <1>1, <2>1, <2>2, <2>3, PacketCounted
<1>10. CASE ~(worlds[w].state = "none" \/ (m = Left(u, w) /\ worlds[w].count = 0))
  <2> DEFINE r == [worlds[w] EXCEPT !.count = worlds[w].count + Change(m, w)]
  <2>1. worlds[w].state # "none" /\ worlds' = [worlds EXCEPT ![w] = r]
    <3>1. /\ m = Joined(u, w) => worlds' = [worlds EXCEPT ![w].count = @ + 1] /\ worlds[w].state # "none"
          /\ m = Left(u, w) => worlds' = [worlds EXCEPT ![w].count = @ - 1] /\ worlds[w].state # "none"
      BY <1>1, <1>10, Zenon DEF WorldPlayerJoin, WorldPlayerLeave
    <3>2. worlds[w].state # "none" => worlds[w].count \in Nat
      BY <1>5 DEF WorldRecord, NoWorld
    <3>3. m = Left(u, w) /\ worlds[w].state # "none" => worlds[w].count + Change(m, w) = worlds[w].count - 1
      BY <1>7, <3>2
    <3>4. m = Joined(u, w) /\ worlds[w].state # "none" => worlds[w].count + Change(m, w) = worlds[w].count + 1
      BY <1>7, <3>2
    <3> QED
      BY <1>1, <3>1, <3>3, <3>4
  <2>2. r.state = worlds[w].state /\ r.server = worlds[w].server /\ r.count = worlds[w].count + Change(m, w)
    BY <1>5, <2>1 DEF WorldRecord, NoWorld
  <2> HIDE DEF r
  <2>3. worlds'[w] = r /\ \A v \in Inst \ {w} : worlds'[v] = worlds[v]
    BY <1>5, <2>1
  <2>4. ASSUME NEW v \in Inst, worlds'[v].state # "none", proc[worlds[v].server] = "linked"
        PROVE  worlds'[v].count = worlds[v].count + (IF worlds[v].server = s THEN Change(m, v) ELSE 0)
    <3>1. CASE v = w
      BY <1>4, <2>1, <2>2, <2>3, <3>1
    <3>2. CASE v # w
      <4>1. worlds[v].count \in Nat
        BY <1>5, <2>3, <2>4, <3>2 DEF WorldRecord, NoWorld
      <4> QED
        BY <1>6, <2>3, <3>2, <4>1
    <3> QED
      BY <3>1, <3>2
  <2>5. \A v \in Inst : worlds'[v].state # "none" =>
          worlds[v].state # "none" /\ worlds'[v].server = worlds[v].server
    BY <2>1, <2>2, <2>3
  <2>6. nextInst' = nextInst
    BY DEF WorldPlayerJoin, WorldPlayerLeave
  <2> QED
    BY <1>1, <2>4, <2>5, <2>6, PacketCounted
<1> QED
  BY <1>9, <1>10

(* A step that only writes the state or the waiting list of world w.       *)
LEMMA CountFieldKept ==
  ASSUME Before, NEW w \in Inst, NEW q,
         \/ worlds' = worlds
         \/ worlds' = [worlds EXCEPT ![w].waiting = q]
         \/ worlds[w].state # "none" /\ worlds' = [worlds EXCEPT ![w].state = "ready", ![w].waiting = q]
  PROVE  \A v \in Inst : worlds'[v].state # "none" =>
           /\ worlds[v].state # "none" /\ worlds'[v].server = worlds[v].server
           /\ worlds'[v].count = worlds[v].count
<1> DEFINE r == worlds[w]
           x == [r EXCEPT !.waiting = q]
           y == [r EXCEPT !.state = "ready", !.waiting = q]
<1>1. worlds \in [Inst -> WorldRecord \cup {NoWorld}]
  BY DEF Before, Typed, MasterInv, MasterTypeOK
<1>2. /\ r = [state |-> r.state, name |-> r.name, server |-> r.server, waiting |-> r.waiting, count |-> r.count]
  BY <1>1 DEF WorldRecord, NoWorld
<1>3. worlds' = worlds \/ worlds' = [worlds EXCEPT ![w] = x]
      \/ (r.state # "none" /\ worlds' = [worlds EXCEPT ![w] = y])
  OBVIOUS
<1> HIDE DEF r
<1>4. x.state = r.state /\ x.server = r.server /\ x.count = r.count
  BY <1>2
<1>5. y.server = r.server /\ y.count = r.count
  BY <1>2
<1> HIDE DEF x, y
<1>6. worlds' = worlds \/ worlds'[w] = x \/ (r.state # "none" /\ worlds'[w] = y)
  BY <1>1, <1>3
<1>7. \A v \in Inst \ {w} : worlds'[v] = worlds[v]
  BY <1>1, <1>3
<1> QED
  BY <1>4, <1>5, <1>6, <1>7 DEF r

LEMMA FromServerCounted ==
  ASSUME Before, NEW s \in Servers, FromServerHandlers(s)
  PROVE  CountInv'
<1>1. UNCHANGED <<proc, gw>>
  BY DEF FromServerHandlers, gameVars
<1>2. ASSUME NEW u \in Users, NEW n \in Names, HandlePlayerJoinRequest(s, u, n) PROVE CountInv'
  <2> DEFINE w == GetWorldByName(n)
  <2>1. w # 0 => w \in Inst
    BY DEF GetWorldByName, Before, Typed, MasterInv, MasterTypeOK
  <2>2. FromServer(s, Join(u, n)) /\ nextInst' = nextInst
    BY <1>2 DEF HandlePlayerJoinRequest
  <2>3. worlds' = worlds \/ (w # 0 /\ \E q : worlds' = [worlds EXCEPT ![w].waiting = q])
    BY <1>2, Zenon DEF HandlePlayerJoinRequest, AttachPending, RoutePlayerToExistingWorld
  <2> HIDE DEF w
  <2>4. \A v \in Inst : worlds'[v].state # "none" =>
          /\ worlds[v].state # "none" /\ worlds'[v].server = worlds[v].server
          /\ worlds'[v].count = worlds[v].count
    BY <2>1, <2>3, CountFieldKept
  <2>5. Join(u, n).kind \notin {"joined", "left"}
    BY DEF Join
  <2> QED
    BY <1>1, <2>2, <2>4, <2>5, OtherCounted
<1>3. ASSUME NEW w \in Inst, HandleWorldInit(s, w) PROVE CountInv'
  <2>1. FromServer(s, InitOK(w)) /\ nextInst' = nextInst
    BY <1>3 DEF HandleWorldInit
  <2>2. \/ worlds' = worlds
        \/ worlds[w].state # "none" /\ worlds' = [worlds EXCEPT ![w].state = "ready", ![w].waiting = <<>>]
    BY <1>3, Zenon DEF HandleWorldInit
  <2>3. \A v \in Inst : worlds'[v].state # "none" =>
          /\ worlds[v].state # "none" /\ worlds'[v].server = worlds[v].server
          /\ worlds'[v].count = worlds[v].count
    BY <2>2, CountFieldKept
  <2>4. InitOK(w).kind \notin {"joined", "left"}
    BY DEF InitOK
  <2> QED
    BY <1>1, <2>1, <2>3, <2>4, OtherCounted
<1>4. ASSUME NEW u \in Users, NEW w \in Inst, WorldPlayerJoin(s, u, w) \/ WorldPlayerLeave(s, u, w)
      PROVE  CountInv'
  BY <1>1, <1>4, MemberPackets
<1>5. ASSUME NEW u \in Users, PlayerEndSession(s, u) \/ \E id \in 0..MaxCmds : PlayerCheckSession(s, u, id)
      PROVE  CountInv'
  <2>1. UNCHANGED <<worlds, nextInst>>
    BY <1>5 DEF PlayerEndSession, PlayerCheckSession, masterVars
  <2>2. \E m : m.kind \notin {"joined", "left"} /\ FromServer(s, m)
    <3>1. EndPlayer(u).kind \notin {"joined", "left"} /\ \A id : Check(u, id).kind \notin {"joined", "left"}
      BY DEF EndPlayer, Check
    <3>2. FromServer(s, EndPlayer(u)) \/ \E id : FromServer(s, Check(u, id))
      BY <1>5 DEF PlayerEndSession, PlayerCheckSession
    <3> QED
      BY <3>1, <3>2
  <2> QED
    BY <1>1, <2>1, <2>2, OtherCounted
<1> QED
  BY <1>2, <1>3, <1>4, <1>5, Zenon DEF FromServerHandlers

(* A new world begins with nobody in it and nothing on its way about it.   *)
LEMMA WorldAdded ==
  ASSUME Before, NEW n \in Names, NEW u \in Users, NEW s \in Servers, NEW t \in Servers,
         nextInst <= MaxInst, nextInst' = nextInst + 1, UNCHANGED <<gw, up, proc>>,
         worlds' = [worlds EXCEPT ![nextInst] =
               [state |-> "loading", name |-> n, server |-> t,
                waiting |-> <<[user |-> u, source |-> s]>>, count |-> 0]]
  PROVE  CountInv'
<1> DEFINE w == nextInst
<1>1. w \in Inst /\ worlds \in [Inst -> WorldRecord \cup {NoWorld}]
  BY BoundsAssumption DEF Before, Typed, MasterInv, MasterTypeOK
<1>2. worlds'[w].server = t /\ worlds'[w].count = 0 /\ \A v \in Inst \ {w} : worlds'[v] = worlds[v]
  BY <1>1
<1>3. ASSUME NEW x \in Servers, NEW m \in Msgs(up[x]), m.kind \in {"joined", "left"}
      PROVE  m.inst \in Inst /\ m.inst # w /\ m.inst < nextInst
             /\ (worlds[m.inst].state # "none" => worlds[m.inst].server = x)
  BY <1>1, <1>3 DEF Before, CountInv, Owned, Mine
<1>4. ASSUME NEW x \in Servers PROVE Owned(x, up[x])'
  <2>1. ASSUME NEW m \in Msgs(up[x]), m.kind \in {"joined", "left"}
        PROVE  m.inst \in Inst /\ m.inst < nextInst' /\ (worlds'[m.inst].state # "none" => worlds'[m.inst].server = x)
    BY <1>1, <1>2, <1>3, <2>1
  <2> QED
    BY <2>1, Zenon DEF Owned, Mine
<1>5. gw[t][w] = NoGameWorld
  <2>1. gw[t][w].state = "none"
    BY <1>1 DEF Before, InitInv, OwnerInv, Knows
  <2> QED
    BY <1>1, <2>1, LinkedFit DEF ServerWorlds, GameWorldRecord
<1>6. Balanced(0, up[t], w, 0)
  <2>1. up[t] \in Seq(UpMsg) /\ DOMAIN up[t] = 1..Len(up[t]) /\ Len(up[t]) \in Nat
    BY LinkedFit
  <2>2. ASSUME NEW i \in 0..Len(up[t]) PROVE Balance(0, up[t], i, w) = 0
    <3>1. Marks(up[t], i, "joined", w) = {} /\ Marks(up[t], i, "left", w) = {}
      BY <1>3, <2>1 DEF Marks, Msgs, About
    <3>2. Tally(up[t], i, "joined", w) = 0 /\ Tally(up[t], i, "left", w) = 0
      BY <3>1, FS_EmptySet DEF Tally
    <3> QED
      BY <3>2 DEF Balance
  <2> QED
    BY <2>1, <2>2 DEF Balanced
<1>7. ASSUME NEW x \in Servers, proc[x] = "linked", NEW v \in Inst
      PROVE  /\ IsFiniteSet(Entries(gw[x][v].players))
             /\ worlds'[v].state # "none" /\ worlds'[v].server = x =>
                  Balanced(worlds'[v].count, up[x], v, Cardinality(Entries(gw[x][v].players)))
  <2>1. CASE v # w
    BY <1>2, <1>7, <2>1 DEF Before, CountInv, Agrees
  <2>2. CASE v = w
    <3>1. IsFiniteSet(Entries(gw[x][v].players))
      BY <1>7 DEF Before, CountInv, Agrees
    <3>2. Cardinality(Entries(gw[t][w].players)) = 0
      BY <1>5, NoEntries DEF NoGameWorld
    <3> QED
      BY <1>2, <1>6, <2>2, <3>1, <3>2
  <2> QED
    BY <2>1, <2>2
<1>8. ASSUME NEW x \in Servers, proc[x] = "linked" PROVE Agrees(x, gw[x], up[x])'
  BY <1>7, <1>8, Zenon DEF Agrees
<1> QED
  BY <1>4, <1>8, Zenon DEF CountInv

LEMMA NothingTaken ==
  ASSUME Before, UNCHANGED <<worlds, nextInst, gw, up, proc>>
  PROVE  CountInv'
BY Zenon DEF Before, CountInv, Owned, Mine, Agrees

LEMMA DatabaseCounted ==
  ASSUME Before, DatabaseResults
  PROVE  CountInv'
<1>1. UNCHANGED <<gw, up, proc>>
  BY DEF DatabaseResults, gameVars
<1>2. PICK t \in DBTask : CheckWorldExistCB(t) \/ CreateWorldCB(t)
  BY DEF DatabaseResults
<1>3. t.user \in Users /\ t.source \in Servers /\ t.name \in Names
  BY DEF DBTask
<1>4. UNCHANGED <<worlds, nextInst>> \/ CreateWorldSessionAndNotice(t.name, t.user, t.source)
  BY <1>2, Zenon DEF CheckWorldExistCB, CreateWorldCB
<1>5. CASE CreateWorldSessionAndNotice(t.name, t.user, t.source)
  <2>1. \/ UNCHANGED <<worlds, nextInst>>
        \/ /\ nextInst <= MaxInst /\ nextInst' = nextInst + 1
           /\ \E x \in Servers : worlds' = [worlds EXCEPT ![nextInst] =
                [state |-> "loading", name |-> t.name, server |-> x,
                 waiting |-> <<[user |-> t.user, source |-> t.source]>>, count |-> 0]]
    BY <1>5, Zenon DEF CreateWorldSessionAndNotice, ReadyServers
  <2> QED
    BY <1>1, <1>3, <2>1, WorldAdded, NothingTaken
<1> QED
  BY <1>1, <1>4, <1>5, NothingTaken

LEMMA LinksCounted ==
  ASSUME Before, NEW s \in Servers, AddServer(s) \/ RemoveServer(s) \/ Losses(s)
  PROVE  CountInv'
<1>0. /\ worlds \in [Inst -> WorldRecord \cup {NoWorld}] /\ srv \in [Servers -> {"none", "authed", "ready"}]
      /\ proc \in [Servers -> {"down", "linked", "cut"}] /\ gw \in [Servers -> ServerWorlds]
      /\ up \in [Servers -> Seq(UpMsg)]
  BY LinkedFit DEF Before, Typed, MasterInv, MasterTypeOK, GameTypeOK
<1>1. CASE AddServer(s)
  <2>1. /\ UNCHANGED <<worlds, nextInst, gw, up>> /\ srv[s] = "none" /\ proc[s] = "down"
        /\ proc' = [proc EXCEPT ![s] = "linked"]
    BY <1>1 DEF AddServer, gameVars
  <2>2. \A w \in Inst : worlds[w].state # "none" => worlds[w].server # s
    BY <2>1, KnownWorld DEF Before, Typed
  <2>3. \A v \in Inst : gw[s][v] = NoGameWorld
    <3>1. \A v \in Inst : gw[s][v].state = "none"
      BY <2>1 DEF Before, InitInv, LinkInv
    <3> QED
      BY <1>0, <3>1 DEF ServerWorlds, GameWorldRecord
  <2>4. ASSUME NEW t \in Servers, proc'[t] = "linked"
        PROVE  /\ proc[t] = "linked" \/ \A v \in Inst : gw[t][v] = NoGameWorld
               /\ \A w \in Inst : worlds'[w].state # "none" /\ worlds'[w].server = t =>
                    proc[t] = "linked" /\ Counted(w, t)
    BY <1>0, <2>1, <2>2, <2>3, <2>4 DEF Counted
  <2> QED
    BY <2>1, <2>4, CountKept
<1>2. CASE RemoveServer(s)
  <2>1. /\ UNCHANGED <<nextInst, gw, proc>> /\ proc[s] # "linked"
        /\ worlds' = WorldsWithout(s) /\ up' = [up EXCEPT ![s] = <<>>]
    BY <1>2 DEF RemoveServer, gameVars
  <2>2. \A w \in Inst : worlds'[w].state # "none" => worlds'[w] = worlds[w]
    BY <2>1 DEF WorldsWithout, NoWorld
  <2>3. \A t \in Servers : Msgs(up'[t]) \subseteq Msgs(up[t])
    BY <1>0, <2>1, NoMessage
  <2>4. ASSUME NEW t \in Servers, proc'[t] = "linked",
               NEW w \in Inst, worlds'[w].state # "none", worlds'[w].server = t
        PROVE  Counted(w, t)
    BY <1>0, <2>1, <2>2, <2>4 DEF Counted
  <2> QED
    BY <2>1, <2>2, <2>3, <2>4, CountKept
<1>3. CASE Losses(s)
  <2>1. /\ UNCHANGED <<worlds, nextInst, up>> /\ proc'[s] # "linked"
        /\ \A t \in Servers \ {s} : gw'[t] = gw[t] /\ proc'[t] = proc[t]
    BY <1>0, <1>3 DEF Losses, LoseLink, Crash, masterVars, gameVars
  <2>2. ASSUME NEW t \in Servers, proc'[t] = "linked"
        PROVE  gw'[t] = gw[t] /\ proc[t] = "linked"
    BY <2>1, <2>2
  <2>3. \A t \in Servers, w \in Inst : Counted(w, t)
    BY <2>1 DEF Counted
  <2> QED
    BY <2>1, <2>2, <2>3, CountKept
<1> QED
  BY <1>1, <1>2, <1>3

LEMMA CountStep == Typed /\ InitInv /\ CountInv /\ [Next]_vars => CountInv'
<1> SUFFICES ASSUME Before, [Next]_vars PROVE CountInv'
  BY DEF Before
<1>1. CASE UNCHANGED vars
  <2>1. UNCHANGED <<worlds, nextInst, gw, up, proc>>
    BY <1>1 DEF vars, masterVars, gameVars
  <2> QED
    BY <2>1, NothingTaken
<1>2. GameTypeOK'
  BY GameNext DEF Before, Typed
<1>3. ASSUME NEW s \in Servers, FromMasterHandlers(s) PROVE CountInv'
  <2>1. ASSUME NEW n \in Names, NEW w \in Inst, GameHandleWorldInit(s, n, w) PROVE CountInv'
    BY <1>2, <2>1, WorldsFit
  <2>2. ASSUME NEW u \in Users,
               \/ HandleJoinFail(s, u)
               \/ \E t \in Servers, w \in Inst : HandlePlayerJoin(s, u, t, w)
               \/ \E id \in 0..MaxCmds, ok \in BOOLEAN, w \in InstOrNone : HandleCheckSession(s, u, id, ok, w)
        PROVE  CountInv'
    BY <2>2, AnswersFit
  <2> QED
    BY <1>3, <2>1, <2>2, Zenon DEF FromMasterHandlers
<1>4. ASSUME NEW s \in Servers, NEW u \in Users,
             \/ \E n \in Names : PlayerJoinRequest(s, u, n)
             \/ QuitToExit(s, u) \/ Quit(s, u) \/ OnEventDisconnect(s, u)
             \/ UpdatePlayers(s, u) \/ StartLoginRequest(s, u) \/ EnterGame(s, u)
      PROVE  CountInv'
  BY <1>4, PlayersFit
<1>5. ASSUME NEW s \in Servers, NEW u \in Users, SendToGame(u, s) PROVE CountInv'
  <2>1. UNCHANGED <<worlds, nextInst, gw, up, proc>>
    BY <1>5 DEF SendToGame, gameVars
  <2> QED
    BY <2>1, NothingTaken
<1>6. ASSUME NEW s \in Servers, ServerReady(s) PROVE CountInv'
  <2>1. UNCHANGED <<worlds, nextInst, gw, up, proc>>
    BY <1>6 DEF ServerReady, gameVars
  <2> QED
    BY <2>1, NothingTaken
<1>7. ASSUME NEW u \in Users, ConnectFails(u) PROVE CountInv'
  <2>1. UNCHANGED <<worlds, nextInst, gw, up, proc>>
    BY <1>7 DEF ConnectFails, masterVars, gameVars
  <2> QED
    BY <2>1, NothingTaken
<1>8. ASSUME NEW s \in Servers, AddServer(s) \/ RemoveServer(s) \/ Losses(s) PROVE CountInv'
  BY <1>8, LinksCounted
<1>9. ASSUME NEW s \in Servers, NEW w \in Inst, OnWorldPresenceReady(s, w) PROVE CountInv'
  BY <1>2, <1>9, WorldsFit
<1>10. CASE Next
  BY <1>3, <1>4, <1>5, <1>6, <1>7, <1>8, <1>9, <1>10, DatabaseCounted, FromServerCounted, Zenon DEF Next, Clients
<1> QED
  BY <1>1, <1>10

(* While its server is connected the Master's player count of a world,     *)
(* with the JOIN and LEAVE packets on their way counted in, is the number  *)
(* of members there, and handling a LEAVE never finds the count at zero.   *)
THEOREM PlayersAreCounted == Spec => []PlayerCountConserved
<1>1. Init => CountInv
  <2> SUFFICES ASSUME Init PROVE CountInv
    OBVIOUS
  <2>1. /\ \A s \in Servers : up[s] = <<>>
        /\ \A s \in Servers, w \in Inst : gw[s][w] = NoGameWorld
        /\ \A w \in Inst : worlds[w].state = "none"
    BY DEF Init, NoWorld
  <2>2. \A s \in Servers : Owned(s, up[s])
    BY <2>1, NoMessage DEF Owned
  <2>3. \A s \in Servers : Agrees(s, gw[s], up[s])
    BY <2>1, NoEntries DEF Agrees, NoGameWorld
  <2> QED
    BY <2>2, <2>3 DEF CountInv
<1>2. Typed /\ InitInv /\ CountInv => PlayerCountConserved
  <2> SUFFICES ASSUME Typed, InitInv, CountInv, NEW w \in Inst, worlds[w].state # "none",
                      proc[worlds[w].server] = "linked"
               PROVE  LET s == worlds[w].server IN
                      worlds[w].count
                        + Cardinality({i \in DOMAIN up[s] : up[s][i].kind = "joined" /\ up[s][i].inst = w})
                        - Cardinality({i \in DOMAIN up[s] : up[s][i].kind = "left" /\ up[s][i].inst = w})
                      = Members(s, w)
    BY Zenon DEF PlayerCountConserved
  <2> DEFINE s == worlds[w].server
  <2>1. s \in Servers
    BY KnownWorld DEF Typed
  <2> HIDE DEF s
  <2>2. DOMAIN up[s] = 1..Len(up[s])
    BY <2>1, LinkedFit DEF Before
  <2>3. Balanced(worlds[w].count, up[s], w, Members(s, w))
    BY <2>1 DEF CountInv, Agrees, Members, s
  <2> QED
    BY <2>2, <2>3, Zenon DEF Balanced, Balance, Tally, Marks, About, s
<1> QED
  BY <1>1, <1>2, CountStep, InitCorrect, PTL DEF Spec
=============================================================================
