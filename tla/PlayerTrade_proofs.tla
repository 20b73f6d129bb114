------------------------ MODULE PlayerTrade_proofs ------------------------
(***************************************************************************)
(* Proofs about PlayerTrade, for every set of slots and items.  The        *)
(* handlers are compositions of SendTradeStatus and KillTrade: one lemma   *)
(* says what each changes and keeps, and the theorems need no more.        *)
(***************************************************************************)
EXTENDS PlayerTrade, TLAPS

Trades == [Slots -> Trade]

(* The part of TypeOK that relates the fields of a trade. *)
Sound(t) ==
  /\ t \in Trades
  /\ \A p \in Slots :
       /\ t[p].partner # p
       /\ t[p].accepted => IsTrading(t, p) /\ t[p].timer = "unset"
       /\ ~IsTrading(t, p) => t[p] = Idle

LEMMA IdleIsTrade == Idle \in Trade /\ NoOffer \in Offers
BY BoundsAssumption DEF Idle, Trade, NoOffer, Offers

(* What a partner is. *)
LEMMA PartnerOf ==
  ASSUME NEW t \in Trades, NEW p \in Slots, IsTrading(t, p)
  PROVE  t[p].partner \in Slots
BY DEF Trades, Trade, IsTrading

-----------------------------------------------------------------------------
(* SetDelayToAcceptButton withdraws one accept and starts one timer. *)
LEMMA DelayEffect ==
  ASSUME NEW t \in Trades, NEW p \in Slots
  PROVE  LET u == SetDelayToAcceptButton(t, p) IN
           /\ u \in Trades
           /\ \A s \in Slots \ {p} : u[s] = t[s]
           /\ u[p].partner = t[p].partner /\ u[p].offer = t[p].offer /\ u[p].accepted = FALSE
<1> DEFINE u == SetDelayToAcceptButton(t, p)
<1>1. t[p] \in Trade
  BY DEF Trades
<1>2. [t[p] EXCEPT !.accepted = FALSE, !.timer = "running"] \in Trade
  BY <1>1 DEF Trade
<1>3. u = [t EXCEPT ![p] = [t[p] EXCEPT !.accepted = FALSE, !.timer = "running"]]
  BY DEF SetDelayToAcceptButton, Trades
<1>4. u \in Trades
  BY <1>2, <1>3 DEF Trades
<1> QED
  BY <1>1, <1>3, <1>4 DEF Trades, Trade

(* SendTradeStatus keeps partners and offers, and gives no accept; when    *)
(* the deal has changed the sender and a mutual partner have none left.    *)
Kept(t, u) ==
  \A s \in Slots :
    /\ u[s].partner = t[s].partner /\ u[s].offer = t[s].offer
    /\ u[s].accepted => t[s].accepted /\ u[s] = t[s]
    /\ ~IsTrading(t, s) => u[s] = t[s]

LEMMA StatusEffect ==
  ASSUME NEW t \in Trades, NEW p \in Slots, IsTrading(t, p),
         NEW dealChanged \in BOOLEAN, NEW resetAccept \in BOOLEAN
  PROVE  LET u == SendTradeStatus(t, p, dealChanged, resetAccept) IN
           /\ u \in Trades
           /\ Kept(t, u)
           /\ dealChanged => ~u[p].accepted
           /\ dealChanged /\ Mutual(t, p) => ~u[t[p].partner].accepted
<1> DEFINE own == IF dealChanged THEN [t EXCEPT ![p].accepted = FALSE] ELSE t
           q == t[p].partner
           u == SendTradeStatus(t, p, dealChanged, resetAccept)
<1>1. t[p] \in Trade /\ q \in Slots
  BY PartnerOf DEF Trades
<1>2. [t[p] EXCEPT !.accepted = FALSE] \in Trade
  BY <1>1 DEF Trade
<1>3. /\ own \in Trades
      /\ \A s \in Slots \ {p} : own[s] = t[s]
      /\ own[p].partner = t[p].partner /\ own[p].offer = t[p].offer
      /\ own[p].accepted => ~dealChanged /\ own[p] = t[p]
  <2>1. CASE dealChanged
    <3>1. own = [t EXCEPT ![p] = [t[p] EXCEPT !.accepted = FALSE]]
      BY <2>1 DEF Trades
    <3>2. own \in Trades
      BY <3>1, <1>2 DEF Trades
    <3> QED
      BY <3>1, <3>2, <1>1, <2>1 DEF Trades, Trade
  <2>2. CASE ~dealChanged
    BY <2>2
  <2> QED
    BY <2>1, <2>2
<1>4. CASE Mutual(t, p) /\ (dealChanged \/ resetAccept)
  <2>1. u = SetDelayToAcceptButton(own, q)
    BY <1>4 DEF SendTradeStatus
  <2>2. IsTrading(t, q)
    BY <1>4, ItemsAssumption DEF Mutual, IsTrading
  <2> HIDE DEF own, u
  <2>3. /\ u \in Trades
        /\ \A s \in Slots \ {q} : u[s] = own[s]
        /\ u[q].partner = own[q].partner /\ u[q].offer = own[q].offer /\ u[q].accepted = FALSE
    BY <2>1, <1>1, <1>3, DelayEffect
  <2>4. Kept(t, u)
    BY <1>3, <1>1, <2>2, <2>3 DEF Kept
  <2>5. dealChanged => ~u[p].accepted
    BY <1>3, <1>1, <2>3
  <2> QED
    BY <2>3, <2>4, <2>5 DEF u
<1>5. CASE ~(Mutual(t, p) /\ (dealChanged \/ resetAccept))
  <2>1. u = own
    BY <1>5 DEF SendTradeStatus
  <2> HIDE DEF own, u
  <2>2. Kept(t, u)
    BY <1>3, <2>1 DEF Kept
  <2> QED
    BY <1>3, <1>5, <2>1, <2>2 DEF u
<1> QED
  BY <1>4, <1>5

(* KillTrade makes the trade of a player and of a mutual partner idle, and *)
(* no other.                                                               *)
LEMMA KillEffect ==
  ASSUME NEW t \in Trades, NEW p \in Slots
  PROVE  LET u == KillTrade(t, p) IN
           /\ u \in Trades
           /\ u[p] = Idle
           /\ Mutual(t, p) => u[t[p].partner] = Idle
           /\ \A s \in Slots \ {p} : u[s] = t[s] \/ (Mutual(t, p) /\ s = t[p].partner)
<1> DEFINE q == t[p].partner
<1>1. CASE Mutual(t, p)
  <2>1. q \in Slots
    BY <1>1, PartnerOf DEF Mutual
  <2>2. KillTrade(t, p) = [[t EXCEPT ![q] = Idle] EXCEPT ![p] = Idle]
    BY <1>1 DEF KillTrade, EndTrade
  <2> QED
    BY <1>1, <2>1, <2>2, IdleIsTrade DEF Trades
<1>2. CASE ~Mutual(t, p)
  <2>1. KillTrade(t, p) = [t EXCEPT ![p] = Idle]
    BY <1>2 DEF KillTrade, EndTrade
  <2> QED
    BY <1>2, <2>1, IdleIsTrade DEF Trades
<1> QED
  BY <1>1, <1>2

-----------------------------------------------------------------------------
(* A handler does one of three things to the trades.  It begins anew or    *)
(* cancels: the trade of p and of a mutual partner are gone ...            *)
Restarts(t, u, p) ==
  /\ Sound(u)
  /\ ~u[p].accepted /\ u[p].offer = NoOffer
  /\ Mutual(t, p) =>
       LET q == t[p].partner IN ~u[q].accepted /\ u[q].offer = NoOffer /\ u[q].partner = NoOne
  /\ \A s \in Slots \ {p} :
       \/ Mutual(t, p) /\ s = t[p].partner
       \/ u[s].partner = t[s].partner /\ u[s].offer = t[s].offer
  /\ \A s \in Slots : u[s].accepted => u[s] = t[s]
  /\ \A s \in Slots : u[s].accepted /\ Mutual(u, s) => u[s].partner # p

(* ... or keeps all partners and gives no accept, and if the offer of p    *)
(* has changed, takes back those of p and of a mutual partner ...          *)
Changes(t, u, p) ==
  /\ Sound(u)
  /\ \A s \in Slots : u[s].partner = t[s].partner
  /\ \A s \in Slots \ {p} : u[s].offer = t[s].offer
  /\ \A s \in Slots : u[s].accepted => u[s] = t[s]
  /\ \/ u[p].offer = t[p].offer
     \/ ~u[p].accepted /\ (Mutual(t, p) => ~u[t[p].partner].accepted)

(* ... or p accepts, and nothing else. *)
Accepts(t, u, p) ==
  /\ Sound(u)
  /\ IsTrading(t, p) /\ ~t[p].accepted
  /\ \A s \in Slots : u[s].partner = t[s].partner /\ u[s].offer = t[s].offer
  /\ \A s \in Slots \ {p} : u[s] = t[s]

LEMMA TypeIsSound == TypeOK => Sound(trade)
BY DEF TypeOK, Sound, Trades

LEMMA CancelRestarts ==
  ASSUME NEW t, Sound(t), NEW p \in Slots
  PROVE  Restarts(t, KillTrade(t, p), p)
<1> DEFINE u == KillTrade(t, p)
<1>1. t \in Trades
  BY DEF Sound
<1>2. /\ u \in Trades
      /\ u[p] = Idle
      /\ Mutual(t, p) => u[t[p].partner] = Idle
      /\ \A s \in Slots \ {p} : u[s] = t[s] \/ (Mutual(t, p) /\ s = t[p].partner)
  BY <1>1, KillEffect
<1>3. \A s \in Slots : u[s] = t[s] \/ u[s] = Idle
  BY <1>2
<1> HIDE DEF u
<1>4. Idle.partner = NoOne /\ ~Idle.accepted /\ Idle.offer = NoOffer
  BY DEF Idle
<1>5. Sound(u)
  BY <1>2, <1>3, <1>4, ItemsAssumption DEF Sound, IsTrading
<1>6. \A s \in Slots : u[s].accepted /\ Mutual(u, s) => u[s].partner # p
  BY <1>2, <1>4, ItemsAssumption DEF Mutual, IsTrading
<1> QED
  BY <1>2, <1>3, <1>4, <1>5, <1>6 DEF Restarts, u

(* What StartTradingWith makes of the trades. *)
Result(t, p, q) ==
  LET killed == KillTrade(t, p)
      started == [killed EXCEPT ![p].partner = q]
  IN IF killed[q].partner \notin {NoOne, p} THEN killed
     ELSE IF killed[q].partner = p
     THEN SendTradeStatus(SendTradeStatus(started, p, TRUE, FALSE), q, TRUE, FALSE)
     ELSE started

LEMMA StartRestarts ==
  ASSUME NEW t, Sound(t), NEW p \in Slots, NEW q \in Slots, p # q
  PROVE  Restarts(t, Result(t, p, q), p)
<1> DEFINE k == KillTrade(t, p)
           v == [k EXCEPT ![p].partner = q]
<1>1. Restarts(t, k, p) /\ k \in Trades /\ k[p] = Idle
  BY CancelRestarts, KillEffect DEF Sound
<1>2. CASE k[q].partner \notin {NoOne, p}
  <2>1. Result(t, p, q) = k
    BY <1>2 DEF Result
  <2> QED
    BY <1>1, <2>1
<1>3. CASE k[q].partner \in {NoOne, p}
  <2>1. [Idle EXCEPT !.partner = q] \in Trade
    BY IdleIsTrade DEF Idle, Trade
  <2>2. /\ v \in Trades
        /\ \A s \in Slots \ {p} : v[s] = k[s]
        /\ v[p].partner = q /\ v[p].offer = NoOffer /\ v[p].accepted = FALSE
    <3>1. v = [k EXCEPT ![p] = [Idle EXCEPT !.partner = q]]
      BY <1>1 DEF Trades
    <3> QED
      BY <3>1, <2>1, <1>1 DEF Trades, Idle
  <2>3. IsTrading(v, p)
    BY <2>2, ItemsAssumption DEF IsTrading
  <2> HIDE DEF k
  <2>4. Sound(v)
    BY <1>1, <2>2, <2>3 DEF Restarts, Sound, IsTrading
  <2>5. CASE k[q].partner = p
    <3> DEFINE w == SendTradeStatus(v, p, TRUE, FALSE)
               u == SendTradeStatus(w, q, TRUE, FALSE)
    <3> HIDE DEF v
    <3>1. w \in Trades /\ Kept(v, w) /\ ~w[p].accepted
      BY <2>2, <2>3, StatusEffect
    <3> HIDE DEF w
    <3>2. IsTrading(w, q) /\ w[q].partner = p
      <4>1. w[q].partner = v[q].partner
        BY <3>1 DEF Kept
      <4>2. v[q].partner = p
        BY <2>2, <2>5
      <4> QED
        BY <4>1, <4>2, ItemsAssumption DEF IsTrading
    <3>3. u \in Trades /\ Kept(w, u) /\ ~u[q].accepted
      BY <3>1, <3>2, StatusEffect
    <3>4. Result(t, p, q) = u
      BY <2>5, ItemsAssumption DEF Result, k, v, w
    <3> HIDE DEF u
    <3>5. /\ \A s \in Slots : u[s].partner = v[s].partner /\ u[s].offer = v[s].offer
          /\ \A s \in Slots : u[s].accepted => u[s] = v[s]
          /\ \A s \in Slots : ~IsTrading(v, s) => u[s] = v[s]
      BY <3>1, <3>3 DEF Kept, IsTrading
    <3>6. Sound(u)
      BY <3>3, <3>5, <2>4 DEF Sound, IsTrading
    <3>7. \A s \in Slots : u[s].accepted => s # p /\ s # q /\ u[s] = t[s]
      BY <3>3, <3>5, <2>2, <1>1 DEF Restarts
    <3>8. \A s \in Slots : u[s].accepted /\ Mutual(u, s) => u[s].partner # p
      BY <3>5, <3>7, <2>2 DEF Mutual
    <3>9. u[p].offer = NoOffer /\ ~u[p].accepted
      BY <3>5, <3>7, <2>2
    <3>10. Mutual(t, p) => LET q0 == t[p].partner IN ~u[q0].accepted /\ u[q0].offer = NoOffer /\ u[q0].partner = NoOne
      <4>1. SUFFICES ASSUME Mutual(t, p)
                     PROVE  LET q0 == t[p].partner IN ~u[q0].accepted /\ u[q0].offer = NoOffer /\ u[q0].partner = NoOne
        OBVIOUS
      <4>2. t[p].partner \in Slots \ {p}
        BY <4>1, PartnerOf DEF Mutual, Sound
      <4> QED
        BY <4>1, <4>2, <3>5, <2>2, <1>1 DEF Restarts
    <3>11. \A s \in Slots \ {p} :
             \/ Mutual(t, p) /\ s = t[p].partner
             \/ u[s].partner = t[s].partner /\ u[s].offer = t[s].offer
      BY <3>5, <2>2, <1>1 DEF Restarts
    <3> QED
      BY <3>4, <3>6, <3>7, <3>8, <3>9, <3>10, <3>11 DEF Restarts
  <2>6. CASE k[q].partner # p
    <3>1. Result(t, p, q) = v
      BY <1>3, <2>6 DEF Result, k
    <3> HIDE DEF v
    <3>2. \A s \in Slots : v[s].accepted => s # p /\ v[s] = t[s]
      BY <2>2, <1>1 DEF Restarts
    <3>3. \A s \in Slots : v[s].accepted /\ Mutual(v, s) => v[s].partner # p
      BY <2>2, <2>6, <3>2 DEF Mutual
    <3>4. Mutual(t, p) => LET q0 == t[p].partner IN ~v[q0].accepted /\ v[q0].offer = NoOffer /\ v[q0].partner = NoOne
      <4>1. SUFFICES ASSUME Mutual(t, p)
                     PROVE  LET q0 == t[p].partner IN ~v[q0].accepted /\ v[q0].offer = NoOffer /\ v[q0].partner = NoOne
        OBVIOUS
      <4>2. t[p].partner \in Slots \ {p}
        BY <4>1, PartnerOf DEF Mutual, Sound
      <4> QED
        BY <4>1, <4>2, <2>2, <1>1 DEF Restarts
    <3>5. \A s \in Slots \ {p} :
            \/ Mutual(t, p) /\ s = t[p].partner
            \/ v[s].partner = t[s].partner /\ v[s].offer = t[s].offer
      BY <2>2, <1>1 DEF Restarts
    <3> QED
      BY <3>1, <3>2, <3>3, <3>4, <3>5, <2>2, <2>4 DEF Restarts
  <2> QED
    BY <2>5, <2>6
<1> QED
  BY <1>2, <1>3

(* SendTradeStatus after a change of p's own trade, v. *)
LEMMA StatusChanges ==
  ASSUME NEW t, Sound(t), NEW p \in Slots, IsTrading(t, p), NEW v \in Trades,
         \A s \in Slots \ {p} : v[s] = t[s], v[p].partner = t[p].partner,
         NEW dealChanged \in BOOLEAN, NEW resetAccept \in BOOLEAN,
         dealChanged \/ (~v[p].accepted /\ v[p].offer = t[p].offer)
  PROVE  Changes(t, SendTradeStatus(v, p, dealChanged, resetAccept), p)
<1> DEFINE u == SendTradeStatus(v, p, dealChanged, resetAccept)
<1>1. IsTrading(v, p)
  BY DEF IsTrading
<1>2. /\ u \in Trades
      /\ Kept(v, u)
      /\ dealChanged => ~u[p].accepted
      /\ dealChanged /\ Mutual(v, p) => ~u[v[p].partner].accepted
  BY <1>1, StatusEffect
<1> HIDE DEF u
<1>3. \A s \in Slots : u[s].partner = t[s].partner
  BY <1>2 DEF Kept
<1>4. \A s \in Slots \ {p} : u[s].offer = t[s].offer
  BY <1>2 DEF Kept
<1>5. ~u[p].accepted
  BY <1>2 DEF Kept
<1>6. \A s \in Slots : u[s].accepted => u[s] = t[s]
  BY <1>2, <1>5 DEF Kept
<1>7. Sound(u)
  BY <1>1, <1>2, <1>3, <1>6 DEF Sound, IsTrading, Kept
<1>8. Mutual(t, p) => Mutual(v, p) /\ v[p].partner = t[p].partner
  <2>1. SUFFICES ASSUME Mutual(t, p) PROVE Mutual(v, p)
    OBVIOUS
  <2>2. t[p].partner \in Slots \ {p}
    BY <2>1, PartnerOf DEF Mutual, Sound
  <2> QED
    BY <2>1, <2>2, <1>1 DEF Mutual
<1>9. \/ u[p].offer = t[p].offer
      \/ ~u[p].accepted /\ (Mutual(t, p) => ~u[t[p].partner].accepted)
  BY <1>2, <1>5, <1>8 DEF Kept
<1> QED
  BY <1>3, <1>4, <1>6, <1>7, <1>9 DEF Changes, u

-----------------------------------------------------------------------------
(* Each handler of p does one of the three. *)

LEMMA AddItemChanges ==
  ASSUME TypeOK, NEW p \in Slots, NEW i \in Items, NEW n \in 1..MaxHold, NEW fine \in BOOLEAN,
         AddItem(p, i, n, fine)
  PROVE  Changes(trade, trade', p)
<1> DEFINE m == IF i \in Fish THEN inv[p][i] ELSE n
           o == [trade[p].offer EXCEPT ![i] = m]
           v == [trade EXCEPT ![p] = [trade[p] EXCEPT !.offer = o]]
<1>1. trade[p] \in Trade /\ inv[p] \in Offers /\ trade \in Trades
  BY DEF TypeOK, Trades
<1>2. m \in 0..MaxHold
  BY <1>1, BoundsAssumption DEF Offers
<1>3. o \in Offers
  BY <1>1, <1>2 DEF Trade, Offers
<1>4. [trade[p] EXCEPT !.offer = o] \in Trade
  BY <1>1, <1>3 DEF Trade
<1>5. /\ v \in Trades
      /\ \A s \in Slots \ {p} : v[s] = trade[s]
      /\ v[p].partner = trade[p].partner
  BY <1>1, <1>4 DEF Trades, Trade
<1>6. trade' = SendTradeStatus(v, p, TRUE, TRUE) /\ IsTrading(trade, p)
  BY DEF AddItem
<1> HIDE DEF v
<1> QED
  BY <1>5, <1>6, TypeIsSound, StatusChanges

LEMMA RemoveItemChanges ==
  ASSUME TypeOK, NEW p \in Slots, NEW i \in Items, OnRemoveItem(p, i)
  PROVE  Changes(trade, trade', p)
<1> DEFINE o == [trade[p].offer EXCEPT ![i] = 0]
           v == [trade EXCEPT ![p] = [trade[p] EXCEPT !.offer = o]]
<1>1. trade[p] \in Trade /\ trade \in Trades
  BY DEF TypeOK, Trades
<1>2. o \in Offers
  BY <1>1, BoundsAssumption DEF Trade, Offers
<1>3. [trade[p] EXCEPT !.offer = o] \in Trade
  BY <1>1, <1>2 DEF Trade
<1>4. /\ v \in Trades
      /\ \A s \in Slots \ {p} : v[s] = trade[s]
      /\ v[p].partner = trade[p].partner
  BY <1>1, <1>3 DEF Trades, Trade
<1>5. trade' = SendTradeStatus(v, p, TRUE, TRUE) /\ IsTrading(trade, p)
  BY DEF OnRemoveItem
<1> HIDE DEF v
<1> QED
  BY <1>4, <1>5, TypeIsSound, StatusChanges

LEMMA AcceptFalseChanges ==
  ASSUME TypeOK, NEW p \in Slots, SetAcceptFalse(p)
  PROVE  Changes(trade, trade', p)
<1> DEFINE v == [trade EXCEPT ![p] = [trade[p] EXCEPT !.accepted = FALSE]]
<1>1. trade[p] \in Trade /\ trade \in Trades
  BY DEF TypeOK, Trades
<1>2. [trade[p] EXCEPT !.accepted = FALSE] \in Trade
  BY <1>1 DEF Trade
<1>3. /\ v \in Trades
      /\ \A s \in Slots \ {p} : v[s] = trade[s]
      /\ v[p].partner = trade[p].partner /\ v[p].offer = trade[p].offer /\ ~v[p].accepted
  BY <1>1, <1>2 DEF Trades, Trade
<1>4. trade' = SendTradeStatus(v, p, FALSE, TRUE) /\ IsTrading(trade, p)
  BY DEF SetAcceptFalse
<1> HIDE DEF v
<1> QED
  BY <1>3, <1>4, TypeIsSound, StatusChanges

(* Both sides could deliver what they offer. *)
BothDeliver(t, p) == Deliverable(t, p, t[p].partner) /\ Deliverable(t, t[p].partner, t[t[p].partner].partner)

(* SetAccept accepts only before the partner has, or when both deliver. *)
LEMMA SetAcceptEffect ==
  ASSUME TypeOK, NEW p \in Slots, NEW matches \in BOOLEAN, NEW fine \in BOOLEAN,
         SetAccept(p, matches, fine)
  PROVE  \/ Changes(trade, trade', p)
         \/ /\ Accepts(trade, trade', p)
            /\ ~trade[trade[p].partner].accepted \/ BothDeliver(trade, p)
<1> DEFINE q == trade[p].partner
           v == [trade EXCEPT ![p] = [trade[p] EXCEPT !.timer = "unset"]]
           a == [trade EXCEPT ![p] = [trade[p] EXCEPT !.timer = "unset", !.accepted = TRUE]]
<1>1. trade[p] \in Trade /\ trade \in Trades /\ IsTrading(trade, p) /\ Sound(trade)
  BY TypeIsSound DEF TypeOK, Trades, SetAccept
<1>2. q \in Slots \ {p}
  BY <1>1, PartnerOf DEF Sound
<1>3. CASE trade[p].timer # "due"
  <2> DEFINE u == SetDelayToAcceptButton(trade, p)
  <2>1. trade' = u
    BY <1>3 DEF SetAccept
  <2>2. /\ u \in Trades
        /\ \A s \in Slots \ {p} : u[s] = trade[s]
        /\ u[p].partner = trade[p].partner /\ u[p].offer = trade[p].offer /\ u[p].accepted = FALSE
    BY <1>1, DelayEffect
  <2> HIDE DEF u
  <2>3. Sound(u)
    BY <1>1, <2>2 DEF Sound, IsTrading
  <2> QED
    BY <2>1, <2>2, <2>3 DEF Changes
<1>4. CASE trade[p].timer = "due"
  <2>1. ~trade[p].accepted
    BY <1>1, <1>4 DEF Sound
  <2>2. [trade[p] EXCEPT !.timer = "unset"] \in Trade /\ [trade[p] EXCEPT !.timer = "unset", !.accepted = TRUE] \in Trade
    BY <1>1 DEF Trade
  <2>3. /\ v \in Trades
        /\ \A s \in Slots \ {p} : v[s] = trade[s]
        /\ v[p].partner = trade[p].partner /\ v[p].offer = trade[p].offer /\ ~v[p].accepted
    BY <1>1, <2>1, <2>2 DEF Trades, Trade
  <2>4. /\ a \in Trades
        /\ \A s \in Slots \ {p} : a[s] = trade[s]
        /\ a[p].partner = trade[p].partner /\ a[p].offer = trade[p].offer /\ a[p].timer = "unset"
    BY <1>1, <2>2 DEF Trades, Trade
  <2>5. [v EXCEPT ![p].accepted = TRUE] = a
    BY <1>1 DEF Trades, Trade
  <2>6. /\ v[q].accepted = trade[q].accepted
        /\ v[q].partner = trade[q].partner
        /\ Deliverable(v, p, q) = Deliverable(trade, p, q)
        /\ Deliverable(v, q, v[q].partner) = Deliverable(trade, q, trade[q].partner)
    BY <1>2, <2>3 DEF Deliverable
  <2>7. Sound(v) /\ Sound(a)
    BY <1>1, <2>3, <2>4 DEF Sound, IsTrading
  <2>8. Accepts(trade, a, p)
    BY <1>1, <2>1, <2>4, <2>7 DEF Accepts
  <2>9. Changes(trade, v, p)
    BY <2>3, <2>7 DEF Changes
  <2>10. Changes(trade, SendTradeStatus(v, p, TRUE, FALSE), p)
    BY <1>1, <2>3, StatusChanges
  <2>11. \/ trade' = a /\ ~v[q].accepted
         \/ trade' = SendTradeStatus(v, p, TRUE, FALSE)
         \/ trade' = a /\ Deliverable(v, p, q) /\ Deliverable(v, q, v[q].partner)
         \/ trade' = v
    BY <1>4, <2>5 DEF SetAccept
  <2> HIDE DEF v, a
  <2> QED
    BY <2>6, <2>8, <2>9, <2>10, <2>11 DEF BothDeliver
<1> QED
  BY <1>3, <1>4

(* A delay that passes is a change of no partner, offer or accept. *)
LEMMA DelayChanges ==
  ASSUME TypeOK, NEW p \in Slots, DelayPasses(p)
  PROVE  Changes(trade, trade', p)
<1>1. trade[p] \in Trade /\ trade \in Trades /\ Sound(trade) /\ trade[p].timer = "running"
  BY TypeIsSound DEF TypeOK, Trades, DelayPasses
<1>2. ~trade[p].accepted /\ IsTrading(trade, p)
  BY <1>1 DEF Sound, Idle
<1>3. [trade[p] EXCEPT !.timer = "due"] \in Trade
  BY <1>1 DEF Trade
<1>4. trade' = [trade EXCEPT ![p] = [trade[p] EXCEPT !.timer = "due"]]
  BY DEF DelayPasses
<1>5. /\ trade' \in Trades
      /\ \A s \in Slots \ {p} : trade'[s] = trade[s]
      /\ trade'[p].partner = trade[p].partner /\ trade'[p].offer = trade[p].offer /\ ~trade'[p].accepted
  BY <1>1, <1>2, <1>3, <1>4 DEF Trades, Trade
<1>6. Sound(trade')
  BY <1>1, <1>2, <1>5 DEF Sound, IsTrading
<1> QED
  BY <1>5, <1>6 DEF Changes

-----------------------------------------------------------------------------
(* Every step, by what it does to the trades. *)
LEMMA StepEffect ==
  ASSUME TypeOK, Next
  PROVE  \/ trade' = trade
         \/ \E p \in Slots :
              \/ Restarts(trade, trade', p)
              \/ Changes(trade, trade', p)
              \/ /\ Accepts(trade, trade', p)
                 /\ ~trade[trade[p].partner].accepted \/ BothDeliver(trade, p)
              \/ AddPlayer(p)
<1> USE TypeIsSound
<1>1. ASSUME NEW p \in Slots, NEW q \in Slots, StartTradingWith(p, q)
      PROVE  Restarts(trade, trade', p)
  <2>1. trade' = Result(trade, p, q) /\ p # q
    BY <1>1 DEF StartTradingWith, Result
  <2> QED
    BY <2>1, StartRestarts
<1>2. ASSUME NEW p \in Slots, TradeCancel(p)
      PROVE  Restarts(trade, trade', p)
  BY <1>2, CancelRestarts DEF TradeCancel
<1>3. ASSUME NEW p \in Slots, Fault(p) \/ RemovePlayer(p) \/ \E i \in Items, n \in 0..MaxHold : InventoryChanges(p, i, n)
      PROVE  trade' = trade
  BY <1>3 DEF Fault, RemovePlayer, InventoryChanges
<1> QED
  BY <1>1, <1>2, <1>3, AddItemChanges, RemoveItemChanges, SetAcceptEffect, AcceptFalseChanges, DelayChanges DEF Next

LEMMA AddPlayerEffect ==
  ASSUME TypeOK, NEW p \in Slots, AddPlayer(p)
  PROVE  /\ Sound(trade') /\ trade'[p] = Idle
         /\ \A s \in Slots \ {p} : trade'[s] = trade[s]
         /\ p \notin online
         /\ inv' \in [Slots -> Offers]
<1>1. trade \in Trades /\ Sound(trade) /\ inv \in [Slots -> Offers]
  BY TypeIsSound DEF TypeOK, Trades
<1>2. trade' = [trade EXCEPT ![p] = Idle] /\ p \notin online
  BY DEF AddPlayer
<1>3. trade' \in Trades /\ trade'[p] = Idle /\ \A s \in Slots \ {p} : trade'[s] = trade[s]
  BY <1>1, <1>2, IdleIsTrade DEF Trades
<1>4. Idle.partner = NoOne /\ ~Idle.accepted
  BY DEF Idle
<1>5. Sound(trade')
  BY <1>1, <1>3, <1>4, ItemsAssumption DEF Sound, IsTrading
<1>6. inv' \in [Slots -> Offers]
  BY <1>1 DEF AddPlayer
<1> QED
  BY <1>2, <1>3, <1>5, <1>6

LEMMA SoundPreserved ==
  ASSUME TypeOK, [Next]_vars
  PROVE  Sound(trade')
<1>1. CASE UNCHANGED vars
  BY <1>1, TypeIsSound DEF vars
<1>2. CASE Next
  BY <1>2, StepEffect, AddPlayerEffect, TypeIsSound DEF Restarts, Changes, Accepts
<1> QED
  BY <1>1, <1>2

(* The rest of the state is simple. *)
LEMMA OthersPreserved ==
  ASSUME TypeOK, [Next]_vars
  PROVE  /\ up' \in BOOLEAN /\ online' \subseteq Slots /\ inv' \in [Slots -> Offers]
         /\ moves' \in Nat /\ joins' \in Nat
<1>1. up \in BOOLEAN /\ online \subseteq Slots /\ inv \in [Slots -> Offers] /\ moves \in Nat /\ joins \in Nat
  BY DEF TypeOK
<1>2. CASE UNCHANGED <<up, online, inv, moves, joins>>
  BY <1>1, <1>2
<1>3. ASSUME NEW p \in Slots, Fault(p)
      PROVE  up' = FALSE /\ UNCHANGED <<online, inv, moves, joins>>
  BY <1>3 DEF Fault
<1>4. ASSUME NEW p \in Slots, RemovePlayer(p)
      PROVE  online' = online \ {p} /\ UNCHANGED <<up, inv, moves, joins>>
  BY <1>4 DEF RemovePlayer
<1>5. ASSUME NEW p \in Slots, AddPlayer(p)
      PROVE  online' = online \cup {p} /\ inv' \in [Slots -> Offers] /\ joins' = joins + 1 /\ UNCHANGED <<up, moves>>
  BY <1>5, AddPlayerEffect DEF AddPlayer
<1>6. ASSUME NEW p \in Slots, NEW i \in Items, NEW n \in 0..MaxHold, InventoryChanges(p, i, n)
      PROVE  inv' \in [Slots -> Offers] /\ moves' = moves + 1 /\ UNCHANGED <<up, online, joins>>
  <2>1. [inv[p] EXCEPT ![i] = n] \in Offers
    BY <1>1 DEF Offers
  <2>2. inv' = [inv EXCEPT ![p] = [inv[p] EXCEPT ![i] = n]]
    BY <1>6 DEF InventoryChanges
  <2> QED
    BY <1>1, <1>6, <2>1, <2>2 DEF InventoryChanges
<1>7. CASE UNCHANGED vars
  BY <1>2, <1>7 DEF vars
<1>8. CASE Next
  <2>1. \/ UNCHANGED <<up, online, inv, moves, joins>>
        \/ \E p \in Slots : \/ Fault(p) \/ RemovePlayer(p) \/ AddPlayer(p)
                            \/ \E i \in Items, n \in 0..MaxHold : InventoryChanges(p, i, n)
    BY <1>8 DEF Next, Message, StartTradingWith, AddItem, OnRemoveItem, SetAccept, SetAcceptFalse, TradeCancel,
       DelayPasses
  <2>2. CASE \E p \in Slots : Fault(p)
    BY <1>1, <1>3, <2>2
  <2>3. CASE \E p \in Slots : RemovePlayer(p)
    BY <1>1, <1>4, <2>3
  <2>4. CASE \E p \in Slots : AddPlayer(p)
    BY <1>1, <1>5, <2>4
  <2>5. CASE \E p \in Slots : \E i \in Items, n \in 0..MaxHold : InventoryChanges(p, i, n)
    BY <1>1, <1>6, <2>5
  <2> QED
    BY <1>2, <2>1, <2>2, <2>3, <2>4, <2>5
<1> QED
  BY <1>7, <1>8

(* The state is well typed, with what TypeOK says of the fields of a       *)
(* trade: who has accepted is in a trade and waits for no delay.           *)
THEOREM TypeCorrect == Spec => []TypeOK
<1>1. Init => TypeOK
  <2> SUFFICES ASSUME Init PROVE TypeOK
    OBVIOUS
  <2>1. Idle.partner = NoOne /\ ~Idle.accepted
    BY DEF Idle
  <2> QED
    BY <2>1, IdleIsTrade, ItemsAssumption DEF Init, TypeOK, IsTrading
<1>2. TypeOK /\ [Next]_vars => TypeOK'
  BY SoundPreserved, OthersPreserved DEF TypeOK, Sound, Trades, IsTrading
<1> QED
  BY <1>1, <1>2, PTL DEF Spec

-----------------------------------------------------------------------------
(* An accept that a step leaves stands for the same deal as before. *)
Stands(t, u) ==
  \A p \in Slots : t[p].accepted /\ u[p].accepted /\ Mutual(u, p) =>
    LET q == u[p].partner IN
      /\ Mutual(t, p) /\ t[p].partner = q
      /\ u[p].offer = t[p].offer /\ u[q].offer = t[q].offer

LEMMA RestartsStand ==
  ASSUME NEW t, NEW u, Sound(t), NEW r \in Slots, Restarts(t, u, r)
  PROVE  Stands(t, u)
<1> SUFFICES ASSUME NEW p \in Slots, t[p].accepted, u[p].accepted, Mutual(u, p)
             PROVE  LET q == u[p].partner IN
                      /\ Mutual(t, p) /\ t[p].partner = q
                      /\ u[p].offer = t[p].offer /\ u[q].offer = t[q].offer
  BY DEF Stands
<1> DEFINE q == u[p].partner
<1>1. u[p] = t[p] /\ q # r /\ p # r
  BY DEF Restarts
<1>2. q \in Slots
  BY PartnerOf DEF Restarts, Sound, Mutual
<1>3. CASE Mutual(t, r) /\ q = t[r].partner
  BY <1>1, <1>2, <1>3, ItemsAssumption DEF Mutual, IsTrading, Restarts
<1>4. CASE ~(Mutual(t, r) /\ q = t[r].partner)
  BY <1>1, <1>2, <1>4 DEF Mutual, IsTrading, Restarts
<1> QED
  BY <1>3, <1>4

LEMMA ChangesStand ==
  ASSUME NEW t, NEW u, Sound(t), NEW r \in Slots, Changes(t, u, r)
  PROVE  Stands(t, u)
<1> SUFFICES ASSUME NEW p \in Slots, t[p].accepted, u[p].accepted, Mutual(u, p)
             PROVE  LET q == u[p].partner IN
                      /\ Mutual(t, p) /\ t[p].partner = q
                      /\ u[p].offer = t[p].offer /\ u[q].offer = t[q].offer
  BY DEF Stands
<1> DEFINE q == u[p].partner
<1>1. q \in Slots
  BY PartnerOf DEF Changes, Sound, Mutual
<1>2. Mutual(t, p) /\ t[p].partner = q /\ u[p].offer = t[p].offer
  BY <1>1 DEF Mutual, IsTrading, Changes
<1>3. u[q].offer = t[q].offer
  <2>1. CASE q = r
    <3>1. t[q].partner = p /\ p # NoOne
      BY <1>2, ItemsAssumption DEF Mutual
    <3>2. Mutual(t, r) /\ t[r].partner = p
      BY <1>2, <3>1, <2>1 DEF Mutual, IsTrading
    <3> QED
      BY <3>2, <2>1 DEF Changes
  <2>2. CASE q # r
    BY <1>1, <2>2 DEF Changes
  <2> QED
    BY <2>1, <2>2
<1> QED
  BY <1>2, <1>3

LEMMA AcceptsStand ==
  ASSUME NEW t, NEW u, Sound(t), NEW r \in Slots, Accepts(t, u, r)
  PROVE  Stands(t, u)
<1> SUFFICES ASSUME NEW p \in Slots, t[p].accepted, u[p].accepted, Mutual(u, p)
             PROVE  LET q == u[p].partner IN
                      /\ Mutual(t, p) /\ t[p].partner = q
                      /\ u[p].offer = t[p].offer /\ u[q].offer = t[q].offer
  BY DEF Stands
<1>1. u[p].partner \in Slots
  BY PartnerOf DEF Accepts, Sound, Mutual
<1> QED
  BY <1>1 DEF Mutual, IsTrading, Accepts

LEMMA AddPlayerStands ==
  ASSUME TypeOK, NEW r \in Slots, AddPlayer(r)
  PROVE  Stands(trade, trade')
<1>1. /\ Sound(trade') /\ trade'[r] = Idle
      /\ \A s \in Slots \ {r} : trade'[s] = trade[s]
  BY AddPlayerEffect
<1>2. Idle.partner = NoOne /\ ~Idle.accepted
  BY DEF Idle
<1> SUFFICES ASSUME NEW p \in Slots, trade[p].accepted, trade'[p].accepted, Mutual(trade', p)
             PROVE  LET q == trade'[p].partner IN
                      /\ Mutual(trade, p) /\ trade[p].partner = q
                      /\ trade'[p].offer = trade[p].offer /\ trade'[q].offer = trade[q].offer
  BY DEF Stands
<1>3. trade'[p].partner \in Slots \ {r}
  BY <1>1, <1>2, PartnerOf, ItemsAssumption DEF Sound, Mutual
<1>4. p # r
  BY <1>1, <1>2
<1> QED
  BY <1>1, <1>3, <1>4 DEF Mutual, IsTrading

LEMMA UnchangedStands ==
  ASSUME TypeOK, trade' = trade
  PROVE  Stands(trade, trade')
BY DEF Stands

(* An accept stands for the deal it was given for. *)
THEOREM AcceptsForDeal == Spec => AcceptStandsForDeal
<1>1. TypeOK /\ [Next]_vars => Stands(trade, trade')
  <2> SUFFICES ASSUME TypeOK, [Next]_vars PROVE Stands(trade, trade')
    OBVIOUS
  <2>1. CASE Next
    BY <2>1, StepEffect, TypeIsSound, RestartsStand, ChangesStand, AcceptsStand, AddPlayerStands, UnchangedStands
  <2>2. CASE UNCHANGED vars
    BY <2>2, UnchangedStands DEF vars
  <2> QED
    BY <2>1, <2>2
<1>2. Stands(trade, trade') =>
        [\A p \in Slots : trade[p].accepted /\ trade'[p].accepted /\ Mutual(trade', p) =>
           LET q == trade'[p].partner IN
             /\ Mutual(trade, p) /\ trade[p].partner = q
             /\ trade'[p].offer = trade[p].offer /\ trade'[q].offer = trade[q].offer]_vars
  BY DEF Stands
<1> QED
  BY <1>1, <1>2, TypeCorrect, PTL DEF Spec, AcceptStandsForDeal

-----------------------------------------------------------------------------
(* Of a mutual trade of P that a step ends nothing is left. *)
Cleared(t, u, P) ==
  \A p \in P : Mutual(t, p) /\ t[p].partner \in P /\ ~Mutual(u, p) =>
    \A r \in {p, t[p].partner} : ~u[r].accepted /\ u[r].offer = NoOffer

LEMMA RestartsClear ==
  ASSUME NEW t, NEW u, Sound(t), NEW r \in Slots, Restarts(t, u, r), NEW P, P \subseteq Slots
  PROVE  Cleared(t, u, P)
<1> SUFFICES ASSUME NEW p \in Slots, Mutual(t, p), ~Mutual(u, p)
             PROVE  \A s \in {p, t[p].partner} : ~u[s].accepted /\ u[s].offer = NoOffer
  BY DEF Cleared
<1> DEFINE q == t[p].partner
<1>1. q \in Slots /\ q # p /\ t[q].partner = p /\ Mutual(t, q)
  BY PartnerOf, ItemsAssumption DEF Sound, Mutual, IsTrading
<1>2. CASE p = r
  BY <1>2 DEF Restarts
<1>3. CASE q = r
  BY <1>1, <1>3 DEF Restarts
<1>4. CASE p # r /\ q # r
  <2>1. ~(Mutual(t, r) /\ p = t[r].partner) /\ ~(Mutual(t, r) /\ q = t[r].partner)
    BY <1>1, <1>4 DEF Mutual
  <2>2. u[p].partner = q /\ u[q].partner = p
    BY <1>1, <1>4, <2>1 DEF Restarts
  <2>3. Mutual(u, p)
    BY <1>1, <2>2, ItemsAssumption DEF Mutual, IsTrading
  <2> QED
    BY <2>3
<1> QED
  BY <1>2, <1>3, <1>4

LEMMA PartnersKeptClear ==
  ASSUME NEW t, NEW u, Sound(t), \A s \in Slots : u[s].partner = t[s].partner, NEW P, P \subseteq Slots
  PROVE  Cleared(t, u, P)
<1> SUFFICES ASSUME NEW p \in Slots, Mutual(t, p)
             PROVE  Mutual(u, p)
  BY DEF Cleared
<1>1. t[p].partner \in Slots
  BY PartnerOf DEF Sound, Mutual
<1> QED
  BY <1>1 DEF Mutual, IsTrading

LEMMA AddPlayerClears ==
  ASSUME TypeOK, NEW r \in Slots, AddPlayer(r)
  PROVE  Cleared(trade, trade', online)
<1>1. \A p \in online : trade'[p] = trade[p]
  BY AddPlayerEffect DEF TypeOK
<1> QED
  BY <1>1 DEF Cleared, Mutual, IsTrading

(* A mutual trade ends for both at once. *)
THEOREM TradeEndsForBoth == Spec => EndsForBoth
<1>1. TypeOK /\ [Next]_vars => Cleared(trade, trade', online)
  <2> SUFFICES ASSUME TypeOK, [Next]_vars PROVE Cleared(trade, trade', online)
    OBVIOUS
  <2>1. Sound(trade) /\ online \subseteq Slots
    BY TypeIsSound DEF TypeOK
  <2>2. CASE trade' = trade
    BY <2>1, <2>2, PartnersKeptClear
  <2>3. ASSUME NEW p \in Slots, Changes(trade, trade', p) \/ Accepts(trade, trade', p)
        PROVE  Cleared(trade, trade', online)
    <3>1. \A s \in Slots : trade'[s].partner = trade[s].partner
      BY <2>3 DEF Changes, Accepts
    <3> QED
      BY <2>1, <3>1, PartnersKeptClear
  <2>4. CASE Next
    BY <2>1, <2>2, <2>3, <2>4, StepEffect, RestartsClear, AddPlayerClears
  <2>5. CASE UNCHANGED vars
    BY <2>2, <2>5 DEF vars
  <2> QED
    BY <2>4, <2>5
<1>2. Cleared(trade, trade', online) =>
        [\A p \in online : Mutual(trade, p) /\ trade[p].partner \in online /\ ~Mutual(trade', p) =>
           \A r \in {p, trade[p].partner} : ~trade'[r].accepted /\ trade'[r].offer = NoOffer]_vars
  BY DEF Cleared
<1> QED
  BY <1>1, <1>2, TypeCorrect, PTL DEF Spec, EndsForBoth

-----------------------------------------------------------------------------
(* Who comes to have accepted on both sides could deliver. *)
Delivers(t, u) ==
  \A p \in Slots : Mutual(u, p) /\ IsBothAccepted(u, p) /\ ~IsBothAccepted(t, p) =>
    LET q == u[p].partner IN Deliverable(u, p, q) /\ Deliverable(u, q, p)

LEMMA NoAcceptDelivers ==
  ASSUME NEW t, NEW u, Sound(u), \A s \in Slots : u[s].accepted => u[s] = t[s]
  PROVE  Delivers(t, u)
<1> SUFFICES ASSUME NEW p \in Slots, Mutual(u, p), IsBothAccepted(u, p)
             PROVE  IsBothAccepted(t, p)
  BY DEF Delivers
<1>1. u[p].partner \in Slots
  BY PartnerOf DEF Sound, Mutual
<1> QED
  BY <1>1 DEF IsBothAccepted, IsTrading

LEMMA AcceptDelivers ==
  ASSUME NEW t, NEW u, Sound(t), NEW r \in Slots, Accepts(t, u, r),
         ~t[t[r].partner].accepted \/ BothDeliver(t, r)
  PROVE  Delivers(t, u)
<1> SUFFICES ASSUME NEW p \in Slots, Mutual(u, p), IsBothAccepted(u, p), ~IsBothAccepted(t, p)
             PROVE  LET q == u[p].partner IN Deliverable(u, p, q) /\ Deliverable(u, q, p)
  BY DEF Delivers
<1> DEFINE q == u[p].partner
<1>1. /\ q \in Slots \ {p} /\ u[q].partner = p
      /\ t[p].partner = q /\ t[q].partner = p
  BY PartnerOf DEF Accepts, Sound, Mutual
<1>2. Deliverable(u, p, q) = Deliverable(t, p, q) /\ Deliverable(u, q, p) = Deliverable(t, q, p)
  BY <1>1 DEF Deliverable, Accepts
<1>3. CASE p = r
  <2>1. t[q].accepted
    BY <1>1, <1>3 DEF Accepts, IsBothAccepted
  <2> QED
    BY <1>1, <1>2, <1>3, <2>1 DEF BothDeliver
<1>4. CASE p # r
  <2>1. q = r
    BY <1>1, <1>4 DEF Accepts, IsBothAccepted, IsTrading
  <2>2. t[p].accepted
    BY <1>4 DEF Accepts, IsBothAccepted
  <2> QED
    BY <1>1, <1>2, <2>1, <2>2 DEF BothDeliver
<1> QED
  BY <1>3, <1>4

(* Both sides come to have accepted only when both can deliver. *)
THEOREM AcceptsChecked == Spec => BothAcceptChecked
<1>1. TypeOK /\ [Next]_vars => Delivers(trade, trade')
  <2> SUFFICES ASSUME TypeOK, [Next]_vars PROVE Delivers(trade, trade')
    OBVIOUS
  <2>1. Sound(trade) /\ Sound(trade')
    BY TypeIsSound, SoundPreserved
  <2>2. CASE trade' = trade
    BY <2>1, <2>2, NoAcceptDelivers
  <2>3. ASSUME NEW p \in Slots, Restarts(trade, trade', p) \/ Changes(trade, trade', p)
        PROVE  Delivers(trade, trade')
    <3>1. \A s \in Slots : trade'[s].accepted => trade'[s] = trade[s]
      BY <2>3 DEF Restarts, Changes
    <3> QED
      BY <2>1, <3>1, NoAcceptDelivers
  <2>4. ASSUME NEW p \in Slots, AddPlayer(p)
        PROVE  Delivers(trade, trade')
    <3>1. \A s \in Slots : trade'[s].accepted => trade'[s] = trade[s]
      BY <2>4, AddPlayerEffect DEF Idle
    <3> QED
      BY <2>1, <3>1, NoAcceptDelivers
  <2>5. CASE Next
    BY <2>1, <2>2, <2>3, <2>4, <2>5, StepEffect, AcceptDelivers
  <2>6. CASE UNCHANGED vars
    BY <2>2, <2>6 DEF vars
  <2> QED
    BY <2>5, <2>6
<1>2. Delivers(trade, trade') =>
        [\A p \in Slots : Mutual(trade', p) /\ IsBothAccepted(trade', p) /\ ~IsBothAccepted(trade, p) =>
           LET q == trade'[p].partner IN Deliverable(trade', p, q) /\ Deliverable(trade', q, p)]_vars
  BY DEF Delivers
<1> QED
  BY <1>1, <1>2, TypeCorrect, PTL DEF Spec, BothAcceptChecked
=============================================================================
