---------------------------- MODULE PlayerTrade ----------------------------
(***************************************************************************)
(* Trades between the players of a game server.  Each player object has a  *)
(* PlayerTrade with a pointer to its partner; a trade is mutual once two   *)
(* players point at each other.  Both offer items, see the other's offer   *)
(* and accept; when both have accepted, a dialog asks them to confirm,     *)
(* which no handler answers: items never change hands.                     *)
(*                                                                         *)
(* Messages of players are handled one at a time on the game loop, one     *)
(* step each.  The half second between two changes of an offer is left     *)
(* out, so changes come at any pace.  A slot is the memory of a player     *)
(* object: a player who leaves does not end the trade, the partner's       *)
(* pointer dangles, and what it leads to is what the memory still holds, a *)
(* fault, or the player object that is put there next.                     *)
(*                                                                         *)
(* Of an item only its count matters, of the world's say on a World Key    *)
(* and of backpack room only whether they let the trade pass.  Items are   *)
(* those that may be traded.  The lock flag, shown to the clients only, is *)
(* left out.                                                               *)
(*                                                                         *)
(* Bounds: MaxHold caps the count of an item (maxCanHold), MaxOffers the   *)
(* items of an offer (4 in the code), MaxMoves the changes of inventories, *)
(* MaxJoins the players who join after the first.                          *)
(***************************************************************************)
EXTENDS Integers, FiniteSets

CONSTANTS Slots, Items, Fish, WorldKeys, NoOne, MaxHold, MaxOffers, MaxMoves, MaxJoins

ASSUME ItemsAssumption ==
  Fish \subseteq Items /\ WorldKeys \subseteq Items /\ NoOne \notin Slots
ASSUME BoundsAssumption ==
  MaxHold \in Nat /\ MaxOffers \in Nat /\ MaxMoves \in Nat /\ MaxJoins \in Nat

VARIABLES
  up,      \* whether the game server runs
  online,  \* the slots that hold a player
  trade,   \* the PlayerTrade of each slot
  inv,     \* the count of each item a player has
  moves, joins

vars == <<up, online, trade, inv, moves, joins>>

Offers == [Items -> 0..MaxHold]
NoOffer == [i \in Items |-> 0]
Offered(o) == {i \in Items : o[i] > 0}

(* The delay timer of the accept button passes once: it is "due" when the  *)
(* delay is over and nobody has asked yet, and then "unset".               *)
Trade ==
  [partner : Slots \cup {NoOne}, accepted : BOOLEAN, timer : {"running", "due", "unset"}, offer : Offers]

Idle == [partner |-> NoOne, accepted |-> FALSE, timer |-> "due", offer |-> NoOffer]

-----------------------------------------------------------------------------
(* Parts of the handlers, as functions of all trades t. *)

IsTrading(t, p) == t[p].partner # NoOne
Mutual(t, p) == IsTrading(t, p) /\ t[t[p].partner].partner = p
IsBothAccepted(t, p) == IsTrading(t, p) /\ t[p].accepted /\ t[t[p].partner].accepted

(* A defect: the accept stands. *)
SetDelayOnly(t, p) == [t EXCEPT ![p].timer = "running"]
SetDelayToAcceptButton(t, p) == [t EXCEPT ![p].accepted = FALSE, ![p].timer = "running"]

(* A defect: the partner is told, and may still accept at once. *)
SendTradeStatusToSelf(t, p, dealChanged, resetAccept) ==
  IF dealChanged THEN [t EXCEPT ![p].accepted = FALSE] ELSE t
SendTradeStatus(t, p, dealChanged, resetAccept) ==
  LET own == IF dealChanged THEN [t EXCEPT ![p].accepted = FALSE] ELSE t IN
    IF Mutual(t, p) /\ (dealChanged \/ resetAccept) THEN SetDelayToAcceptButton(own, t[p].partner) ELSE own

EndTrade(t, p) == [t EXCEPT ![p] = Idle]

(* A defect: the partner's trade goes on. *)
KillTradeAlone(t, p) == EndTrade(t, p)
KillTrade(t, p) == EndTrade(IF Mutual(t, p) THEN EndTrade(t, t[p].partner) ELSE t, p)

(* What p offers is there, and q could hold it (CheckTradingItems...). *)
Deliverable(t, p, q) ==
  \A i \in Offered(t[p].offer) :
    /\ inv[p][i] >= t[p].offer[i]
    /\ i \in Fish => inv[q][i] = 0
    /\ i \notin WorldKeys => inv[q][i] + t[p].offer[i] <= MaxHold

-----------------------------------------------------------------------------
(* Messages of the player in slot p.                                       *)

Message(p) == up /\ p \in online /\ UNCHANGED <<up, online, inv, moves, joins>>

(* Of a player who points at a slot that holds no player the handler may   *)
(* also fail: see Fault.                                                   *)
StartTradingWith(p, q) ==
  /\ Message(p)
  /\ q \in online \ {p}
  /\ LET killed == KillTrade(trade, p)
         started == [killed EXCEPT ![p].partner = q]
     IN trade' = IF killed[q].partner \notin {NoOne, p} THEN killed
                 ELSE IF killed[q].partner = p
                 THEN SendTradeStatus(SendTradeStatus(started, p, TRUE, FALSE), q, TRUE, FALSE)
                 ELSE started

(* OnTradeItem and OnAddItem: n of item i replace what was offered of it;  *)
(* of fish all are.  fine is what the world says of a World Key.           *)
AddItem(p, i, n, fine) ==
  /\ Message(p)
  /\ inv[p][i] >= n /\ n > 0
  /\ IsTrading(trade, p) /\ ~IsBothAccepted(trade, p)
  /\ Cardinality(Offered(trade[p].offer)) < MaxOffers
  /\ i \in WorldKeys => fine
  /\ trade' = SendTradeStatus([trade EXCEPT ![p].offer[i] = IF i \in Fish THEN inv[p][i] ELSE n], p, TRUE, TRUE)

OnRemoveItem(p, i) ==
  /\ Message(p)
  /\ IsTrading(trade, p) /\ ~IsBothAccepted(trade, p)
  /\ i \in Offered(trade[p].offer)
  /\ trade' = SendTradeStatus([trade EXCEPT ![p].offer[i] = 0], p, TRUE, TRUE)

(* The accept button.  Before its delay is over the delay starts anew.     *)
(* Who accepts second must have sent the partner's offer as it is, and     *)
(* both offers are checked.                                                *)
SetAcceptChecksOwn(p, matches, fine) == \* a defect
  /\ Message(p)
  /\ IsTrading(trade, p)
  /\ LET q == trade[p].partner
         t == [trade EXCEPT ![p].timer = "unset"]
     IN trade' = IF trade[p].timer # "due" THEN SetDelayToAcceptButton(trade, p)
                 ELSE IF ~t[q].accepted THEN [t EXCEPT ![p].accepted = TRUE]
                 ELSE IF ~matches THEN SendTradeStatus(t, p, TRUE, FALSE)
                 ELSE IF Deliverable(t, p, q) /\ fine THEN [t EXCEPT ![p].accepted = TRUE]
                 ELSE t
SetAccept(p, matches, fine) ==
  /\ Message(p)
  /\ IsTrading(trade, p)
  /\ LET q == trade[p].partner
         t == [trade EXCEPT ![p].timer = "unset"]
     IN trade' = IF trade[p].timer # "due" THEN SetDelayToAcceptButton(trade, p)
                 ELSE IF ~t[q].accepted THEN [t EXCEPT ![p].accepted = TRUE]
                 ELSE IF ~matches THEN SendTradeStatus(t, p, TRUE, FALSE)
                 ELSE IF Deliverable(t, p, q) /\ Deliverable(t, q, t[q].partner) /\ fine
                 THEN [t EXCEPT ![p].accepted = TRUE]
                 ELSE t
SetAcceptFalse(p) ==
  /\ Message(p)
  /\ IsTrading(trade, p)
  /\ trade' = SendTradeStatus([trade EXCEPT ![p].accepted = FALSE], p, FALSE, TRUE)

TradeCancel(p) == Message(p) /\ trade' = KillTrade(trade, p)

Fault(p) ==
  /\ up /\ p \in online
  /\ IsTrading(trade, p) /\ trade[p].partner \notin online
  /\ up' = FALSE
  /\ UNCHANGED <<online, trade, inv, moves, joins>>

-----------------------------------------------------------------------------
(* The accept delay passes; inventories change by other play; players      *)
(* leave, and others take the memory of their objects.                     *)

DelayPasses(p) ==
  /\ up /\ trade[p].timer = "running"
  /\ trade' = [trade EXCEPT ![p].timer = "due"]
  /\ UNCHANGED <<up, online, inv, moves, joins>>

InventoryChanges(p, i, n) ==
  /\ up /\ p \in online
  /\ moves < MaxMoves /\ moves' = moves + 1
  /\ inv' = [inv EXCEPT ![p][i] = n]
  /\ UNCHANGED <<up, online, trade, joins>>

RemovePlayer(p) ==
  /\ up /\ p \in online
  /\ online' = online \ {p}
  /\ UNCHANGED <<up, trade, inv, moves, joins>>

AddPlayer(p) ==
  /\ up /\ p \notin online
  /\ joins < MaxJoins /\ joins' = joins + 1
  /\ online' = online \cup {p}
  /\ trade' = [trade EXCEPT ![p] = Idle]
  /\ \E counts \in Offers : inv' = [inv EXCEPT ![p] = counts]
  /\ UNCHANGED <<up, moves>>

Init ==
  /\ up = TRUE
  /\ online = Slots
  /\ trade = [p \in Slots |-> Idle]
  /\ inv \in [Slots -> Offers]
  /\ moves = 0 /\ joins = 0

Next == \E p \in Slots :
  \/ \E q \in Slots : StartTradingWith(p, q)
  \/ \E i \in Items, n \in 1..MaxHold, fine \in BOOLEAN : AddItem(p, i, n, fine)
  \/ \E i \in Items : OnRemoveItem(p, i)
  \/ \E matches, fine \in BOOLEAN : SetAccept(p, matches, fine)
  \/ SetAcceptFalse(p) \/ TradeCancel(p) \/ Fault(p)
  \/ DelayPasses(p) \/ RemovePlayer(p) \/ AddPlayer(p)
  \/ \E i \in Items, n \in 0..MaxHold : InventoryChanges(p, i, n)

Spec == Init /\ [][Next]_vars

-----------------------------------------------------------------------------
(* Properties.                                                             *)

(* The state is well typed; who has accepted is in a trade and waits for   *)
(* no delay, and only who is in a trade offers.                            *)
TypeOK ==
  /\ up \in BOOLEAN /\ online \subseteq Slots
  /\ trade \in [Slots -> Trade]
  /\ inv \in [Slots -> Offers]
  /\ moves \in Nat /\ joins \in Nat
  /\ \A p \in Slots :
       /\ trade[p].partner # p
       /\ trade[p].accepted => IsTrading(trade, p) /\ trade[p].timer = "unset"
       /\ ~IsTrading(trade, p) => trade[p] = Idle

(* An accept stands for the deal it was given for: if a player has         *)
(* accepted before and after a step that leaves him in a mutual trade, he  *)
(* was in a trade with the same partner before, and neither offer changed. *)
(* (SendTradeStatus, StartTradingWith, and EndTrade keep to this together.)*)
AcceptStandsForDeal ==
  [][\A p \in Slots : trade[p].accepted /\ trade'[p].accepted /\ Mutual(trade', p) =>
       LET q == trade'[p].partner IN
         /\ Mutual(trade, p) /\ trade[p].partner = q
         /\ trade'[p].offer = trade[p].offer /\ trade'[q].offer = trade[q].offer]_vars

(* A mutual trade of two players who are there ends for both at once: then *)
(* nothing of it is left on either side, whoever ends it and however.      *)
EndsForBoth ==
  [][\A p \in online : Mutual(trade, p) /\ trade[p].partner \in online /\ ~Mutual(trade', p) =>
       \A r \in {p, trade[p].partner} : ~trade'[r].accepted /\ trade'[r].offer = NoOffer]_vars

(* Both sides of a mutual trade come to have accepted only when both could *)
(* deliver: what they offer is still theirs, whatever they did since they  *)
(* offered it, and fits the other's limits.                                *)
BothAcceptChecked ==
  [][\A p \in Slots : Mutual(trade', p) /\ IsBothAccepted(trade', p) /\ ~IsBothAccepted(trade, p) =>
       LET q == trade'[p].partner IN Deliverable(trade', p, q) /\ Deliverable(trade', q, p)]_vars
=============================================================================
