-------------------------- MODULE MCWorldSessions --------------------------
(* Small instances of WorldSessions: two game servers, two users, two worlds. *)
EXTENDS WorldSessions, TLC
CONSTANTS s1, s2, u1, u2, n1, n2

Symmetry == Permutations({s1, s2}) \cup Permutations({u1, u2}) \cup Permutations({n1, n2})

(* Each user u with at[u] # NoServer has logged in there and looks at the  *)
(* world menu: a state Spec reaches, so that the commands that are left    *)
(* are spent on worlds.                                                    *)
LoggedIn(at) ==
    /\ srv = [s \in Servers |-> "ready"]
    /\ session = [u \in Users |->
         IF at[u] = NoServer THEN NoSession ELSE [server |-> at[u], world |-> 0]]
    /\ worlds = [w \in Inst |-> NoWorld]
    /\ byName = [n \in Names |-> 0]
    /\ nextInst = 1
    /\ dbq = <<>>
    /\ dbRows = {}
    /\ up = [s \in Servers |-> <<>>]
    /\ down = [s \in Servers |-> <<>>]
    /\ proc = [s \in Servers |-> "linked"]
    /\ gw = [s \in Servers |-> [w \in Inst |-> NoGameWorld]]
    /\ obj = [s \in Servers |-> [u \in Users |->
               IF at[u] = s THEN [NoPlayer EXCEPT !.st = "game"] ELSE NoPlayer]]
    /\ client = [u \in Users |->
         IF at[u] = NoServer THEN Offline ELSE [st |-> "on", at |-> at[u], mode |-> "welcome"]]
    /\ cmds = 0
    /\ losses = 0

(* Both users are in the menu. *)
MCInit == \E at \in [Users -> Servers] : LoggedIn(at)
MCSpec == MCInit /\ [][Next]_vars

(* One user is in the menu of s1, the other still has to log in. *)
MCLiveInit == LoggedIn([u \in Users |-> IF u = u1 THEN s1 ELSE NoServer])
MCFairSpec == MCLiveInit /\ [][Next]_vars /\ Fairness
=============================================================================
