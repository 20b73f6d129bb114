-------------------------- MODULE MCPlayerPresence --------------------------
(* Small instances of PlayerPresence: two servers, two users.              *)
EXTENDS PlayerPresence, TLC
CONSTANTS s1, s2, u1, u2, w1, w2

Symmetry == Permutations({w1, w2})

(* Saved worlds with one monitor, with two owners and with an owner that   *)
(* comes twice with another between.                                       *)
MCSaved == {<<u1>>, <<u1, u2, u1>>}

(* The number of s1 is also the id of u2. *)
MCSameId == [s \in Servers |-> IF s = s1 THEN u2 ELSE NoUser]
=============================================================================
