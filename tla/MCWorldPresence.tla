-------------------------- MODULE MCWorldPresence --------------------------
(* Small instances of WorldPresence: two servers, two or three worlds.     *)
EXTENDS WorldPresence, TLC
CONSTANTS s1, s2, w1, w2, w3

Symmetry == Permutations({s1, s2}) \cup Permutations({w1, w2})
=============================================================================
