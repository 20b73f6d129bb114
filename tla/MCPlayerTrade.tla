--------------------------- MODULE MCPlayerTrade ---------------------------
(* Small instances of PlayerTrade. *)
EXTENDS PlayerTrade, TLC
CONSTANTS p1, p2, p3, dirt, fish

Symmetry == Permutations({p1, p2, p3})
=============================================================================
