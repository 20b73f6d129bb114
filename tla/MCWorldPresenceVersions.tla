---------------------- MODULE MCWorldPresenceVersions ----------------------
(* Small instances of WorldPresenceVersions. *)
EXTENDS WorldPresenceVersions, TLC
CONSTANTS s1, s2, w1, w2, w3
=============================================================================
