----------------------- MODULE WorldPresenceVersions -----------------------
(***************************************************************************)
(* WorldPresence implements WorldList.  A history variable, which is not   *)
(* in the code, records the versions of the Master's list; the version a   *)
(* connected server is at is the present one less the changes that are     *)
(* still on their way to it.  The whole list that a server is sent when it *)
(* becomes ready is no change.                                             *)
(***************************************************************************)
EXTENDS WorldPresence

VARIABLE versions

versionVars == <<vars, versions>>

VInit == Init /\ versions = <<Listed>>
VNext ==
  /\ Next
  /\ versions' = IF Listed' = Listed THEN versions ELSE Append(versions, Listed')
VSpec == VInit /\ [][VNext]_versionVars
FairVSpec == VSpec /\ Fairness

Linked(s) == proc[s] = "linked"
OnTheirWay(s) == {i \in DOMAIN down[s] : down[s][i].kind \in {"created", "remove"}}

Abstract == INSTANCE WorldList WITH
  at <- [s \in Servers |-> IF Linked(s) THEN Len(versions) - Cardinality(OnTheirWay(s)) ELSE 0],
  shown <- [s \in Servers |-> IF Linked(s) THEN {w \in Worlds : list[s][w] # NoInfo} ELSE {}]

(* Every step of the Master and the game servers is a step of WorldList or *)
(* changes nothing it knows: lists follow the Master's list version by     *)
(* version, whatever connects, disconnects and crashes in between.         *)
ImplementsWorldList == Abstract!Spec
=============================================================================
