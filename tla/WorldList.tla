------------------------------ MODULE WorldList ------------------------------
(***************************************************************************)
(* What the list of worlds promises.  The Master's list goes through       *)
(* versions; a version that takes a world off is never followed by one     *)
(* with that world.  A connected server is at some version and follows the *)
(* Master from version to version, never back and never past one.  It may  *)
(* have connected at a version it was not told of; until it is, it shows   *)
(* only a part of its version.                                             *)
(***************************************************************************)
EXTENDS Naturals, Sequences

CONSTANTS Servers, Worlds

VARIABLES
  versions,   \* the Master's list, from the first version to the present one
  at,         \* the version a server is at, 0 while it is not connected
  shown       \* the worlds a server shows

vars == <<versions, at, shown>>

Present == versions[Len(versions)]
Ever == UNION {versions[i] : i \in DOMAIN versions}

Open(w) ==
  /\ w \notin Ever
  /\ versions' = Append(versions, Present \cup {w})
  /\ UNCHANGED <<at, shown>>

Close(W) ==
  /\ W # {} /\ W \subseteq Present
  /\ versions' = Append(versions, Present \ W)
  /\ UNCHANGED <<at, shown>>

Connect(s) ==
  /\ at[s] = 0
  /\ at' = [at EXCEPT ![s] = Len(versions)]
  /\ shown' = [shown EXCEPT ![s] = {}]
  /\ UNCHANGED versions

Disconnect(s) ==
  /\ at[s] # 0
  /\ at' = [at EXCEPT ![s] = 0]
  /\ shown' = [shown EXCEPT ![s] = {}]
  /\ UNCHANGED versions

(* The server learns what the next version opens or closes. *)
Follow(s) ==
  LET old == versions[at[s]]
      new == versions[at[s] + 1]
  IN
  /\ at[s] # 0 /\ at[s] < Len(versions)
  /\ at' = [at EXCEPT ![s] = @ + 1]
  /\ shown' = [shown EXCEPT ![s] = (@ \cup (new \ old)) \ (old \ new)]
  /\ UNCHANGED versions

(* The server is told all of the version it is at. *)
Learn(s) ==
  /\ at[s] # 0
  /\ shown' = [shown EXCEPT ![s] = versions[at[s]]]
  /\ UNCHANGED <<versions, at>>

Init ==
  /\ versions = <<{}>>
  /\ at = [s \in Servers |-> 0]
  /\ shown = [s \in Servers |-> {}]

Next ==
  \/ \E w \in Worlds : Open(w)
  \/ \E W \in SUBSET Worlds : Close(W)
  \/ \E s \in Servers : Connect(s) \/ Disconnect(s) \/ Follow(s) \/ Learn(s)

Spec == Init /\ [][Next]_vars

-----------------------------------------------------------------------------
(* A server never shows a world that its version does not list.            *)
ShowsPartOfVersion == \A s \in Servers : at[s] # 0 => shown[s] \subseteq versions[at[s]]

(* Nor does it show again a world it has shown and taken off, while it     *)
(* stays connected: a world that is not in a version it has come to know,  *)
(* and was in an earlier one, is in no later version.                      *)
NeverReopened ==
  \A i, j, k \in DOMAIN versions :
    i < j /\ j < k => \A w \in versions[i] \ versions[j] : w \notin versions[k]
=============================================================================
