-------------------------- MODULE WorldList_proofs --------------------------
(***************************************************************************)
(* What every implementation of WorldList may rely on: theorems for any    *)
(* servers and worlds.                                                     *)
(***************************************************************************)
EXTENDS WorldList, TLAPS

(* The versions are a sequence that is never empty and every connected     *)
(* server is at one of them.                                               *)
VersionsTyped ==
  /\ versions \in Seq(SUBSET Worlds) /\ versions # <<>>
  /\ at \in [Servers -> Nat]
  /\ \A s \in Servers : at[s] <= Len(versions)
  /\ shown \in [Servers -> SUBSET Worlds]

(* A step keeps the versions or adds one. *)
LEMMA VersionsStep ==
  ASSUME VersionsTyped, [Next]_vars
  PROVE  versions' = versions \/ \E V \in SUBSET Worlds : versions' = Append(versions, V)
<1>1. Present \in SUBSET Worlds BY DEF VersionsTyped, Present
<1>2. ASSUME NEW w \in Worlds, Open(w) PROVE versions' = Append(versions, Present \cup {w})
  BY <1>2 DEF Open
<1>3. ASSUME NEW W \in SUBSET Worlds, Close(W) PROVE versions' = Append(versions, Present \ W)
  BY <1>3 DEF Close
<1>4. ASSUME NEW s \in Servers, Connect(s) \/ Disconnect(s) \/ Follow(s) \/ Learn(s) PROVE UNCHANGED versions
  BY <1>4 DEF Connect, Disconnect, Follow, Learn
<1> QED BY <1>1, <1>2, <1>3, <1>4 DEF Next, vars

LEMMA VersionsNext == VersionsTyped /\ [Next]_vars => VersionsTyped'
<1> SUFFICES ASSUME VersionsTyped, [Next]_vars PROVE VersionsTyped' OBVIOUS
<1>1. CASE UNCHANGED vars BY <1>1 DEF VersionsTyped, vars
<1>2. ASSUME UNCHANGED <<at, shown>> PROVE VersionsTyped'
  <2>1. /\ versions' \in Seq(SUBSET Worlds) /\ versions' # <<>>
        /\ Len(versions) \in Nat /\ Len(versions') \in Nat /\ Len(versions) <= Len(versions')
    BY VersionsStep DEF VersionsTyped
  <2>2. \A s \in Servers : at'[s] <= Len(versions') BY <1>2, <2>1 DEF VersionsTyped
  <2> QED BY <1>2, <2>1, <2>2 DEF VersionsTyped
<1>3. ASSUME NEW s \in Servers, UNCHANGED versions, Connect(s) \/ Disconnect(s) \/ Follow(s) \/ Learn(s)
      PROVE  VersionsTyped'
  <2>1. \A i \in 1..Len(versions) : versions[i] \in SUBSET Worlds BY DEF VersionsTyped
  <2>2. CASE Connect(s) BY <2>2 DEF Connect, VersionsTyped
  <2>3. CASE Disconnect(s) BY <2>3 DEF Disconnect, VersionsTyped
  <2>4. CASE Follow(s)
    <3>1. at[s] \in 1..Len(versions) /\ at[s] + 1 \in 1..Len(versions) BY <2>4 DEF Follow, VersionsTyped
    <3> QED BY <2>1, <2>4, <3>1 DEF Follow, VersionsTyped
  <2>5. CASE Learn(s)
    <3>1. at[s] \in 1..Len(versions) BY <2>5 DEF Learn, VersionsTyped
    <3> QED BY <2>1, <2>5, <3>1 DEF Learn, VersionsTyped
  <2> QED BY <1>3, <2>2, <2>3, <2>4, <2>5
<1> QED BY <1>1, <1>2, <1>3 DEF Next, Open, Close, Connect, Disconnect, Follow, Learn

LEMMA VersionsInit == Init => VersionsTyped
BY DEF Init, VersionsTyped

(* A connected server shows a part of the version it is at.                *)
THEOREM ShowsPart == Spec => []ShowsPartOfVersion
<1>1. Init => ShowsPartOfVersion BY DEF Init, ShowsPartOfVersion
<1>2. VersionsTyped /\ ShowsPartOfVersion /\ [Next]_vars => ShowsPartOfVersion'
  <2> SUFFICES ASSUME VersionsTyped, ShowsPartOfVersion, [Next]_vars, NEW t \in Servers, at'[t] # 0
               PROVE  shown'[t] \subseteq versions'[at'[t]]
    BY DEF ShowsPartOfVersion
  <2>1. \A n \in 1..Len(versions) : versions'[n] = versions[n]
    BY VersionsStep DEF VersionsTyped
  <2>2. at[t] # 0 => at[t] \in 1..Len(versions) /\ shown[t] \subseteq versions[at[t]]
    BY DEF VersionsTyped, ShowsPartOfVersion
  <2>3. CASE at'[t] = at[t] /\ shown'[t] = shown[t] BY <2>1, <2>2, <2>3
  <2>4. CASE Connect(t) BY <2>4 DEF Connect, VersionsTyped
  <2>5. CASE Disconnect(t) BY <2>5 DEF Disconnect, VersionsTyped
  <2>6. CASE Follow(t) BY <2>2, <2>6 DEF Follow, VersionsTyped
  <2>7. CASE Learn(t) BY <2>7 DEF Learn, VersionsTyped
  <2>8. (Connect(t) \/ Disconnect(t) \/ Follow(t) \/ Learn(t)) \/ (at'[t] = at[t] /\ shown'[t] = shown[t])
    BY DEF Next, vars, Open, Close, Connect, Disconnect, Follow, Learn, VersionsTyped
  <2> QED BY <2>3, <2>4, <2>5, <2>6, <2>7, <2>8
<1> QED BY <1>1, <1>2, VersionsInit, VersionsNext, PTL DEF Spec

(* A world that was taken off the list is in no later version, so a server *)
(* that follows the versions never shows it again.                         *)
THEOREM ClosedForGood == Spec => []NeverReopened
<1>1. Init => NeverReopened BY DEF Init, NeverReopened
<1>2. VersionsTyped /\ NeverReopened /\ [Next]_vars => NeverReopened'
  <2> SUFFICES ASSUME VersionsTyped, NeverReopened, [Next]_vars PROVE NeverReopened' OBVIOUS
  <2> DEFINE n == Len(versions)
  <2>1. ASSUME NEW V \in SUBSET Worlds, versions' = Append(versions, V),
               \A w \in V : w \in versions[n] \/ w \notin Ever
        PROVE  NeverReopened'
    <3> SUFFICES ASSUME NEW i \in DOMAIN versions', NEW j \in DOMAIN versions', NEW k \in DOMAIN versions',
                        i < j, j < k, NEW w \in versions'[i] \ versions'[j], w \in versions'[k]
                 PROVE  FALSE
      BY DEF NeverReopened
    <3>1. n \in Nat \ {0} /\ DOMAIN versions = 1..n /\ DOMAIN versions' = 1..(n + 1)
      BY <2>1 DEF VersionsTyped
    <3>2. i \in 1..n /\ j \in 1..n BY <3>1
    <3>3. versions'[i] = versions[i] /\ versions'[j] = versions[j] BY <2>1, <3>2 DEF VersionsTyped
    <3>4. CASE k \in 1..n
      <4>1. versions'[k] = versions[k] BY <2>1, <3>4 DEF VersionsTyped
      <4> QED BY <3>1, <3>2, <3>3, <3>4, <4>1 DEF NeverReopened
    <3>5. CASE k = n + 1
      <4>1. w \in V BY <2>1, <3>5 DEF VersionsTyped
      <4>2. w \in Ever BY <3>1, <3>2, <3>3 DEF Ever
      <4>3. w \in versions[n] BY <2>1, <4>1, <4>2
      <4>4. j # n BY <3>3, <4>3
      <4> QED BY <3>1, <3>2, <3>3, <4>3, <4>4 DEF NeverReopened
    <3> QED BY <3>1, <3>4, <3>5
  <2>2. ASSUME NEW w \in Worlds, Open(w) PROVE NeverReopened'
    <3>1. Present \cup {w} \in SUBSET Worlds BY DEF VersionsTyped, Present
    <3> QED BY <2>1, <2>2, <3>1 DEF Open, Present
  <2>3. ASSUME NEW W \in SUBSET Worlds, Close(W) PROVE NeverReopened'
    <3>1. Present \ W \in SUBSET Worlds BY DEF VersionsTyped, Present
    <3> QED BY <2>1, <2>3, <3>1 DEF Close, Present
  <2>4. ASSUME UNCHANGED versions PROVE NeverReopened' BY <2>4 DEF NeverReopened
  <2> QED BY <2>2, <2>3, <2>4 DEF Next, vars, Connect, Disconnect, Follow, Learn
<1> QED BY <1>1, <1>2, VersionsInit, VersionsNext, PTL DEF Spec
=============================================================================
