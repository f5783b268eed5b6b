--------------------------- MODULE AgentBridgeProofs ---------------------------
(***************************************************************************)
(* Proofs about AgentBridge: the types of the bridge with the capacity of  *)
(* its queues, and NeverBackward, for any enemies, intervals, ages and     *)
(* capacities.                                                             *)
(***************************************************************************)
EXTENDS AgentBridge, FiniteSetTheorems, TLAPS

(* The decision that is kept for an enemy is never staler than the newest  *)
(* that drove it: what the comparison of _drain_spade_actions keeps.       *)
LatestIsNewest == \A e \in Enemy : latest[e] <= newest[e]

BridgeInv == BridgeTypeOK /\ LatestIsNewest

-----------------------------------------------------------------------------
(* Ages.                                                                   *)

LEMMA Ages ==
    /\ Expired \in Nat /\ MaxAge \in Nat
    /\ Age \subseteq Nat /\ 0 \in Age /\ Expired \in Age
    /\ \A a \in Age : a <= Expired /\ Aged(a) \in Age /\ a <= Aged(a)
    /\ \A a, b \in Age : a <= b => Aged(a) <= Aged(b)
  BY AgeAssumption DEF Age, Expired, Aged

(* Of ages that are not all of them Expired one is the least: there are    *)
(* only so many of them.                                                   *)
LEMMA LeastAge ==
    ASSUME NEW T, T \subseteq Age, T # {}
    PROVE  \E a \in T : \A b \in T : a <= b
  <1> DEFINE Below(a) == {b \in T : b < a}
             R == StrictSubsetOrdering(T)
             F == {Below(a) : a \in T}
  <1>1. T \subseteq Nat /\ IsFiniteSet(T)
    <2>1. IsFiniteSet(Age)
      BY Ages, FS_Interval DEF Age
    <2> QED  BY <2>1, Ages, FS_Subset
  <1>2. IsWellFoundedOn(R, SUBSET T)
    <2>1. FiniteSubsetsOf(T) = SUBSET T
      BY <1>1, FS_FiniteSubsetsOfFinite
    <2> QED  BY <2>1, FS_StrictSubsetOrderingWellFounded
  <1>3. F \subseteq SUBSET T /\ F # {}
    OBVIOUS
  <1>4. PICK x \in F : \A y \in F : <<y, x>> \notin R
    <2> HIDE DEF F, R
    <2> QED  BY <1>2, <1>3, WFMin
  <1>5. PICK a \in T : x = Below(a)
    OBVIOUS
  <1>6. ASSUME NEW b \in T, b < a
        PROVE  FALSE
    <2>1. Below(b) \in F
      OBVIOUS
    <2>2. /\ \A c \in Below(b) : c \in Below(a)
          /\ b \in Below(a) /\ b \notin Below(b)
      BY <1>1, <1>6
    <2>3. <<Below(b), x>> \in R
      BY <1>5, <2>2 DEF StrictSubsetOrdering
    <2> QED  BY <1>4, <2>1, <2>3
  <1>7. \A b \in T : a <= b
    BY <1>1, <1>6
  <1> QED  BY <1>7

(* The accepted decision is one of those that came or the one from before, *)
(* and none of them is newer.                                              *)
LEMMA AcceptedIsBest ==
    ASSUME BridgeTypeOK, NEW e \in Enemy
    PROVE  Accepted(e) \in Age /\ Accepted(e) <= latest[e]
  <1> DEFINE T == {latest[e]} \union
                  {r.age : r \in {s \in ToSet(requests) : s.enemy = e /\ e \in spade}}
  <1>1. ToSet(requests) \subseteq Observation
    BY DEF BridgeTypeOK, ToSet
  <1>2. T \subseteq Age /\ latest[e] \in T
    BY <1>1 DEF BridgeTypeOK, Observation
  <1>3. Accepted(e) = CHOOSE a \in T : \A b \in T : a <= b
    BY DEF Accepted
  <1> HIDE DEF T
  <1>4. \E a \in T : \A b \in T : a <= b
    BY <1>2, LeastAge
  <1>5. Accepted(e) \in T /\ \A b \in T : Accepted(e) <= b
    BY <1>3, <1>4
  <1> QED  BY <1>2, <1>5

-----------------------------------------------------------------------------
(* The queues.                                                             *)

LEMMA PutKeepsCapacity ==
    ASSUME NEW queue \in Seq(Observation), Len(queue) <= Capacity, NEW m \in Observation
    PROVE  /\ PutLatest(queue, m) \in Seq(Observation)
           /\ Len(PutLatest(queue, m)) <= Capacity
  <1>1. Capacity \in Nat \ {0}
    BY IntervalAssumption
  <1>2. CASE Len(queue) < Capacity
    <2>1. PutLatest(queue, m) = Append(queue, m)
      BY <1>2 DEF PutLatest
    <2> QED  BY <1>1, <1>2, <2>1
  <1>3. CASE Len(queue) = Capacity
    <2>1. PutLatest(queue, m) = Append(Tail(queue), m)
      BY <1>1, <1>3 DEF PutLatest
    <2>2. Tail(queue) \in Seq(Observation) /\ Len(Tail(queue)) = Capacity - 1
      BY <1>1, <1>3
    <2> QED  BY <1>1, <2>1, <2>2
  <1> QED  BY <1>1, <1>2, <1>3

LEMMA OlderKeepsType ==
    ASSUME NEW queue \in Seq(Observation)
    PROVE  Older(queue) \in Seq(Observation) /\ Len(Older(queue)) = Len(queue)
  <1>1. \A m \in Observation : [m EXCEPT !.age = Aged(@)] \in Observation
    BY Ages DEF Observation
  <1>2. DOMAIN queue = 1..Len(queue) /\ Len(queue) \in Nat
    OBVIOUS
  <1>3. Older(queue) \in [1..Len(queue) -> Observation]
    BY <1>1, <1>2 DEF Older
  <1> QED  BY <1>2, <1>3

(* The list of the elements of a finite set.                               *)
LEMMA ListOfSet ==
    ASSUME NEW S, IsFiniteSet(S)
    PROVE  Cardinality(S) \in Nat /\ SetToSeq(S) \in [1..Cardinality(S) -> S]
  <1>1. Cardinality(S) \in Nat /\ ExistsBijection(1..Cardinality(S), S)
    BY FS_CardinalityType
  <1>2. \E g \in [1..Cardinality(S) -> S] : IsInjective(g)
    BY <1>1 DEF ExistsBijection, Bijection, Injection, IsInjective
  <1> QED  BY <1>1, <1>2 DEF SetToSeq

LEMMA PublishedKeepsCapacity ==
    ASSUME NEW queue \in Seq(Observation), NEW enemies \in SUBSET Enemy
    PROVE  /\ Published(queue, enemies) \in Seq(Observation)
           /\ Len(Published(queue, enemies)) <= Capacity
  <1> DEFINE n == Cardinality(enemies)
             new == [i \in 1..n |-> [enemy |-> SetToSeq(enemies)[i], age |-> 0]]
             all == queue \o new
             over == Len(all) - Capacity
  <1>1. Capacity \in Nat \ {0}
    BY IntervalAssumption
  <1>2. n \in Nat /\ SetToSeq(enemies) \in [1..n -> enemies]
    BY EnemyAssumption, FS_Subset, ListOfSet
  <1>3. new \in Seq(Observation)
    <2>1. \A i \in 1..n : [enemy |-> SetToSeq(enemies)[i], age |-> 0] \in Observation
      BY <1>2, Ages DEF Observation
    <2> QED  BY <1>2, <2>1
  <1>4. Published(queue, enemies) = IF over > 0 THEN SubSeq(all, over + 1, Len(all)) ELSE all
    BY DEF Published
  <1> HIDE DEF new
  <1>5. all \in Seq(Observation) /\ Len(all) \in Nat
    BY <1>3
  <1> HIDE DEF all
  <1>6. CASE over > 0
    <2>1. \A i \in over + 1..Len(all) : i \in 1..Len(all)
      BY <1>1, <1>5, <1>6
    <2> QED  BY <1>1, <1>4, <1>5, <1>6, <2>1
  <1>7. CASE ~(over > 0)
    BY <1>1, <1>4, <1>5, <1>7
  <1> QED  BY <1>6, <1>7

-----------------------------------------------------------------------------
(* The steps.                                                              *)

LEMMA StartsSound == Init => BridgeInv
  <1> SUFFICES ASSUME Init  PROVE BridgeInv
    OBVIOUS
  <1>1. Interval \in Nat \ {0} /\ Capacity \in Nat \ {0}
    BY IntervalAssumption
  <1>2. {playing, enabled, prompt} \subseteq BOOLEAN
    BY DEF Init
  <1>3. {latest, driven, newest} \subseteq [Enemy -> Age]
    BY Ages DEF Init
  <1>4. LatestIsNewest
    BY Ages DEF Init, LatestIsNewest
  <1>5. {perceptions, requests} \subseteq Seq(Observation) /\ Len(perceptions) <= Capacity
        /\ Len(requests) <= Capacity /\ held \subseteq Observation
    BY <1>1 DEF Init
  <1>6. phase \in 0..Interval - 1 /\ spade \subseteq Enemy /\ controllers \subseteq Enemy
        /\ alive \subseteq Enemy
    BY <1>1 DEF Init
  <1> QED  BY <1>2, <1>3, <1>4, <1>5, <1>6 DEF BridgeInv, BridgeTypeOK

LEMMA PhaseTurns ==
    ASSUME NEW p \in 0..Interval - 1
    PROVE  (p + 1) % Interval \in 0..Interval - 1
  BY IntervalAssumption

LEMMA HeldAges ==
    ASSUME held \subseteq Observation
    PROVE  {[m EXCEPT !.age = Aged(@)] : m \in held} \subseteq Observation
  BY Ages DEF Observation

LEMMA TicksKeep ==
    ASSUME BridgeInv, DisabledTick \/ Tick
    PROVE  BridgeInv'
  <1>1. CASE DisabledTick
    <2> USE <1>1 DEF DisabledTick, control
    <2>1. phase' \in 0..Interval - 1
      BY PhaseTurns DEF BridgeInv, BridgeTypeOK
    <2>2. held' \subseteq Observation
      BY HeldAges DEF BridgeInv, BridgeTypeOK
    <2>3. {latest', driven', newest'} \subseteq [Enemy -> Age] /\ LatestIsNewest'
      BY Ages DEF LatestIsNewest
    <2>4. {perceptions', requests'} \subseteq Seq(Observation)
          /\ Len(perceptions') <= Capacity /\ Len(requests') <= Capacity
      BY IntervalAssumption
    <2>5. {playing', enabled', prompt'} \subseteq BOOLEAN
      BY DEF BridgeInv, BridgeTypeOK
    <2>6. spade' \subseteq Enemy /\ controllers' \subseteq Enemy /\ alive' \subseteq Enemy
      BY DEF BridgeInv, BridgeTypeOK
    <2> QED  BY <2>1, <2>2, <2>3, <2>4, <2>5, <2>6 DEF BridgeInv, BridgeTypeOK
  <1>2. CASE Tick
    <2> USE <1>2 DEF Tick, control
    <2>1. phase' \in 0..Interval - 1
      BY PhaseTurns DEF BridgeInv, BridgeTypeOK
    <2>2. held' \subseteq Observation
      BY HeldAges DEF BridgeInv, BridgeTypeOK
    <2>3. \A e \in Enemy : Accepted(e) \in Age /\ Accepted(e) <= latest[e]
      BY AcceptedIsBest DEF BridgeInv
    <2>4. \A e \in Enemy : latest[e] \in Age /\ newest[e] \in Age /\ latest[e] <= newest[e]
      BY DEF BridgeInv, BridgeTypeOK, LatestIsNewest
    <2>5. \A e \in Enemy : driven'[e] \in {Accepted(e), Expired}
      OBVIOUS
    <2>6. driven' \in [Enemy -> Age]
      BY <2>3, Ages
    <2>7. latest' \in [Enemy -> Age]
      BY <2>3, Ages
    <2>8. newest' \in [Enemy -> Age]
      BY <2>4, <2>6, Ages
    <2>9. LatestIsNewest'
      <3> SUFFICES ASSUME NEW e \in Enemy  PROVE latest'[e] <= newest'[e]
        BY DEF LatestIsNewest
      <3>1. latest'[e] = Aged(Accepted(e))
        OBVIOUS
      <3>2. CASE driven'[e] < Expired
        <4>1. driven'[e] = Accepted(e)
          BY <2>5, <3>2, Ages
        <4> QED  BY <2>3, <3>1, <3>2, <4>1, Ages
      <3>3. CASE ~(driven'[e] < Expired)
        <4>1. newest'[e] = Aged(newest[e])
          BY <3>3
        <4>2. Accepted(e) <= newest[e]
          <5>1. {Accepted(e), latest[e], newest[e]} \subseteq Nat
            BY <2>3, <2>4, Ages
          <5> QED  BY <2>3, <2>4, <5>1
        <4> QED  BY <2>3, <2>4, <3>1, <4>1, <4>2, Ages
      <3> QED  BY <3>2, <3>3
    <2>10. perceptions' \in Seq(Observation) /\ Len(perceptions') <= Capacity
      <3>1. Older(perceptions) \in Seq(Observation)
        BY OlderKeepsType DEF BridgeInv, BridgeTypeOK
      <3>2. (IF phase' = 0 THEN spade \intersect alive' ELSE {}) \in SUBSET Enemy
        BY DEF BridgeInv, BridgeTypeOK
      <3> QED  BY <3>1, <3>2, PublishedKeepsCapacity
    <2>11. requests' \in Seq(Observation) /\ Len(requests') <= Capacity
      BY IntervalAssumption
    <2>12. {playing', enabled', prompt'} \subseteq BOOLEAN
      BY DEF BridgeInv, BridgeTypeOK
    <2>13. spade' \subseteq Enemy /\ controllers' \subseteq Enemy /\ alive' \subseteq Enemy
      BY DEF BridgeInv, BridgeTypeOK
    <2> QED  BY <2>1, <2>2, <2>6, <2>7, <2>8, <2>9, <2>10, <2>11, <2>12, <2>13
             DEF BridgeInv, BridgeTypeOK
  <1> QED  BY <1>1, <1>2

LEMMA AgentKeeps ==
    ASSUME BridgeInv, Poll \/ Submit
    PROVE  BridgeInv'
  <1>1. CASE Poll
    <2>1. Head(perceptions) \in Observation /\ Tail(perceptions) \in Seq(Observation)
          /\ Len(Tail(perceptions)) = Len(perceptions) - 1 /\ Len(perceptions) \in Nat
      BY <1>1 DEF Poll, BridgeInv, BridgeTypeOK
    <2>2. Len(perceptions') <= Capacity
      BY <1>1, <2>1, IntervalAssumption DEF Poll, BridgeInv, BridgeTypeOK
    <2> QED  BY <1>1, <2>1, <2>2
             DEF Poll, BridgeInv, BridgeTypeOK, LatestIsNewest, control, effect
  <1>2. CASE Submit
    <2>1. PICK m \in held : held' = held \ {m} /\ requests' = PutLatest(requests, m)
      BY <1>2 DEF Submit
    <2>2. requests' \in Seq(Observation) /\ Len(requests') <= Capacity
      BY <2>1, PutKeepsCapacity DEF BridgeInv, BridgeTypeOK
    <2> QED  BY <1>2, <2>1, <2>2
             DEF Submit, BridgeInv, BridgeTypeOK, LatestIsNewest, control, effect
  <1> QED  BY <1>1, <1>2

LEMMA ControlKeeps ==
    ASSUME BridgeInv, Switch \/ EndRun \/ NextRun \/ \E e \in Enemy : Controlling(e)
    PROVE  BridgeInv'
  <1> USE DEF BridgeInv, BridgeTypeOK, LatestIsNewest, control, queues, effect
  <1>1. CASE Switch
    <2>1. enabled' \in BOOLEAN /\ playing' \in BOOLEAN /\ prompt' \in BOOLEAN
      BY <1>1 DEF Switch
    <2> QED  BY <1>1, <2>1 DEF Switch
  <1>2. CASE EndRun
    BY <1>2 DEF EndRun
  <1>3. CASE NextRun
    BY <1>3 DEF NextRun
  <1>4. ASSUME NEW e \in Enemy, Controlling(e)
        PROVE  BridgeInv'
    <2>1. CASE ControlWithSpade(e)
      BY <2>1 DEF ControlWithSpade
    <2>2. CASE ControlEnemy(e)
      <3>1. newest' \in [Enemy -> Age] /\ LatestIsNewest'
        BY <2>2, Ages DEF ControlEnemy
      <3> QED  BY <2>2, <3>1 DEF ControlEnemy
    <2>3. CASE Release(e)
      <3>1. {latest', newest'} \subseteq [Enemy -> Age] /\ LatestIsNewest'
        BY <2>3, Ages DEF Release
      <3> QED  BY <2>3, <3>1 DEF Release
    <2> QED  BY <1>4, <2>1, <2>2, <2>3 DEF Controlling
  <1> QED  BY <1>1, <1>2, <1>3, <1>4

(* Every step keeps the types and the order of the ages.                   *)
THEOREM BridgeInvariance == Spec => []BridgeInv
  <1>1. ASSUME BridgeInv, [Next]_vars
        PROVE  BridgeInv'
    <2>1. CASE UNCHANGED vars
      BY <1>1, <2>1
         DEF vars, control, queues, effect, BridgeInv, BridgeTypeOK, LatestIsNewest
    <2> QED  BY <1>1, <2>1, TicksKeep, AgentKeeps, ControlKeeps DEF Next
  <1> QED  BY StartsSound, <1>1, PTL DEF Spec

(* The queues of the bridge stay within their capacity and hold            *)
(* perceptions of enemies, whatever _put_latest drops.                     *)
THEOREM BridgeTypes == Spec => []BridgeTypeOK
  BY BridgeInvariance, PTL DEF BridgeInv

(* No late answer sends an enemy back to a decision older than one that    *)
(* has driven it (the comparison of _drain_spade_actions).                 *)
THEOREM DecisionsGoForward == Spec => NeverBackward
  <1>1. BridgeInv => (Tick => \A e \in Enemy : driven'[e] < Expired => driven'[e] <= newest[e])
    <2> SUFFICES ASSUME BridgeInv, Tick, NEW e \in Enemy, driven'[e] < Expired
                 PROVE  driven'[e] <= newest[e]
      OBVIOUS
    <2>1. Accepted(e) \in Age /\ Accepted(e) <= latest[e]
      BY AcceptedIsBest DEF BridgeInv
    <2>2. driven'[e] = Accepted(e)
      BY Ages DEF Tick
    <2>3. latest[e] \in Age /\ newest[e] \in Age /\ latest[e] <= newest[e]
      BY DEF BridgeInv, BridgeTypeOK, LatestIsNewest
    <2>4. {Accepted(e), latest[e], newest[e]} \subseteq Nat
      BY <2>1, <2>3, Ages
    <2> QED  BY <2>1, <2>2, <2>3, <2>4
  <1> QED  BY BridgeInvariance, <1>1, PTL DEF NeverBackward
=============================================================================
