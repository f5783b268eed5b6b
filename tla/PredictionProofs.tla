-------------------------- MODULE PredictionProofs --------------------------
(***************************************************************************)
(* Proofs about Prediction, for any size of the history, tolerance,        *)
(* smoothing and calibration: the types of the client, and the bound of    *)
(* the lead.  The bound rests on the tick that each frame owes to the      *)
(* correction of the last one: it is part of the inductive invariant.      *)
(***************************************************************************)
EXTENDS Prediction, NaturalsInduction, SequenceTheorems, FiniteSetTheorems, TLAPS

-----------------------------------------------------------------------------
(* Arithmetic and positions.                                               *)

(* A scaling keeps the order.                                              *)
LEMMA Scaled ==
    ASSUME NEW g \in Nat, NEW a \in Int, NEW b \in Int, a <= b
    PROVE  g * a <= g * b
  <1>1. g * (b - a) >= 0
    OBVIOUS
  <1>2. g * (b - a) = g * b - g * a
    OBVIOUS
  <1> QED  BY <1>1, <1>2

(* What the baseline moves by, a quotient rounded down, is no more than    *)
(* the tolerance, and never takes it below zero.                           *)
LEMMA Quotient ==
    ASSUME NEW g \in Nat \ {0}, NEW d \in Int, NEW t \in Nat, NEW b \in Nat,
           d <= g * t, -b <= d
    PROVE  /\ d \div g \in Int /\ d \div g <= t /\ -b <= d \div g
           /\ 0 <= d \div g \/ d <= d \div g
  OBVIOUS

(* A set of positions that is not empty has a first one: the one below     *)
(* which there are fewest.                                                 *)
LEMMA FirstPosition ==
    ASSUME NEW n \in Nat, NEW T, T \subseteq 1..n, T # {}
    PROVE  \E i \in T : \A j \in T : i <= j
  <1> DEFINE Below(i) == {j \in T : j < i}
             F == {Below(i) : i \in T}
             R == StrictSubsetOrdering(1..n)
  <1>1. IsWellFoundedOn(R, SUBSET (1..n))
    <2>1. IsFiniteSet(1..n)
      BY FS_Interval
    <2>2. FiniteSubsetsOf(1..n) = SUBSET (1..n)
      BY <2>1, FS_FiniteSubsetsOfFinite
    <2> QED  BY <2>2, FS_StrictSubsetOrderingWellFounded
  <1>2. F \subseteq SUBSET (1..n) /\ F # {}
    OBVIOUS
  <1>3. PICK x \in F : \A y \in F : <<y, x>> \notin R
    <2> HIDE DEF F, R
    <2> QED  BY <1>1, <1>2, WFMin
  <1>4. PICK i \in T : x = Below(i)
    OBVIOUS
  <1>5. ASSUME NEW j \in T, j < i
        PROVE  FALSE
    <2> T \subseteq Int
      OBVIOUS
    <2>1. /\ \A k \in Below(j) : k \in Below(i)
          /\ j \in Below(i) /\ j \notin Below(j)
      BY <1>5
    <2>2. <<Below(j), x>> \in R
      BY <2>1, <1>2, <1>4 DEF StrictSubsetOrdering
    <2> QED  BY <2>2, <1>3
  <1> QED  BY <1>5

-----------------------------------------------------------------------------
(* The input history.                                                      *)

(* push never exceeds the capacity nor the entries there are.              *)
LEMMA NewestShort ==
    ASSUME NEW entries \in Seq(Nat)
    PROVE  /\ Newest(entries) \in Seq(Nat)
           /\ Len(Newest(entries)) <= Capacity
           /\ Len(Newest(entries)) <= Len(entries)
  <1> DEFINE kept == SmallerOf(Len(entries), Capacity)
             from == Len(entries) - kept + 1
  <1>1. /\ Len(entries) \in Nat /\ kept \in Nat
        /\ kept <= Len(entries) /\ kept <= Capacity
    BY CapacityAssumption DEF SmallerOf
  <1>2. \A i \in from..Len(entries) : entries[i] \in Nat
    <2> HIDE DEF kept
    <2> QED  BY <1>1, ElementOfSeq
  <1>3. /\ SubSeq(entries, from, Len(entries)) \in Seq(Nat)
        /\ Len(SubSeq(entries, from, Len(entries)))
             = IF from <= Len(entries) THEN Len(entries) - from + 1 ELSE 0
    <2> HIDE DEF kept
    <2> QED  BY <1>1, <1>2, SubSeqProperties
  <1>4. Newest(entries) = SubSeq(entries, from, Len(entries))
    BY DEF Newest
  <1> HIDE DEF kept
  <1> QED  BY <1>1, <1>3, <1>4

(* The predicted ticks of a frame lengthen the history by no more than     *)
(* themselves.                                                             *)
LEMMA PredictedShort ==
    ASSUME NEW entries \in Seq(Nat), NEW from \in Nat, NEW ticks \in Nat
    PROVE  /\ Predicted(entries, from, ticks) \in Seq(Nat)
           /\ Len(Predicted(entries, from, ticks)) <= Capacity
           /\ Len(Predicted(entries, from, ticks)) <= Len(entries) + ticks
  <1> DEFINE new == [i \in 1..ticks |-> from + i]
  <1>1. new \in Seq(Nat) /\ Len(new) = ticks
    OBVIOUS
  <1>2. entries \o new \in Seq(Nat) /\ Len(entries \o new) = Len(entries) + ticks
    <2> HIDE DEF new
    <2> QED  BY <1>1, ConcatProperties
  <1>3. Predicted(entries, from, ticks) = Newest(entries \o new)
    BY DEF Predicted
  <1> HIDE DEF new
  <1> QED  BY <1>2, <1>3, NewestShort

(* acknowledge keeps an end of the history.                                *)
LEMMA UnacknowledgedShort ==
    ASSUME NEW entries \in Seq(Nat), NEW number \in Nat
    PROVE  /\ Unacknowledged(entries, number) \in Seq(Nat)
           /\ Len(Unacknowledged(entries, number)) <= Len(entries)
  <1> DEFINE newer == {i \in 1..Len(entries) : entries[i] > number}
             first == CHOOSE i \in newer : \A j \in newer : i <= j
  <1>0. Len(entries) \in Nat
    OBVIOUS
  <1>1. CASE newer = {}
    <2>1. Unacknowledged(entries, number) = <<>>
      BY <1>1 DEF Unacknowledged
    <2> QED  BY <2>1, <1>0
  <1>2. CASE newer # {}
    <2>1. first \in newer
      <3>1. newer \subseteq 1..Len(entries)
        OBVIOUS
      <3>2. \E i \in newer : \A j \in newer : i <= j
        <4> HIDE DEF newer
        <4> QED  BY <1>0, <1>2, <3>1, FirstPosition
      <3> HIDE DEF newer
      <3> QED  BY <3>2
    <2>2. first \in 1..Len(entries)
      BY <2>1
    <2>3. Unacknowledged(entries, number) = SubSeq(entries, first, Len(entries))
      BY <1>2 DEF Unacknowledged
    <2> HIDE DEF first
    <2>4. \A i \in first..Len(entries) : entries[i] \in Nat
      BY <1>0, <2>2, ElementOfSeq
    <2>5. /\ SubSeq(entries, first, Len(entries)) \in Seq(Nat)
          /\ Len(SubSeq(entries, first, Len(entries)))
               = IF first <= Len(entries) THEN Len(entries) - first + 1 ELSE 0
      BY <1>0, <2>2, <2>4, SubSeqProperties
    <2> QED  BY <1>0, <2>2, <2>3, <2>5
  <1> QED  BY <1>1, <1>2

(* What a reconciliation keeps is part of the history.                     *)
LEMMA PendingShort ==
    ASSUME buffer \in Seq(Nat), seq \in Nat, NEW number \in Nat
    PROVE  /\ Pending(number) \in Seq(Nat)
           /\ Len(Pending(number)) <= Len(buffer)
  <1>1. Len(buffer) \in Nat /\ <<>> \in Seq(Nat) /\ Len(<<>>) = 0
    OBVIOUS
  <1> QED  BY <1>1, UnacknowledgedShort DEF Pending

-----------------------------------------------------------------------------
(* The invariant.                                                          *)

(* The numbers a host has sent have a greatest, which is its own.          *)
Topped == \A h \in Host : sent[h] # {} => \E n \in sent[h] : \A m \in sent[h] : m <= n

(* The calibration moves the baseline by a tolerance a frame at most, and  *)
(* between two frames the lead with the tick that is owed is within the    *)
(* tolerance of it, unless the next frame stands still.                    *)
BaselineBounded == baseline <= (Calibration - calibrating) * Tolerance
OwedTick ==
    IF draining THEN adjustment = 0
    ELSE adjustment # -1 =>
            Grain * (Len(buffer) + adjustment) <= baseline + Grain * Tolerance

IInv == PredictionTypeOK /\ Topped /\ BaselineBounded /\ LeadBounded /\ OwedTick

LEMMA Constants ==
    /\ Capacity \in Nat \ {0} /\ Grain \in Nat \ {0} /\ Tolerance \in Nat \ {0}
    /\ Calibration \in Nat /\ MaxSyncs \in Nat
  BY CapacityAssumption, BoundAssumption

(* A shorter history is a smaller lead.                                    *)
LEMMA Shorter ==
    ASSUME NEW s \in Seq(Nat), NEW t \in Seq(Nat), Len(s) <= Len(t)
    PROVE  Grain * Len(s) <= Grain * Len(t) /\ Grain * Len(s) \in Nat /\ Grain * Len(t) \in Nat
  <1>1. Len(s) \in Nat /\ Len(t) \in Nat
    OBVIOUS
  <1>2. Grain * Len(s) <= Grain * Len(t)
    <2> DEFINE a == Len(s)
               b == Len(t)
    <2>1. a \in Nat /\ b \in Nat /\ a <= b /\ Grain \in Nat
      BY <1>1, Constants
    <2> HIDE DEF a, b
    <2>2. Grain * (b - a) >= 0
      BY <2>1
    <2>3. Grain * (b - a) = Grain * b - Grain * a
      BY <2>1
    <2>4. Grain * a <= Grain * b
      BY <2>1, <2>2, <2>3
    <2> QED  BY <2>4 DEF a, b
  <1> QED  BY <1>1, <1>2, Constants

LEMMA InitIInv == Init => IInv
  <1> SUFFICES ASSUME Init PROVE IInv
    OBVIOUS
  <1> USE Constants DEF Init, Host
  <1>1. sent = [h \in Host |-> {}]
    BY 1..0 = {}
  <1>2. PredictionTypeOK
    <2>1. sent \in [Host -> SUBSET Nat]
      BY <1>1
    <2>2. adopted \in Stamp
      BY DEF Stamp, Start
    <2>3. shadow \in [Remote -> Stamp \cup {NoShadow}]
      OBVIOUS
    <2>4. syncs \in Seq(Nat) /\ buffer \in Seq(Nat) /\ Len(buffer) = 0
      OBVIOUS
    <2>5. /\ Len(buffer) <= Capacity /\ rejoins \in 0..MaxSyncs /\ seq \in Nat /\ last \in Nat
          /\ adjustment \in {-1, 0, 1} /\ baseline \in Nat /\ calibrating \in 0..Calibration
      BY <2>4
    <2>6. live \in 0..2 /\ following \in Host
      OBVIOUS
    <2>7. draining \in BOOLEAN
      BY Zenon
    <2> QED  BY ONLY <2>1, <2>2, <2>3, <2>4, <2>5, <2>6, <2>7 DEF PredictionTypeOK
  <1>3. Topped
    BY <1>1 DEF Topped
  <1>4. BaselineBounded
    BY DEF BaselineBounded
  <1>5. Grain * 0 = 0 /\ Calibration * Tolerance \in Nat /\ Grain * (Tolerance + 1) \in Nat
        /\ Grain * Tolerance \in Nat
    OBVIOUS
  <1>6. LeadBounded /\ OwedTick
    BY <1>5 DEF LeadBounded, OwedTick
  <1> QED  BY <1>2, <1>3, <1>4, <1>6 DEF IInv

(* The greatest number sent is a number.                                   *)
LEMMA NumberOfHost ==
    ASSUME PredictionTypeOK, Topped, NEW h \in Host
    PROVE  /\ Number(h) \in Nat
           /\ sent[h] # {} => Number(h) \in sent[h]
           /\ \A m \in sent[h] : m <= Number(h)
  <1>1. sent[h] \subseteq Nat
    BY DEF PredictionTypeOK
  <1>2. CASE sent[h] = {}
    BY <1>2 DEF Number
  <1>3. CASE sent[h] # {}
    <2>1. \E n \in sent[h] : \A m \in sent[h] : m <= n
      BY <1>3 DEF Topped
    <2>2. Number(h) = CHOOSE n \in sent[h] : \A m \in sent[h] : m <= n
      BY <1>3 DEF Number
    <2> QED  BY <1>1, <2>1, <2>2
  <1> QED  BY <1>2, <1>3

(* The hosts do not touch the client.                                      *)
LEMMA HostsKeep ==
    ASSUME IInv, HostFrame \/ HostSync \/ Crash \/ (\E number \in sent[1] : Promote(number))
    PROVE  IInv'
  <1> USE DEF IInv, lobby, hosts, engine, lead
  <1>1. CASE HostFrame
    <2>1. live \in Host /\ Number(live) \in Nat /\ \A m \in sent[live] : m <= Number(live)
      BY <1>1, NumberOfHost DEF HostFrame, PredictionTypeOK, Host
    <2>2. PredictionTypeOK'
      BY <1>1, <2>1 DEF HostFrame, PredictionTypeOK
    <2>3. Topped'
      <3> SUFFICES ASSUME NEW h \in Host, sent'[h] # {}
                   PROVE  \E n \in sent'[h] : \A m \in sent'[h] : m <= n
        BY DEF Topped
      <3>1. CASE h = live
        <4>1. sent'[h] = sent[h] \cup {Number(live) + 1}
          BY <1>1, <3>1, <2>1 DEF HostFrame, PredictionTypeOK
        <4>2. \A m \in sent'[h] : m <= Number(live) + 1
          BY <4>1, <2>1, <3>1 DEF PredictionTypeOK
        <4> QED  BY <4>1, <4>2
      <3>2. CASE h # live
        BY <1>1, <3>2 DEF HostFrame, PredictionTypeOK, Topped
      <3> QED  BY <3>1, <3>2
    <2>4. BaselineBounded' /\ LeadBounded' /\ OwedTick'
      BY <1>1 DEF HostFrame, BaselineBounded, LeadBounded, OwedTick
    <2> QED  BY <2>2, <2>3, <2>4
  <1>2. CASE HostSync
    <2>1. Number(1) \in Nat
      BY NumberOfHost DEF Host
    <2>2. PredictionTypeOK'
      BY <1>2, <2>1, Constants DEF HostSync, PredictionTypeOK
    <2>3. Topped' /\ BaselineBounded' /\ LeadBounded' /\ OwedTick'
      BY <1>2 DEF HostSync, Topped, BaselineBounded, LeadBounded, OwedTick
    <2> QED  BY <2>2, <2>3
  <1>3. CASE Crash
    <2>1. PredictionTypeOK'
      BY <1>3 DEF Crash, PredictionTypeOK
    <2>2. Topped' /\ BaselineBounded' /\ LeadBounded' /\ OwedTick'
      BY <1>3 DEF Crash, Topped, BaselineBounded, LeadBounded, OwedTick
    <2> QED  BY <2>1, <2>2
  <1>4. ASSUME NEW number \in sent[1], Promote(number)
        PROVE  IInv'
    <2>1. number \in Nat /\ sent' = [sent EXCEPT ![2] = {number + 1}]
      BY <1>4 DEF Promote, PredictionTypeOK, Host
    <2>2. PredictionTypeOK'
      BY <1>4, <2>1 DEF Promote, PredictionTypeOK, Host
    <2>3. Topped'
      <3>1. sent'[2] = {number + 1} /\ sent'[1] = sent[1]
        BY <2>1 DEF PredictionTypeOK, Host
      <3> QED  BY <2>1, <3>1 DEF Topped, Host
    <2>4. BaselineBounded' /\ LeadBounded' /\ OwedTick'
      BY <1>4 DEF Promote, BaselineBounded, LeadBounded, OwedTick
    <2> QED  BY <2>2, <2>3, <2>4
  <1> QED  BY <1>1, <1>2, <1>3, <1>4

(* The ticks of the next frame keep the history within the bound, before   *)
(* anything is dropped.                                                    *)
LEMMA GrowthBounded ==
    ASSUME IInv, ~draining
    PROVE  Grain * (Len(buffer) + (1 + adjustment))
               <= Calibration * Tolerance + Grain * (Tolerance + 1)
  <1>1. Len(buffer) \in Nat /\ adjustment \in {-1, 0, 1}
    BY DEF IInv, PredictionTypeOK
  <1>2. CASE adjustment = -1
    <2>1. Len(buffer) + (1 + adjustment) = Len(buffer)
      BY <1>1, <1>2
    <2> QED  BY <2>1 DEF IInv, LeadBounded
  <1>3. CASE adjustment # -1
    <2> DEFINE n     == Len(buffer) + adjustment
               lead1 == Grain * n
               drift == Grain * Tolerance
               most  == Calibration * Tolerance
    <2>1. n \in Int /\ Len(buffer) + (1 + adjustment) = n + 1
      BY <1>1
    <2>2. lead1 <= baseline + drift
      BY <1>3 DEF IInv, OwedTick
    <2>3. baseline \in Nat /\ baseline <= most
      <3>1. Tolerance * (Calibration - calibrating) <= Tolerance * Calibration
        BY Scaled, Constants DEF IInv, PredictionTypeOK
      <3> QED  BY <3>1, Constants DEF IInv, BaselineBounded, PredictionTypeOK
    <2> HIDE DEF n
    <2>4. /\ Grain * (n + 1) = lead1 + Grain /\ Grain * (Tolerance + 1) = drift + Grain
          /\ {lead1, drift, most, Grain} \subseteq Int
      BY <2>1, Constants
    <2> HIDE DEF lead1, drift, most
    <2>5. lead1 + Grain <= most + (drift + Grain)
      BY <2>2, <2>3, <2>4
    <2> QED  BY <2>1, <2>4, <2>5 DEF most
  <1> QED  BY <1>2, <1>3

(* The frame up to its packets: the ticks it owes lengthen the history by  *)
(* no more than the tolerance leaves.                                      *)
LEMMA StartFrameKeeps ==
    ASSUME IInv, StartFrame
    PROVE  IInv'
  <1> USE DEF IInv, hosts
  <1> DEFINE world == IF syncs # <<>> THEN syncs[Len(syncs)] ELSE seq
             ticks == 1 + adjustment
  <1>1. world \in Nat /\ ticks \in {0, 1, 2} /\ buffer \in Seq(Nat) /\ Len(buffer) \in Nat
    <2>1. syncs # <<>> => syncs[Len(syncs)] \in Nat
      BY DEF PredictionTypeOK
    <2> QED  BY <2>1 DEF PredictionTypeOK
  <1>2. /\ buffer' = Predicted(buffer, world, ticks) /\ seq' = world + ticks
        /\ adjustment' = 0 /\ draining' = TRUE /\ ~draining /\ syncs' = <<>>
        /\ adopted' = (IF syncs # <<>> THEN [host |-> 1, seq |-> world] ELSE adopted)
        /\ last' = (IF syncs # <<>> THEN world ELSE last)
        /\ UNCHANGED <<live, sent, rejoins, following, baseline, calibrating, shadow>>
    BY DEF StartFrame
  <1> HIDE DEF world, ticks
  <1>3. /\ buffer' \in Seq(Nat) /\ Len(buffer') \in Nat
        /\ Len(buffer') <= Capacity /\ Len(buffer') <= Len(buffer) + ticks
    BY <1>1, <1>2, PredictedShort
  <1>4. PredictionTypeOK'
    <2>1. adopted' \in Stamp /\ last' \in Nat /\ seq' \in Nat /\ syncs' \in Seq(Nat)
      BY <1>1, <1>2 DEF PredictionTypeOK, Stamp, Host
    <2> QED  BY <1>2, <1>3, <2>1 DEF PredictionTypeOK
  <1>5. Topped' /\ BaselineBounded' /\ OwedTick'
    BY <1>2 DEF Topped, BaselineBounded, OwedTick
  <1>6. LeadBounded'
    <2>1. Grain * Len(buffer') <= Grain * (Len(buffer) + ticks)
      <3>1. Len(buffer') \in Int /\ Len(buffer) + ticks \in Int
        BY <1>1, <1>3
      <3> QED  BY <3>1, <1>3, Scaled, Constants
    <2>2. Grain * (Len(buffer) + ticks) <= Calibration * Tolerance + Grain * (Tolerance + 1)
      BY <1>2, GrowthBounded DEF ticks
    <2> DEFINE new  == Grain * Len(buffer')
               old  == Grain * (Len(buffer) + ticks)
               most == Calibration * Tolerance + Grain * (Tolerance + 1)
    <2>3. new \in Int /\ old \in Int /\ most \in Int
      BY <1>1, <1>3, Constants
    <2>4. new <= most
      <3>1. new <= old /\ old <= most
        BY <2>1, <2>2
      <3> HIDE DEF new, old, most
      <3> QED  BY <2>3, <3>1
    <2> QED  BY <2>4, <1>2 DEF LeadBounded
  <1> QED  BY <1>4, <1>5, <1>6

(* A snapshot shortens the history.                                        *)
LEMMA ReceiveKeeps ==
    ASSUME IInv, NEW h \in Host, NEW n \in sent[h], Receive([host |-> h, seq |-> n])
    PROVE  IInv'
  <1> USE DEF IInv, hosts, lobby, lead
  <1> DEFINE snapshot == [host |-> h, seq |-> n]
  <1>1. n \in Nat /\ snapshot \in Stamp /\ snapshot.seq = n /\ snapshot.host = h
    BY DEF PredictionTypeOK, Stamp
  <1>2. /\ draining /\ last' = n /\ adopted' = snapshot
        /\ buffer' = Pending(n) /\ seq' = n + Len(Pending(n))
        /\ shadow' = Updated(shadow, snapshot)
        /\ UNCHANGED <<live, sent, syncs, rejoins, following, adjustment, baseline,
                       calibrating, draining>>
    BY <1>1 DEF Receive
  <1>3. /\ buffer \in Seq(Nat) /\ Len(buffer) \in Nat
        /\ buffer' \in Seq(Nat) /\ Len(buffer') \in Nat /\ Len(buffer') <= Len(buffer)
    <2>1. buffer \in Seq(Nat) /\ seq \in Nat
      BY DEF PredictionTypeOK
    <2>2. Pending(n) \in Seq(Nat) /\ Len(Pending(n)) <= Len(buffer)
      BY ONLY <2>1, <1>1, PendingShort
    <2> QED  BY ONLY <2>1, <2>2, <1>2
  <1>4. PredictionTypeOK'
    <2>1. shadow' \in [Remote -> Stamp \cup {NoShadow}]
      BY <1>1, <1>2 DEF Updated, PredictionTypeOK
    <2>2. seq' \in Nat /\ Len(buffer') <= Capacity
      BY <1>1, <1>2, <1>3, Constants DEF PredictionTypeOK
    <2> HIDE DEF snapshot
    <2> QED  BY <1>1, <1>2, <1>3, <2>1, <2>2 DEF PredictionTypeOK
  <1>5. Topped' /\ BaselineBounded' /\ OwedTick'
    BY <1>2 DEF Topped, BaselineBounded, OwedTick
  <1>6. LeadBounded'
    <2>1. Grain * Len(buffer') <= Grain * Len(buffer)
      BY <1>3, Shorter
    <2> QED  BY <2>1, <1>3, Constants DEF LeadBounded
  <1> QED  BY <1>4, <1>5, <1>6

(* A reconnection calibrates anew and leaves the history alone.            *)
LEMMA ReconnectKeeps ==
    ASSUME IInv, Reconnect
    PROVE  IInv'
  <1> USE DEF IInv, hosts
  <1>1. PredictionTypeOK'
    <2>1. shadow' \in [Remote -> Stamp \cup {NoShadow}]
      BY DEF Reconnect, PredictionTypeOK
    <2>2. /\ syncs' \in Seq(Nat) /\ following' \in Host /\ baseline' \in Nat
          /\ calibrating' \in 0..Calibration /\ last' \in Nat
      BY Constants DEF Reconnect, Host
    <2> QED  BY <2>1, <2>2 DEF Reconnect, PredictionTypeOK
  <1>2. BaselineBounded'
    BY Constants DEF Reconnect, BaselineBounded
  <1>3. Topped' /\ LeadBounded' /\ OwedTick'
    BY DEF Reconnect, Topped, LeadBounded, OwedTick
  <1> QED  BY <1>1, <1>2, <1>3

(* _adjust_prediction_lead: what the next frame owes depends on the drift, *)
(* and the baseline follows a lead that is within the tolerance.           *)
LEMMA EndFrameKeeps ==
    ASSUME IInv, EndFrame
    PROVE  IInv'
  <1> USE DEF IInv, hosts, lobby, engine
  <1> DEFINE l == Len(buffer)
             long == Grain * l
             drift == Grain * Tolerance
             deviation == long - baseline
  <1>1. /\ l \in Nat /\ long \in Nat /\ drift \in Nat /\ baseline \in Nat
        /\ calibrating \in 0..Calibration /\ deviation \in Int /\ Grain <= drift
    <2>1. Grain * 1 <= Grain * Tolerance /\ Grain * 1 = Grain
      BY Scaled, Constants
    <2>2. l \in Nat /\ baseline \in Nat /\ calibrating \in 0..Calibration
      BY DEF PredictionTypeOK
    <2>3. Grain * l \in Nat /\ Grain * Tolerance \in Nat
      BY <2>2, Constants
    <2> QED  BY <2>1, <2>2, <2>3
  <1>2. /\ draining' = FALSE
        /\ adjustment' = (IF deviation > drift THEN -1 ELSE IF deviation < -drift THEN 1 ELSE 0)
        /\ baseline' = (IF adjustment' = 0 /\ calibrating > 0
                        THEN baseline + (deviation \div Grain) ELSE baseline)
        /\ calibrating' = (IF calibrating > 0 THEN calibrating - 1 ELSE 0)
        /\ UNCHANGED <<live, sent, syncs, rejoins, following, seq, adopted, last,
                       buffer, shadow>>
    BY DEF EndFrame
  <1> HIDE DEF deviation, drift, long, l
  <1>3. /\ adjustment' \in {-1, 0, 1}
        /\ adjustment' = 0 => -drift <= deviation /\ deviation <= drift
        /\ adjustment' = 1 => deviation < -drift
    BY <1>1, <1>2
  <1>4. adjustment' = 0 =>
            /\ deviation \div Grain \in Int
            /\ deviation \div Grain <= Tolerance /\ -baseline <= deviation \div Grain
            /\ 0 <= deviation \div Grain \/ deviation <= deviation \div Grain
    <2>1. -baseline <= deviation
      BY <1>1 DEF deviation
    <2> QED  BY <2>1, <1>1, <1>3, Quotient, Constants DEF drift
  <1>5. baseline' \in Nat /\ calibrating' \in 0..Calibration
    BY <1>1, <1>2, <1>4, Constants
  <1>6. PredictionTypeOK'
    BY <1>2, <1>3, <1>5 DEF PredictionTypeOK
  <1>7. BaselineBounded'
    <2>1. CASE adjustment' = 0 /\ calibrating > 0
      <3>1. calibrating' = calibrating - 1 /\ baseline' <= baseline + Tolerance
        BY <2>1, <1>1, <1>2, <1>4, Constants
      <3>2. (Calibration - (calibrating - 1)) * Tolerance
                = (Calibration - calibrating) * Tolerance + Tolerance
        BY <1>1, Constants
      <3> QED  BY <3>1, <3>2, <1>1, <1>5, Constants DEF BaselineBounded
    <2>2. CASE ~(adjustment' = 0 /\ calibrating > 0)
      <3>1. baseline' = baseline
        BY <2>2, <1>2
      <3>2. CASE calibrating' = calibrating
        BY <3>1, <3>2 DEF BaselineBounded
      <3>3. CASE calibrating' = calibrating - 1
        <4>1. (Calibration - (calibrating - 1)) * Tolerance
                  = (Calibration - calibrating) * Tolerance + Tolerance
          BY <1>1, Constants
        <4>2. (Calibration - calibrating) * Tolerance \in Int
          BY <1>1, Constants
        <4> QED  BY <3>1, <3>3, <4>1, <4>2, <1>1, Constants DEF BaselineBounded
      <3> QED  BY <3>2, <3>3, <1>1, <1>2
    <2> QED  BY <2>1, <2>2
  <1>8. OwedTick'
    <2>1. CASE adjustment' = 0
      <3>1. long <= baseline' + drift
        <4>1. baseline' = baseline \/ baseline' = baseline + (deviation \div Grain)
          BY <1>2
        <4>2. long = baseline + deviation
          BY <1>1 DEF deviation
        <4>3. deviation <= drift /\ (0 <= deviation \div Grain \/ deviation <= deviation \div Grain)
          BY <2>1, <1>3, <1>4
        <4> DEFINE q == deviation \div Grain
        <4>4. q \in Int
          BY <2>1, <1>4
        <4> HIDE DEF q
        <4>5. CASE baseline' = baseline
          BY <4>2, <4>3, <4>5, <1>1
        <4>6. CASE baseline' = baseline + q
          <5>1. 0 <= q \/ deviation <= q
            BY <4>3 DEF q
          <5> QED  BY <4>2, <4>3, <4>4, <4>6, <5>1, <1>1
        <4> QED  BY <4>1, <4>5, <4>6 DEF q
      <3>2. Grain * (Len(buffer') + adjustment') = long
        BY <2>1, <1>1, <1>2 DEF long, l
      <3> QED  BY <3>1, <3>2, <1>2 DEF OwedTick, drift
    <2>2. CASE adjustment' = 1
      <3>1. long + Grain <= baseline' + drift
        <4>1. baseline' = baseline /\ long = baseline + deviation
          BY <2>2, <1>1, <1>2 DEF deviation
        <4> QED  BY <2>2, <4>1, <1>1, <1>3, Constants
      <3>2. Grain * (Len(buffer') + adjustment') = long + Grain
        BY <2>2, <1>1, <1>2, Constants DEF long, l
      <3> QED  BY <3>1, <3>2, <1>2 DEF OwedTick, drift
    <2>3. CASE adjustment' = -1
      BY <2>3, <1>2 DEF OwedTick
    <2> QED  BY <1>3, <2>1, <2>2, <2>3
  <1>9. Topped' /\ LeadBounded'
    BY <1>2 DEF Topped, LeadBounded
  <1> QED  BY <1>6, <1>7, <1>8, <1>9

-----------------------------------------------------------------------------
(* The invariant and what it gives.                                        *)

(* Every step keeps the invariant.                                         *)
LEMMA Inductive == IInv /\ [Next]_vars => IInv'
  <1> SUFFICES ASSUME IInv, [Next]_vars PROVE IInv'
    OBVIOUS
  <1>1. CASE HostFrame \/ HostSync \/ Crash \/ \E number \in sent[1] : Promote(number)
    BY <1>1, HostsKeep
  <1>2. CASE StartFrame
    BY <1>2, StartFrameKeeps
  <1>3. CASE EndFrame
    BY <1>3, EndFrameKeeps
  <1>4. CASE \E h \in Host : \E n \in sent[h] : Receive([host |-> h, seq |-> n])
    BY <1>4, ReceiveKeeps
  <1>5. CASE Reconnect
    BY <1>5, ReconnectKeeps
  <1>6. CASE UNCHANGED vars
    BY <1>6 DEF vars, hosts, lobby, engine, lead, IInv, PredictionTypeOK, Topped,
                BaselineBounded, LeadBounded, OwedTick
  <1> QED  BY <1>1, <1>2, <1>3, <1>4, <1>5, <1>6 DEF Next

(* The invariant holds in every state of the client.                       *)
LEMMA Invariant == Spec => []IInv
  <1> QED  BY InitIInv, Inductive, PTL DEF Spec

(* The types of the client: the input history never outgrows its capacity, *)
(* the numbers stay natural, what a frame owes is one tick or none, and    *)
(* the baseline of the lead is never below zero although it moves by a     *)
(* rounded, possibly negative, deviation (client.py:318-334).              *)
THEOREM TypesKept == Spec => []PredictionTypeOK
  <1>1. IInv => PredictionTypeOK
    BY DEF IInv
  <1> QED  BY <1>1, Invariant, PTL

(* The lead of the prediction is bounded for good, for every history size, *)
(* tolerance, smoothing and calibration: _adjust_prediction_lead owes each *)
(* next frame a tick against the drift, and its baseline moves no further  *)
(* than the tolerance in each frame of the calibration.                    *)
THEOREM LeadKept == Spec => []LeadBounded
  <1>1. IInv => LeadBounded
    BY DEF IInv
  <1> QED  BY <1>1, Invariant, PTL

-----------------------------------------------------------------------------
(* Each input once.                                                        *)

(* The history holds what the lead can grow to: with the constants of      *)
(* shared/config.py, 7.6 ticks of 60.                                      *)
HistoryFits == Calibration * Tolerance + Grain * (Tolerance + 1) <= Grain * Capacity

(* The inputs between two numbers.                                         *)
Between(from, to) == [i \in 1..(to - from) |-> from + i]

(* Until somebody rejoins or the client is at another host, its last       *)
(* snapshot is what its world state grew from, tick by tick.               *)
OnceInv ==
    following = 1 /\ rejoins = 0 =>
        /\ syncs = <<>> /\ last = adopted.seq /\ adopted.seq <= seq
        /\ buffer = Between(adopted.seq, seq)

LEMMA BetweenIs ==
    ASSUME NEW from \in Nat, NEW to \in Nat, from <= to
    PROVE  Between(from, to) \in Seq(Nat) /\ Len(Between(from, to)) = to - from
  BY DEF Between

(* A history that fits is not cut.                                         *)
LEMMA NewestAll ==
    ASSUME NEW entries \in Seq(Nat), Len(entries) <= Capacity
    PROVE  Newest(entries) = entries
  <1>1. Len(entries) \in Nat /\ SmallerOf(Len(entries), Capacity) = Len(entries)
    BY Constants DEF SmallerOf
  <1>2. Newest(entries) = SubSeq(entries, 1, Len(entries))
    BY <1>1 DEF Newest
  <1> QED  BY <1>2

LEMMA PredictedBetween ==
    ASSUME NEW from \in Nat, NEW to \in Nat, from <= to, NEW ticks \in Nat,
           to - from + ticks <= Capacity
    PROVE  Predicted(Between(from, to), to, ticks) = Between(from, to + ticks)
  <1> DEFINE new == [i \in 1..ticks |-> to + i]
             all == Between(from, to) \o new
  <1>1. new \in Seq(Nat) /\ Len(new) = ticks
    OBVIOUS
  <1>2. all = Between(from, to + ticks)
    <2> DEFINE old == Between(from, to)
    <2>0. old \in Seq(Nat) /\ Len(old) = to - from /\ \A i \in 1..(to - from) : old[i] = from + i
      BY BetweenIs DEF Between
    <2>5. all = old \o new /\ \A i \in 1..ticks : new[i] = to + i
      OBVIOUS
    <2> HIDE DEF old, new, all
    <2>1. /\ all \in Seq(Nat) /\ Len(all) = (to - from) + ticks
          /\ \A i \in 1..(to - from + ticks) :
                 all[i] = IF i <= to - from THEN old[i] ELSE new[i - (to - from)]
      <3>1. /\ old \o new \in Seq(Nat) /\ Len(old \o new) = Len(old) + Len(new)
            /\ \A i \in 1..Len(old) + Len(new) :
                   (old \o new)[i] = IF i <= Len(old) THEN old[i] ELSE new[i - Len(old)]
        BY <1>1, <2>0, ConcatProperties
      <3>2. all \in Seq(Nat) /\ Len(all) = Len(old) + Len(new)
            /\ \A i \in 1..Len(old) + Len(new) :
                   all[i] = IF i <= Len(old) THEN old[i] ELSE new[i - Len(old)]
        BY ONLY <3>1, <2>5
      <3> QED  BY ONLY <3>2, <1>1, <2>0
    <2>2. ASSUME NEW i \in 1..(to - from + ticks)
          PROVE  all[i] = from + i
      <3>1. CASE i <= to - from
        BY <2>0, <2>1, <3>1
      <3>2. CASE ~(i <= to - from)
        <4>1. all[i] = new[i - (to - from)] /\ i - (to - from) \in 1..ticks
          BY <2>1, <3>2
        <4> QED  BY <2>5, <4>1
      <3> QED  BY <3>1, <3>2
    <2>3. Between(from, to + ticks) \in Seq(Nat)
          /\ Len(Between(from, to + ticks)) = (to - from) + ticks
      <3>1. to + ticks \in Nat /\ from <= to + ticks /\ (to + ticks) - from = (to - from) + ticks
        OBVIOUS
      <3> QED  BY <3>1, BetweenIs
    <2>4. \A i \in 1..(to - from + ticks) : Between(from, to + ticks)[i] = from + i
      BY DEF Between
    <2> HIDE DEF all
    <2> QED  BY <2>1, <2>2, <2>3, <2>4, SeqEqual
  <1>3. all \in Seq(Nat) /\ Len(all) <= Capacity
    <2>1. to + ticks \in Nat /\ from <= to + ticks /\ (to + ticks) - from <= Capacity
      BY Constants
    <2> HIDE DEF all
    <2> QED  BY <1>2, <2>1, BetweenIs
  <1>4. Predicted(Between(from, to), to, ticks) = Newest(all)
    BY DEF Predicted
  <1> HIDE DEF all
  <1> QED  BY <1>2, <1>3, <1>4, NewestAll

(* What an acknowledgement leaves starts behind the acknowledged number.   *)
LEMMA UnacknowledgedBetween ==
    ASSUME NEW from \in Nat, NEW to \in Nat, from <= to, NEW number \in Nat, from < number
    PROVE  Unacknowledged(Between(from, to), number)
               = IF number < to THEN Between(number, to) ELSE <<>>
  <1> DEFINE entries == Between(from, to)
             newer == {i \in 1..Len(entries) : entries[i] > number}
             first == CHOOSE i \in newer : \A j \in newer : i <= j
  <1>1. Len(entries) = to - from /\ \A i \in 1..(to - from) : entries[i] = from + i
    BY BetweenIs DEF Between
  <1>2. newer = {i \in 1..(to - from) : from + i > number}
    BY <1>1
  <1>3. Unacknowledged(entries, number)
            = IF newer = {} THEN <<>> ELSE SubSeq(entries, first, Len(entries))
    BY DEF Unacknowledged
  <1>4. CASE number < to
    <2>1. number - from + 1 \in newer /\ \A j \in newer : number - from + 1 <= j
      BY <1>2, <1>4
    <2>2. first = number - from + 1
      <3>1. first \in newer /\ \A j \in newer : first <= j
        BY <2>1
      <3>2. newer \subseteq Int
        BY <1>2
      <3> HIDE DEF newer, first
      <3> QED  BY <2>1, <3>1, <3>2
    <2>3. Unacknowledged(entries, number) = SubSeq(entries, number - from + 1, to - from)
      BY <1>1, <1>3, <2>1, <2>2
    <2>4. \A i \in (number - from + 1)..(to - from) : entries[i] \in Nat
      BY <1>1
    <2>5. /\ SubSeq(entries, number - from + 1, to - from) \in Seq(Nat)
          /\ Len(SubSeq(entries, number - from + 1, to - from)) = to - number
          /\ \A i \in 1..(to - number) :
                 SubSeq(entries, number - from + 1, to - from)[i] = number + i
      <3> HIDE DEF entries
      <3> QED  BY <1>1, <1>4, <2>4
    <2>6. /\ Between(number, to) \in Seq(Nat) /\ Len(Between(number, to)) = to - number
          /\ \A i \in 1..(to - number) : Between(number, to)[i] = number + i
      BY <1>4, BetweenIs DEF Between
    <2> QED  BY <1>4, <2>3, <2>5, <2>6, SeqEqual
  <1>5. CASE ~(number < to)
    <2>1. newer = {}
      BY <1>2, <1>5
    <2> QED  BY <1>3, <1>5, <2>1
  <1> QED  BY <1>4, <1>5

(* A frame appends the numbers that it ticks through.                      *)
LEMMA StartFrameOnce ==
    ASSUME HistoryFits, IInv, OnceInv, StartFrame
    PROVE  OnceInv'
  <1> SUFFICES ASSUME following' = 1, rejoins' = 0
               PROVE  /\ syncs' = <<>> /\ last' = adopted'.seq /\ adopted'.seq <= seq'
                      /\ buffer' = Between(adopted'.seq, seq')
    BY DEF OnceInv
  <1> DEFINE from  == adopted.seq
             ticks == 1 + adjustment
  <1>1. syncs = <<>> /\ last = from /\ from <= seq /\ buffer = Between(from, seq)
    BY DEF StartFrame, OnceInv
  <1>2. from \in Nat /\ seq \in Nat /\ ticks \in Nat
    BY DEF IInv, PredictionTypeOK, Stamp
  <1>3. /\ syncs' = <<>> /\ adopted' = adopted /\ last' = last
        /\ seq' = seq + ticks /\ buffer' = Predicted(buffer, seq, ticks) /\ ~draining
    BY <1>1 DEF StartFrame
  <1>4. Len(buffer) = seq - from
    BY <1>1, <1>2, BetweenIs
  <1>5. seq - from + ticks <= Capacity
    <2> DEFINE n == seq - from + ticks
    <2>1. n \in Int
      BY <1>2
    <2>2. Grain * n <= Calibration * Tolerance + Grain * (Tolerance + 1)
      BY <1>3, <1>4, GrowthBounded
    <2>3. Grain * n <= Grain * Capacity
      <3> DEFINE most == Calibration * Tolerance + Grain * (Tolerance + 1)
                 long == Grain * n
                 room == Grain * Capacity
      <3>1. long <= most /\ most <= room
        BY <2>2 DEF HistoryFits
      <3>2. most \in Int /\ long \in Int /\ room \in Int
        BY <2>1, Constants
      <3> HIDE DEF most, long, room, n
      <3>3. long <= room
        BY <3>1, <3>2
      <3> QED  BY <3>3 DEF long, room
    <2> HIDE DEF n
    <2>4. ASSUME n > Capacity
          PROVE  FALSE
      <3>1. Grain * (Capacity + 1) <= Grain * n
        BY <2>1, <2>4, Scaled, Constants
      <3>2. Grain * (Capacity + 1) = Grain * Capacity + Grain
        BY Constants
      <3>3. Grain * n \in Int /\ Grain * Capacity \in Int
        BY <2>1, Constants
      <3> QED  BY <2>3, <3>1, <3>2, <3>3, Constants
    <2>5. n <= Capacity
      BY <2>1, <2>4, Constants
    <2> QED  BY <2>5 DEF n
  <1>6. Predicted(Between(from, seq), seq, ticks) = Between(from, seq + ticks)
    BY <1>1, <1>2, <1>5, PredictedBetween
  <1> QED  BY <1>1, <1>2, <1>3, <1>6

(* A snapshot takes the numbers up to its own away, and replays the rest.  *)
LEMMA ReceiveOnce ==
    ASSUME IInv, OnceInv, NEW h \in Host, NEW n \in sent[h], Receive([host |-> h, seq |-> n])
    PROVE  OnceInv'
  <1> SUFFICES ASSUME following' = 1, rejoins' = 0
               PROVE  /\ syncs' = <<>> /\ last' = adopted'.seq /\ adopted'.seq <= seq'
                      /\ buffer' = Between(adopted'.seq, seq')
    BY DEF OnceInv
  <1> DEFINE from == adopted.seq
  <1>1. syncs = <<>> /\ last = from /\ from <= seq /\ buffer = Between(from, seq)
    BY DEF Receive, OnceInv, lobby
  <1>2. from \in Nat /\ seq \in Nat /\ n \in Nat
    BY DEF IInv, PredictionTypeOK, Stamp
  <1>3. /\ n > last /\ last' = n /\ adopted'.seq = n /\ syncs' = syncs
        /\ buffer' = Pending(n) /\ seq' = n + Len(Pending(n))
    BY DEF Receive, lobby
  <1>4. Pending(n) = IF n < seq THEN Between(n, seq) ELSE <<>>
    <2>1. seq <= from + Capacity
      <3>1. Len(buffer) = seq - from /\ Len(buffer) <= Capacity
        BY <1>1, <1>2, BetweenIs DEF IInv, PredictionTypeOK
      <3> QED  BY <3>1, <1>2, Constants
    <2>2. Pending(n) = Unacknowledged(buffer, n)
      BY <1>1, <1>2, <1>3, <2>1, Constants DEF Pending
    <2> QED  BY <1>1, <1>2, <1>3, <2>2, UnacknowledgedBetween
  <1>5. CASE n < seq
    <2>1. Pending(n) = Between(n, seq) /\ Len(Pending(n)) = seq - n
      <3>1. n <= seq
        BY <1>2, <1>5
      <3> QED  BY <1>2, <1>4, <1>5, <3>1, BetweenIs
    <2>2. seq' = seq
      BY <1>2, <1>3, <2>1
    <2> QED  BY <1>1, <1>2, <1>3, <1>5, <2>1, <2>2
  <1>6. CASE ~(n < seq)
    <2>1. Pending(n) = <<>> /\ seq' = n
      BY <1>2, <1>3, <1>4, <1>6
    <2>2. Between(n, n) = <<>>
      BY <1>2, BetweenIs
    <2> QED  BY <1>1, <1>2, <1>3, <2>1, <2>2
  <1> QED  BY <1>5, <1>6

LEMMA Once ==
    ASSUME HistoryFits
    PROVE  Spec => []OnceInv
  <1>1. Init => OnceInv
    <2>1. Between(0, 0) = <<>>
      BY BetweenIs
    <2> QED  BY <2>1 DEF Init, OnceInv, Start
  <1>2. ASSUME IInv, OnceInv, [Next]_vars
        PROVE  OnceInv'
    <2> USE <1>2 DEF hosts, lobby, engine, lead
    <2>1. CASE HostFrame \/ Crash \/ EndFrame \/ (\E number \in sent[1] : Promote(number))
               \/ UNCHANGED vars
      BY <2>1 DEF HostFrame, Crash, EndFrame, Promote, vars, OnceInv
    <2>2. CASE HostSync
      <3>1. rejoins' # 0
        BY <2>2 DEF HostSync, IInv, PredictionTypeOK
      <3> QED  BY <3>1 DEF OnceInv
    <2>3. CASE Reconnect
      BY <2>3 DEF Reconnect, OnceInv
    <2>4. CASE StartFrame
      BY <2>4, StartFrameOnce
    <2>5. CASE \E h \in Host : \E n \in sent[h] : Receive([host |-> h, seq |-> n])
      BY <2>5, ReceiveOnce
    <2> QED  BY <2>1, <2>2, <2>3, <2>4, <2>5 DEF Next
  <1> QED  BY <1>1, <1>2, Invariant, PTL DEF Spec

(* Under the first host and as long as nobody rejoins, the history is the  *)
(* inputs that are not acknowledged, each once and at its own number, for  *)
(* any history that holds the bounded lead (InputHistoryBuffer.push,       *)
(* acknowledge, reconcile): with a shorter one the oldest inputs would be  *)
(* dropped before they are acknowledged.                                   *)
THEOREM InputsOnce ==
    ASSUME HistoryFits
    PROVE  Spec => []EachInputOnce
  <1>1. OnceInv => EachInputOnce
    BY DEF OnceInv, EachInputOnce, Between
  <1> QED  BY <1>1, Once, PTL
=============================================================================
