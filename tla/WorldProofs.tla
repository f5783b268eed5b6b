----------------------------- MODULE WorldProofs -----------------------------
(***************************************************************************)
(* Proofs about World, for any level, any number of nodes and any number   *)
(* of runs and rejoins: the types, the gates and the promotion of the      *)
(* host's own progress, and that a client which applied every game event   *)
(* has caught up with its host.  The last one rests on what the messages   *)
(* still on their way will make of the client's level (Reaches).           *)
(***************************************************************************)
EXTENDS World, SequenceTheorems, FiniteSetTheorems, TLAPS

-----------------------------------------------------------------------------
(* The sequence of a set.                                                  *)

(* SetToSeq lists each element of a finite set.                            *)
LEMMA ListOfSet ==
    ASSUME NEW S, IsFiniteSet(S)
    PROVE  SetToSeq(S) \in Seq(S) /\ Range(SetToSeq(S)) = S
  <1> DEFINE n == Cardinality(S)
             f == SetToSeq(S)
  <1>1. n \in Nat /\ ExistsBijection(1..n, S)
    BY FS_CardinalityType
  <1>2. f \in [1..n -> S] /\ IsInjective(f)
    <2>1. \E g \in [1..n -> S] : IsInjective(g)
      BY <1>1 DEF ExistsBijection, Bijection, Injection
    <2> QED  BY <2>1 DEF SetToSeq
  <1> HIDE DEF f
  <1>3. Range(f) \in SUBSET S
    BY <1>2 DEF Range
  <1>4. f \in Bijection(1..n, Range(f))
    BY <1>2 DEF Range, Bijection, Injection, Surjection, IsInjective
  <1>5. Cardinality(Range(f)) = n
    <2>1. ExistsBijection(1..n, Range(f))
      BY <1>4 DEF ExistsBijection
    <2> QED  BY <1>1, <2>1, FS_CountingElements
  <1>6. Range(f) = S
    BY <1>3, <1>5, FS_Subset
  <1>7. f \in Seq(S)
    BY <1>1, <1>2
  <1> QED  BY <1>6, <1>7 DEF f

(* The messages about the elements of a set, one for each.                 *)
LEMMA ListOfMessages ==
    ASSUME NEW type, NEW ids, IsFiniteSet(ids)
    PROVE  LET S == {[type |-> type, id |-> i] : i \in ids}
           IN  SetToSeq(S) \in Seq(S) /\ Range(SetToSeq(S)) = S
  <1> DEFINE S == {[type |-> type, id |-> i] : i \in ids}
             f == [i \in ids |-> [type |-> type, id |-> i]]
  <1>1. f \in Surjection(ids, S)
    BY DEF Surjection
  <1>2. IsFiniteSet(S)
    <2> HIDE DEF f, S
    <2> QED  BY <1>1, FS_Surjection
  <1> HIDE DEF S
  <1>3. SetToSeq(S) \in Seq(S) /\ Range(SetToSeq(S)) = S
    BY <1>2, ListOfSet
  <1> QED  BY <1>3 DEF S

(* The messages that a tick puts into the queue of the host.               *)
LEMMA EventsListed ==
    ASSUME NEW before \in Level, NEW after \in Level
    PROVE  /\ Events(before, after) \in Seq(Message)
           /\ \A e \in Message : e \in Range(Events(before, after)) <=>
                 \/ \E b \in after.destroyed \ before.destroyed : e = [type |-> "block", id |-> b]
                 \/ \E p \in after.collected \ before.collected : e = [type |-> "power_up", id |-> p]
                 \/ \E g \in after.open \ before.open : e = [type |-> "opened", id |-> g]
                 \/ \E g \in before.open \ after.open : e = [type |-> "closed", id |-> g]
  <1> DEFINE Of(type, ids) == {[type |-> type, id |-> i] : i \in ids}
             B == Of("block", after.destroyed \ before.destroyed)
             P == Of("power_up", after.collected \ before.collected)
             O == Of("opened", after.open \ before.open)
             C == Of("closed", before.open \ after.open)
  <1>1. /\ IsFiniteSet(after.destroyed \ before.destroyed)
        /\ IsFiniteSet(after.collected \ before.collected)
        /\ IsFiniteSet(after.open \ before.open)
        /\ IsFiniteSet(before.open \ after.open)
    BY LevelAssumption, FS_Subset DEF Level
  <1>2. \A S \in {B, P, O, C} : SetToSeq(S) \in Seq(S) /\ Range(SetToSeq(S)) = S
    BY <1>1, ListOfMessages
  <1>3. B \subseteq Message /\ P \subseteq Message /\ O \subseteq Message /\ C \subseteq Message
    BY DEF Message, Level
  <1>4. Events(before, after) = SetToSeq(B) \o SetToSeq(P) \o SetToSeq(O) \o SetToSeq(C)
    BY DEF Events
  <1>5. \A e : /\ e \in B <=> \E i \in after.destroyed \ before.destroyed : e = [type |-> "block", id |-> i]
               /\ e \in P <=> \E i \in after.collected \ before.collected : e = [type |-> "power_up", id |-> i]
               /\ e \in O <=> \E i \in after.open \ before.open : e = [type |-> "opened", id |-> i]
               /\ e \in C <=> \E i \in before.open \ after.open : e = [type |-> "closed", id |-> i]
    OBVIOUS
  <1> HIDE DEF B, P, O, C
  <1>6. /\ SetToSeq(B) \in Seq(Message) /\ SetToSeq(P) \in Seq(Message)
        /\ SetToSeq(O) \in Seq(Message) /\ SetToSeq(C) \in Seq(Message)
    BY <1>2, <1>3, SeqMonotonic
  <1>7. /\ Events(before, after) \in Seq(Message)
        /\ Range(Events(before, after)) = B \cup P \cup O \cup C
    <2> DEFINE b == SetToSeq(B)
               p == SetToSeq(P)
               o == SetToSeq(O)
               c == SetToSeq(C)
    <2>1. /\ Range(b) = B /\ Range(p) = P /\ Range(o) = O /\ Range(c) = C
          /\ Events(before, after) = b \o p \o o \o c
      BY <1>2, <1>4
    <2>2. b \in Seq(Message) /\ p \in Seq(Message) /\ o \in Seq(Message) /\ c \in Seq(Message)
      BY <1>6
    <2> HIDE DEF b, p, o, c
    <2>3. b \o p \in Seq(Message) /\ Range(b \o p) = B \cup P
      BY <2>1, <2>2, RangeConcatenation, ConcatProperties
    <2> DEFINE bp == b \o p
    <2>4. bp \in Seq(Message) /\ Range(bp) = B \cup P /\ Events(before, after) = bp \o o \o c
      BY <2>1, <2>3
    <2> HIDE DEF bp
    <2>5. bp \o o \in Seq(Message) /\ Range(bp \o o) = B \cup P \cup O
      BY <2>1, <2>2, <2>4, RangeConcatenation, ConcatProperties
    <2> DEFINE bpo == bp \o o
    <2>6. bpo \in Seq(Message) /\ Range(bpo) = B \cup P \cup O /\ Events(before, after) = bpo \o c
      BY <2>4, <2>5
    <2> HIDE DEF bpo
    <2> QED  BY <2>1, <2>2, <2>6, RangeConcatenation, ConcatProperties
  <1> QED  BY <1>5, <1>7

-----------------------------------------------------------------------------
(* What a queue of messages makes of a level.                              *)

(* The blocks destroyed, or the power-ups collected.                       *)
Held(level, kind) == IF kind = "block" THEN level.destroyed ELSE level.collected

Adds(e, kind, x) == e.type = kind /\ e.id = x
Clears(e, kind, x) == e.type = "reset"

(* Once all of q is applied, x is held by who held `held` before.          *)
Reaches(held, q, kind, x) ==
    \/ x \in held /\ \A i \in 1..Len(q) : ~Clears(q[i], kind, x)
    \/ \E i \in 1..Len(q) : /\ Adds(q[i], kind, x)
                            /\ \A j \in (i + 1)..Len(q) : ~Clears(q[j], kind, x)

(* More messages, none of which clears x.                                  *)
LEMMA ReachesMore ==
    ASSUME NEW held, NEW q \in Seq(Message), NEW m \in Seq(Message), NEW kind, NEW x,
           \A e \in Range(m) : ~Clears(e, kind, x)
    PROVE  Reaches(held, q \o m, kind, x) <=>
              Reaches(held, q, kind, x) \/ \E e \in Range(m) : Adds(e, kind, x)
  <1> DEFINE r == q \o m
  <1>1. /\ Len(q) \in Nat /\ Len(m) \in Nat /\ Len(r) = Len(q) + Len(m)
        /\ \A i \in 1..Len(q) : r[i] = q[i]
        /\ \A i \in 1..Len(m) : r[Len(q) + i] = m[i]
    OBVIOUS
  <1>2. Range(m) = {m[i] : i \in 1..Len(m)}
    BY RangeEquality
  <1>3. \A i \in (Len(q) + 1)..Len(r) : i - Len(q) \in 1..Len(m) /\ r[i] = m[i - Len(q)]
    BY <1>1
  <1>4. \A i \in (Len(q) + 1)..Len(r) : ~Clears(r[i], kind, x)
    BY <1>2, <1>3
  <1> HIDE DEF r
  <1>5. ASSUME Reaches(held, q, kind, x)
        PROVE  Reaches(held, r, kind, x)
    <2>1. CASE x \in held /\ \A i \in 1..Len(q) : ~Clears(q[i], kind, x)
      BY <1>1, <1>4, <2>1 DEF Reaches
    <2>2. CASE \E i \in 1..Len(q) : /\ Adds(q[i], kind, x)
                                    /\ \A j \in (i + 1)..Len(q) : ~Clears(q[j], kind, x)
      <3>1. PICK i \in 1..Len(q) : /\ Adds(q[i], kind, x)
                                   /\ \A j \in (i + 1)..Len(q) : ~Clears(q[j], kind, x)
        BY <2>2
      <3>2. i \in 1..Len(r) /\ Adds(r[i], kind, x)
        BY <1>1, <3>1
      <3>3. \A j \in (i + 1)..Len(r) : ~Clears(r[j], kind, x)
        BY SMTT(30), <1>1, <1>4, <3>1
      <3> QED  BY <3>2, <3>3 DEF Reaches
    <2> QED  BY <1>5, <2>1, <2>2 DEF Reaches
  <1>6. ASSUME NEW e \in Range(m), Adds(e, kind, x)
        PROVE  Reaches(held, r, kind, x)
    <2>1. PICK i \in 1..Len(m) : e = m[i]
      BY <1>2
    <2>2. Len(q) + i \in 1..Len(r) /\ r[Len(q) + i] = e
      BY <1>1, <2>1
    <2>3. \A j \in (Len(q) + i + 1)..Len(r) : ~Clears(r[j], kind, x)
      BY <1>1, <1>4, <2>1
    <2> QED  BY <1>6, <2>2, <2>3 DEF Reaches
  <1>7. ASSUME Reaches(held, r, kind, x), \A e \in Range(m) : ~Adds(e, kind, x)
        PROVE  Reaches(held, q, kind, x)
    <2>1. CASE x \in held /\ \A i \in 1..Len(r) : ~Clears(r[i], kind, x)
      BY <1>1, <2>1 DEF Reaches
    <2>2. CASE \E i \in 1..Len(r) : /\ Adds(r[i], kind, x)
                                    /\ \A j \in (i + 1)..Len(r) : ~Clears(r[j], kind, x)
      <3>1. PICK i \in 1..Len(r) : /\ Adds(r[i], kind, x)
                                   /\ \A j \in (i + 1)..Len(r) : ~Clears(r[j], kind, x)
        BY <2>2
      <3>2. i \in 1..Len(q)
        <4>1. i \notin (Len(q) + 1)..Len(r)
          BY <1>2, <1>3, <1>7, <3>1
        <4> QED  BY <1>1, <4>1
      <3>3. \A j \in (i + 1)..Len(q) : ~Clears(q[j], kind, x)
        BY <1>1, <3>1, <3>2
      <3> QED  BY <1>1, <3>1, <3>2, <3>3 DEF Reaches
    <2> QED  BY <1>7, <2>1, <2>2 DEF Reaches
  <1> QED  BY <1>5, <1>6, <1>7 DEF r

(* One more message, which decides about x.                                *)
LEMMA ReachesLast ==
    ASSUME NEW held, NEW q \in Seq(Message), NEW e \in Message,
           NEW kind \in {"block", "power_up"}, NEW x
    PROVE  /\ Clears(e, kind, x) => ~Reaches(held, q \o <<e>>, kind, x)
           /\ Adds(e, kind, x) => Reaches(held, q \o <<e>>, kind, x)
  <1> DEFINE r == q \o <<e>>
  <1>1. /\ Len(q) \in Nat /\ Len(r) = Len(q) + 1 /\ r[Len(r)] = e
    OBVIOUS
  <1> HIDE DEF r
  <1>2. ASSUME Clears(e, kind, x), ~Adds(e, kind, x)
        PROVE  ~Reaches(held, r, kind, x)
    <2>1. Len(r) \in 1..Len(r) /\ Clears(r[Len(r)], kind, x)
      BY <1>1, <1>2
    <2>2. \A i \in 1..Len(r) : Adds(r[i], kind, x) => Len(r) \in (i + 1)..Len(r)
      BY <1>1, <1>2
    <2> QED  BY <2>1, <2>2 DEF Reaches
  <1>3. ASSUME Adds(e, kind, x)
        PROVE  Reaches(held, r, kind, x)
    BY <1>1, <1>3 DEF Reaches
  <1>4. Clears(e, kind, x) => ~Adds(e, kind, x)
    BY DEF Clears, Adds
  <1> QED  BY <1>2, <1>3, <1>4 DEF r

(* The first message, once it is applied, has done its part.               *)
LEMMA ReachesRead ==
    ASSUME NEW held, NEW now, NEW q \in Seq(Message), q # <<>>, NEW kind, NEW x,
           x \in now <=> Adds(Head(q), kind, x) \/ (x \in held /\ ~Clears(Head(q), kind, x))
    PROVE  Reaches(held, q, kind, x) <=> Reaches(now, Tail(q), kind, x)
  <1> DEFINE t == Tail(q)
             n == Len(q)
  <1>1. /\ n \in Nat \ {0} /\ Len(t) = n - 1 /\ Head(q) = q[1]
        /\ \A i \in 1..Len(t) : t[i] = q[i + 1]
    OBVIOUS
  <1>2. x \in now <=> Adds(q[1], kind, x) \/ (x \in held /\ ~Clears(q[1], kind, x))
    BY <1>1
  <1> HIDE DEF t
  <1>3. \A i \in 1..Len(t) : i + 1 \in 2..n /\ t[i] = q[i + 1]
    BY <1>1
  <1>4. \A i \in 2..n : i - 1 \in 1..Len(t) /\ t[i - 1] = q[i]
    BY <1>1, <1>3
  <1>5. (\A i \in 2..n : ~Clears(q[i], kind, x)) <=> (\A i \in 1..Len(t) : ~Clears(t[i], kind, x))
    BY <1>3, <1>4
  <1>6. ASSUME Reaches(held, q, kind, x)
        PROVE  Reaches(now, t, kind, x)
    <2>1. CASE x \in held /\ \A i \in 1..n : ~Clears(q[i], kind, x)
      BY <1>1, <1>2, <1>5, <2>1 DEF Reaches
    <2>2. CASE \E i \in 1..n : /\ Adds(q[i], kind, x)
                               /\ \A j \in (i + 1)..n : ~Clears(q[j], kind, x)
      <3>1. PICK i \in 1..n : /\ Adds(q[i], kind, x)
                              /\ \A j \in (i + 1)..n : ~Clears(q[j], kind, x)
        BY <2>2
      <3>2. CASE i = 1
        BY <1>1, <1>2, <1>5, <3>1, <3>2 DEF Reaches
      <3>3. CASE i \in 2..n
        <4>1. i - 1 \in 1..Len(t) /\ Adds(t[i - 1], kind, x)
          BY <1>4, <3>1, <3>3
        <4>2. \A j \in ((i - 1) + 1)..Len(t) : ~Clears(t[j], kind, x)
          BY <1>1, <3>1, <3>3
        <4> QED  BY <4>1, <4>2 DEF Reaches
      <3> QED  BY <1>1, <3>2, <3>3
    <2> QED  BY <1>6, <2>1, <2>2 DEF Reaches
  <1>7. ASSUME Reaches(now, t, kind, x)
        PROVE  Reaches(held, q, kind, x)
    <2>1. CASE x \in now /\ \A i \in 1..Len(t) : ~Clears(t[i], kind, x)
      <3>1. \A i \in 2..n : ~Clears(q[i], kind, x)
        BY <1>5, <2>1
      <3>2. CASE Adds(q[1], kind, x)
        BY <1>1, <3>1, <3>2 DEF Reaches
      <3>3. CASE x \in held /\ ~Clears(q[1], kind, x)
        BY <1>1, <3>1, <3>3 DEF Reaches
      <3> QED  BY <1>2, <2>1, <3>2, <3>3
    <2>2. CASE \E i \in 1..Len(t) : /\ Adds(t[i], kind, x)
                                    /\ \A j \in (i + 1)..Len(t) : ~Clears(t[j], kind, x)
      <3>1. PICK i \in 1..Len(t) : /\ Adds(t[i], kind, x)
                                   /\ \A j \in (i + 1)..Len(t) : ~Clears(t[j], kind, x)
        BY <2>2
      <3>2. i + 1 \in 1..n /\ Adds(q[i + 1], kind, x)
        BY <1>1, <1>3, <3>1
      <3>3. \A j \in ((i + 1) + 1)..n : ~Clears(q[j], kind, x)
        <4>1. ASSUME NEW j \in ((i + 1) + 1)..n
              PROVE  ~Clears(q[j], kind, x)
          <5>1. j \in 2..n /\ j - 1 \in (i + 1)..Len(t)
            BY <1>1, <3>1
          <5> QED  BY <1>4, <3>1, <5>1
        <4> QED  BY <4>1
      <3> QED  BY <3>2, <3>3 DEF Reaches
    <2> QED  BY <1>7, <2>1, <2>2 DEF Reaches
  <1> QED  BY <1>6, <1>7 DEF t

-----------------------------------------------------------------------------
(* The invariant.                                                          *)

WTypes ==
    /\ world \in [Node -> Level]
    /\ host \in Node
    /\ phase \in [Node -> {"playing", "waiting", "crashed"}]
    /\ unsent \in BOOLEAN
    /\ inbox \in [Node -> Seq(Message)]
    /\ synced \in [Node -> Seq(Sync)]
    /\ snapshot \in [Node -> Level \union {Nothing}]
    /\ buffered \in [Node -> Level \union {Nothing}]
    /\ following \in [Node -> Node]
    /\ connected \in [Node -> BOOLEAN]
    /\ started \in [Node -> BOOLEAN]
    /\ runs \in Nat \ {0} /\ rejoined \in 0..MaxChanges

(* Who plays, who waits, and whom they follow.                             *)
PhaseInv ==
    /\ \A n \in Node : started[n] => phase[n] = "waiting" /\ n # host
    /\ host \notin Alive => \A n \in Node : phase[n] # "waiting"
    /\ following[host] = host
    /\ host = FirstHost => \A n \in Node : following[n] = FirstHost
    /\ host # FirstHost => phase[FirstHost] = "crashed" /\ host \in Alive
    /\ unsent => host \in Alive /\ world[host] = Fresh

(* The requirements of the open gates are met where the host counts them,  *)
(* and in every snapshot a new host may resume from.                       *)
Earned(level) == \A g \in level.open : Met(level, g)
GateInv ==
    /\ Earned(world[host])
    /\ \A n \in Node : /\ snapshot[n] # Nothing => Earned(snapshot[n])
                       /\ buffered[n] # Nothing => Earned(buffered[n])

(* In the first run no snapshot is ahead of the host.                      *)
Behind(shot, level) ==
    /\ shot.destroyed \subseteq level.destroyed /\ shot.collected \subseteq level.collected
    /\ level.enemies \subseteq shot.enemies /\ shot.open \subseteq level.open
ProgressInv ==
    runs = 1 /\ host = FirstHost =>
        \A n \in Node : /\ snapshot[n] # Nothing => Behind(snapshot[n], world[host])
                        /\ buffered[n] # Nothing => Behind(buffered[n], world[host])

(* A sync is on its way only if somebody rejoined.                         *)
SyncInv == rejoined = 0 => \A n \in Node : synced[n] = <<>>

(* What a client in the game that has its event connection will hold once  *)
(* its messages are applied is what the first host holds.                  *)
Heard == {n \in Alive \ {host} : connected[n] /\ phase[n] = "playing"}
CaughtInv ==
    host = FirstHost /\ host \in Alive /\ ~unsent /\ rejoined = 0 =>
        \A n \in Heard :
            /\ \A p \in PowerUp : p \in world[host].collected <=>
                    Reaches(world[n].collected, inbox[n], "power_up", p)
            /\ \A b \in world[host].destroyed :
                    Reaches(world[n].destroyed, inbox[n], "block", b)

WInv == WTypes /\ PhaseInv /\ GateInv /\ ProgressInv /\ SyncInv /\ CaughtInv

-----------------------------------------------------------------------------
(* A level.                                                                *)

(* A gate that is open stays so as long as nothing is taken back.          *)
LEMMA MetGrows ==
    ASSUME NEW old \in Level, NEW new \in Level, Behind(old, new), NEW g \in Gate, Met(old, g)
    PROVE  Met(new, g)
  <1>1. /\ IsFiniteSet(new.collected \intersect Coin)
        /\ (old.collected \intersect Coin) \in SUBSET (new.collected \intersect Coin)
        /\ IsFiniteSet(new.destroyed) /\ old.destroyed \in SUBSET new.destroyed
        /\ IsFiniteSet(Enemy \ new.enemies) /\ (Enemy \ old.enemies) \in SUBSET (Enemy \ new.enemies)
    BY LevelAssumption, FS_Subset DEF Level, Behind
  <1>2. /\ Cardinality(old.collected \intersect Coin) <= Cardinality(new.collected \intersect Coin)
        /\ Cardinality(old.destroyed) <= Cardinality(new.destroyed)
        /\ Cardinality(Enemy \ old.enemies) <= Cardinality(Enemy \ new.enemies)
    BY <1>1, FS_Subset
  <1>3. /\ Cardinality(old.collected \intersect Coin) \in Nat /\ Cardinality(new.collected \intersect Coin) \in Nat
        /\ Cardinality(old.destroyed) \in Nat /\ Cardinality(new.destroyed) \in Nat
        /\ Cardinality(Enemy \ old.enemies) \in Nat /\ Cardinality(Enemy \ new.enemies) \in Nat
    BY <1>1, FS_Subset, FS_CardinalityType
  <1>4. Needs[g].coins \in Nat /\ Needs[g].blocks \in Nat /\ Needs[g].enemies \in Nat
    BY LevelAssumption
  <1> QED  BY <1>2, <1>3, <1>4 DEF Met

LEMMA FreshLevel == Fresh \in Level /\ Earned(Fresh)
  BY DEF Fresh, Level, Earned

(* A tick of the host keeps what was reached, and counts its gates.        *)
LEMMA TickedLevel ==
    ASSUME NEW level \in Level, NEW bumped \in Bumpable(level), NEW touched \in Touchable(level),
           NEW beaten \in Beatable(level), NEW reached
    PROVE  LET after == Ticked(level, bumped, touched, beaten, reached) IN
           /\ after \in Level
           /\ level.destroyed \subseteq after.destroyed /\ level.collected \subseteq after.collected
           /\ after.enemies \subseteq level.enemies
           /\ Earned(level) => Earned(after) /\ Behind(level, after)
  <1> DEFINE after == Ticked(level, bumped, touched, beaten, reached)
             mid == Beat(Collect(HitBlocks(level, bumped), touched), beaten)
  <1>1. CASE level.victory
    BY <1>1 DEF Ticked, Behind, Level
  <1>2. CASE ~level.victory
    <2>1. /\ mid.destroyed = level.destroyed \union bumped
          /\ mid.collected = level.collected \union touched
          /\ mid.enemies = level.enemies \ beaten /\ mid.open = level.open /\ mid \in Level
      BY DEF Beat, Collect, HitBlocks, Level, Bumpable, Touchable, Beatable
    <2> HIDE DEF mid
    <2>2. /\ after.destroyed = mid.destroyed /\ after.collected = mid.collected
          /\ after.enemies = mid.enemies /\ after.open = {g \in Gate : Met(mid, g)}
          /\ after \in Level
      BY <1>2, <2>1 DEF Ticked, UpdateGates, Win, Level, mid
    <2> HIDE DEF after
    <2>3. \A g \in Gate : Met(mid, g) <=> Met(after, g)
      BY <2>2 DEF Met
    <2>4. Earned(after)
      BY <2>2, <2>3 DEF Earned
    <2>5. ASSUME Earned(level)
          PROVE  Behind(level, after)
      <3>1. Behind(level, mid)
        BY <2>1 DEF Behind
      <3>2. \A g \in level.open : g \in Gate /\ Met(mid, g)
        BY <2>1, <2>5, <3>1, MetGrows DEF Earned, Level
      <3> QED  BY <2>1, <2>2, <3>2 DEF Behind
    <2> QED  BY <2>1, <2>2, <2>4, <2>5 DEF after
  <1> QED  BY <1>1, <1>2

(* Neither a prediction nor a snapshot takes a block or a power-up away.   *)
LEMMA PredictedLevel ==
    ASSUME NEW level \in Level, NEW bumped \in Bumpable(level)
    PROVE  /\ Predicted(level, bumped) \in Level
           /\ level.destroyed \subseteq Predicted(level, bumped).destroyed
           /\ Predicted(level, bumped).collected = level.collected
  BY DEF Predicted, UpdateGates, HitBlocks, Level, Bumpable

LEMMA ReconciledLevel ==
    ASSUME NEW level \in Level, NEW shot \in Level
    PROVE  /\ Reconciled(level, shot) \in Level
           /\ Reconciled(level, shot).destroyed = level.destroyed
           /\ Reconciled(level, shot).collected = level.collected
  BY DEF Reconciled, Level

(* A message does to a level what Adds and Clears say.                     *)
LEMMA AppliedLevel ==
    ASSUME NEW level \in Level, NEW e \in Message
    PROVE  /\ Applied(level, e) \in Level
           /\ \A kind \in {"block", "power_up"} : \A x :
                 x \in Held(Applied(level, e), kind) <=>
                    Adds(e, kind, x) \/ (x \in Held(level, kind) /\ ~Clears(e, kind, x))
  <1> USE DEF Applied, Held, Adds, Clears
  <1>1. CASE e \in [type : {"block"}, id : Block]
    BY <1>1 DEF Level
  <1>2. CASE e \in [type : {"power_up"}, id : PowerUp]
    BY <1>2 DEF Level
  <1>3. CASE e \in [type : {"opened", "closed"}, id : Gate]
    BY <1>3 DEF Level
  <1>4. CASE e = LevelReset
    BY <1>4, FreshLevel DEF LevelReset, Fresh
  <1> QED  BY <1>1, <1>2, <1>3, <1>4 DEF Message

-----------------------------------------------------------------------------
(* The steps, one by one.                                                  *)

LEMMA ReachesGrows ==
    ASSUME NEW held, NEW now, held \subseteq now, NEW q, NEW kind, NEW x,
           Reaches(held, q, kind, x)
    PROVE  Reaches(now, q, kind, x)
  BY DEF Reaches

LEMMA InitWorld == Init => WInv
  <1> SUFFICES ASSUME Init
               PROVE  WInv
    OBVIOUS
  <1> USE NodeAssumption, FreshLevel DEF Init
  <1>1. WTypes
    <2>1. 0 \in 0..MaxChanges
      BY BoundAssumption
    <2>2. <<>> \in Seq(Message) /\ <<>> \in Seq(Sync)
      OBVIOUS
    <2>3. inbox \in [Node -> Seq(Message)] /\ synced \in [Node -> Seq(Sync)]
      BY <2>2
    <2>4. world \in [Node -> Level] /\ snapshot \in [Node -> Level \union {Nothing}]
          /\ buffered \in [Node -> Level \union {Nothing}]
      OBVIOUS
    <2>5. host \in Node /\ following \in [Node -> Node] /\ started \in [Node -> BOOLEAN]
          /\ connected \in [Node -> BOOLEAN]
          /\ phase \in [Node -> {"playing", "waiting", "crashed"}] /\ unsent \in BOOLEAN
      OBVIOUS
    <2>6. runs \in Nat \ {0} /\ rejoined \in 0..MaxChanges
      BY <2>1
    <2> QED  BY <2>3, <2>4, <2>5, <2>6 DEF WTypes
  <1>2. PhaseInv
    BY DEF PhaseInv, Alive
  <1>3. GateInv /\ ProgressInv
    BY DEF GateInv, ProgressInv
  <1>4. SyncInv
    BY DEF SyncInv
  <1>5. CaughtInv
    BY DEF CaughtInv, Heard, Reaches, Fresh, Alive
  <1> QED  BY <1>1, <1>2, <1>3, <1>4, <1>5 DEF WInv

LEMMA BroadcastTyped ==
    ASSUME WTypes, NEW m \in Seq(Message), Broadcast(m)
    PROVE  /\ inbox' \in [Node -> Seq(Message)]
           /\ \A n \in Node : inbox'[n] = IF Listening(n) THEN inbox[n] \o m ELSE inbox[n]
  BY DEF Broadcast, WTypes

(* Every client with an event connection has it to the first host.         *)
LEMMA FirstHostHeard ==
    ASSUME WTypes, PhaseInv, host = FirstHost, NEW n \in Heard
    PROVE  n \in Node /\ n # host /\ Listening(n)
  BY DEF PhaseInv, Listening, Follows, Heard, Alive

LEMMA HostFrameKeeps ==
    ASSUME WInv, HostFrame
    PROVE  WInv'
  <1> USE DEF WInv
  <1> DEFINE level == world[host]
  <1>1. PICK bumped \in Bumpable(level), touched \in Touchable(level), beaten \in Beatable(level),
             reached \in SUBSET Final :
          LET after == Ticked(level, bumped, touched, beaten, reached)
          IN  /\ world' = [world EXCEPT ![host] = after]
              /\ Broadcast(Queued(level, after))
              /\ snapshot' = [n \in Node |-> IF n \in Alive \ {host} THEN after ELSE snapshot[n]]
    BY DEF HostFrame
  <1> DEFINE after == Ticked(level, bumped, touched, beaten, reached)
             own == Events(level, after)
             sent == Queued(level, after)
  <1>2. /\ level \in Level /\ host \in Node /\ Earned(level)
    BY DEF WTypes, GateInv
  <1>3. /\ after \in Level /\ Earned(after) /\ Behind(level, after)
    BY <1>2, TickedLevel
  <1>4. /\ world' = [world EXCEPT ![host] = after] /\ world'[host] = after
        /\ Broadcast(sent) /\ phase[host] = "playing"
        /\ snapshot' = [n \in Node |-> IF n \in Alive \ {host} THEN after ELSE snapshot[n]]
        /\ unsent' = FALSE
        /\ UNCHANGED <<host, phase, synced, buffered, links, started, runs, rejoined>>
    BY <1>1, <1>2 DEF HostFrame, WTypes
  <1>5. /\ own \in Seq(Message)
        /\ \A e \in Range(own) : e.type # "reset"
        /\ \A e \in Range(own) : e.type \in {"block", "power_up"} =>
              \/ e.type = "block" /\ e.id \in after.destroyed \ level.destroyed
              \/ e.type = "power_up" /\ e.id \in after.collected \ level.collected
        /\ \A b \in after.destroyed \ level.destroyed : [type |-> "block", id |-> b] \in Range(own)
        /\ \A p \in after.collected \ level.collected : [type |-> "power_up", id |-> p] \in Range(own)
    <2> HIDE DEF level, after
    <2>1. /\ own \in Seq(Message)
          /\ \A e \in Message : e \in Range(own) <=>
                 \/ \E b \in after.destroyed \ level.destroyed : e = [type |-> "block", id |-> b]
                 \/ \E p \in after.collected \ level.collected : e = [type |-> "power_up", id |-> p]
                 \/ \E g \in after.open \ level.open : e = [type |-> "opened", id |-> g]
                 \/ \E g \in level.open \ after.open : e = [type |-> "closed", id |-> g]
      BY <1>2, <1>3, EventsListed
    <2> HIDE DEF own
    <2>2. \A e \in Range(own) : e \in Message
      BY <2>1, RangeOfSeq
    <2>3. /\ \A b \in after.destroyed : [type |-> "block", id |-> b] \in Message
          /\ \A p \in after.collected : [type |-> "power_up", id |-> p] \in Message
      BY <1>3 DEF Level, Message
    <2> QED  BY <2>1, <2>2, <2>3
  <1>6. /\ sent = (IF unsent THEN <<LevelReset>> \o own ELSE own)
        /\ LevelReset \in Message /\ sent \in Seq(Message)
    <2>1. LevelReset \in Message
      BY DEF Message
    <2>2. sent = (IF unsent THEN <<LevelReset>> \o own ELSE own)
      <3>1. <<>> \o own = own
        BY <1>5
      <3> HIDE DEF level, after
      <3> QED  BY <3>1 DEF Queued
    <2> HIDE DEF own, sent
    <2> QED  BY <1>5, <2>1, <2>2
  <1> HIDE DEF after, own, sent
  <1>7. /\ inbox' \in [Node -> Seq(Message)]
        /\ \A n \in Node : Listening(n) => inbox'[n] = inbox[n] \o sent
    BY <1>4, <1>6, BroadcastTyped
  <1>8. WTypes'
    BY <1>3, <1>4, <1>7 DEF WTypes, links
  <1>9. PhaseInv'
    BY <1>4 DEF PhaseInv, Alive, links
  <1>10. GateInv'
    BY <1>3, <1>4 DEF GateInv
  <1>11. ProgressInv'
    <2>1. ASSUME NEW shot, Behind(shot, level)
          PROVE  Behind(shot, after)
      BY <1>3, <2>1 DEF Behind
    <2>2. Behind(after, after)
      BY DEF Behind
    <2>3. ASSUME runs = 1, host = FirstHost, NEW n \in Node
          PROVE  /\ snapshot'[n] # Nothing => Behind(snapshot'[n], after)
                 /\ buffered'[n] # Nothing => Behind(buffered'[n], after)
      <3>1. snapshot'[n] = after \/ snapshot'[n] = snapshot[n]
        BY <1>4
      <3> QED  BY <1>4, <2>1, <2>2, <2>3, <3>1 DEF ProgressInv
    <2> QED  BY <1>4, <2>3 DEF ProgressInv
  <1>12. CaughtInv'
    <2>1. ASSUME host = FirstHost, NEW n \in Heard,
                 NEW held, NEW kind \in {"block", "power_up"}, NEW x
          PROVE  Reaches(held, inbox'[n], kind, x) <=>
                    \/ ~unsent /\ Reaches(held, inbox[n], kind, x)
                    \/ \E e \in Range(own) : Adds(e, kind, x)
      <3>1. n \in Node /\ inbox'[n] = inbox[n] \o sent
        BY <1>7, <2>1, FirstHostHeard
      <3>2. inbox[n] \in Seq(Message) /\ \A e \in Range(own) : ~Clears(e, kind, x)
        BY <1>5, <3>1 DEF WTypes, Clears
      <3> DEFINE q == inbox[n]
      <3>3. q \in Seq(Message) /\ inbox'[n] = q \o sent
        BY <3>1, <3>2
      <3> HIDE DEF q
      <3>4. CASE ~unsent
        <4>1. Reaches(held, q \o own, kind, x) <=>
                 Reaches(held, q, kind, x) \/ \E e \in Range(own) : Adds(e, kind, x)
          BY <1>5, <3>2, <3>3, ReachesMore
        <4> QED  BY <1>6, <3>3, <3>4, <4>1 DEF q
      <3>5. CASE unsent
        <4> DEFINE r == q \o <<LevelReset>>
        <4>1. r \in Seq(Message) /\ inbox'[n] = r \o own
          BY <1>5, <1>6, <3>3, <3>5, ConcatAssociative
        <4>2. ~Reaches(held, r, kind, x)
          BY <1>6, <3>3, ReachesLast DEF Clears, LevelReset
        <4> HIDE DEF r
        <4>3. Reaches(held, r \o own, kind, x) <=> \E e \in Range(own) : Adds(e, kind, x)
          BY <1>5, <3>2, <4>1, <4>2, ReachesMore
        <4> QED  BY <3>3, <3>5, <4>1, <4>3
      <3> QED  BY <3>4, <3>5
    <2>2. unsent => level.destroyed = {} /\ level.collected = {}
      BY DEF PhaseInv, Fresh
    <2>3. ASSUME host = FirstHost, rejoined = 0, NEW n \in Heard
          PROVE  /\ \A p \in PowerUp : p \in after.collected <=>
                       Reaches(world'[n].collected, inbox'[n], "power_up", p)
                 /\ \A b \in after.destroyed : Reaches(world'[n].destroyed, inbox'[n], "block", b)
      <3>1. host \in Alive /\ n \in Node /\ world'[n] = world[n]
        BY <1>4, <1>2, <2>3, FirstHostHeard DEF Alive, WTypes
      <3>2. ASSUME NEW p \in PowerUp
            PROVE  p \in after.collected <=>
                       Reaches(world'[n].collected, inbox'[n], "power_up", p)
        <4>1. (\E e \in Range(own) : Adds(e, "power_up", p)) <=> p \in after.collected \ level.collected
          BY <1>5 DEF Adds
        <4>2. level.collected \subseteq after.collected
          BY <1>3 DEF Behind
        <4>3. ~unsent => (p \in level.collected <=> Reaches(world[n].collected, inbox[n], "power_up", p))
          BY <2>3, <3>1 DEF CaughtInv
        <4> QED  BY <2>1, <2>2, <2>3, <3>1, <4>1, <4>2, <4>3
      <3>3. ASSUME NEW b \in after.destroyed
            PROVE  Reaches(world'[n].destroyed, inbox'[n], "block", b)
        <4>1. b \in after.destroyed \ level.destroyed => \E e \in Range(own) : Adds(e, "block", b)
          BY <1>5 DEF Adds
        <4>2. ~unsent /\ b \in level.destroyed => Reaches(world[n].destroyed, inbox[n], "block", b)
          BY <2>3, <3>1 DEF CaughtInv
        <4> QED  BY <2>1, <2>2, <2>3, <3>1, <4>1, <4>2
      <3> QED  BY <3>2, <3>3
    <2>4. Heard' = Heard /\ host' = host
      BY <1>4 DEF Heard, Alive, links
    <2> QED  BY <1>4, <2>3, <2>4 DEF CaughtInv
  <1>13. SyncInv'
    BY <1>4 DEF SyncInv
  <1> QED  BY <1>8, <1>9, <1>10, <1>11, <1>12, <1>13

LEMMA HostSyncKeeps ==
    ASSUME WInv, HostSync
    PROVE  WInv'
  <1> USE DEF WInv
  <1>1. /\ UNCHANGED <<world, host, phase, unsent, inbox, snapshot, buffered, links, started, runs>>
        /\ rejoined' = rejoined + 1 /\ runs + rejoined <= MaxChanges
    BY DEF HostSync
  <1>2. synced' \in [Node -> Seq(Sync)]
    <2>1. ASSUME NEW n \in Node
          PROVE  Append(synced[n], [world |-> world[host], sent |-> snapshot[n]]) \in Seq(Sync)
      <3>1. [world |-> world[host], sent |-> snapshot[n]] \in Sync
        BY DEF Sync, WTypes
      <3>2. synced[n] \in Seq(Sync)
        BY DEF WTypes
      <3> QED  BY <3>1, <3>2
    <2> QED  BY <2>1 DEF HostSync, WTypes
  <1>3. rejoined' \in 1..MaxChanges
    BY <1>1, BoundAssumption DEF WTypes
  <1>4. WTypes'
    BY <1>1, <1>2, <1>3 DEF WTypes, links
  <1>5. PhaseInv' /\ GateInv' /\ ProgressInv'
    BY <1>1 DEF PhaseInv, GateInv, ProgressInv, Alive, links
  <1>6. SyncInv' /\ CaughtInv'
    BY <1>3 DEF SyncInv, CaughtInv
  <1> QED  BY <1>4, <1>5, <1>6

LEMMA HostRestartKeeps ==
    ASSUME WInv, HostRestart
    PROVE  WInv'
  <1> USE FreshLevel DEF WInv, HostRestart
  <1>1. WTypes'
    <2>1. started' \in [Node -> BOOLEAN] /\ phase' \in [Node -> {"playing", "waiting", "crashed"}]
      BY DEF WTypes, Follows, Alive
    <2>2. synced' \in [Node -> Seq(Sync)]
      BY DEF WTypes
    <2> QED  BY <2>1, <2>2 DEF WTypes, links
  <1>2. host \in Node /\ world'[host] = Fresh /\ Alive' = Alive /\ host \in Alive
    BY DEF WTypes, Alive
  <1>3. PhaseInv'
    <2>1. \A n \in Node : started'[n] => phase'[n] = "waiting" /\ n # host
      BY DEF Follows, WTypes
    <2>2. host # FirstHost => phase'[FirstHost] = "crashed"
      BY NodeAssumption DEF PhaseInv, WTypes
    <2> QED  BY <1>2, <2>1, <2>2 DEF PhaseInv, links
  <1>4. GateInv' /\ ProgressInv' /\ CaughtInv'
    BY <1>2 DEF GateInv, ProgressInv, CaughtInv, WTypes
  <1>5. SyncInv'
    BY DEF SyncInv, WTypes
  <1> QED  BY <1>1, <1>3, <1>4, <1>5

(* What stays of the messages on their way is a part of them.              *)
LEMMA PrefixesTyped ==
    ASSUME NEW S, NEW q \in [Node -> Seq(S)],
           NEW r \in [Node -> UNION {Prefixes(q[n]) : n \in Node}],
           \A n \in Node : IsPrefix(r[n], q[n])
    PROVE  /\ r \in [Node -> Seq(S)]
           /\ \A n \in Node : q[n] = <<>> => r[n] = <<>>
  <1>1. ASSUME NEW n \in Node, NEW s \in Prefixes(q[n])
        PROVE  s \in Seq(S)
    <2>1. PICK l \in 0..Len(q[n]) : s = SubSeq(q[n], 1, l)
      BY DEF Prefixes
    <2>2. q[n] \in Seq(S)
      OBVIOUS
    <2>3. \A i \in 1..l : q[n][i] \in S
      BY <2>2
    <2> QED  BY <2>1, <2>2, <2>3
  <1>2. r \in [Node -> Seq(S)]
    BY <1>1
  <1>3. ASSUME NEW n \in Node, q[n] = <<>>
        PROVE  r[n] = <<>>
    <2>1. r[n] \in Seq(S) /\ Len(r[n]) <= 0
      BY <1>2, <1>3 DEF IsPrefix
    <2> QED  BY <2>1
  <1> QED  BY <1>2, <1>3

LEMMA CrashKeeps ==
    ASSUME WInv, Crash
    PROVE  WInv'
  <1> USE DEF WInv
  <1>1. /\ host = FirstHost /\ \A n \in Node : phase[n] # "waiting"
        /\ phase' = [phase EXCEPT ![host] = "crashed"] /\ unsent' = FALSE
        /\ UNCHANGED <<world, host, snapshot, buffered, links, started, runs, rejoined>>
        /\ inbox' \in [Node -> UNION {Prefixes(inbox[n]) : n \in Node}]
        /\ \A n \in Node : IsPrefix(inbox'[n], inbox[n])
        /\ synced' \in [Node -> UNION {Prefixes(synced[n]) : n \in Node}]
        /\ \A n \in Node : IsPrefix(synced'[n], synced[n])
    BY DEF Crash
  <1>2. inbox' \in [Node -> Seq(Message)]
    <2>1. inbox \in [Node -> Seq(Message)]
      BY DEF WTypes
    <2> QED  BY <1>1, <2>1, PrefixesTyped
  <1>3. /\ synced' \in [Node -> Seq(Sync)]
        /\ \A n \in Node : synced[n] = <<>> => synced'[n] = <<>>
    <2>1. synced \in [Node -> Seq(Sync)]
      BY DEF WTypes
    <2>2. /\ synced' \in [Node -> UNION {Prefixes(synced[n]) : n \in Node}]
          /\ \A n \in Node : IsPrefix(synced'[n], synced[n])
      BY <1>1
    <2> HIDE DEF WInv
    <2> QED  BY <2>1, <2>2, PrefixesTyped
  <1>4. WTypes'
    BY <1>1, <1>2, <1>3 DEF WTypes, links
  <1>5. host \in Node /\ phase'[host] = "crashed"
    BY <1>1 DEF WTypes
  <1>6. PhaseInv'
    BY <1>1, <1>5 DEF PhaseInv, Alive, WTypes, links
  <1>7. GateInv' /\ ProgressInv'
    BY <1>1 DEF GateInv, ProgressInv
  <1>8. SyncInv' /\ CaughtInv'
    BY <1>1, <1>3, <1>5 DEF SyncInv, CaughtInv, Alive
  <1> QED  BY <1>4, <1>6, <1>7, <1>8

(* A step of a client, that touches its own copy and queue.                *)
LEMMA ClientKeeps ==
    ASSUME WInv, NEW n \in Node, n # host, phase[n] = "playing",
           NEW level \in Level, world' = [world EXCEPT ![n] = level],
           inbox' \in [Node -> Seq(Message)], \A m \in Node \ {n} : inbox'[m] = inbox[m],
           \/ UNCHANGED <<snapshot, buffered>>
           \/ /\ snapshot[n] # Nothing
              /\ snapshot' = [snapshot EXCEPT ![n] = Nothing]
              /\ buffered' = [buffered EXCEPT ![n] = snapshot[n]]
           \/ snapshot' = [snapshot EXCEPT ![n] = Nothing] /\ buffered' = buffered,
           synced' \in [Node -> Seq(Sync)], rejoined = 0 => synced' = synced,
           UNCHANGED <<host, phase, unsent, links, started, runs, rejoined>>,
           host = FirstHost /\ host \in Alive /\ ~unsent /\ rejoined = 0 =>
              /\ \A p \in PowerUp : Reaches(world[n].collected, inbox[n], "power_up", p) <=>
                                    Reaches(level.collected, inbox'[n], "power_up", p)
              /\ \A b \in Block : Reaches(world[n].destroyed, inbox[n], "block", b) =>
                                  Reaches(level.destroyed, inbox'[n], "block", b)
    PROVE  WInv'
  <1> USE DEF WInv
  <1>1. world'[host] = world[host] /\ Alive' = Alive /\ host \in Node
    BY DEF WTypes, Alive
  <1>2. WTypes'
    <2>1. snapshot' \in [Node -> Level \union {Nothing}] /\ buffered' \in [Node -> Level \union {Nothing}]
      BY DEF WTypes
    <2> QED  BY <2>1 DEF WTypes, links
  <1>3. PhaseInv'
    BY <1>1 DEF PhaseInv, links
  <1>4. \A m \in Node : /\ snapshot'[m] \in {snapshot[m], Nothing}
                        /\ buffered'[m] \in {snapshot[m], buffered[m]}
    BY DEF WTypes
  <1>5. GateInv' /\ ProgressInv'
    BY <1>1, <1>4 DEF GateInv, ProgressInv
  <1>6. SyncInv'
    BY DEF SyncInv
  <1>7. CaughtInv'
    <2>1. Heard' = Heard
      BY <1>1 DEF Heard, links
    <2>2. world[host].destroyed \subseteq Block
      BY <1>1 DEF WTypes, Level
    <2>3. ASSUME host = FirstHost, host \in Alive, ~unsent, rejoined = 0, NEW m \in Heard
          PROVE  /\ \A p \in PowerUp : p \in world[host].collected <=>
                       Reaches(world'[m].collected, inbox'[m], "power_up", p)
                 /\ \A b \in world[host].destroyed : Reaches(world'[m].destroyed, inbox'[m], "block", b)
      <3>1. m \in Node
        BY DEF Heard, Alive
      <3>2. /\ \A p \in PowerUp : p \in world[host].collected <=>
                    Reaches(world[m].collected, inbox[m], "power_up", p)
            /\ \A b \in world[host].destroyed : Reaches(world[m].destroyed, inbox[m], "block", b)
        BY <2>3 DEF CaughtInv
      <3>3. CASE m = n
        <4>1. world'[n] = level
          BY DEF WTypes
        <4> QED  BY <2>2, <2>3, <3>2, <3>3, <4>1
      <3>4. CASE m # n
        <4>1. world'[m] = world[m] /\ inbox'[m] = inbox[m]
          BY <3>1, <3>4 DEF WTypes
        <4> QED  BY <3>2, <4>1
      <3> QED  BY <3>3, <3>4
    <2> QED  BY <1>1, <2>1, <2>3 DEF CaughtInv
  <1> QED  BY <1>2, <1>3, <1>5, <1>6, <1>7

LEMMA ClientFrameKeeps ==
    ASSUME WInv, NEW n \in Node, PredictTick(n) \/ ReceiveSync(n) \/ ReceiveSnapshot(n) \/ ReceiveEvent(n)
    PROVE  WInv'
  <1> USE DEF WInv
  <1>1. world[n] \in Level /\ inbox \in [Node -> Seq(Message)] /\ synced \in [Node -> Seq(Sync)]
    BY DEF WTypes
  <1>2. ASSUME NEW level \in Level, world[n].destroyed \subseteq level.destroyed,
               level.collected = world[n].collected
        PROVE  /\ \A p \in PowerUp : Reaches(world[n].collected, inbox[n], "power_up", p) <=>
                                     Reaches(level.collected, inbox[n], "power_up", p)
               /\ \A b \in Block : Reaches(world[n].destroyed, inbox[n], "block", b) =>
                                   Reaches(level.destroyed, inbox[n], "block", b)
    BY <1>2, ReachesGrows
  <1>3. CASE PredictTick(n)
    <2>1. PICK bumped \in Bumpable(world[n]) :
             world' = [world EXCEPT ![n] = Predicted(world[n], bumped)]
      BY <1>3 DEF PredictTick
    <2> DEFINE level == Predicted(world[n], bumped)
    <2>2. level \in Level /\ world[n].destroyed \subseteq level.destroyed
          /\ level.collected = world[n].collected
      BY <1>1, PredictedLevel
    <2>3. /\ n # host /\ phase[n] = "playing" /\ world' = [world EXCEPT ![n] = level]
          /\ UNCHANGED <<inbox, snapshot, buffered>>
          /\ UNCHANGED <<host, phase, unsent, synced, links, started, runs, rejoined>>
      BY <1>3, <2>1 DEF PredictTick, net
    <2> HIDE DEF level
    <2> QED  BY <1>1, <1>2, <2>2, <2>3, ClientKeeps
  <1>4. CASE ReceiveSnapshot(n)
    <2>1. snapshot[n] \in Level
      BY <1>4 DEF ReceiveSnapshot, WTypes
    <2> DEFINE base == Reconciled(world[n], snapshot[n])
    <2>2. base \in Level /\ base.destroyed = world[n].destroyed /\ base.collected = world[n].collected
      BY <1>1, <2>1, ReconciledLevel
    <2>3. \/ world' = [world EXCEPT ![n] = base]
          \/ \E bumped \in Bumpable(base) : world' = [world EXCEPT ![n] = Predicted(base, bumped)]
      BY <1>4 DEF ReceiveSnapshot
    <2> HIDE DEF base
    <2>4. PICK level \in Level : /\ world' = [world EXCEPT ![n] = level]
                                 /\ base.destroyed \subseteq level.destroyed
                                 /\ level.collected = base.collected
      BY <2>2, <2>3, PredictedLevel
    <2>5. /\ n # host /\ phase[n] = "playing" /\ snapshot[n] # Nothing /\ inbox' = inbox
          /\ snapshot' = [snapshot EXCEPT ![n] = Nothing]
          /\ buffered' = [buffered EXCEPT ![n] = snapshot[n]]
          /\ UNCHANGED <<host, phase, unsent, synced, links, started, runs, rejoined>>
      BY <1>4 DEF ReceiveSnapshot
    <2> QED  BY <1>1, <1>2, <2>2, <2>4, <2>5, ClientKeeps
  <1>5. CASE ReceiveEvent(n)
    <2> DEFINE q == inbox[n]
               e == Head(q)
               level == Applied(world[n], e)
    <2>1. /\ n # host /\ phase[n] = "playing" /\ q # <<>> /\ world' = [world EXCEPT ![n] = level]
          /\ inbox' = [inbox EXCEPT ![n] = Tail(q)]
          /\ UNCHANGED <<snapshot, buffered>>
          /\ UNCHANGED <<host, phase, unsent, synced, links, started, runs, rejoined>>
      BY <1>5 DEF ReceiveEvent
    <2>2. q \in Seq(Message) /\ e \in Message /\ Tail(q) \in Seq(Message)
      BY <1>1, <2>1
    <2>3. /\ inbox' \in [Node -> Seq(Message)] /\ inbox'[n] = Tail(q)
          /\ \A m \in Node \ {n} : inbox'[m] = inbox[m]
      BY <1>1, <2>1, <2>2
    <2>4. /\ level \in Level
          /\ \A kind \in {"block", "power_up"} : \A x :
                 x \in Held(level, kind) <=>
                    Adds(e, kind, x) \/ (x \in Held(world[n], kind) /\ ~Clears(e, kind, x))
      <3> HIDE DEF e
      <3> QED  BY <1>1, <2>2, AppliedLevel
    <2> HIDE DEF level, q
    <2>5. \A kind \in {"block", "power_up"} : \A x :
             Reaches(Held(world[n], kind), q, kind, x) <=> Reaches(Held(level, kind), Tail(q), kind, x)
      BY <2>1, <2>2, <2>4, ReachesRead
    <2>6. /\ \A p \in PowerUp : Reaches(world[n].collected, q, "power_up", p) <=>
                                Reaches(level.collected, Tail(q), "power_up", p)
          /\ \A b \in Block : Reaches(world[n].destroyed, q, "block", b) =>
                              Reaches(level.destroyed, Tail(q), "block", b)
      BY <2>5 DEF Held
    <2>7. synced' \in [Node -> Seq(Sync)] /\ synced' = synced
      BY <1>1, <2>1
    <2>8. UNCHANGED <<host, phase, unsent, links, started, runs, rejoined>>
      BY <2>1
    <2>9. /\ \A p \in PowerUp : Reaches(world[n].collected, inbox[n], "power_up", p) <=>
                                Reaches(level.collected, inbox'[n], "power_up", p)
          /\ \A b \in Block : Reaches(world[n].destroyed, inbox[n], "block", b) =>
                              Reaches(level.destroyed, inbox'[n], "block", b)
      BY <2>3, <2>6 DEF q
    <2> QED  BY <2>1, <2>3, <2>4, <2>7, <2>8, <2>9, ClientKeeps
  <1>6. CASE ReceiveSync(n)
    <2> DEFINE sync == Head(synced[n])
               level == sync.world
    <2>1. /\ n # host /\ phase[n] = "playing" /\ synced[n] # <<>> /\ inbox' = inbox /\ buffered' = buffered
          /\ world' = [world EXCEPT ![n] = level]
          /\ synced' = [synced EXCEPT ![n] = Tail(synced[n])]
          /\ snapshot' = [snapshot EXCEPT ![n] = IF snapshot[n] = sync.sent THEN Nothing ELSE snapshot[n]]
          /\ UNCHANGED <<host, phase, unsent, links, started, runs, rejoined>>
      BY <1>6 DEF ReceiveSync
    <2>2. sync \in Sync /\ Tail(synced[n]) \in Seq(Sync)
      BY <1>1, <2>1
    <2>3. level \in Level /\ synced' \in [Node -> Seq(Sync)] /\ rejoined # 0
      BY <1>1, <2>1, <2>2 DEF Sync, SyncInv
    <2>4. \/ UNCHANGED <<snapshot, buffered>>
          \/ snapshot' = [snapshot EXCEPT ![n] = Nothing] /\ buffered' = buffered
      BY <2>1 DEF WTypes
    <2> HIDE DEF level, sync
    <2> QED  BY <1>1, <2>1, <2>3, <2>4, ClientKeeps
  <1> QED  BY <1>3, <1>4, <1>5, <1>6

-----------------------------------------------------------------------------

(* A replay: who waited restarts without an event connection.              *)
LEMMA ReplayKeeps ==
    ASSUME WInv, NEW n \in Node, ClientRestart(n) \/ LeaveOverlay(n)
    PROVE  WInv'
  <1> USE DEF WInv
  <1>1. CASE ClientRestart(n)
    <2> USE <1>1 DEF ClientRestart
    <2>1. n # host /\ world'[host] = world[host] /\ host \in Node /\ Alive' = Alive
      BY DEF PhaseInv, WTypes, Alive
    <2>2. WTypes'
      <3>1. <<>> \in Seq(Message)
        OBVIOUS
      <3>2. inbox' \in [Node -> Seq(Message)]
        BY <3>1 DEF WTypes
      <3> QED  BY <3>2, FreshLevel DEF WTypes
    <2>3. PhaseInv'
      BY <2>1 DEF PhaseInv, WTypes
    <2>4. GateInv' /\ ProgressInv'
      BY <2>1 DEF GateInv, ProgressInv
    <2>5. \A m \in Heard' : /\ m \in Heard /\ m \in Node
                             /\ world'[m] = world[m] /\ inbox'[m] = inbox[m]
      BY <2>1 DEF Heard, Alive, WTypes
    <2>6. SyncInv' /\ CaughtInv'
      BY <2>1, <2>5 DEF SyncInv, CaughtInv
    <2> QED  BY <2>2, <2>3, <2>4, <2>6
  <1>2. CASE LeaveOverlay(n)
    <2> USE <1>2 DEF LeaveOverlay, net, links
    <2>1. Alive' = Alive
      BY DEF Alive, WTypes
    <2>2. WTypes'
      BY DEF WTypes
    <2>3. PhaseInv'
      BY <2>1, NodeAssumption DEF PhaseInv, WTypes
    <2>4. GateInv' /\ ProgressInv'
      BY DEF GateInv, ProgressInv
    <2>5. SyncInv' /\ CaughtInv'
      <3>1. Heard' \subseteq Heard
        BY <2>1 DEF Heard, WTypes
      <3> QED  BY <2>1, <3>1 DEF SyncInv, CaughtInv
    <2> QED  BY <2>2, <2>3, <2>4, <2>5
  <1> QED  BY <1>1, <1>2

LEMMA QuitKeeps ==
    ASSUME WInv, NEW n \in Node, Quit(n)
    PROVE  WInv'
  <1> USE DEF WInv, Quit
  <1>1. /\ n \in Client \ {host} /\ world'[host] = world[host] /\ host \in Node
        /\ Alive' = Alive \ {n}
    BY DEF WTypes, Alive
  <1>2. WTypes'
    <2>1. <<>> \in Seq(Message) /\ <<>> \in Seq(Sync)
      OBVIOUS
    <2>2. inbox' \in [Node -> Seq(Message)] /\ synced' \in [Node -> Seq(Sync)]
      BY <2>1 DEF WTypes
    <2> QED  BY <2>2, FreshLevel, NodeAssumption DEF WTypes
  <1>3. PhaseInv'
    BY <1>1, NodeAssumption DEF PhaseInv, WTypes, Client
  <1>4. \A m \in Node : snapshot'[m] \in {snapshot[m], Nothing} /\ buffered'[m] \in {buffered[m], Nothing}
    BY DEF WTypes
  <1>5. GateInv' /\ ProgressInv'
    BY <1>1, <1>4 DEF GateInv, ProgressInv
  <1>6. SyncInv'
    BY DEF SyncInv, WTypes
  <1>7. CaughtInv'
    <2>1. \A m \in Heard' : /\ m \in Heard /\ m \in Node /\ m # n
                             /\ inbox'[m] = inbox[m] /\ world'[m] = world[m]
      BY <1>1 DEF Heard, Alive, WTypes
    <2> QED  BY <1>1, <2>1 DEF CaughtInv
  <1> QED  BY <1>2, <1>3, <1>5, <1>6, <1>7

(* A survivor resumes from its buffer and leads the others.                *)
LEMMA PromoteKeeps ==
    ASSUME WInv, NEW n \in Node, Promote(n)
    PROVE  WInv'
  <1> USE DEF WInv, Promote
  <1>1. /\ host = FirstHost /\ host \notin Alive /\ n \in Alive /\ n # FirstHost
        /\ buffered[n] \in Level /\ world' = [world EXCEPT ![n] = buffered[n], ![host] = Fresh]
        /\ host' = n /\ Alive' = Alive
    BY DEF PhaseInv, WTypes, Alive
  <1>2. WTypes'
    <2>1. <<>> \in Seq(Message) /\ <<>> \in Seq(Sync)
      OBVIOUS
    <2>2. inbox' \in [Node -> Seq(Message)] /\ synced' \in [Node -> Seq(Sync)]
      BY <2>1 DEF WTypes
    <2>3. world' \in [Node -> Level]
      BY <1>1, FreshLevel DEF WTypes
    <2> QED  BY <2>2, <2>3 DEF WTypes
  <1>3. PhaseInv'
    <2>1. ~unsent /\ following'[n] = n /\ phase[FirstHost] = "crashed"
      BY <1>1, NodeAssumption DEF PhaseInv, WTypes, Alive
    <2>2. \A m \in Node : ~started[m]
      BY <1>1 DEF PhaseInv
    <2> QED  BY <1>1, <2>1, <2>2 DEF PhaseInv
  <1>4. GateInv'
    <2>1. world'[n] = buffered[n]
      BY <1>1 DEF WTypes
    <2>2. \A m \in Node : snapshot'[m] \in {snapshot[m], Nothing} /\ buffered'[m] \in {buffered[m], Nothing}
      BY DEF WTypes
    <2> QED  BY <1>1, <2>1, <2>2 DEF GateInv
  <1>5. ProgressInv' /\ SyncInv' /\ CaughtInv'
    BY <1>1 DEF ProgressInv, SyncInv, CaughtInv, WTypes
  <1> QED  BY <1>2, <1>3, <1>4, <1>5

LEMMA ReconnectKeeps ==
    ASSUME WInv, NEW n \in Node, Reconnect(n)
    PROVE  WInv'
  <1> USE DEF WInv, Reconnect
  <1>1. /\ host # FirstHost /\ n # host /\ host \in Node
        /\ UNCHANGED <<host, phase, unsent, snapshot, buffered, started, runs, rejoined>>
    BY DEF PhaseInv, WTypes
  <1>2. PICK level \in Level : world' = [world EXCEPT ![n] = level]
    <2>1. CASE buffered[n] = Nothing
      <3>1. world' = [world EXCEPT ![n] = world[n]] /\ world[n] \in Level
        BY <2>1 DEF WTypes
      <3> QED  BY <3>1
    <2>2. CASE buffered[n] # Nothing
      <3> DEFINE level == [buffered[n] EXCEPT !.enemies = world[n].enemies, !.victory = world[n].victory]
      <3>1. buffered[n] \in Level /\ world[n] \in Level
        BY <2>2 DEF WTypes
      <3>2. level \in Level
        BY <3>1 DEF Level
      <3>3. world' = [world EXCEPT ![n] = level]
        BY <2>2
      <3> QED  BY <3>2, <3>3
    <2> QED  BY <2>1, <2>2
  <1>3. WTypes'
    <2>1. <<>> \in Seq(Message) /\ <<>> \in Seq(Sync)
      OBVIOUS
    <2>2. inbox' \in [Node -> Seq(Message)] /\ synced' \in [Node -> Seq(Sync)]
      BY <2>1 DEF WTypes
    <2> QED  BY <1>1, <1>2, <2>2 DEF WTypes
  <1>4. world'[host] = world[host] /\ Alive' = Alive
    BY <1>1, <1>2 DEF WTypes, Alive
  <1>5. PhaseInv'
    BY <1>1, <1>4 DEF PhaseInv, WTypes
  <1>6. GateInv' /\ ProgressInv' /\ SyncInv' /\ CaughtInv'
    BY <1>1, <1>4 DEF GateInv, ProgressInv, SyncInv, CaughtInv, WTypes
  <1> QED  BY <1>3, <1>5, <1>6

LEMMA WorldStep == WInv /\ [Next]_vars => WInv'
  <1> SUFFICES ASSUME WInv, [Next]_vars
               PROVE  WInv'
    OBVIOUS
  <1>1. CASE HostFrame \/ HostSync \/ HostRestart \/ Crash
    BY <1>1, HostFrameKeeps, HostSyncKeeps, HostRestartKeeps, CrashKeeps
  <1>2. ASSUME NEW n \in Node, ClientStep(n) \/ LeaveOverlay(n)
        PROVE  WInv'
    BY <1>2, ClientFrameKeeps, ReplayKeeps DEF ClientStep
  <1>3. ASSUME NEW n \in Node, Quit(n) \/ Promote(n) \/ Reconnect(n)
        PROVE  WInv'
    BY <1>3, QuitKeeps, PromoteKeeps, ReconnectKeeps
  <1>4. CASE UNCHANGED vars
    <2> USE <1>4 DEF vars, net, links, WInv
    <2>1. WTypes' /\ PhaseInv'
      BY DEF WTypes, PhaseInv, Alive
    <2>2. GateInv' /\ ProgressInv' /\ SyncInv' /\ CaughtInv'
      BY DEF GateInv, ProgressInv, SyncInv, CaughtInv, Heard, Alive
    <2> QED  BY <2>1, <2>2
  <1> QED  BY <1>1, <1>2, <1>3, <1>4 DEF Next

THEOREM WorldInvariance == Spec => []WInv
  BY InitWorld, WorldStep, PTL DEF Spec

-----------------------------------------------------------------------------
(* The theorems.                                                           *)

(* Every copy of the level, every snapshot and every message is of its     *)
(* type: no node ever resumes from a snapshot that it does not have        *)
(* (_promote_to_host).                                                     *)
THEOREM WorldTypes == Spec => []WorldTypeOK
  <1>1. WInv => WorldTypeOK
    BY DEF WInv, WTypes, WorldTypeOK
  <1> QED  BY <1>1, WorldInvariance, PTL

(* Under the first host, and as long as nobody rejoined, a client in the   *)
(* game with the event connection of the first lobby that has applied      *)
(* every game event has the power-ups of the host and at least its blocks: *)
(* _send_game_event, _drain_game_events.                                   *)
THEOREM ClientCatchesUp == Spec => []CaughtUp
  <1>1. ASSUME WInv
        PROVE  CaughtUp
    <2> USE <1>1 DEF WInv
    <2>1. ASSUME NEW n \in Node, Idle(n), connected[n], rejoined = 0
          PROVE  InStep(n)
      <3>1. /\ n \in Heard /\ world[n] \in Level /\ world[host] \in Level
            /\ host = FirstHost /\ host \in Alive /\ ~unsent /\ inbox[n] = <<>>
        BY <2>1 DEF Idle, Follows, Heard, WTypes
      <3>2. \A held, kind, x : Reaches(held, inbox[n], kind, x) <=> x \in held
        BY <3>1 DEF Reaches
      <3>3. /\ \A p \in PowerUp : p \in world[host].collected <=> p \in world[n].collected
            /\ \A b \in world[host].destroyed : b \in world[n].destroyed
        BY <2>1, <3>1, <3>2 DEF CaughtInv
      <3>4. world[n].collected \subseteq PowerUp /\ world[host].collected \subseteq PowerUp
        BY <3>1 DEF Level
      <3> QED  BY <3>3, <3>4 DEF InStep
    <2> QED  BY <2>1 DEF CaughtUp
  <1> QED  BY <1>1, WorldInvariance, PTL


-----------------------------------------------------------------------------

(* Only the host frame touches the level of a host within a run.           *)
LEMMA HostLevel ==
    ASSUME WInv, Next, ~HostFrame, UNCHANGED <<host, runs>>
    PROVE  world'[host] = world[host]
  <1> USE DEF WInv
  <1>1. ~HostRestart
    BY DEF HostRestart, WTypes
  <1>2. CASE HostSync \/ Crash
    BY <1>2 DEF HostSync, Crash
  <1>3. ASSUME NEW n \in Node, \/ PredictTick(n) \/ ReceiveSync(n) \/ ReceiveSnapshot(n) \/ ReceiveEvent(n)
                               \/ ClientRestart(n) \/ Quit(n) \/ Reconnect(n)
        PROVE  world'[host] = world[host]
    <2>1. n # host
      BY <1>3 DEF PredictTick, ReceiveSync, ReceiveSnapshot, ReceiveEvent, ClientRestart, Quit, Reconnect, PhaseInv
    <2>2. \A m \in Node \ {n} : world'[m] = world[m]
      BY <1>3 DEF PredictTick, ReceiveSync, ReceiveSnapshot, ReceiveEvent, ClientRestart, Quit, Reconnect, WTypes
    <2> QED  BY <2>1, <2>2 DEF WTypes
  <1>4. ASSUME NEW n \in Node, LeaveOverlay(n) \/ Promote(n)
        PROVE  world'[host] = world[host]
    BY <1>4 DEF LeaveOverlay, Promote
  <1> QED  BY <1>1, <1>2, <1>3, <1>4 DEF Next, ClientStep

(* Within a run an open gate never closes again at the host                *)
(* (handle_gate_collisions).                                               *)
THEOREM GateNeverCloses == Spec => GateStaysOpen
  <1> DEFINE Stays == host' = host /\ runs' = runs => world[host].open \subseteq world'[host].open
  <1>1. ASSUME WInv, [Next]_vars
        PROVE  Stays
    <2> USE <1>1 DEF WInv
    <2>1. CASE HostFrame
      <3>1. PICK bumped \in Bumpable(world[host]), touched \in Touchable(world[host]),
                 beaten \in Beatable(world[host]), reached \in SUBSET Final :
                    world' = [world EXCEPT ![host] = Ticked(world[host], bumped, touched, beaten, reached)]
        BY <2>1 DEF HostFrame
      <3>2. world[host] \in Level /\ Earned(world[host]) /\ host \in Node
        BY DEF WTypes, GateInv
      <3> DEFINE after == Ticked(world[host], bumped, touched, beaten, reached)
      <3>3. Behind(world[host], after)
        BY <3>2, TickedLevel
      <3>4. world'[host] = after
        BY <3>1, <3>2 DEF WTypes
      <3> HIDE DEF after
      <3> QED  BY <2>1, <3>3, <3>4 DEF Behind, HostFrame
    <2>2. CASE ~HostFrame
      BY <2>2, HostLevel DEF vars
    <2> QED  BY <2>1, <2>2
  <1>2. WInv /\ [Next]_vars => [Stays]_vars
    BY <1>1
  <1> QED  BY <1>2, WorldInvariance, PTL DEF Spec, GateStaysOpen

(* What only the promoted client predicted never becomes authoritative in  *)
(* the first run (bootstrap_from_snapshot).                                *)
THEOREM NothingInvented == Spec => NoFalseProgress
  <1> DEFINE Honest == host' # host /\ runs = 1 =>
                          LET new == world'[host']
                              old == world[host]
                          IN  /\ new.destroyed \subseteq old.destroyed
                              /\ new.collected \subseteq old.collected
                              /\ old.enemies \subseteq new.enemies
                              /\ new.open \subseteq old.open
  <1>1. ASSUME WInv, [Next]_vars, host' # host, runs = 1
        PROVE  Behind(world'[host'], world[host])
    <2> USE <1>1 DEF WInv
    <2>1. PICK n \in Node : Promote(n)
      BY DEF Next, HostFrame, HostSync, HostRestart, Crash, ClientStep, PredictTick, ReceiveSync, ReceiveSnapshot,
             ReceiveEvent, ClientRestart, LeaveOverlay, Quit, Reconnect, vars
    <2>2. world'[host'] = buffered[n] /\ buffered[n] # Nothing /\ host = FirstHost
      BY <2>1 DEF Promote, PhaseInv, WTypes
    <2> QED  BY <2>2 DEF ProgressInv
  <1>2. WInv /\ [Next]_vars => [Honest]_vars
    BY <1>1 DEF Behind
  <1> QED  BY <1>2, WorldInvariance, PTL DEF Spec, NoFalseProgress

=============================================================================
