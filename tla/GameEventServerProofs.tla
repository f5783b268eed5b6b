------------------------- MODULE GameEventServerProofs -------------------------
(***************************************************************************)
(* Proofs about GameEventServer: the types of the server and of its walks; *)
(* MissesBounded and InOrder, for any number of connections and events and *)
(* any interleaving of walks, arrivals and removals.                       *)
(***************************************************************************)
EXTENDS GameEventServer, FiniteSetTheorems, SequenceTheorems, TLAPS

Known == alive \cup closed \cup Listed

(* The types.                                                              *)
ServerTypes ==
    /\ sent \in Nat
    /\ outbox \in Seq(Event)
    /\ connections \in Seq(Connection)
    /\ alive \subseteq Connection /\ closed \subseteq Connection /\ signalled \subseteq Connection
    /\ walks \in [Connection -> Seq(Walk)]
    /\ inbox \in [Connection -> Seq(Event)]
    /\ audience \in [Event -> SUBSET Connection]
    /\ removed \in [Event -> Nat]

(* Connections are numbered as they come, and listed once; who is there is *)
(* listed, and only who was seen to close is told to leave.                *)
PeersInv ==
    /\ \E k \in 0..MaxConnections : Known = 1..k
    /\ \A i, j \in 1..Len(connections) : connections[i] = connections[j] => i = j
    /\ alive \subseteq Listed /\ alive \cap closed = {}
    /\ signalled \subseteq closed
    /\ \A e \in Event : audience[e] \subseteq Known

(* Neither an event in the outbox nor one that the host has not sent is on *)
(* its way, and the outbox holds no event twice.                           *)
SupplyInv ==
    /\ \A i \in 1..Len(outbox) : outbox[i] <= sent /\ ~Walking(outbox[i])
    /\ \A i, j \in 1..Len(outbox) : outbox[i] = outbox[j] => i = j
    /\ \A e \in Event : e > sent => ~Walking(e)

(* The clients without the event that a walk which has fetched so many     *)
(* from the list does not come to any more.                                *)
Behind(e, next) ==
    {c \in audience[e] \cap alive :
        /\ e \notin Range(inbox[c])
        /\ \A i \in 1..Len(connections) : connections[i] = c => i <= next}

Missed(e) == {c \in audience[e] \cap alive : e \notin Range(inbox[c])}

(* A walk passes over one client for each removal, no more.                *)
WalkInv ==
    \A c \in Connection : \A w \in Range(walks[c]) :
        /\ w.dead \subseteq closed
        /\ w.event # Ping => Cardinality(Behind(w.event, w.next)) <= removed[w.event]

Bounded == \A e \in Event : ~Walking(e) => Cardinality(Missed(e)) <= removed[e]

ServerInv == ServerTypes /\ PeersInv /\ SupplyInv /\ WalkInv /\ Bounded

-----------------------------------------------------------------------------
(* Sequences.                                                              *)

LEMMA RangeAppended ==
    ASSUME NEW S, NEW s \in Seq(S), NEW x \in S
    PROVE  Append(s, x) \in Seq(S) /\ Range(Append(s, x)) = Range(s) \cup {x}
  <1>1. Append(s, x) \in Seq(S) /\ Len(Append(s, x)) = Len(s) + 1 /\ Len(s) \in Nat
        /\ \A i \in 1..Len(s) : Append(s, x)[i] = s[i]
        /\ Append(s, x)[Len(s) + 1] = x
    OBVIOUS
  <1>2. Range(s) = {s[i] : i \in 1..Len(s)}
    BY RangeEquality
  <1>3. Range(Append(s, x)) = {Append(s, x)[i] : i \in 1..(Len(s) + 1)}
    BY <1>1, RangeEquality
  <1>4. 1..(Len(s) + 1) = 1..Len(s) \cup {Len(s) + 1}
    BY <1>1
  <1> QED  BY <1>1, <1>2, <1>3, <1>4

LEMMA RangeTail ==
    ASSUME NEW S, NEW s \in Seq(S), s # <<>>
    PROVE  /\ Head(s) \in S /\ Tail(s) \in Seq(S)
           /\ Range(s) = Range(Tail(s)) \cup {Head(s)}
  <1>1. /\ Head(s) \in S /\ Head(s) = s[1] /\ Tail(s) \in Seq(S) /\ Len(Tail(s)) = Len(s) - 1
        /\ \A i \in 1..Len(Tail(s)) : Tail(s)[i] = s[i + 1]
        /\ Len(s) \in Nat /\ Len(s) > 0
    BY HeadTailProperties
  <1>2. Range(s) = {s[i] : i \in 1..Len(s)}
    BY RangeEquality
  <1>3. Range(Tail(s)) = {Tail(s)[i] : i \in 1..(Len(s) - 1)}
    BY <1>1, RangeEquality
  <1>4. ASSUME NEW i \in 1..Len(s), i # 1
        PROVE  \E j \in 1..(Len(s) - 1) : Tail(s)[j] = s[i]
    <2>1. i - 1 \in 1..(Len(s) - 1) /\ (i - 1) + 1 = i
      BY <1>1, <1>4
    <2> DEFINE j == i - 1
    <2>2. j \in 1..(Len(s) - 1) /\ j + 1 = i
      BY <2>1
    <2> HIDE DEF j
    <2>3. Tail(s)[j] = s[j + 1]
      BY <1>1, <2>2
    <2>4. Tail(s)[j] = s[i]
      BY ONLY <2>2, <2>3
    <2> QED  BY <2>2, <2>4
  <1>5. \A i \in 1..(Len(s) - 1) : i + 1 \in 1..Len(s) /\ Tail(s)[i] = s[i + 1]
    BY <1>1
  <1>6. 1 \in 1..Len(s)
    BY <1>1
  <1>7. Range(s) \subseteq Range(Tail(s)) \cup {Head(s)}
    BY <1>1, <1>2, <1>3, <1>4
  <1>8. Range(Tail(s)) \cup {Head(s)} \subseteq Range(s)
    BY <1>1, <1>2, <1>3, <1>5, <1>6
  <1> QED  BY <1>1, <1>7, <1>8

(* list.remove: the others keep their order and move up by one.            *)
LEMMA RemovedOnce ==
    ASSUME NEW S, NEW s \in Seq(S), \A i, j \in 1..Len(s) : s[i] = s[j] => i = j,
           NEW p \in 1..Len(s)
    PROVE  /\ RemoveFirst(s, s[p]) \in Seq(S)
           /\ Len(RemoveFirst(s, s[p])) = Len(s) - 1
           /\ \A i \in 1..(Len(s) - 1) :
                 RemoveFirst(s, s[p])[i] = IF i < p THEN s[i] ELSE s[i + 1]
  <1> DEFINE I == {i \in 1..Len(s) : s[i] = s[p]}
             front == SubSeq(s, 1, p - 1)
             back  == SubSeq(s, p + 1, Len(s))
  <1>1. I = {p} /\ Min(I) = p
    <2>1. I = {p}
      OBVIOUS
    <2>2. \A x \in {p} : x = p /\ p <= p
      OBVIOUS
    <2>3. (CHOOSE x \in {p} : \A y \in {p} : x <= y) = p
      BY <2>2
    <2> QED  BY <2>1, <2>3 DEF Min
  <1>2. RemoveFirst(s, s[p]) = RemoveAt(s, p)
    <2>1. SelectInSeq(s, LAMBDA v : v = s[p]) = p
      BY <1>1 DEF SelectInSeq
    <2> QED  BY <2>1 DEF RemoveFirst
  <1>3. RemoveAt(s, p) = front \o back
    BY DEF RemoveAt
  <1>4. Len(s) \in Nat /\ p \in Nat /\ 1 <= p /\ p <= Len(s)
    OBVIOUS
  <1>5. /\ front \in Seq(S) /\ Len(front) = p - 1 /\ \A i \in 1..(p - 1) : front[i] = s[i]
    BY <1>4
  <1>6. /\ back \in Seq(S) /\ Len(back) = Len(s) - p
        /\ \A i \in 1..(Len(s) - p) : back[i] = s[p + i]
    BY <1>4
  <1> HIDE DEF front, back
  <1>7. /\ front \o back \in Seq(S) /\ Len(front \o back) = Len(front) + Len(back)
        /\ \A i \in 1..Len(front) + Len(back) :
               (front \o back)[i] = IF i <= Len(front) THEN front[i] ELSE back[i - Len(front)]
    <2>1. front \in Seq(S) /\ back \in Seq(S)
      BY <1>5, <1>6
    <2> QED  BY ONLY <2>1, ConcatProperties
  <1> DEFINE r == front \o back
  <1>8. r \in Seq(S) /\ Len(r) = Len(s) - 1
        /\ \A i \in 1..(Len(s) - 1) :
               r[i] = IF i <= p - 1 THEN front[i] ELSE back[i - (p - 1)]
    BY <1>4, <1>5, <1>6, <1>7
  <1> HIDE DEF r
  <1>9. ASSUME NEW i \in 1..(Len(s) - 1)
        PROVE  r[i] = IF i < p THEN s[i] ELSE s[i + 1]
    <2>1. CASE i < p
      BY <1>4, <1>5, <1>8, <2>1
    <2>2. CASE ~(i < p)
      <3>1. i - (p - 1) \in 1..(Len(s) - p) /\ p + (i - (p - 1)) = i + 1
        BY <1>4, <2>2
      <3> QED  BY <1>4, <1>6, <1>8, <2>2, <3>1
    <2> QED  BY <2>1, <2>2
  <1> QED  BY <1>2, <1>3, <1>8, <1>9 DEF r

-----------------------------------------------------------------------------
(* The clients without an event.                                           *)

LEMMA Fewer ==
    ASSUME NEW A, A \subseteq Connection, NEW B, B \subseteq A
    PROVE  /\ IsFiniteSet(A) /\ Cardinality(A) \in Nat /\ Cardinality(B) \in Nat
           /\ Cardinality(B) <= Cardinality(A)
  <1>1. IsFiniteSet(Connection)
    BY BoundAssumption, FS_Interval DEF Connection
  <1>2. IsFiniteSet(A) /\ IsFiniteSet(B)
    BY <1>1, FS_Subset
  <1> QED  BY <1>2, FS_Subset, FS_CardinalityType

LEMMA Numbers ==
    /\ Event \subseteq Nat /\ Ping \notin Event /\ Connection \subseteq Nat
    /\ MaxConnections \in Nat /\ MaxEvents \in Nat
  BY BoundAssumption DEF Event, Ping, Connection

(* Both sets of clients consist of connections.                            *)
LEMMA Clients ==
    ASSUME ServerTypes, NEW e \in Event, NEW n
    PROVE  /\ Behind(e, n) \subseteq Missed(e) /\ Missed(e) \subseteq Connection
           /\ Cardinality(Behind(e, n)) \in Nat /\ Cardinality(Missed(e)) \in Nat
  <1>1. Behind(e, n) \subseteq Missed(e) /\ Missed(e) \subseteq Connection
    BY DEF Behind, Missed, ServerTypes
  <1> QED  BY <1>1, Fewer

(* Nothing that is written takes an event away.                            *)
LEMMA WritingAdds ==
    ASSUME ServerTypes, NEW c \in Connection, NEW e \in Event \cup {Ping}
    PROVE  /\ Written(c, e) \in [Connection -> Seq(Event)]
           /\ \A x \in Connection : Range(inbox[x]) \subseteq Range(Written(c, e)[x])
           /\ e # Ping /\ c \in alive => e \in Range(Written(c, e)[c])
  <1>1. CASE e = Ping \/ c \notin alive
    BY <1>1 DEF Written, ServerTypes
  <1>2. CASE ~(e = Ping \/ c \notin alive)
    <2>1. e \in Event /\ inbox[c] \in Seq(Event)
      BY <1>2 DEF ServerTypes
    <2>2. /\ Append(inbox[c], e) \in Seq(Event)
          /\ Range(Append(inbox[c], e)) = Range(inbox[c]) \cup {e}
      BY <2>1, RangeAppended
    <2>3. Written(c, e) = [inbox EXCEPT ![c] = Append(inbox[c], e)]
      BY <1>2 DEF Written
    <2>4. Written(c, e)[c] = Append(inbox[c], e)
          /\ \A x \in Connection \ {c} : Written(c, e)[x] = inbox[x]
      BY <2>3 DEF ServerTypes
    <2>5. Written(c, e) \in [Connection -> Seq(Event)]
      BY <2>2, <2>3 DEF ServerTypes
    <2> QED  BY <2>2, <2>4, <2>5
  <1> QED  BY <1>1, <1>2

(* As long as the list stands, the clients without an event only get fewer.*)
LEMMA FewerBehind ==
    ASSUME ServerTypes, ServerTypes', NEW e \in Event, audience'[e] = audience[e],
           alive' \subseteq alive, connections' = connections,
           \A x \in Connection : Range(inbox[x]) \subseteq Range(inbox'[x])
    PROVE  /\ Missed(e)' \subseteq Missed(e)
           /\ Cardinality(Missed(e)') <= Cardinality(Missed(e))
           /\ \A n \in Nat : /\ Behind(e, n)' \subseteq Behind(e, n)
                             /\ Cardinality(Behind(e, n)') <= Cardinality(Behind(e, n))
  <1>1. Missed(e)' \subseteq Missed(e) /\ Missed(e) \subseteq Connection
    BY DEF Missed, ServerTypes
  <1>2. ASSUME NEW n \in Nat
        PROVE  Behind(e, n)' \subseteq Behind(e, n) /\ Behind(e, n) \subseteq Connection
    BY DEF Behind, ServerTypes
  <1> QED  BY <1>1, <1>2, Fewer

(* Walks that wait keep their bounds as long as nobody comes to be without *)
(* an event.                                                               *)
LEMMA WaitingKeeps ==
    ASSUME ServerTypes, WalkInv, Bounded, closed \subseteq closed', walks' = walks,
           removed' = removed,
           \A e \in Event : /\ Missed(e)' \subseteq Missed(e)
                            /\ \A n \in Nat : Behind(e, n)' \subseteq Behind(e, n)
    PROVE  WalkInv' /\ Bounded'
  <1>1. ASSUME NEW e \in Event, NEW n \in Nat
        PROVE  /\ Cardinality(Missed(e)') <= Cardinality(Missed(e))
               /\ Cardinality(Behind(e, n)') <= Cardinality(Behind(e, n))
               /\ {Cardinality(Missed(e)'), Cardinality(Missed(e)), Cardinality(Behind(e, n)'),
                   Cardinality(Behind(e, n)), removed[e]} \subseteq Nat
    <2>1. Behind(e, n) \subseteq Connection /\ Missed(e) \subseteq Connection
      BY Clients
    <2>2. removed[e] \in Nat
      BY DEF ServerTypes
    <2> QED  BY <2>1, <2>2, Fewer
  <1>2. ASSUME NEW d \in Connection, NEW w \in Range(walks[d])
        PROVE  /\ w.dead \subseteq closed'
               /\ w.event # Ping => Cardinality(Behind(w.event, w.next)') <= removed[w.event]
    <2>1. w \in Walk
      BY RangeOfSeq DEF ServerTypes
    <2>2. w.event # Ping => w.event \in Event /\ w.next \in Nat
      BY <2>1, Numbers DEF Walk
    <2>3. w.dead \subseteq closed
          /\ (w.event # Ping => Cardinality(Behind(w.event, w.next)) <= removed[w.event])
      BY DEF WalkInv
    <2> QED  BY <1>1, <2>2, <2>3
  <1>3. ASSUME NEW e \in Event, ~Walking(e)
        PROVE  Cardinality(Missed(e)') <= removed[e]
    <2>1. Cardinality(Missed(e)) <= removed[e]
      BY <1>3 DEF Bounded
    <2> QED  BY <1>1, <2>1, 0 \in Nat
  <1> QED  BY <1>2, <1>3 DEF WalkInv, Bounded, Walking

(* The list is no longer than there are connections.                       *)
LEMMA ShortList ==
    ASSUME ServerTypes, PeersInv
    PROVE  Len(connections) \in Nat /\ Len(connections) <= MaxConnections
  <1> DEFINE n == Len(connections)
  <1>1. n \in Nat /\ connections \in [1..n -> Connection]
    BY DEF ServerTypes
  <1>2. connections \in Injection(1..n, Connection)
    BY <1>1 DEF PeersInv, Injection, IsInjective
  <1>3. IsFiniteSet(Connection) /\ Cardinality(Connection) = MaxConnections
    BY Numbers, FS_Interval DEF Connection
  <1>4. IsFiniteSet(1..n) /\ Cardinality(1..n) = n
    BY <1>1, FS_Interval
  <1> HIDE DEF n
  <1>5. Cardinality(1..n) <= Cardinality(Connection)
    BY <1>2, <1>3, FS_Injection
  <1> QED  BY <1>1, <1>3, <1>4, <1>5 DEF n

LEMMA ListedAt ==
    ASSUME ServerTypes
    PROVE  /\ Listed = {connections[i] : i \in 1..Len(connections)}
           /\ Len(connections) \in Nat
           /\ \A i \in 1..Len(connections) : connections[i] \in Connection
  BY RangeEquality DEF ServerTypes, Listed

(* At the end of the list all that miss the event have been passed over.   *)
LEMMA AllBehind ==
    ASSUME ServerTypes, NEW e \in Event, NEW n \in Nat, n >= Len(connections)
    PROVE  Missed(e) = Behind(e, n)
  <1>1. \A i \in 1..Len(connections) : i <= n
    BY ListedAt
  <1> QED  BY <1>1 DEF Missed, Behind

-----------------------------------------------------------------------------
(* Peers that come and go, while walks wait.                               *)

LEMMA ConnectKeeps ==
    ASSUME ServerInv, Connect
    PROVE  ServerInv'
  <1> USE DEF ServerInv, supply, ends, record
  <1> DEFINE c == Cardinality(Known) + 1
  <1>1. /\ c \in Connection /\ connections' = Append(connections, c) /\ alive' = alive \cup {c}
        /\ UNCHANGED <<broker, outbox, posting, sent, closed, signalled, reports, walks, inbox,
                       audience, removed>>
    BY DEF Connect, Joined, Known
  <1>2. PICK k \in 0..MaxConnections : Known = 1..k
    BY DEF PeersInv
  <1>3. c = k + 1
    BY <1>2, FS_Interval, Numbers
  <1>4. c \notin Known
    BY <1>2, <1>3
  <1> HIDE DEF c
  <1>5. /\ connections' \in Seq(Connection) /\ Listed' = Listed \cup {c}
        /\ Len(connections') = Len(connections) + 1 /\ connections'[Len(connections) + 1] = c
        /\ \A i \in 1..Len(connections) : connections'[i] = connections[i]
        /\ Len(connections) \in Nat
    BY <1>1, RangeAppended DEF ServerTypes, Listed
  <1>6. ServerTypes'
    BY <1>1, <1>5 DEF ServerTypes
  <1>7. PeersInv'
    <2>1. Known' = 1..(k + 1) /\ k + 1 \in 0..MaxConnections
      BY <1>1, <1>2, <1>3, <1>5 DEF Known, Connection
    <2>2. \A i \in 1..Len(connections) : connections[i] # c
      BY <1>4, ListedAt DEF Known
    <2>3. ASSUME NEW i \in 1..Len(connections'), NEW j \in 1..Len(connections'),
                 connections'[i] = connections'[j]
          PROVE  i = j
      BY <1>5, <2>2, <2>3 DEF PeersInv
    <2>4. alive' \subseteq Listed' /\ alive' \cap closed' = {} /\ signalled' \subseteq closed'
      BY <1>1, <1>4, <1>5 DEF PeersInv, Known
    <2>5. \A e \in Event : audience'[e] \subseteq Known'
      BY <1>1, <1>5 DEF PeersInv, Known
    <2> QED  BY <2>1, <2>3, <2>4, <2>5 DEF PeersInv
  <1>8. SupplyInv'
    BY <1>1 DEF SupplyInv, Walking
  <1>9. ASSUME NEW e \in Event
        PROVE  /\ Missed(e)' \subseteq Missed(e)
               /\ \A n \in Nat : Behind(e, n)' \subseteq Behind(e, n)
    <2>1. c \notin audience[e]
      BY <1>4 DEF PeersInv
    <2> QED  BY <1>1, <1>5, <2>1 DEF Missed, Behind
  <1> QED  BY <1>1, <1>6, <1>7, <1>8, <1>9, WaitingKeeps

LEMMA PeersGo ==
    ASSUME ServerInv, NEW c \in Connection, Drop(c) \/ Notice(c)
    PROVE  ServerInv'
  <1> USE DEF ServerInv, supply, ends, record
  <1>1. /\ alive' \subseteq alive /\ closed \subseteq closed' /\ closed' \subseteq closed \cup {c}
        /\ c \notin alive' /\ c \in Listed
        /\ UNCHANGED <<broker, outbox, posting, sent, connections, signalled, reports, walks, inbox,
                       audience, removed>>
    BY DEF Drop, Notice, PeersInv
  <1>2. ServerTypes'
    BY <1>1 DEF ServerTypes
  <1>3. PeersInv'
    <2>1. Listed' = Listed /\ Known' = Known
      BY <1>1 DEF Listed, Known, PeersInv
    <2>2. alive' \subseteq Listed' /\ alive' \cap closed' = {} /\ signalled' \subseteq closed'
      BY <1>1, <2>1 DEF PeersInv
    <2> QED  BY <1>1, <2>1, <2>2 DEF PeersInv
  <1>4. SupplyInv'
    BY <1>1 DEF SupplyInv, Walking
  <1>5. ASSUME NEW e \in Event
        PROVE  /\ Missed(e)' \subseteq Missed(e)
               /\ \A n \in Nat : Behind(e, n)' \subseteq Behind(e, n)
    BY <1>1 DEF Missed, Behind
  <1> QED  BY <1>1, <1>2, <1>3, <1>4, <1>5, WaitingKeeps

(* The worker of the container, when no walk begins.                       *)
LEMMA WorkerKeeps ==
    ASSUME ServerInv, SendToWorker \/ PostRefused \/ PostTimeout
    PROVE  ServerInv'
  <1> USE DEF ServerInv, supply, peers, ends, record
  <1>1. UNCHANGED <<connections, alive, closed, signalled, walks, inbox, audience, removed>>
    BY DEF SendToWorker, PostRefused, PostTimeout
  <1>2. Len(outbox) \in Nat /\ \A i \in 1..Len(outbox) : outbox[i] \in Event
    BY DEF ServerTypes
  <1>3. ServerTypes' /\ SupplyInv'
    <2>1. CASE SendToWorker
      <3>1. sent + 1 \in Event /\ sent' = sent + 1 /\ outbox' = Append(outbox, sent + 1)
        <4>1. sent < MaxEvents /\ sent' = sent + 1 /\ outbox' = Append(outbox, sent + 1)
          BY <2>1 DEF SendToWorker
        <4>2. sent \in Nat /\ MaxEvents \in Nat
          BY Numbers DEF ServerTypes
        <4> QED  BY <4>1, <4>2 DEF Event
      <3>2. /\ outbox' \in Seq(Event) /\ Len(outbox') = Len(outbox) + 1
            /\ outbox'[Len(outbox) + 1] = sent + 1
            /\ \A i \in 1..Len(outbox) : outbox'[i] = outbox[i]
        BY <3>1 DEF ServerTypes
      <3>3. sent \in Nat /\ \A i \in 1..Len(outbox) : outbox[i] <= sent /\ outbox[i] \in Nat
        BY <1>2, Numbers DEF ServerTypes, SupplyInv
      <3>4. \A e \in Event : Walking(e)' = Walking(e)
        BY <1>1 DEF Walking
      <3>5. ~Walking(sent + 1)
        BY <3>1, <3>3 DEF SupplyInv
      <3>6. ASSUME NEW i \in 1..Len(outbox')
            PROVE  outbox'[i] <= sent' /\ ~Walking(outbox'[i])
        <4>1. CASE i \in 1..Len(outbox)
          BY <1>2, <3>1, <3>2, <3>3, <4>1 DEF SupplyInv
        <4>2. CASE i = Len(outbox) + 1
          BY <3>1, <3>2, <3>3, <3>5, <4>2
        <4> QED  BY <1>2, <3>2, <4>1, <4>2
      <3>7. ASSUME NEW i \in 1..Len(outbox'), NEW j \in 1..Len(outbox'), outbox'[i] = outbox'[j]
            PROVE  i = j
        BY <1>2, <3>2, <3>3, <3>7 DEF SupplyInv
      <3>8. \A e \in Event : e > sent' => ~Walking(e)'
        BY <3>1, <3>3, <3>4, Numbers DEF SupplyInv
      <3>9. ServerTypes'
        BY <1>1, <3>1, <3>2, <3>3 DEF ServerTypes
      <3>10. \A i \in 1..Len(outbox') : outbox'[i] <= sent' /\ (~Walking(outbox[i]))'
        BY <1>1, <3>6 DEF Walking
      <3>11. SupplyInv'
        BY <3>7, <3>8, <3>10 DEF SupplyInv
      <3> QED  BY <3>9, <3>11
    <2>2. CASE PostRefused
      <3>1. outbox # <<>> /\ outbox' = Tail(outbox) /\ sent' = sent
        BY <2>2 DEF PostRefused
      <3>2. /\ outbox' \in Seq(Event) /\ Len(outbox') = Len(outbox) - 1
            /\ \A i \in 1..Len(outbox') : outbox'[i] = outbox[i + 1]
        BY <3>1, HeadTailProperties DEF ServerTypes
      <3> QED  BY <1>1, <1>2, <3>1, <3>2 DEF ServerTypes, SupplyInv, Walking
    <2>3. CASE PostTimeout
      BY <1>1, <2>3 DEF PostTimeout, ServerTypes, SupplyInv, Walking
    <2> QED  BY <2>1, <2>2, <2>3
  <1>4. PeersInv'
    BY <1>1 DEF PeersInv, Known, Listed
  <1>5. ASSUME NEW e \in Event
        PROVE  /\ Missed(e)' \subseteq Missed(e)
               /\ \A n \in Nat : Behind(e, n)' \subseteq Behind(e, n)
    BY <1>1 DEF Missed, Behind
  <1> QED  BY <1>1, <1>3, <1>4, <1>5, WaitingKeeps

-----------------------------------------------------------------------------
(* Walks.                                                                  *)

(* Where the walks wait, after one has been put behind those of ws.        *)
LEMMA Joining ==
    ASSUME NEW waits \in Seq(Walk), NEW w \in Walk
    PROVE  /\ Append(waits, w) \in Seq(Walk)
           /\ Range(Append(waits, w)) = Range(waits) \cup {w}
  BY RangeAppended

(* A walk begins: nobody in front of it is without its event.              *)
LEMMA BeginKeeps ==
    ASSUME ServerTypes, PeersInv, WalkInv, Bounded,
           NEW e \in Event \cup {Ping}, Begin(e), e \in Event => ~Walking(e),
           audience' = IF e = Ping THEN audience ELSE [audience EXCEPT ![e] = Listed],
           sent' \in Nat, outbox' \in Seq(Event),
           UNCHANGED <<connections, alive, closed, signalled, removed>>
    PROVE  /\ ServerTypes' /\ PeersInv' /\ WalkInv' /\ Bounded'
           /\ \A x \in Event : Walking(x)' => Walking(x) \/ x = e
  <1>1. /\ audience' \in [Event -> SUBSET Connection]
        /\ \A x \in Event : x # e => audience'[x] = audience[x]
        /\ e \in Event => audience'[e] = Listed
    BY ListedAt, Numbers DEF ServerTypes
  <1>2. Listed' = Listed /\ Known' = Known
    BY DEF Listed, Known
  <1>3. PeersInv'
    <2>1. \A x \in Event : audience'[x] \subseteq Known'
      BY <1>1, <1>2 DEF PeersInv, Known
    <2>2. alive' \subseteq Listed' /\ alive' \cap closed' = {} /\ signalled' \subseteq closed'
      BY <1>2 DEF PeersInv
    <2> QED  BY <1>2, <2>1, <2>2 DEF PeersInv
  <1>4. CASE connections = <<>>
    <2>1. walks' = walks /\ inbox' = inbox
      BY <1>4 DEF Begin
    <2>2. alive = {}
      BY <1>4, ListedAt DEF PeersInv
    <2>3. \A x \in Event : Missed(x)' = {} /\ \A n \in Nat : Behind(x, n)' = {}
      BY <2>2 DEF Missed, Behind
    <2>4. ServerTypes'
      BY <1>1, <2>1 DEF ServerTypes
    <2>5. WalkInv' /\ Bounded'
      <3>1. \A x \in Event : /\ Missed(x)' \subseteq Missed(x)
                            /\ \A n \in Nat : Behind(x, n)' \subseteq Behind(x, n)
        BY <2>3
      <3> QED  BY <2>1, <3>1, WaitingKeeps
    <2>6. \A x \in Event : Walking(x)' => Walking(x)
      BY <2>1 DEF Walking
    <2> QED  BY <1>3, <2>4, <2>5, <2>6
  <1>5. CASE connections # <<>>
    <2> DEFINE ws == Head(connections)
               w == [event |-> e, next |-> 1, dead |-> {}]
    <2>1. /\ walks' = [walks EXCEPT ![ws] = Append(@, w)]
          /\ inbox' = Written(ws, e)
      BY <1>5 DEF Begin
    <2>2. ws \in Connection /\ ws = connections[1] /\ 1 \in 1..Len(connections)
      BY <1>5 DEF ServerTypes
    <2>3. w \in Walk
      <3>1. 1 \in 1..MaxConnections
        BY <2>2, Numbers DEF Connection
      <3> QED  BY <3>1 DEF Walk
    <2> HIDE DEF ws, w
    <2>4. /\ walks' \in [Connection -> Seq(Walk)]
          /\ Range(walks'[ws]) = Range(walks[ws]) \cup {w}
          /\ \A d \in Connection \ {ws} : walks'[d] = walks[d]
      <3>1. walks \in [Connection -> Seq(Walk)] /\ walks[ws] \in Seq(Walk)
        BY <2>2 DEF ServerTypes
      <3>2. /\ Append(walks[ws], w) \in Seq(Walk)
            /\ Range(Append(walks[ws], w)) = Range(walks[ws]) \cup {w}
        BY <2>3, <3>1, Joining
      <3> QED  BY <2>1, <2>2, <3>1, <3>2
    <2>5. /\ inbox' \in [Connection -> Seq(Event)]
          /\ \A x \in Connection : Range(inbox[x]) \subseteq Range(inbox'[x])
          /\ e # Ping /\ ws \in alive => e \in Range(inbox'[ws])
      BY <2>1, <2>2, WritingAdds
    <2>6. ServerTypes'
      BY <1>1, <2>4, <2>5 DEF ServerTypes
    <2>7. ASSUME NEW x \in Event, x # e
          PROVE  /\ Cardinality(Missed(x)') <= Cardinality(Missed(x))
                 /\ \A n \in Nat : Cardinality(Behind(x, n)') <= Cardinality(Behind(x, n))
      BY <1>1, <2>5, <2>6, <2>7, FewerBehind
    <2>8. e \in Event => Behind(e, 1)' = {}
      <3> SUFFICES ASSUME e \in Event, NEW c, c \in Behind(e, 1)'
                   PROVE  FALSE
        OBVIOUS
      <3>0. /\ c \in Listed /\ c \in alive /\ e \notin Range(inbox'[c])
            /\ \A i \in 1..Len(connections) : connections[i] = c => i <= 1
        <4>1. audience'[e] = Listed /\ alive' = alive /\ connections' = connections
          <5>1. alive' = alive /\ connections' = connections
            OBVIOUS
          <5>2. audience'[e] = Listed
            BY <1>1
          <5> QED  BY ONLY <5>1, <5>2
        <4>2. Behind(e, 1)' = {x \in audience'[e] \cap alive' :
                                  /\ e \notin Range(inbox'[x])
                                  /\ \A i \in 1..Len(connections') : connections'[i] = x => i <= 1}
          BY DEF Behind
        <4> QED  BY ONLY <4>1, <4>2, c \in Behind(e, 1)'
      <3>1. PICK i \in 1..Len(connections) : connections[i] = c
        BY <3>0, ListedAt
      <3>2. i = 1
        BY <3>0, <3>1
      <3>3. c = ws
        BY <2>2, <3>1, <3>2
      <3> QED  BY <2>5, <3>0, <3>3, Numbers
    <2>9. WalkInv'
      <3> SUFFICES ASSUME NEW d \in Connection, NEW v \in Range(walks'[d])
                   PROVE  /\ v.dead \subseteq closed
                          /\ v.event # Ping => Cardinality(Behind(v.event, v.next)') <= removed[v.event]
        BY DEF WalkInv
      <3>1. CASE v \in Range(walks[d])
        <4>1. v \in Walk
          BY <3>1, RangeOfSeq DEF ServerTypes
        <4>2. /\ v.dead \subseteq closed
              /\ v.event # Ping => /\ v.event \in Event /\ v.next \in Nat
                                   /\ Cardinality(Behind(v.event, v.next)) <= removed[v.event]
          BY <3>1, <4>1, Numbers DEF WalkInv, Walk
        <4>3. v.event # Ping => v.event # e
          BY <3>1, <4>2 DEF Walking
        <4>4. v.event # Ping =>
                 {Cardinality(Behind(v.event, v.next)), Cardinality(Behind(v.event, v.next)'),
                  removed[v.event]} \subseteq Nat
          <5>1. ASSUME NEW x \in Event, NEW n \in Nat
                PROVE  Behind(x, n) \subseteq Connection /\ Behind(x, n)' \subseteq Connection
            BY <2>6 DEF Behind, ServerTypes
          <5>2. ASSUME NEW x \in Event, NEW n \in Nat
                PROVE  Cardinality(Behind(x, n)) \in Nat /\ Cardinality(Behind(x, n)') \in Nat
            BY <5>1, Fewer
          <5> QED  BY <4>2, <5>2 DEF ServerTypes
        <4> QED  BY <2>7, <4>2, <4>3, <4>4
      <3>2. CASE v = w
        <4>1. v.dead = {} /\ v.event = e /\ v.next = 1
          BY <3>2 DEF w
        <4>2. v.event # Ping => Cardinality(Behind(v.event, v.next)') = 0 /\ removed[v.event] \in Nat
          BY <2>8, <4>1, FS_EmptySet DEF ServerTypes
        <4> QED  BY <4>1, <4>2
      <3> QED  BY <2>4, <3>1, <3>2
    <2>10. Walking(e)' /\ \A x \in Event : Walking(x)' <=> Walking(x) \/ x = e
      <3>1. w.event = e
        BY DEF w
      <3>2. \A d \in Connection : Range(walks[d]) \subseteq Range(walks'[d])
            /\ Range(walks'[d]) \subseteq Range(walks[d]) \cup {w}
        BY <2>4
      <3>3. w \in Range(walks'[ws])
        BY <2>4
      <3> QED  BY <2>2, <3>1, <3>2, <3>3 DEF Walking
    <2>11. Bounded'
      <3> SUFFICES ASSUME NEW x \in Event, (~Walking(x))'
                   PROVE  Cardinality(Missed(x)') <= removed[x]
        BY DEF Bounded
      <3>1. ~Walking(x) /\ x # e
        BY <2>10
      <3>2. Missed(x) \subseteq Connection /\ Missed(x)' \subseteq Connection /\ removed[x] \in Nat
        BY <2>6 DEF Missed, ServerTypes
      <3>3. Cardinality(Missed(x)) \in Nat /\ Cardinality(Missed(x)') \in Nat
        BY <3>2, Fewer
      <3> QED  BY <2>7, <3>1, <3>2, <3>3 DEF Bounded
    <2> QED  BY <1>3, <2>6, <2>9, <2>10, <2>11
  <1> QED  BY <1>4, <1>5

LEMMA HeartbeatKeeps ==
    ASSUME ServerInv, Heartbeat
    PROVE  ServerInv'
  <1> USE DEF ServerInv
  <1>1. /\ Begin(Ping)
        /\ UNCHANGED <<outbox, sent, connections, alive, closed, signalled, audience, removed>>
    BY DEF Heartbeat, supply, peers, ends, record
  <1>2. /\ Ping \in Event \cup {Ping} /\ Ping \notin Event
        /\ sent' \in Nat /\ outbox' \in Seq(Event)
    BY <1>1, Numbers DEF ServerTypes
  <1>3. audience' = IF Ping = Ping THEN audience ELSE [audience EXCEPT ![Ping] = Listed]
    BY <1>1
  <1>4. /\ ServerTypes' /\ PeersInv' /\ WalkInv' /\ Bounded'
        /\ \A x \in Event : Walking(x)' => Walking(x) \/ x = Ping
    BY <1>1, <1>2, <1>3, BeginKeeps
  <1>5. SupplyInv'
    <2>1. \A x \in Event : Walking(x)' => Walking(x)
      BY <1>2, <1>4
    <2>2. \A i \in 1..Len(outbox) : outbox[i] \in Event
      BY DEF ServerTypes
    <2>3. \A i \in 1..Len(outbox) : outbox[i] <= sent /\ (~Walking(outbox[i]))'
      BY <1>1, <2>1, <2>2 DEF SupplyInv, Walking
    <2>4. \A x \in Event : x > sent => ~Walking(x)'
      BY <2>1 DEF SupplyInv
    <2> QED  BY <1>1, <2>3, <2>4 DEF SupplyInv, Walking
  <1> QED  BY <1>4, <1>5

(* An event that the host sends begins a walk at once, or when the worker  *)
(* has posted it.                                                          *)
LEMMA BroadcastKeeps ==
    ASSUME ServerInv, SendInProcess \/ Post
    PROVE  ServerInv'
  <1> USE DEF ServerInv
  <1>1. /\ UNCHANGED <<connections, alive, closed, signalled, removed>>
        /\ sent \in Nat /\ Len(outbox) \in Nat
        /\ \A i \in 1..Len(outbox) : outbox[i] \in Event /\ outbox[i] \in Nat /\ outbox[i] <= sent
    <2>1. UNCHANGED <<connections, alive, closed, signalled, removed>>
      BY DEF SendInProcess, Post, Broadcast, peers, ends
    <2>2. outbox \in Seq(Event) /\ sent \in Nat
      BY DEF ServerTypes
    <2>3. Len(outbox) \in Nat /\ \A i \in 1..Len(outbox) : outbox[i] \in Event
      BY <2>2
    <2>4. \A i \in 1..Len(outbox) : outbox[i] \in Nat
      BY <2>3, Numbers
    <2> QED  BY <2>1, <2>2, <2>3, <2>4 DEF SupplyInv
  <1>2. CASE SendInProcess
    <2> DEFINE e == sent + 1
    <2>1. /\ Begin(e) /\ sent' = e /\ UNCHANGED outbox
          /\ audience' = [audience EXCEPT ![e] = Listed]
      BY <1>2 DEF SendInProcess, Broadcast
    <2>2. e \in Event /\ e \in Nat /\ e > sent
      <3>1. sent < MaxEvents
        BY <1>2 DEF SendInProcess
      <3> QED  BY <1>1, <3>1, Numbers DEF Event
    <2> HIDE DEF e
    <2>3. /\ e \in Event \cup {Ping} /\ e # Ping /\ ~Walking(e)
          /\ sent' \in Nat /\ outbox' \in Seq(Event)
      BY <1>1, <2>1, <2>2, Numbers DEF SupplyInv, ServerTypes
    <2>4. audience' = IF e = Ping THEN audience ELSE [audience EXCEPT ![e] = Listed]
      BY <2>1, <2>3
    <2>5. /\ ServerTypes' /\ PeersInv' /\ WalkInv' /\ Bounded'
          /\ \A x \in Event : Walking(x)' => Walking(x) \/ x = e
      BY <1>1, <2>1, <2>3, <2>4, BeginKeeps
    <2>6. \A i \in 1..Len(outbox) : outbox[i] # e /\ outbox[i] <= e
      BY <1>1, <2>2
    <2>7. \A i \in 1..Len(outbox) : (~Walking(outbox[i]))'
      BY <1>1, <2>1, <2>5, <2>6 DEF SupplyInv, Walking
    <2>8. \A x \in Event : x > e => x > sent /\ x # e
      BY <1>1, <2>2, Numbers
    <2>9. \A x \in Event : x > e => ~Walking(x)'
      BY <2>5, <2>8 DEF SupplyInv
    <2>10. SupplyInv'
      BY <2>1, <2>6, <2>7, <2>9 DEF SupplyInv
    <2> QED  BY <2>5, <2>10
  <1>3. CASE Post
    <2> DEFINE e == Head(outbox)
    <2>1. /\ outbox # <<>> /\ outbox' = Tail(outbox) /\ sent' = sent
          /\ Begin(e) /\ audience' = [audience EXCEPT ![e] = Listed]
      BY <1>3 DEF Post, Broadcast
    <2>2. /\ e = outbox[1] /\ 1 \in 1..Len(outbox)
          /\ outbox' \in Seq(Event) /\ Len(outbox') = Len(outbox) - 1
          /\ \A i \in 1..Len(outbox') : outbox'[i] = outbox[i + 1] /\ i + 1 \in 1..Len(outbox)
                                        /\ i + 1 # 1
      <3>1. outbox \in Seq(Event)
        BY DEF ServerTypes
      <3> QED  BY <1>1, <2>1, <3>1, HeadTailProperties
    <2> HIDE DEF e
    <2>3. /\ e \in Event /\ e \in Event \cup {Ping} /\ e # Ping /\ ~Walking(e) /\ sent' \in Nat
          /\ e <= sent /\ e \in Nat
      BY <1>1, <2>1, <2>2, Numbers DEF SupplyInv
    <2>4. audience' = IF e = Ping THEN audience ELSE [audience EXCEPT ![e] = Listed]
      BY <2>1, <2>3
    <2>5. /\ ServerTypes' /\ PeersInv' /\ WalkInv' /\ Bounded'
          /\ \A x \in Event : Walking(x)' => Walking(x) \/ x = e
      BY <1>1, <2>1, <2>2, <2>3, <2>4, BeginKeeps
    <2>6. ASSUME NEW i \in 1..Len(outbox')
          PROVE  outbox'[i] <= sent /\ (~Walking(outbox[i]))'
      <3> DEFINE j == i + 1
      <3>1. j \in 1..Len(outbox) /\ j # 1 /\ outbox'[i] = outbox[j]
        BY <2>2
      <3> HIDE DEF j
      <3>2. outbox[j] # e /\ outbox[j] <= sent /\ outbox[j] \in Event /\ ~Walking(outbox[j])
        BY <1>1, <2>2, <3>1 DEF SupplyInv
      <3> QED  BY <2>5, <3>1, <3>2 DEF Walking
    <2>7. ASSUME NEW i \in 1..Len(outbox'), NEW j \in 1..Len(outbox'), outbox'[i] = outbox'[j]
          PROVE  i = j
      <3>1. outbox[i + 1] = outbox[j + 1] /\ i + 1 \in 1..Len(outbox) /\ j + 1 \in 1..Len(outbox)
        BY <2>2, <2>7
      <3>2. i + 1 = j + 1
        BY <3>1 DEF SupplyInv
      <3> QED  BY <2>2, <3>2
    <2>8. \A x \in Event : x > sent => ~Walking(x)'
      <3>1. \A x \in Event : x > sent => x # e
        BY <1>1, <2>3, Numbers
      <3> QED  BY <2>5, <3>1 DEF SupplyInv
    <2>9. SupplyInv'
      BY <2>1, <2>6, <2>7, <2>8 DEF SupplyInv
    <2> QED  BY <2>5, <2>9
  <1> QED  BY <1>2, <1>3

(* A walk goes on to the next of the list, who is then no longer without   *)
(* its event if it is still there.                                         *)
LEMMA StepKeeps ==
    ASSUME ServerInv, NEW c \in Connection, Step(c), NEW w, w = Head(walks[c])
    PROVE  ServerInv'
  <1> USE DEF ServerInv
  <1> DEFINE n  == w.next + 1
             ws == connections[n]
             v  == [w EXCEPT !.next = n, !.dead = Dead(c)]
             rest == [walks EXCEPT ![c] = Tail(@)]
  <1>1. /\ walks[c] # <<>> /\ ~(w.next >= Len(connections))
        /\ walks' = [rest EXCEPT ![ws] = Append(@, v)]
        /\ inbox' = Written(ws, w.event)
        /\ UNCHANGED <<outbox, sent, connections, alive, closed, signalled, audience, removed>>
    BY DEF Step, Goes, Over, supply, peers, ends, record
  <1>2. /\ w \in Walk /\ Tail(walks[c]) \in Seq(Walk)
        /\ Range(walks[c]) = Range(Tail(walks[c])) \cup {w}
    BY <1>1, RangeTail DEF ServerTypes
  <1>3. /\ n \in 1..Len(connections) /\ n \in 1..MaxConnections /\ w.next \in Nat
        /\ ws \in Connection
    <2>1. w.next \in 1..MaxConnections
      BY <1>2 DEF Walk
    <2>2. n \in 1..Len(connections) /\ n \in 1..MaxConnections
      BY SMTT(30), <1>1, <2>1, ShortList, Numbers
    <2> QED  BY <2>1, <2>2, ListedAt, Numbers
  <1>4. v \in Walk /\ v.event = w.event /\ v.next = n /\ v.dead = Dead(c) /\ Dead(c) \subseteq closed
        /\ (w.event # Ping => Cardinality(Behind(w.event, w.next)) <= removed[w.event])
    <2>1. w \in Range(walks[c])
      BY <1>2
    <2>2. /\ w.dead \subseteq closed
          /\ w.event # Ping => Cardinality(Behind(w.event, w.next)) <= removed[w.event]
      BY <2>1 DEF WalkInv
    <2>3. Dead(c) \subseteq closed /\ Dead(c) \subseteq Connection
      BY <2>2 DEF Dead, ServerTypes
    <2>4. v \in Walk /\ v.event = w.event /\ v.next = n /\ v.dead = Dead(c)
      <3> HIDE DEF n
      <3> QED  BY <1>2, <1>3, <2>3 DEF Walk
    <2> QED  BY <2>2, <2>3, <2>4
  <1>5. /\ rest \in [Connection -> Seq(Walk)]
        /\ \A d \in Connection : /\ Range(rest[d]) \subseteq Range(walks[d])
                                 /\ Range(walks[d]) \subseteq Range(rest[d]) \cup {w}
    BY <1>2 DEF ServerTypes
  <1> HIDE DEF n, ws, v
  <1>6. walks' = [rest EXCEPT ![ws] = Append(@, v)]
    BY <1>1
  <1> HIDE DEF rest
  <1>7. /\ walks' \in [Connection -> Seq(Walk)]
        /\ v \in Range(walks'[ws])
        /\ \A d \in Connection : /\ Range(walks'[d]) \subseteq Range(walks[d]) \cup {v}
                                 /\ Range(walks[d]) \subseteq Range(walks'[d]) \cup {w}
    <2>1. rest[ws] \in Seq(Walk)
      BY <1>3, <1>5
    <2>2. /\ Append(rest[ws], v) \in Seq(Walk)
          /\ Range(Append(rest[ws], v)) = Range(rest[ws]) \cup {v}
      BY <1>4, <2>1, Joining
    <2>3. /\ walks'[ws] = Append(rest[ws], v)
          /\ \A d \in Connection \ {ws} : walks'[d] = rest[d]
          /\ walks' \in [Connection -> Seq(Walk)]
      BY <1>3, <1>5, <1>6, <2>2
    <2> QED  BY <1>5, <2>2, <2>3
  <1>8. /\ inbox' \in [Connection -> Seq(Event)]
        /\ \A x \in Connection : Range(inbox[x]) \subseteq Range(inbox'[x])
        /\ w.event # Ping /\ ws \in alive => w.event \in Range(inbox'[ws])
    <2>1. w.event \in Event \cup {Ping}
      BY <1>2 DEF Walk
    <2> QED  BY <1>1, <1>3, <2>1, WritingAdds
  <1>9. ServerTypes'
    BY <1>1, <1>7, <1>8 DEF ServerTypes
  <1>10. PeersInv'
    BY <1>1 DEF PeersInv, Known, Listed
  <1>11. \A x : Walking(x)' <=> Walking(x)
    <2>1. ASSUME NEW x, Walking(x)'
          PROVE  Walking(x)
      <3>1. PICK d \in Connection : \E u \in Range(walks'[d]) : u.event = x
        BY <2>1 DEF Walking
      <3>2. PICK u \in Range(walks'[d]) : u.event = x
        BY <3>1
      <3>3. u \in Range(walks[d]) \/ u = v
        BY <1>7, <3>2
      <3>4. w \in Range(walks[c])
        BY <1>2
      <3> QED  BY <1>4, <3>2, <3>3, <3>4 DEF Walking
    <2>2. ASSUME NEW x, Walking(x)
          PROVE  Walking(x)'
      <3>1. PICK d \in Connection : \E u \in Range(walks[d]) : u.event = x
        BY <2>2 DEF Walking
      <3>2. PICK u \in Range(walks[d]) : u.event = x
        BY <3>1
      <3>3. u \in Range(walks'[d]) \/ u = w
        BY <1>7, <3>2
      <3> QED  BY <1>3, <1>4, <1>7, <3>2, <3>3 DEF Walking
    <2> QED  BY <2>1, <2>2
  <1>12. SupplyInv'
    <2>1. \A x : Walking(x)' => Walking(x)
      BY <1>11
    <2> QED  BY <1>1, <2>1 DEF SupplyInv, Walking
  <1>13. ASSUME NEW x \in Event
         PROVE  /\ Cardinality(Missed(x)') <= Cardinality(Missed(x))
                /\ \A k \in Nat : Cardinality(Behind(x, k)') <= Cardinality(Behind(x, k))
    BY <1>1, <1>8, <1>9, FewerBehind
  <1>14. ASSUME NEW x \in Event, NEW k \in Nat
         PROVE  {Cardinality(Missed(x)), Cardinality(Missed(x)'), Cardinality(Behind(x, k)),
                 Cardinality(Behind(x, k)'), removed[x]} \subseteq Nat
    <2>1. Behind(x, k) \subseteq Connection /\ Missed(x) \subseteq Connection
      BY Clients
    <2>2. Behind(x, k)' \subseteq Connection /\ Missed(x)' \subseteq Connection
      BY <1>9 DEF Behind, Missed, ServerTypes
    <2>3. removed[x] \in Nat
      BY DEF ServerTypes
    <2> QED  BY <2>1, <2>2, <2>3, Fewer
  <1>15. w.event # Ping => Cardinality(Behind(w.event, n)') <= removed[w.event]
    <2> SUFFICES ASSUME w.event # Ping
                 PROVE  Cardinality(Behind(w.event, n)') <= removed[w.event]
      OBVIOUS
    <2> DEFINE x == w.event
               k == w.next
    <2>1. x \in Event /\ k \in Nat /\ n = k + 1 /\ n \in Nat
      BY <1>2, <1>3 DEF Walk, n
    <2>2. x \in Range(inbox'[ws]) \/ ws \notin alive
      BY <1>8
    <2>3. Cardinality(Behind(x, k)) <= removed[x]
      BY <1>4
    <2> HIDE DEF x, k
    <2>4. ASSUME NEW d \in Behind(x, n)'
          PROVE  d \in Behind(x, k)
      <3>1. /\ d \in audience[x] \cap alive /\ x \notin Range(inbox'[d])
            /\ \A i \in 1..Len(connections) : connections[i] = d => i <= n
        BY <1>1, <2>4 DEF Behind
      <3>2. d \in Connection /\ d # ws
        BY <2>1, <2>2, <3>1 DEF ServerTypes
      <3>3. x \notin Range(inbox[d])
        BY <1>8, <3>1, <3>2
      <3>4. ASSUME NEW i \in 1..Len(connections), connections[i] = d
            PROVE  i <= k
        <4>1. i <= n /\ i # n
          BY <3>1, <3>2, <3>4 DEF ws
        <4> QED  BY <2>1, <4>1
      <3> QED  BY <3>1, <3>3, <3>4 DEF Behind
    <2>5. Behind(x, k) \subseteq Connection
      BY <2>1, Clients
    <2>6. Cardinality(Behind(x, n)') <= Cardinality(Behind(x, k))
      BY <2>4, <2>5, Fewer
    <2>7. {Cardinality(Behind(x, n)'), Cardinality(Behind(x, k)), removed[x]} \subseteq Nat
      BY <2>1, <1>14
    <2> QED  BY <2>3, <2>6, <2>7 DEF x
  <1>16. WalkInv'
    <2> SUFFICES ASSUME NEW d \in Connection, NEW u \in Range(walks'[d])
                 PROVE  /\ u.dead \subseteq closed
                        /\ u.event # Ping => Cardinality(Behind(u.event, u.next)') <= removed[u.event]
      BY <1>1 DEF WalkInv
    <2>1. CASE u \in Range(walks[d])
      <3>1. u \in Walk
        BY <2>1, RangeOfSeq DEF ServerTypes
      <3>2. /\ u.dead \subseteq closed
            /\ u.event # Ping => /\ u.event \in Event /\ u.next \in Nat
                                 /\ Cardinality(Behind(u.event, u.next)) <= removed[u.event]
        BY <2>1, <3>1, Numbers DEF WalkInv, Walk
      <3> QED  BY <1>13, <1>14, <3>2
    <2>2. CASE u = v
      BY <1>4, <1>15, <2>2
    <2> QED  BY <1>7, <2>1, <2>2
  <1>17. Bounded'
    <2> SUFFICES ASSUME NEW x \in Event, ~Walking(x)'
                 PROVE  Cardinality(Missed(x)') <= removed[x]
      BY <1>1 DEF Bounded
    <2>1. Cardinality(Missed(x)) <= removed[x]
      BY <1>11 DEF Bounded
    <2> QED  BY <1>13, <1>14, <2>1, 0 \in Nat
  <1> QED  BY <1>9, <1>10, <1>12, <1>16, <1>17

(* A walk comes to the end of the list: all that are without its event     *)
(* are clients it has passed over.                                         *)
LEMMA EndKeeps ==
    ASSUME ServerInv, NEW c \in Connection, End(c)
    PROVE  ServerInv'
  <1> USE DEF ServerInv
  <1> DEFINE w == Head(walks[c])
  <1>1. /\ walks[c] # <<>> /\ w.next >= Len(connections)
        /\ walks' = [walks EXCEPT ![c] = Tail(@)]
        /\ signalled' \subseteq signalled \cup Dead(c)
        /\ UNCHANGED <<outbox, sent, connections, alive, closed, inbox, audience, removed>>
    BY DEF End, Goes, Over, Signalled, peers, record
  <1>2. /\ w \in Walk /\ Tail(walks[c]) \in Seq(Walk)
        /\ Range(walks[c]) = Range(Tail(walks[c])) \cup {w}
    BY <1>1, RangeTail DEF ServerTypes
  <1>3. /\ walks' \in [Connection -> Seq(Walk)]
        /\ \A d \in Connection : /\ Range(walks'[d]) \subseteq Range(walks[d])
                                 /\ Range(walks[d]) \subseteq Range(walks'[d]) \cup {w}
    BY <1>1, <1>2 DEF ServerTypes
  <1> HIDE DEF w
  <1>4. /\ w.dead \subseteq closed
        /\ w.event # Ping => Cardinality(Behind(w.event, w.next)) <= removed[w.event]
    <2>1. w \in Range(walks[c])
      BY <1>2
    <2> QED  BY <2>1 DEF WalkInv
  <1>5. signalled' \subseteq closed
    BY <1>1, <1>4 DEF Dead, PeersInv, w
  <1>6. ServerTypes'
    BY <1>1, <1>3, <1>5 DEF ServerTypes
  <1>7. PeersInv'
    BY <1>1, <1>5 DEF PeersInv, Known, Listed
  <1>8. \A x : Walking(x)' => Walking(x)
    BY <1>3 DEF Walking
  <1>9. SupplyInv'
    BY <1>1, <1>8 DEF SupplyInv, Walking
  <1>10. \A x \in Event : Missed(x)' = Missed(x) /\ \A n \in Nat : Behind(x, n)' = Behind(x, n)
    BY <1>1 DEF Missed, Behind
  <1>11. WalkInv'
    <2> SUFFICES ASSUME NEW d \in Connection, NEW u \in Range(walks'[d])
                 PROVE  /\ u.dead \subseteq closed
                        /\ u.event # Ping => Cardinality(Behind(u.event, u.next)') <= removed[u.event]
      BY <1>1 DEF WalkInv
    <2>1. u \in Range(walks[d])
      BY <1>3
    <2>2. u \in Walk
      BY <2>1, RangeOfSeq DEF ServerTypes
    <2>3. u.event # Ping => u.event \in Event /\ u.next \in Nat
      BY <2>2, Numbers DEF Walk
    <2> QED  BY <1>10, <2>1, <2>3 DEF WalkInv
  <1>12. Bounded'
    <2> SUFFICES ASSUME NEW x \in Event, ~Walking(x)'
                 PROVE  Cardinality(Missed(x)) <= removed[x]
      BY <1>1, <1>10 DEF Bounded
    <2>1. CASE ~Walking(x)
      BY <2>1 DEF Bounded
    <2>2. CASE Walking(x)
      <3>1. PICK d \in Connection : \E u \in Range(walks[d]) : u.event = x
        BY <2>2 DEF Walking
      <3>2. w.event = x
        BY <1>3, <3>1 DEF Walking
      <3>3. x # Ping /\ w.next \in Nat
        BY <1>2, Numbers DEF Walk
      <3>4. Missed(x) = Behind(x, w.next)
        BY <1>1, <3>3, AllBehind DEF w
      <3> QED  BY <1>4, <3>2, <3>3, <3>4
    <2> QED  BY <2>1, <2>2
  <1> QED  BY <1>6, <1>7, <1>9, <1>11, <1>12

-----------------------------------------------------------------------------
(* A connection leaves the list: each walk passes over the one that moves  *)
(* up to the place where the walk is.                                      *)
LEMMA FinishKeeps ==
    ASSUME ServerInv, NEW c \in Connection, Finish(c)
    PROVE  ServerInv'
  <1> USE DEF ServerInv
  <1>1. /\ c \in signalled /\ c \in Listed
        /\ connections' = RemoveFirst(connections, c)
        /\ removed' = [e \in Event |-> IF Walking(e) THEN removed[e] + 1 ELSE removed[e]]
        /\ UNCHANGED <<outbox, sent, alive, closed, signalled, walks, inbox, audience>>
    BY DEF Finish, supply, peers
  <1>2. c \in closed /\ c \notin alive
    BY <1>1 DEF PeersInv
  <1> DEFINE len == Len(connections)
  <1>3. PICK p \in 1..len : connections[p] = c
    BY <1>1, ListedAt
  <1>4. /\ connections' \in Seq(Connection) /\ Len(connections') = len - 1 /\ len \in Nat
        /\ \A i \in 1..(len - 1) :
              connections'[i] = IF i < p THEN connections[i] ELSE connections[i + 1]
    <2>1. connections \in Seq(Connection)
      BY DEF ServerTypes
    <2>2. \A i, j \in 1..Len(connections) : connections[i] = connections[j] => i = j
      BY DEF PeersInv
    <2>3. p \in 1..Len(connections)
      BY <1>3
    <2>4. /\ RemoveFirst(connections, connections[p]) \in Seq(Connection)
          /\ Len(RemoveFirst(connections, connections[p])) = len - 1
          /\ \A i \in 1..(len - 1) :
                RemoveFirst(connections, connections[p])[i]
                   = IF i < p THEN connections[i] ELSE connections[i + 1]
      BY ONLY <2>1, <2>2, <2>3, RemovedOnce
    <2> QED  BY <1>1, <1>3, <2>1, <2>4
  <1>5. ServerTypes'
    BY <1>1, <1>4 DEF ServerTypes
  <1>6. Listed' = Listed \ {c}
    <2>1. Listed' = {connections'[i] : i \in 1..(len - 1)}
      BY <1>4, <1>5, RangeEquality DEF ServerTypes, Listed
    <2>2. ASSUME NEW i \in 1..(len - 1)
          PROVE  connections'[i] \in Listed \ {c}
      <3>1. CASE i < p
        <4>1. i \in 1..len /\ i # p /\ connections'[i] = connections[i]
          BY <1>4, <3>1
        <4> QED  BY <1>3, <4>1, ListedAt DEF PeersInv
      <3>2. CASE ~(i < p)
        <4>1. i + 1 \in 1..len /\ i + 1 # p /\ connections'[i] = connections[i + 1]
          BY <1>4, <3>2
        <4> QED  BY <1>3, <4>1, ListedAt DEF PeersInv
      <3> QED  BY <3>1, <3>2
    <2>3. ASSUME NEW d \in Listed \ {c}
          PROVE  \E i \in 1..(len - 1) : connections'[i] = d
      <3>1. PICK k \in 1..len : connections[k] = d
        BY ListedAt
      <3>2. CASE k < p
        BY <1>4, <3>1, <3>2
      <3>3. CASE ~(k < p)
        <4> DEFINE i == k - 1
        <4>1. i \in 1..(len - 1) /\ i + 1 = k /\ ~(i < p)
          BY <1>3, <1>4, <2>3, <3>1, <3>3
        <4> HIDE DEF i
        <4> QED  BY <1>4, <3>1, <4>1
      <3> QED  BY <3>2, <3>3
    <2> QED  BY <2>1, <2>2, <2>3
  <1>7. PeersInv'
    <2>1. Known' = Known
      BY <1>1, <1>2, <1>6 DEF Known
    <2>2. alive' \subseteq Listed' /\ alive' \cap closed' = {} /\ signalled' \subseteq closed'
      BY <1>1, <1>2, <1>6 DEF PeersInv
    <2>3. ASSUME NEW i \in 1..Len(connections'), NEW j \in 1..Len(connections'),
                 connections'[i] = connections'[j]
          PROVE  i = j
      <3> DEFINE at(k) == IF k < p THEN k ELSE k + 1
      <3>1. \A k \in 1..(len - 1) : at(k) \in 1..len /\ connections'[k] = connections[at(k)]
        BY <1>4
      <3>2. at(i) = at(j)
        BY <1>4, <2>3, <3>1 DEF PeersInv
      <3> QED  BY <1>4, <3>2
    <2> QED  BY <1>1, <2>1, <2>2, <2>3 DEF PeersInv
  <1>8. \A x : Walking(x)' <=> Walking(x)
    BY <1>1 DEF Walking
  <1>9. SupplyInv'
    BY <1>1, <1>8 DEF SupplyInv, Walking
  <1>10. ASSUME NEW x \in Event, NEW n \in Nat, Walking(x),
                Cardinality(Behind(x, n)) <= removed[x]
         PROVE  Cardinality(Behind(x, n)') <= removed'[x]
    <2> DEFINE old == Behind(x, n)
               next == connections[n + 1]
    <2>1. ASSUME NEW d \in Behind(x, n)'
          PROVE  d \in old \cup {next}
      <3>1. /\ d \in audience[x] \cap alive /\ x \notin Range(inbox[d])
            /\ \A i \in 1..(len - 1) : connections'[i] = d => i <= n
        BY <1>1, <1>4, <2>1 DEF Behind
      <3>2. d # c
        BY <1>2, <3>1
      <3>3. ASSUME NEW i \in 1..len, connections[i] = d
            PROVE  i <= n \/ i = n + 1
        <4>1. i # p
          BY <1>3, <3>2, <3>3
        <4>2. CASE i < p
          BY <1>4, <3>1, <3>3, <4>2
        <4>3. CASE i > p
          <5> DEFINE j == i - 1
          <5>1. j \in 1..(len - 1) /\ j + 1 = i /\ ~(j < p)
            BY <1>3, <1>4, <4>3
          <5> HIDE DEF j
          <5>2. j <= n
            BY <1>4, <3>1, <3>3, <5>1
          <5> QED  BY <5>1, <5>2
        <4> QED  BY <4>1, <4>2, <4>3
      <3>4. d = next \/ \A i \in 1..len : connections[i] = d => i <= n
        BY <3>3
      <3> QED  BY <3>1, <3>4 DEF Behind
    <2>2. old \subseteq Connection /\ IsFiniteSet(old) /\ Cardinality(old) \in Nat
      BY Clients, Fewer
    <2> HIDE DEF old, next
    <2>3. /\ IsFiniteSet(old \cup {next}) /\ Cardinality(old \cup {next}) \in Nat
          /\ Cardinality(old \cup {next}) <= Cardinality(old) + 1
      <3>1. /\ IsFiniteSet(old \cup {next})
            /\ Cardinality(old \cup {next})
                  = IF next \in old THEN Cardinality(old) ELSE Cardinality(old) + 1
        BY <2>2, FS_AddElement
      <3> QED  BY <2>2, <3>1
    <2>4. /\ Behind(x, n)' \subseteq old \cup {next}
          /\ Cardinality(Behind(x, n)') <= Cardinality(old \cup {next})
          /\ Cardinality(Behind(x, n)') \in Nat
      BY <2>1, <2>3, FS_Subset, FS_CardinalityType
    <2>5. removed'[x] = removed[x] + 1 /\ removed[x] \in Nat
      BY <1>1, <1>10 DEF ServerTypes
    <2>6. Cardinality(old) <= removed[x]
      BY <1>10 DEF old
    <2> QED  BY <2>2, <2>3, <2>4, <2>5, <2>6
  <1>11. WalkInv'
    <2> SUFFICES ASSUME NEW d \in Connection, NEW u \in Range(walks[d])
                 PROVE  /\ u.dead \subseteq closed
                        /\ u.event # Ping => Cardinality(Behind(u.event, u.next)') <= removed'[u.event]
      BY <1>1 DEF WalkInv
    <2>1. u \in Walk
      BY RangeOfSeq DEF ServerTypes
    <2>2. u.event # Ping => u.event \in Event /\ u.next \in Nat /\ Walking(u.event)
      BY <2>1, Numbers DEF Walk, Walking
    <2> QED  BY <1>10, <2>2 DEF WalkInv
  <1>12. Bounded'
    <2> SUFFICES ASSUME NEW x \in Event, ~Walking(x)
                 PROVE  Cardinality(Missed(x)') <= removed'[x]
      BY <1>8 DEF Bounded
    <2>1. Missed(x)' = Missed(x) /\ removed'[x] = removed[x]
      BY <1>1 DEF Missed, ServerTypes
    <2> QED  BY <2>1 DEF Bounded
  <1> QED  BY <1>5, <1>7, <1>9, <1>11, <1>12

-----------------------------------------------------------------------------
(* The empty server.                                                       *)
LEMMA StartsBounded == Init => ServerInv
  <1> SUFFICES ASSUME Init
               PROVE  ServerInv
    OBVIOUS
  <1> USE DEF Init
  <1>1. Range(connections) = {} /\ \A c \in Connection : Range(walks[c]) = {}
    <2>1. Range(<<>>) = {}
      BY DEF Range
    <2> QED  BY <2>1
  <1>2. ServerTypes
    BY DEF ServerTypes
  <1>3. PeersInv
    <2>1. Known = 1..0 /\ 0 \in 0..MaxConnections
      BY <1>1, Numbers DEF Known, Listed
    <2> QED  BY <1>1, <2>1 DEF PeersInv, Listed
  <1>4. \A e : ~Walking(e)
    BY <1>1 DEF Walking
  <1>5. SupplyInv
    BY <1>4 DEF SupplyInv
  <1>6. WalkInv
    BY <1>1 DEF WalkInv
  <1>7. \A e \in Event : Cardinality(Missed(e)) = 0 /\ removed[e] = 0
    BY FS_EmptySet DEF Missed
  <1>8. Bounded
    BY <1>7 DEF Bounded
  <1> QED  BY <1>2, <1>3, <1>5, <1>6, <1>8 DEF ServerInv

LEMMA StutterKeeps ==
    ASSUME ServerInv, UNCHANGED vars
    PROVE  ServerInv'
  BY DEF ServerInv, ServerTypes, PeersInv, SupplyInv, WalkInv, Bounded, Known, Listed, Walking,
         Behind, Missed, vars, supply, peers, ends, record

(* Each step keeps the server's invariant.                                 *)
LEMMA ServerStep == ServerInv /\ [Next]_vars => ServerInv'
  <1> SUFFICES ASSUME ServerInv, [Next]_vars
               PROVE  ServerInv'
    OBVIOUS
  <1>1. CASE Next
    <2>1. CASE Connect
      BY <2>1, ConnectKeeps
    <2>2. CASE Heartbeat
      BY <2>2, HeartbeatKeeps
    <2>3. CASE SendInProcess \/ Post
      BY <2>3, BroadcastKeeps
    <2>4. CASE SendToWorker \/ PostRefused \/ PostTimeout
      BY <2>4, WorkerKeeps
    <2>5. ASSUME NEW c \in Connection, Drop(c) \/ Notice(c)
          PROVE  ServerInv'
      BY <2>5, PeersGo
    <2>6. ASSUME NEW c \in Connection, Finish(c)
          PROVE  ServerInv'
      BY <2>6, FinishKeeps
    <2>7. ASSUME NEW c \in Connection, Step(c)
          PROVE  ServerInv'
      <3>1. PICK w : w = Head(walks[c])
        OBVIOUS
      <3> QED  BY <2>7, <3>1, StepKeeps
    <2>8. ASSUME NEW c \in Connection, End(c)
          PROVE  ServerInv'
      BY <2>8, EndKeeps
    <2> QED  BY <1>1, <2>1, <2>2, <2>3, <2>4, <2>5, <2>6, <2>7, <2>8 DEF Next
  <1>2. CASE UNCHANGED vars
    BY <1>2, StutterKeeps
  <1> QED  BY <1>1, <1>2

(* _broadcast: whatever the order in which sends return, connections come  *)
(* and connections leave, a client that was there when the walk of an      *)
(* event began and still is gets the event, but for one client to each     *)
(* removal of another during that walk.                                    *)
THEOREM MissesAreBounded == Spec => []MissesBounded
  <1>1. ServerInv => MissesBounded
    BY DEF ServerInv, Bounded, Missed, MissesBounded
  <1> QED  BY <1>1, StartsBounded, ServerStep, PTL DEF Spec

-----------------------------------------------------------------------------
(* The order of the events.                                                *)

(* An event d stands rightly in front of e: it is earlier, or it overtook  *)
(* e when a connection left the list during the walk of e.                 *)
Before(d, e) ==
    \/ d < e
    \/ d > e /\ removed[e] > 0

(* A walk waits on the connection it fetched last: at the place that next  *)
(* says unless a connection has left the list during the walk, and never   *)
(* behind it.                                                              *)
Places ==
    \A c \in Connection : \A i \in 1..Len(walks[c]) :
        \E p \in 1..Len(connections) :
            /\ connections[p] = c /\ p <= walks[c][i].next
            /\ \/ p = walks[c][i].next
               \/ walks[c][i].event = Ping
               \/ removed[walks[c][i].event] > 0

(* Of an event there is one walk.                                          *)
WalkedOnce ==
    \A c, d \in Connection : \A i \in 1..Len(walks[c]) : \A j \in 1..Len(walks[d]) :
        walks[c][i].event = walks[d][j].event /\ walks[c][i].event # Ping => c = d /\ i = j

(* As long as nobody has left the list during the walk of an event, those  *)
(* of later ones are behind, or wait on the same connection in their turn. *)
NoneOvertakes ==
    \A c, d \in Connection : \A i \in 1..Len(walks[c]) : \A j \in 1..Len(walks[d]) :
        LET v == walks[c][i]
            w == walks[d][j] IN
        v.event # Ping /\ v.event < w.event /\ removed[v.event] = 0 =>
            /\ c = d => i < j
            /\ \/ w.next < v.next
               \/ w.next = v.next /\ c = d

(* Whom a walk has still to come to does not have its event, and a later   *)
(* one only if somebody has left the list during the walk.                 *)
EarlierAhead ==
    \A c \in Connection : \A i \in 1..Len(walks[c]) :
        walks[c][i].event # Ping =>
            \A p \in 1..Len(connections) : p > walks[c][i].next =>
                \A k \in 1..Len(inbox[connections[p]]) :
                    Before(inbox[connections[p]][k], walks[c][i].event)

(* What is in the outbox is later than all that is walked or written.      *)
LaterWaits ==
    /\ broker = "process" => outbox = <<>>
    /\ \A c \in Connection : c \notin Known => inbox[c] = <<>>
    /\ \A c \in Connection : \A k \in 1..Len(inbox[c]) : inbox[c][k] <= sent
    /\ \A c \in Connection : \A i \in 1..Len(walks[c]) : walks[c][i].event <= sent
    /\ \A i, j \in 1..Len(outbox) : i < j => outbox[i] < outbox[j]
    /\ \A n \in 1..Len(outbox) :
        /\ outbox[n] <= sent
        /\ \A c \in Connection : \A k \in 1..Len(inbox[c]) : inbox[c][k] < outbox[n]
        /\ \A c \in Connection : \A i \in 1..Len(walks[c]) : walks[c][i].event < outbox[n]

Ascending(box) == \A i, j \in 1..Len(box) : i < j => Before(box[i], box[j])

OrderInv ==
    /\ Places /\ WalkedOnce /\ NoneOvertakes /\ EarlierAhead /\ LaterWaits
    /\ \A c \in Connection : Ascending(inbox[c])

(* Types of what waits and of what is written.                             *)
LEMMA Entries ==
    ASSUME ServerInv
    PROVE  /\ \A c \in Connection :
                /\ walks[c] \in Seq(Walk) /\ Len(walks[c]) \in Nat
                /\ inbox[c] \in Seq(Event) /\ Len(inbox[c]) \in Nat
                /\ \A i \in 1..Len(walks[c]) :
                        /\ walks[c][i] \in Walk /\ walks[c][i].event \in Nat
                        /\ walks[c][i].event \in Event \cup {Ping}
                        /\ walks[c][i].next \in Nat /\ walks[c][i].next >= 1
                /\ \A k \in 1..Len(inbox[c]) : inbox[c][k] \in Event /\ inbox[c][k] \in Nat
           /\ \A n \in 1..Len(outbox) : outbox[n] \in Event /\ outbox[n] \in Nat /\ outbox[n] # Ping
           /\ Len(outbox) \in Nat /\ sent \in Nat
  <1>1. ServerTypes
    BY DEF ServerInv
  <1>2. ASSUME NEW c \in Connection
        PROVE  walks[c] \in Seq(Walk) /\ inbox[c] \in Seq(Event)
    BY <1>1 DEF ServerTypes
  <1>3. ASSUME NEW w \in Walk
        PROVE  /\ w.event \in Event \cup {Ping} /\ w.event \in Nat
               /\ w.next \in Nat /\ w.next >= 1
    <2>1. w.event \in Event \cup {Ping} /\ w.next \in 1..MaxConnections
      BY DEF Walk
    <2>2. Event \cup {Ping} \subseteq Nat
      BY Numbers DEF Ping
    <2>3. \A n \in 1..MaxConnections : n \in Nat /\ n >= 1
      BY Numbers
    <2> QED  BY <2>1, <2>2, <2>3
  <1>4. outbox \in Seq(Event) /\ sent \in Nat
    BY <1>1 DEF ServerTypes
  <1>5. \A c \in Connection :
          /\ Len(walks[c]) \in Nat /\ \A i \in 1..Len(walks[c]) : walks[c][i] \in Walk
          /\ Len(inbox[c]) \in Nat /\ \A k \in 1..Len(inbox[c]) : inbox[c][k] \in Event
    BY <1>2
  <1>6. \A c \in Connection : \A k \in 1..Len(inbox[c]) : inbox[c][k] \in Nat
    BY <1>5, Numbers
  <1>7. Len(outbox) \in Nat /\ \A n \in 1..Len(outbox) : outbox[n] \in Event
    BY <1>4
  <1>8. \A e \in Event : e \in Nat /\ e # Ping
    BY Numbers
  <1>9. \A c \in Connection : \A i \in 1..Len(walks[c]) :
            /\ walks[c][i].event \in Event \cup {Ping} /\ walks[c][i].event \in Nat
            /\ walks[c][i].next \in Nat /\ walks[c][i].next >= 1
    BY <1>3, <1>5
  <1> QED  BY <1>2, <1>4, <1>5, <1>6, <1>7, <1>8, <1>9

(* Who leaves the list is the only one who does.                           *)
LEMMA OthersStay ==
    ASSUME ServerTypes, PeersInv, NEW c \in Listed, connections' = RemoveFirst(connections, c)
    PROVE  Listed' \subseteq Listed /\ Listed \subseteq Listed' \cup {c}
  <1> DEFINE len == Len(connections)
  <1>1. /\ connections \in Seq(Connection) /\ len \in Nat
        /\ \A i, j \in 1..Len(connections) : connections[i] = connections[j] => i = j
    BY DEF ServerTypes, PeersInv
  <1>2. PICK q \in 1..len : connections[q] = c
    BY ListedAt
  <1>3. /\ connections' \in Seq(Connection) /\ Len(connections') = len - 1
        /\ \A i \in 1..(len - 1) :
              connections'[i] = IF i < q THEN connections[i] ELSE connections[i + 1]
    <2>1. /\ RemoveFirst(connections, connections[q]) \in Seq(Connection)
          /\ Len(RemoveFirst(connections, connections[q])) = len - 1
          /\ \A i \in 1..(len - 1) :
                RemoveFirst(connections, connections[q])[i]
                   = IF i < q THEN connections[i] ELSE connections[i + 1]
      BY ONLY <1>1, <1>2, RemovedOnce
    <2> QED  BY <1>2, <2>1
  <1>4. /\ Listed = {connections[i] : i \in 1..len}
        /\ Listed' = {connections'[i] : i \in 1..(len - 1)}
    BY <1>3, ListedAt, RangeEquality DEF Listed
  <1>5. ASSUME NEW i \in 1..(len - 1)
        PROVE  connections'[i] \in Listed
    <2>1. i \in 1..len /\ i + 1 \in 1..len
      BY <1>1
    <2> QED  BY <1>3, <1>4, <2>1
  <1>6. ASSUME NEW i \in 1..len, i # q
        PROVE  connections[i] \in Listed'
    <2>1. CASE i < q
      <3>1. i \in 1..(len - 1)
        BY <1>1, <2>1
      <3> QED  BY <1>3, <1>4, <2>1, <3>1
    <2>2. CASE ~(i < q)
      <3> DEFINE j == i - 1
      <3>1. j \in 1..(len - 1) /\ j + 1 = i /\ ~(j < q)
        BY <1>1, <1>6, <2>2
      <3> HIDE DEF j
      <3> QED  BY <1>3, <1>4, <3>1
    <2> QED  BY <2>1, <2>2
  <1> QED  BY <1>2, <1>4, <1>5, <1>6

(* Steps that begin, move or end no walk and write nothing.                *)
LEMMA QuietKeepsOrder ==
    ASSUME ServerInv, OrderInv, UNCHANGED <<walks, inbox>>,
           \/ connections' = connections /\ removed' = removed
           \/ Connect
           \/ \E c \in Connection : Finish(c),
           LaterWaits'
    PROVE  OrderInv'
  <1> USE DEF OrderInv
  <1> DEFINE len == Len(connections)
  <1>1. WalkedOnce'
    BY DEF WalkedOnce
  <1>3. len \in Nat
    BY ListedAt DEF ServerInv
  <1>2. removed' = removed => \A c \in Connection : Ascending(inbox[c])'
    BY DEF Ascending, Before
  <1>4. CASE connections' = connections /\ removed' = removed
    <2>1. Places'
      BY <1>4 DEF Places
    <2>2. NoneOvertakes'
      BY <1>4 DEF NoneOvertakes
    <2>3. EarlierAhead'
      BY <1>4 DEF EarlierAhead, Before
    <2> QED  BY <1>1, <1>2, <1>4, <2>1, <2>2, <2>3
  <1>5. CASE Connect
    <2> DEFINE c == Cardinality(Known) + 1
    <2>1. c \in Connection /\ connections' = Append(connections, c)
          /\ alive' = alive \cup {c} /\ closed' = closed
      BY <1>5 DEF Connect, Joined, Known
    <2>2. PICK k \in 0..MaxConnections : Known = 1..k
      BY DEF ServerInv, PeersInv
    <2>3. Cardinality(Known) = k /\ c = k + 1 /\ k \in Nat
      <3>1. k \in Nat
        BY Numbers
      <3>2. Cardinality(1..k) = k
        BY <3>1, FS_Interval
      <3> QED  BY <2>2, <3>1, <3>2
    <2> HIDE DEF c
    <2>4. /\ connections \in Seq(Connection) /\ Listed' = Listed \cup {c}
          /\ Len(connections') = len + 1 /\ connections'[len + 1] = c
          /\ \A i \in 1..len : connections'[i] = connections[i]
      BY <2>1, RangeAppended DEF ServerInv, ServerTypes, Listed
    <2>5. c \notin Known
      BY <2>2, <2>3
    <2>8. removed' = removed
      BY <1>5 DEF Connect, record
    <2>9. \A p \in 1..len : p \in 1..Len(connections')
      BY <1>3, <2>4
    <2>10. \A p \in 1..Len(connections') : p \in 1..len \/ (p = len + 1 /\ connections'[p] = c)
      BY <1>3, <2>4
    <2>11. Places'
      <3>1. SUFFICES ASSUME NEW d \in Connection, NEW i \in 1..Len(walks[d])
                     PROVE  \E p \in 1..Len(connections') :
                              /\ connections'[p] = d /\ p <= walks[d][i].next
                              /\ \/ p = walks[d][i].next
                                 \/ walks[d][i].event = Ping
                                 \/ removed'[walks[d][i].event] > 0
        BY DEF Places
      <3>2. PICK p \in 1..len : /\ connections[p] = d /\ p <= walks[d][i].next
                                /\ \/ p = walks[d][i].next
                                   \/ walks[d][i].event = Ping
                                   \/ removed[walks[d][i].event] > 0
        BY <3>1 DEF Places
      <3>3. p \in 1..Len(connections') /\ connections'[p] = d
        BY <2>4, <2>9, <3>2
      <3> QED  BY <2>8, <3>2, <3>3
    <2>12. NoneOvertakes'
      BY <2>8 DEF NoneOvertakes
    <2>13. Len(inbox[c]) = 0
      <3>1. inbox[c] = <<>>
        BY <2>1, <2>5 DEF LaterWaits
      <3> QED  BY <3>1
    <2>14. EarlierAhead'
      <3>1. SUFFICES ASSUME NEW d \in Connection, NEW i \in 1..Len(walks[d]),
                            walks[d][i].event # Ping,
                            NEW p \in 1..Len(connections'), p > walks[d][i].next,
                            NEW n \in 1..Len(inbox[connections'[p]])
                     PROVE  Before(inbox[connections'[p]][n], walks[d][i].event)
        BY <2>8 DEF EarlierAhead, Before
      <3>2. p \in 1..len /\ connections'[p] = connections[p]
        BY <2>4, <2>10, <2>13, <3>1
      <3> QED  BY <3>1, <3>2 DEF EarlierAhead
    <2> QED  BY <1>1, <1>2, <2>8, <2>11, <2>12, <2>14
  <1>6. ASSUME NEW c \in Connection, Finish(c)
        PROVE  OrderInv'
    <2>1. /\ c \in signalled /\ c \in Listed /\ Idle
          /\ connections' = RemoveFirst(connections, c)
          /\ UNCHANGED <<alive, closed, signalled>>
      BY <1>6 DEF Finish, peers
    <2>2. c \in closed
      BY <2>1 DEF ServerInv, PeersInv
    <2>3. Len(walks[c]) = 0
      <3>1. walks[c] = <<>>
        BY <2>1, <2>2 DEF Idle
      <3> QED  BY <3>1
    <2>4. PICK q \in 1..len : connections[q] = c
      BY <2>1, ListedAt DEF ServerInv
    <2>5. connections \in Seq(Connection)
          /\ \A i, j \in 1..Len(connections) : connections[i] = connections[j] => i = j
      BY DEF ServerInv, ServerTypes, PeersInv
    <2>6. /\ connections' \in Seq(Connection) /\ Len(connections') = len - 1
          /\ \A i \in 1..(len - 1) :
                connections'[i] = IF i < q THEN connections[i] ELSE connections[i + 1]
      <3>1. /\ RemoveFirst(connections, connections[q]) \in Seq(Connection)
            /\ Len(RemoveFirst(connections, connections[q])) = len - 1
            /\ \A i \in 1..(len - 1) :
                  RemoveFirst(connections, connections[q])[i]
                     = IF i < q THEN connections[i] ELSE connections[i + 1]
        BY ONLY <2>4, <2>5, RemovedOnce
      <3> QED  BY <2>1, <2>4, <3>1
    <2>7. ASSUME NEW e \in Event
          PROVE  /\ removed[e] \in Nat /\ removed'[e] \in Nat /\ removed'[e] >= removed[e]
                 /\ Walking(e) => removed'[e] > 0
      <3>1. removed[e] \in Nat
        BY DEF ServerInv, ServerTypes
      <3>2. removed'[e] = IF Walking(e) THEN removed[e] + 1 ELSE removed[e]
        BY <1>6 DEF Finish
      <3> QED  BY <3>1, <3>2
    <2>8. ASSUME NEW d \in Connection, NEW i \in 1..Len(walks[d]), walks[d][i].event # Ping
          PROVE  removed'[walks[d][i].event] > 0 /\ removed'[walks[d][i].event] # 0
      <3>1. walks[d] \in Seq(Walk) /\ walks[d][i].event \in Event
        BY <2>8, Entries
      <3>2. walks[d][i] \in Range(walks[d])
        BY <3>1, RangeEquality
      <3>3. Walking(walks[d][i].event)
        BY <3>2 DEF Walking
      <3> QED  BY <2>7, <3>1, <3>3
    <2>9. Places'
      <3>1. SUFFICES ASSUME NEW d \in Connection, NEW i \in 1..Len(walks[d])
                     PROVE  \E p \in 1..Len(connections') :
                              /\ connections'[p] = d /\ p <= walks[d][i].next
                              /\ \/ p = walks[d][i].next
                                 \/ walks[d][i].event = Ping
                                 \/ removed'[walks[d][i].event] > 0
        BY DEF Places
      <3>2. walks[d][i].next \in Nat
        BY Entries
      <3>3. PICK p \in 1..len : connections[p] = d /\ p <= walks[d][i].next
        BY <3>1 DEF Places
      <3>4. p # q
        BY <2>3, <2>4, <3>1, <3>3
      <3>7. walks[d][i].event = Ping \/ removed'[walks[d][i].event] > 0
        BY <2>8
      <3>5. CASE p < q
        <4>1. p \in 1..Len(connections') /\ connections'[p] = d
          BY <1>3, <2>6, <3>3, <3>5
        <4> QED  BY <3>3, <3>7, <4>1
      <3>6. CASE p > q
        <4> DEFINE j == p - 1
        <4>1. j \in 1..(len - 1) /\ j + 1 = p /\ ~(j < q) /\ j <= walks[d][i].next
          BY <1>3, <3>2, <3>3, <3>6
        <4> HIDE DEF j
        <4>2. connections'[j] = d
          BY <2>6, <3>3, <4>1
        <4> QED  BY <2>6, <3>7, <4>1, <4>2
      <3> QED  BY <1>3, <3>4, <3>5, <3>6
    <2>10. NoneOvertakes'
      BY <2>8 DEF NoneOvertakes
    <2>11. EarlierAhead'
      <3>1. SUFFICES ASSUME NEW d \in Connection, NEW i \in 1..Len(walks[d]),
                            walks[d][i].event # Ping,
                            NEW p \in 1..Len(connections'), p > walks[d][i].next,
                            NEW n \in 1..Len(inbox[connections'[p]])
                     PROVE  \/ inbox[connections'[p]][n] < walks[d][i].event
                            \/ /\ inbox[connections'[p]][n] > walks[d][i].event
                               /\ removed'[walks[d][i].event] > 0
        BY DEF EarlierAhead, Before
      <3>2. walks[d][i].next \in Nat /\ walks[d][i].event \in Event
        BY <3>1, Entries
      <3>3. PICK r \in 1..len : r >= p /\ connections'[p] = connections[r]
        BY <1>3, <2>6
      <3>4. r \in 1..Len(connections) /\ r > walks[d][i].next
        <4>1. p \in Nat
          BY <3>1
        <4> QED  BY <3>1, <3>2, <3>3, <4>1
      <3>5. n \in 1..Len(inbox[connections[r]])
        BY <3>3
      <3>6. Before(inbox[connections[r]][n], walks[d][i].event)
        BY <3>1, <3>4, <3>5 DEF EarlierAhead
      <3>7. Before(inbox[connections'[p]][n], walks[d][i].event)
        BY <3>3, <3>6
      <3> QED  BY <2>7, <3>2, <3>7 DEF Before
    <2>13. \A x \in Connection : Ascending(inbox[x])'
      <3> SUFFICES ASSUME NEW x \in Connection, NEW i \in 1..Len(inbox[x]),
                          NEW j \in 1..Len(inbox[x]), i < j
                   PROVE  Before(inbox[x][i], inbox[x][j])'
        BY DEF Ascending, Before
      <3>1. inbox[x][j] \in Event
        BY Entries
      <3>2. Before(inbox[x][i], inbox[x][j])
        BY DEF Ascending
      <3> QED  BY <2>7, <3>1, <3>2 DEF Before
    <2> QED  BY <1>1, <2>9, <2>10, <2>11, <2>13
  <1> QED  BY <1>4, <1>5, <1>6

(* What a walk writes is the last entry of one inbox.                      *)
LEMMA Writes ==
    ASSUME ServerTypes, NEW c \in Connection, NEW e \in Event \cup {Ping},
           inbox' = Written(c, e)
    PROVE  \A x \in Connection :
              /\ Len(inbox'[x]) \in Nat /\ Len(inbox[x]) \in Nat
              /\ x # c => inbox'[x] = inbox[x]
              /\ \/ inbox'[x] = inbox[x]
                 \/ /\ e # Ping /\ c \in alive /\ Len(inbox'[x]) = Len(inbox[x]) + 1
                    /\ inbox'[x][Len(inbox[x]) + 1] = e
                    /\ \A k \in 1..Len(inbox[x]) : inbox'[x][k] = inbox[x][k]
  <1>1. \A x \in Connection : inbox[x] \in Seq(Event) /\ Len(inbox[x]) \in Nat
    BY DEF ServerTypes
  <1>2. CASE e = Ping \/ c \notin alive
    <2>1. inbox' = inbox
      BY <1>2 DEF Written
    <2> QED  BY <1>1, <2>1
  <1>3. CASE ~(e = Ping \/ c \notin alive)
    <2>1. e \in Event /\ inbox' = [inbox EXCEPT ![c] = Append(inbox[c], e)]
      BY <1>3 DEF Written
    <2>2. \A x \in Connection : x # c => inbox'[x] = inbox[x]
      BY <2>1 DEF ServerTypes
    <2>3. inbox'[c] = Append(inbox[c], e)
      BY <2>1 DEF ServerTypes
    <2> DEFINE box == inbox[c]
    <2>4. box \in Seq(Event)
      BY <1>1
    <2> HIDE DEF box
    <2>5. /\ Len(Append(box, e)) = Len(box) + 1 /\ Append(box, e)[Len(box) + 1] = e
          /\ \A k \in 1..Len(box) : Append(box, e)[k] = box[k]
      BY <2>1, <2>4
    <2>6. /\ Len(inbox'[c]) = Len(inbox[c]) + 1 /\ inbox'[c][Len(inbox[c]) + 1] = e
          /\ \A k \in 1..Len(inbox[c]) : inbox'[c][k] = inbox[c][k]
      BY <2>3, <2>5 DEF box
    <2>7. Len(inbox'[c]) \in Nat
      BY <1>1, <2>6
    <2> QED  BY <1>1, <1>3, <2>2, <2>6, <2>7
  <1> QED  BY <1>2, <1>3

(* A step of the walks.  Of the connections for which gone is 1 the first  *)
(* walk is gone; if fresh, the walk v waits behind the others on ws.       *)
Shifts(gone, fresh, ws, v) ==
    \A d \in Connection : \A i \in 1..Len(walks'[d]) :
       \/ /\ i + gone[d] \in 1..Len(walks[d]) /\ i + gone[d] > gone[d]
          /\ walks'[d][i] = walks[d][i + gone[d]]
          /\ fresh /\ d = ws => i < Len(walks'[d])
       \/ fresh /\ d = ws /\ i = Len(walks'[d]) /\ walks'[d][i] = v

(* v is at its place, and overtakes nobody.                                *)
Follows(gone, fresh, ws, v) ==
    /\ fresh => v.next \in 1..Len(connections) /\ connections[v.next] = ws
    /\ \A d \in Connection : \A i \in 1..Len(walks[d]) : fresh /\ i > gone[d] =>
          /\ v.event # Ping => walks[d][i].event # v.event
          /\ /\ walks[d][i].event # Ping /\ walks[d][i].event < v.event
             /\ removed[walks[d][i].event] = 0
             => v.next < walks[d][i].next \/ (v.next = walks[d][i].next /\ d = ws)
          /\ v.event # Ping /\ v.event < walks[d][i].event /\ removed[v.event] = 0 =>
                d # ws /\ walks[d][i].next < v.next
    /\ fresh /\ v.event # Ping => \A p \in 1..Len(connections) : p >= v.next =>
          \A k \in 1..Len(inbox[connections[p]]) : Before(inbox[connections[p]][k], v.event)

(* What the host sends next is later than v.                               *)
Supplies(fresh, v) ==
    /\ broker' = broker
    /\ sent' \in Nat /\ sent <= sent' /\ (fresh => v.event <= sent')
    /\ outbox' \in Seq(Event) /\ (outbox = <<>> => outbox' = <<>>)
    /\ \A i, j \in 1..Len(outbox') : i < j => outbox'[i] < outbox'[j]
    /\ \A n \in 1..Len(outbox') : \E m \in 1..Len(outbox) :
          outbox'[n] = outbox[m] /\ (fresh => v.event < outbox[m])

LEMMA WalksMove ==
    ASSUME ServerInv, OrderInv, connections' = connections, Known' = Known, removed' = removed,
           NEW gone \in [Connection -> {0, 1}], NEW fresh \in BOOLEAN,
           NEW ws \in Connection, NEW v \in Walk,
           \/ inbox' = inbox
           \/ fresh /\ inbox' = Written(ws, v.event),
           Shifts(gone, fresh, ws, v), Follows(gone, fresh, ws, v), Supplies(fresh, v)
    PROVE  OrderInv'
  <1> USE DEF OrderInv
  <1>1. removed' = removed /\ connections' = connections
    OBVIOUS
  <1>2. /\ v.event \in Event \cup {Ping} /\ v.event \in Nat /\ v.next \in Nat
    <2>1. v.event \in Event \cup {Ping} /\ v.next \in 1..MaxConnections
      BY DEF Walk
    <2>2. Event \cup {Ping} \subseteq Nat
      BY Numbers DEF Ping
    <2> QED  BY <2>1, <2>2, Numbers
  <1>3. \A d \in Connection : gone[d] \in Nat
    OBVIOUS
  <1>4. \A d \in Connection : \A i \in 1..Len(walks[d]) :
            walks[d][i].event \in Nat /\ walks[d][i].next \in Nat
    BY Entries
  <1> DEFINE Old(d, i) == /\ i + gone[d] \in 1..Len(walks[d]) /\ i + gone[d] > gone[d]
                          /\ walks'[d][i] = walks[d][i + gone[d]]
                          /\ fresh /\ d = ws => i < Len(walks'[d])
             New(d, i) == fresh /\ d = ws /\ i = Len(walks'[d]) /\ walks'[d][i] = v
  <1>5. ASSUME NEW d \in Connection, NEW i \in 1..Len(walks'[d])
        PROVE  Old(d, i) \/ New(d, i)
    BY DEF Shifts
  <1>6. Places'
    <2>1. SUFFICES ASSUME NEW d \in Connection, NEW i \in 1..Len(walks'[d])
                   PROVE  \E p \in 1..Len(connections) :
                            /\ connections[p] = d /\ p <= walks'[d][i].next
                            /\ \/ p = walks'[d][i].next
                               \/ walks'[d][i].event = Ping
                               \/ removed[walks'[d][i].event] > 0
      <3>1. Places' <=> \A d \in Connection : \A i \in 1..Len(walks'[d]) :
                            \E p \in 1..Len(connections) :
                               /\ connections[p] = d /\ p <= walks'[d][i].next
                               /\ \/ p = walks'[d][i].next
                                  \/ walks'[d][i].event = Ping
                                  \/ removed[walks'[d][i].event] > 0
        BY ONLY <1>1 DEF Places
      <3> QED  BY <3>1
    <2>2. CASE Old(d, i)
      <3> DEFINE a == i + gone[d]
      <3>1. a \in 1..Len(walks[d]) /\ walks'[d][i] = walks[d][a]
        BY <2>2
      <3> HIDE DEF a
      <3>2. \E p \in 1..Len(connections) :
               /\ connections[p] = d /\ p <= walks[d][a].next
               /\ \/ p = walks[d][a].next
                  \/ walks[d][a].event = Ping
                  \/ removed[walks[d][a].event] > 0
        BY <3>1 DEF Places
      <3> QED  BY ONLY <3>1, <3>2
    <2>3. CASE New(d, i)
      <3>1. v.next \in 1..Len(connections) /\ connections[v.next] = d /\ walks'[d][i] = v
        BY <2>3 DEF Follows
      <3>2. v.next <= v.next
        BY <1>2
      <3> QED  BY ONLY <3>1, <3>2
    <2> QED  BY <1>5, <2>2, <2>3
  <1> DEFINE OldAt(d, i, a) == a \in 1..Len(walks[d]) /\ a > gone[d] /\ walks'[d][i] = walks[d][a]
  <1>14. ASSUME NEW d \in Connection, NEW i \in 1..Len(walks'[d]), Old(d, i)
         PROVE  \E a \in Nat : OldAt(d, i, a)
    <2> DEFINE a == i + gone[d]
    <2>1. OldAt(d, i, a) /\ a \in Nat
      BY <1>3, <1>14
    <2> HIDE DEF a, OldAt
    <2> QED  BY <2>1
  <1>15. ASSUME NEW d \in Connection, NEW a \in 1..Len(walks[d]), a > gone[d], fresh
         PROVE  /\ v.event # Ping => walks[d][a].event # v.event
                /\ /\ walks[d][a].event # Ping /\ walks[d][a].event < v.event
                   /\ removed[walks[d][a].event] = 0
                   => v.next < walks[d][a].next \/ (v.next = walks[d][a].next /\ d = ws)
                /\ v.event # Ping /\ v.event < walks[d][a].event /\ removed[v.event] = 0 =>
                      d # ws /\ walks[d][a].next < v.next
    BY <1>15 DEF Follows
  <1>16. ASSUME fresh
         PROVE  v.next \in 1..Len(connections) /\ connections[v.next] = ws
    BY <1>16 DEF Follows
  <1>7. WalkedOnce'
    <2>1. SUFFICES ASSUME NEW d \in Connection, NEW f \in Connection,
                          NEW i \in 1..Len(walks'[d]), NEW j \in 1..Len(walks'[f]),
                          walks'[d][i].event = walks'[f][j].event, walks'[d][i].event # Ping
                   PROVE  d = f /\ i = j
      BY DEF WalkedOnce
    <2>2. CASE Old(d, i) /\ Old(f, j)
      <3>1. d = f /\ i + gone[d] = j + gone[f]
        BY <2>1, <2>2 DEF WalkedOnce
      <3> QED  BY <1>3, <3>1
    <2>3. CASE Old(d, i) /\ New(f, j)
      <3>1. PICK a \in Nat : OldAt(d, i, a)
        BY <1>14, <2>3
      <3>2. fresh /\ walks'[f][j] = v
        BY <2>3
      <3> QED  BY ONLY <1>15, <2>1, <3>1, <3>2, d \in Connection
    <2>4. CASE New(d, i) /\ Old(f, j)
      <3>1. PICK a \in Nat : OldAt(f, j, a)
        BY <1>14, <2>4
      <3>2. fresh /\ walks'[d][i] = v
        BY <2>4
      <3> QED  BY ONLY <1>15, <2>1, <3>1, <3>2, f \in Connection
    <2>5. CASE New(d, i) /\ New(f, j)
      BY <2>5
    <2> QED  BY <1>5, <2>2, <2>3, <2>4, <2>5
  <1>8. NoneOvertakes'
    <2>1. SUFFICES ASSUME NEW d \in Connection, NEW f \in Connection,
                          NEW i \in 1..Len(walks'[d]), NEW j \in 1..Len(walks'[f]),
                          walks'[d][i].event # Ping, walks'[d][i].event < walks'[f][j].event,
                          removed[walks'[d][i].event] = 0
                   PROVE  /\ d = f => i < j
                          /\ \/ walks'[f][j].next < walks'[d][i].next
                             \/ walks'[f][j].next = walks'[d][i].next /\ d = f
      <3>1. NoneOvertakes' <=>
               \A d, f \in Connection : \A i \in 1..Len(walks'[d]) : \A j \in 1..Len(walks'[f]) :
                  /\ walks'[d][i].event # Ping /\ walks'[d][i].event < walks'[f][j].event
                  /\ removed[walks'[d][i].event] = 0
                  => /\ d = f => i < j
                     /\ \/ walks'[f][j].next < walks'[d][i].next
                        \/ walks'[f][j].next = walks'[d][i].next /\ d = f
        BY ONLY <1>1 DEF NoneOvertakes
      <3> QED  BY <3>1
    <2>2. CASE Old(d, i) /\ Old(f, j)
      <3> DEFINE a == i + gone[d]
                 b == j + gone[f]
      <3>1. /\ a \in 1..Len(walks[d]) /\ b \in 1..Len(walks[f])
            /\ walks'[d][i] = walks[d][a] /\ walks'[f][j] = walks[f][b]
            /\ d = f /\ a < b => i < j
        BY <1>3, <2>2
      <3> HIDE DEF a, b
      <3>2. /\ d = f => a < b
            /\ \/ walks[f][b].next < walks[d][a].next
               \/ walks[f][b].next = walks[d][a].next /\ d = f
        BY <2>1, <3>1 DEF NoneOvertakes
      <3> QED  BY <3>1, <3>2
    <2>3. CASE Old(d, i) /\ New(f, j)
      <3>1. PICK a \in Nat : OldAt(d, i, a)
        BY <1>14, <2>3
      <3>2. fresh /\ walks'[f][j] = v /\ f = ws
        BY <2>3
      <3>3. d = f => i < j
        BY ONLY <2>3, d \in Connection
      <3>4. \/ v.next < walks[d][a].next
            \/ v.next = walks[d][a].next /\ d = ws
        BY ONLY <1>15, <2>1, <3>1, <3>2, d \in Connection
      <3> QED  BY ONLY <3>1, <3>2, <3>3, <3>4
    <2>4. CASE New(d, i) /\ Old(f, j)
      <3>1. PICK a \in Nat : OldAt(f, j, a)
        BY <1>14, <2>4
      <3>2. fresh /\ walks'[d][i] = v /\ d = ws
        BY <2>4
      <3>3. f # ws /\ walks[f][a].next < v.next
        BY ONLY <1>15, <2>1, <3>1, <3>2, f \in Connection
      <3> QED  BY ONLY <3>1, <3>2, <3>3
    <2>5. CASE New(d, i) /\ New(f, j)
      <3>1. v.event < v.event
        BY <2>1, <2>5
      <3> QED  BY ONLY <1>2, <3>1
    <2> QED  BY <1>5, <2>2, <2>3, <2>4, <2>5
  <1>9. \A x \in Connection :
           /\ Len(inbox'[x]) \in Nat /\ Len(inbox[x]) \in Nat
           /\ \A k \in 1..Len(inbox[x]) : inbox[x][k] \in Nat
           /\ \/ inbox'[x] = inbox[x]
              \/ /\ fresh /\ x = ws /\ v.event # Ping /\ Len(inbox'[x]) = Len(inbox[x]) + 1
                 /\ inbox'[x][Len(inbox[x]) + 1] = v.event
                 /\ \A k \in 1..Len(inbox[x]) : inbox'[x][k] = inbox[x][k]
    <2>1. CASE inbox' = inbox
      BY <2>1, Entries
    <2>2. CASE fresh /\ inbox' = Written(ws, v.event)
      <3>1. ServerTypes
        BY DEF ServerInv
      <3>2. \A x \in Connection :
              /\ Len(inbox'[x]) \in Nat /\ Len(inbox[x]) \in Nat
              /\ x # ws => inbox'[x] = inbox[x]
              /\ \/ inbox'[x] = inbox[x]
                 \/ /\ v.event # Ping /\ ws \in alive /\ Len(inbox'[x]) = Len(inbox[x]) + 1
                    /\ inbox'[x][Len(inbox[x]) + 1] = v.event
                    /\ \A k \in 1..Len(inbox[x]) : inbox'[x][k] = inbox[x][k]
        BY <1>2, <2>2, <3>1, Writes
      <3>3. \A x \in Connection : \A k \in 1..Len(inbox[x]) : inbox[x][k] \in Nat
        BY Entries
      <3> QED  BY <2>2, <3>2, <3>3
    <2> QED  BY <2>1, <2>2
  <1>10. ASSUME NEW x \in Connection, NEW k \in 1..Len(inbox'[x])
         PROVE  \/ k \in 1..Len(inbox[x]) /\ inbox'[x][k] = inbox[x][k]
                \/ /\ fresh /\ x = ws /\ v.event # Ping
                   /\ k = Len(inbox[x]) + 1 /\ inbox'[x][k] = v.event
    BY <1>9
  <1>11. EarlierAhead'
    <2>1. SUFFICES ASSUME NEW d \in Connection, NEW i \in 1..Len(walks'[d]),
                          walks'[d][i].event # Ping,
                          NEW p \in 1..Len(connections), p > walks'[d][i].next,
                          NEW k \in 1..Len(inbox'[connections[p]])
                   PROVE  Before(inbox'[connections[p]][k], walks'[d][i].event)
      BY DEF EarlierAhead, Before
    <2> DEFINE x == connections[p]
    <2>2. x \in Connection /\ \A q \in 1..Len(connections) : connections[q] = x => q = p
      BY ListedAt DEF ServerInv, PeersInv
    <2>3. p \in Nat
      OBVIOUS
    <2> HIDE DEF x
    <2>4. \/ k \in 1..Len(inbox[x]) /\ inbox'[x][k] = inbox[x][k]
          \/ fresh /\ x = ws /\ v.event # Ping /\ inbox'[x][k] = v.event
      BY <1>10, <2>2 DEF x
    <2>5. CASE Old(d, i)
      <3> DEFINE a == i + gone[d]
      <3>1. a \in 1..Len(walks[d]) /\ a > gone[d] /\ walks'[d][i] = walks[d][a]
        BY <2>5
      <3> HIDE DEF a
      <3>2. CASE k \in 1..Len(inbox[x]) /\ inbox'[x][k] = inbox[x][k]
        BY <2>1, <3>1, <3>2 DEF EarlierAhead, x
      <3>3. CASE fresh /\ x = ws /\ v.event # Ping /\ inbox'[x][k] = v.event
        <4>1. p = v.next
          BY <1>16, <2>2, <3>3
        <4>2. walks[d][a].event # v.event
          BY <1>15, <3>1, <3>3
        <4>3. /\ walks[d][a].event \in Nat /\ walks[d][a].event \in Event
              /\ removed[walks[d][a].event] \in Nat
              /\ p > walks[d][a].next /\ walks[d][a].event # Ping /\ walks[d][a].next \in Nat
          <5>1. walks[d][a].event # Ping /\ p > walks[d][a].next
            BY <2>1, <3>1
          <5>2. walks[d][a].event \in Event
            BY <3>1, <5>1, Entries
          <5> QED  BY <1>4, <3>1, <5>1, <5>2 DEF ServerInv, ServerTypes
        <4>4. walks[d][a].event < v.event => removed[walks[d][a].event] # 0
          <5>1. walks[d][a].event < v.event /\ removed[walks[d][a].event] = 0
                   => v.next <= walks[d][a].next
            BY ONLY <1>2, <1>15, <3>1, <3>3, <4>3, d \in Connection
          <5> QED  BY ONLY <1>2, <4>1, <4>3, <5>1
        <4>5. Before(v.event, walks[d][a].event)
          BY <1>2, <4>2, <4>3, <4>4 DEF Before
        <4> QED  BY <3>1, <3>3, <4>5 DEF x
      <3> QED  BY <2>4, <3>2, <3>3
    <2>6. CASE New(d, i)
      <3>1. p # v.next /\ p >= v.next /\ fresh /\ walks'[d][i] = v
        BY <1>2, <2>1, <2>3, <2>6
      <3>2. x # ws
        BY <1>16, <2>2, <3>1
      <3>3. k \in 1..Len(inbox[x]) /\ inbox'[x][k] = inbox[x][k]
        BY <2>4, <3>2
      <3>4. \A m \in 1..Len(inbox[connections[p]]) : Before(inbox[connections[p]][m], v.event)
        BY <2>1, <3>1 DEF Follows
      <3> QED  BY <2>1, <3>1, <3>3, <3>4 DEF x
    <2> QED  BY <1>5, <2>5, <2>6
  <1>12. \A x \in Connection : Ascending(inbox[x])'
    <2>1. SUFFICES ASSUME NEW x \in Connection, NEW k \in 1..Len(inbox'[x]),
                          NEW n \in 1..Len(inbox'[x]), k < n
                   PROVE  Before(inbox'[x][k], inbox'[x][n])
      BY DEF Ascending, Before
    <2>2. Len(inbox[x]) \in Nat
      BY <1>9
    <2>3. k \in 1..Len(inbox[x]) /\ inbox'[x][k] = inbox[x][k]
      BY <1>9, <1>10, <2>1, <2>2
    <2>4. CASE n \in 1..Len(inbox[x]) /\ inbox'[x][n] = inbox[x][n]
      BY <2>1, <2>3, <2>4 DEF Ascending
    <2>5. CASE fresh /\ x = ws /\ v.event # Ping /\ inbox'[x][n] = v.event
      <3>1. v.next \in 1..Len(connections) /\ connections[v.next] = x /\ v.next >= v.next
        BY <1>2, <1>16, <2>5
      <3>2. \A m \in 1..Len(inbox[connections[v.next]]) :
               Before(inbox[connections[v.next]][m], v.event)
        BY <2>5, <3>1 DEF Follows
      <3> QED  BY ONLY <2>3, <2>5, <3>1, <3>2
    <2> QED  BY <1>10, <2>4, <2>5
  <1>13. LaterWaits'
    <2>1. broker' = "process" => outbox' = <<>>
      BY DEF LaterWaits, Supplies
    <2>2. \A d \in Connection : d \notin Known => inbox'[d] = <<>>
      <3>1. fresh => ws \in Known
        <4> SUFFICES ASSUME fresh
                     PROVE  ws \in Known
          OBVIOUS
        <4>1. ws \in Listed
          BY <1>16, ListedAt DEF ServerInv
        <4> QED  BY <4>1 DEF Known
      <3> QED  BY <1>9, <3>1 DEF LaterWaits
    <2>3. /\ sent \in Nat /\ sent' \in Nat /\ sent <= sent' /\ (fresh => v.event <= sent')
          /\ \A a, b \in 1..Len(outbox') : a < b => outbox'[a] < outbox'[b]
      BY Entries DEF Supplies
    <2>4. \A d \in Connection : \A k \in 1..Len(inbox'[d]) : inbox'[d][k] <= sent'
      <3> SUFFICES ASSUME NEW d \in Connection, NEW k \in 1..Len(inbox'[d])
                   PROVE  inbox'[d][k] <= sent'
        OBVIOUS
      <3>1. k \in 1..Len(inbox[d]) => inbox[d][k] <= sent /\ inbox[d][k] \in Nat
        BY Entries DEF LaterWaits
      <3> QED  BY <1>10, <2>3, <3>1
    <2>5. \A d \in Connection : \A i \in 1..Len(walks'[d]) : walks'[d][i].event <= sent'
      <3> SUFFICES ASSUME NEW d \in Connection, NEW i \in 1..Len(walks'[d])
                   PROVE  walks'[d][i].event <= sent'
        OBVIOUS
      <3>1. \A a \in 1..Len(walks[d]) : walks[d][a].event <= sent /\ walks[d][a].event \in Nat
        BY <1>4 DEF LaterWaits
      <3>2. Old(d, i) => walks'[d][i].event <= sent /\ walks'[d][i].event \in Nat
        BY <3>1
      <3> QED  BY <1>5, <2>3, <3>2
    <2>6. ASSUME NEW n \in 1..Len(outbox')
          PROVE  /\ outbox'[n] <= sent'
                 /\ \A d \in Connection : \A k \in 1..Len(inbox'[d]) : inbox'[d][k] < outbox'[n]
                 /\ \A d \in Connection : \A i \in 1..Len(walks'[d]) :
                        walks'[d][i].event < outbox'[n]
      <3>1. PICK m \in 1..Len(outbox) : outbox'[n] = outbox[m] /\ (fresh => v.event < outbox[m])
        BY DEF Supplies
      <3>2. outbox[m] <= sent /\ outbox[m] \in Nat
        BY Entries DEF LaterWaits
      <3>3. ASSUME NEW d \in Connection, NEW k \in 1..Len(inbox'[d])
            PROVE  inbox'[d][k] < outbox'[n]
        <4>1. k \in 1..Len(inbox[d]) => inbox[d][k] < outbox[m]
          BY DEF LaterWaits
        <4> QED  BY <1>10, <3>1, <4>1
      <3>4. ASSUME NEW d \in Connection, NEW i \in 1..Len(walks'[d])
            PROVE  walks'[d][i].event < outbox'[n]
        <4>1. \A a \in 1..Len(walks[d]) : walks[d][a].event < outbox[m]
          BY DEF LaterWaits
        <4>2. Old(d, i) => walks'[d][i].event < outbox[m]
          BY <4>1
        <4> QED  BY <1>5, <3>1, <4>2
      <3> QED  BY <2>3, <3>1, <3>2, <3>3, <3>4
    <2> QED  BY <2>1, <2>2, <2>3, <2>4, <2>5, <2>6 DEF LaterWaits
  <1> QED  BY <1>6, <1>7, <1>8, <1>11, <1>12, <1>13

(* Where a walk that has just begun stands to the others.                  *)
LEMMA BeginKeepsOrder ==
    ASSUME ServerInv, OrderInv, NEW e \in Event \cup {Ping}, Begin(e),
           connections' = connections, Known' = Known, removed' = removed,
           e # Ping => /\ \A c \in Connection : \A i \in 1..Len(walks[c]) : walks[c][i].event < e
                       /\ \A c \in Connection : \A k \in 1..Len(inbox[c]) : inbox[c][k] < e,
           \A v : v.event = e => Supplies(TRUE, v)
    PROVE  OrderInv'
  <1>1. ServerTypes /\ walks \in [Connection -> Seq(Walk)]
    BY DEF ServerInv, ServerTypes
  <1> DEFINE none == [d \in Connection |-> 0]
  <1>2. none \in [Connection -> {0, 1}] /\ \A d \in Connection : none[d] = 0
    OBVIOUS
  <1>3. \A d \in Connection : Len(walks[d]) \in Nat
    BY Entries
  <1> HIDE DEF none
  <1>6. /\ broker' = broker /\ sent' \in Nat /\ sent <= sent'
        /\ outbox' \in Seq(Event) /\ (outbox = <<>> => outbox' = <<>>)
        /\ \A i, j \in 1..Len(outbox') : i < j => outbox'[i] < outbox'[j]
        /\ \A n \in 1..Len(outbox') : \E m \in 1..Len(outbox) : outbox'[n] = outbox[m]
    <2> DEFINE v == [event |-> e]
    <2>1. v.event = e
      OBVIOUS
    <2> HIDE DEF v
    <2> QED  BY <2>1 DEF Supplies
  <1>4. CASE connections = <<>>
    <2>1. walks' = walks /\ inbox' = inbox
      BY <1>4 DEF Begin
    <2>2. \A d \in Connection : walks[d] = <<>>
      <3>1. Len(connections) = 0
        BY <1>4
      <3>2. \A p \in 1..Len(connections) : FALSE
        BY <3>1
      <3>3. \A d \in Connection : \A i \in 1..Len(walks[d]) : FALSE
        BY <3>2 DEF OrderInv, Places
      <3>4. \A d \in Connection : walks[d] \in Seq(Walk)
        BY <1>1
      <3>5. \A d \in Connection : Len(walks[d]) = 0
        BY <1>3, <3>3
      <3> QED  BY <3>4, <3>5
    <2>3. LaterWaits'
      <3>1. \A d \in Connection : \A i \in 1..Len(walks'[d]) : FALSE
        BY <2>1, <2>2
      <3>2. \A d \in Connection : \A k \in 1..Len(inbox'[d]) : inbox'[d][k] <= sent'
        <4> SUFFICES ASSUME NEW d \in Connection, NEW k \in 1..Len(inbox[d])
                     PROVE  inbox[d][k] <= sent'
          BY <2>1
        <4>1. inbox[d][k] <= sent /\ inbox[d][k] \in Nat /\ sent \in Nat
          BY Entries DEF OrderInv, LaterWaits
        <4> QED  BY <1>6, <4>1
      <3>3. ASSUME NEW n \in 1..Len(outbox')
            PROVE  /\ outbox'[n] <= sent'
                   /\ \A d \in Connection : \A k \in 1..Len(inbox'[d]) : inbox'[d][k] < outbox'[n]
        <4>1. PICK m \in 1..Len(outbox) : outbox'[n] = outbox[m]
          BY <1>6
        <4>2. outbox[m] <= sent /\ outbox[m] \in Nat /\ sent \in Nat
              /\ \A d \in Connection : \A k \in 1..Len(inbox[d]) : inbox[d][k] < outbox[m]
          BY Entries DEF OrderInv, LaterWaits
        <4> QED  BY <1>6, <2>1, <4>1, <4>2
      <3>4. broker' = "process" => outbox' = <<>>
        BY <1>6 DEF OrderInv, LaterWaits
      <3>5. \A d \in Connection : d \notin Known' => inbox'[d] = <<>>
        BY <2>1 DEF OrderInv, LaterWaits
      <3> QED  BY <1>6, <3>1, <3>2, <3>3, <3>4, <3>5 DEF LaterWaits
    <2> QED  BY <2>1, <2>3, QuietKeepsOrder
  <1>5. CASE connections # <<>>
    <2> DEFINE ws == Head(connections)
               v == [event |-> e, next |-> 1, dead |-> {}]
    <2>1. /\ walks' = [walks EXCEPT ![ws] = Append(@, v)]
          /\ inbox' = Written(ws, e)
      BY <1>5 DEF Begin
    <2>2. ws \in Connection /\ ws = connections[1] /\ 1 \in 1..Len(connections)
      BY <1>1, <1>5 DEF ServerTypes
    <2>3. v \in Walk /\ v.event = e /\ v.next = 1
      <3>1. 1 \in 1..MaxConnections
        BY <2>2, Numbers DEF Connection
      <3> QED  BY <3>1 DEF Walk
    <2> DEFINE fresh == TRUE
    <2>9. fresh /\ fresh \in BOOLEAN
      OBVIOUS
    <2> HIDE DEF ws, v, fresh
    <2>4. Shifts(none, fresh, ws, v)
      <3> SUFFICES ASSUME NEW d \in Connection, NEW i \in 1..Len(walks'[d])
                   PROVE  \/ /\ i + none[d] \in 1..Len(walks[d]) /\ i + none[d] > none[d]
                             /\ walks'[d][i] = walks[d][i + none[d]]
                             /\ fresh /\ d = ws => i < Len(walks'[d])
                          \/ fresh /\ d = ws /\ i = Len(walks'[d]) /\ walks'[d][i] = v
        BY DEF Shifts
      <3> DEFINE waits == walks[d]
      <3>1. waits \in Seq(Walk) /\ Len(waits) \in Nat
        BY <1>1, <1>3
      <3>2. CASE d = ws
        <4>1. walks'[d] = Append(waits, v)
          BY <1>1, <2>1, <3>2
        <4> HIDE DEF waits
        <4>2. /\ Len(walks'[d]) = Len(waits) + 1 /\ walks'[d][Len(waits) + 1] = v
              /\ \A k \in 1..Len(waits) : walks'[d][k] = waits[k]
          BY <2>3, <3>1, <4>1
        <4>3. none[d] = 0
          BY <1>2
        <4>4. i \in 1..Len(waits) \/ i = Len(waits) + 1
          BY <3>1, <4>2
        <4>5. CASE i \in 1..Len(waits)
          <5>1. i + none[d] = i /\ i < Len(walks'[d]) /\ i > none[d]
            BY <3>1, <4>2, <4>3, <4>5
          <5> QED  BY <4>2, <4>5, <5>1 DEF waits
        <4>6. CASE i = Len(waits) + 1
          BY <2>9, <3>2, <4>2, <4>6
        <4> QED  BY <4>4, <4>5, <4>6
      <3>3. CASE d # ws
        <4>1. walks'[d] = walks[d]
          BY <1>1, <2>1, <3>3
        <4>2. none[d] = 0 /\ i + none[d] = i
          BY <1>2
        <4> QED  BY <3>3, <4>1, <4>2
      <3> QED  BY <3>2, <3>3
    <2>5. ASSUME NEW d \in Connection, NEW i \in 1..Len(walks[d]), fresh /\ i > none[d]
          PROVE  /\ v.event # Ping => walks[d][i].event # v.event
                 /\ /\ walks[d][i].event # Ping /\ walks[d][i].event < v.event
                    /\ removed[walks[d][i].event] = 0
                    => v.next < walks[d][i].next \/ (v.next = walks[d][i].next /\ d = ws)
                 /\ v.event # Ping /\ v.event < walks[d][i].event /\ removed[v.event] = 0 =>
                       d # ws /\ walks[d][i].next < v.next
      <3> DEFINE u == walks[d][i]
      <3>1. u.next \in Nat /\ u.next >= 1 /\ u.event \in Nat /\ e \in Nat
        <4>1. Event \cup {Ping} \subseteq Nat
          BY Numbers DEF Ping
        <4> QED  BY <4>1, Entries
      <3>2. e # Ping => u.event < e
        OBVIOUS
      <3>3. u.next = 1 => d = ws
        <4> SUFFICES ASSUME u.next = 1
                     PROVE  d = ws
          OBVIOUS
        <4>1. PICK p \in 1..Len(connections) : connections[p] = d /\ p <= u.next
          BY DEF OrderInv, Places
        <4>2. p = 1
          BY <4>1
        <4> QED  BY <2>2, <4>1, <4>2
      <3> HIDE DEF u
      <3>4. v.next < u.next \/ v.next = u.next
        BY <2>3, <3>1
      <3>5. v.event # Ping => u.event # v.event /\ ~(v.event < u.event)
        BY <2>3, <3>1, <3>2
      <3> QED  BY ONLY <2>3, <3>3, <3>4, <3>5 DEF u
    <2>6. fresh /\ v.event # Ping => \A p \in 1..Len(connections) : p >= v.next =>
             \A k \in 1..Len(inbox[connections[p]]) : Before(inbox[connections[p]][k], v.event)
      BY <2>3, ListedAt DEF ServerInv, Before
    <2>7. Follows(none, fresh, ws, v)
      <3>1. fresh => v.next \in 1..Len(connections) /\ connections[v.next] = ws
        BY <2>2, <2>3
      <3> QED  BY <2>5, <2>6, <3>1 DEF Follows
    <2>8. Supplies(fresh, v)
      BY <2>3 DEF fresh
    <2>10. fresh /\ inbox' = Written(ws, v.event)
      BY <2>1, <2>3, <2>9
    <2>11. v \in Walk
      BY <2>3
    <2> QED  BY ONLY ServerInv, OrderInv, connections' = connections, Known' = Known, removed' = removed,
                     <1>2, <2>2, <2>4, <2>7, <2>8, <2>9, <2>10, <2>11, WalksMove
  <1> QED  BY <1>4, <1>5

(* What waits on c when its first walk has gone.                           *)
LEMMA Rest ==
    ASSUME NEW waits \in Seq(Walk), waits # <<>>
    PROVE  /\ Tail(waits) \in Seq(Walk) /\ Len(waits) \in Nat /\ Len(waits) >= 1
           /\ Head(waits) = waits[1] /\ 1 \in 1..Len(waits)
           /\ Len(Tail(waits)) = Len(waits) - 1
           /\ \A i \in 1..(Len(waits) - 1) : Tail(waits)[i] = waits[i + 1]
  BY HeadTailProperties

(* A walk comes to its next connection: those of later events are behind   *)
(* it, and those of earlier ones ahead, or where it comes to.              *)
LEMMA StepKeepsOrder ==
    ASSUME ServerInv, OrderInv, NEW c \in Connection, Step(c)
    PROVE  OrderInv'
  <1> USE DEF OrderInv
  <1>1. /\ walks \in [Connection -> Seq(Walk)] /\ walks[c] \in Seq(Walk)
        /\ \A i, j \in 1..Len(connections) : connections[i] = connections[j] => i = j
    BY DEF ServerInv, ServerTypes, PeersInv
  <1> DEFINE w  == Head(walks[c])
             n  == w.next + 1
             ws == connections[n]
             v  == [w EXCEPT !.next = n, !.dead = Dead(c)]
             rest == [walks EXCEPT ![c] = Tail(@)]
             gone == [d \in Connection |-> IF d = c THEN 1 ELSE 0]
  <1>2. /\ walks[c] # <<>> /\ ~(w.next >= Len(connections))
        /\ walks' = [rest EXCEPT ![ws] = Append(@, v)] /\ inbox' = Written(ws, w.event)
        /\ UNCHANGED <<broker, outbox, sent, connections, alive, closed, removed>>
    BY DEF Step, Goes, Over, supply, peers, record
  <1>3. /\ w = walks[c][1] /\ 1 \in 1..Len(walks[c]) /\ Tail(walks[c]) \in Seq(Walk)
        /\ Len(Tail(walks[c])) = Len(walks[c]) - 1 /\ Len(walks[c]) \in Nat
        /\ \A i \in 1..(Len(walks[c]) - 1) : Tail(walks[c])[i] = walks[c][i + 1]
    BY <1>1, <1>2, Rest
  <1>4. w \in Walk /\ w.next \in Nat /\ w.next >= 1 /\ w.event \in Event \cup {Ping}
        /\ w.event \in Nat
    BY <1>3, Entries
  <1>5. /\ n \in 1..Len(connections) /\ n \in 1..MaxConnections /\ n \in Nat
        /\ ws \in Connection /\ Len(connections) \in Nat
    <2>1. Len(connections) \in Nat /\ Len(connections) <= MaxConnections
      BY ShortList DEF ServerInv
    <2>2. n \in 1..Len(connections) /\ n \in 1..MaxConnections
      BY SMTT(30), <1>2, <1>4, <2>1, Numbers
    <2> QED  BY <2>1, <2>2, ListedAt, Numbers DEF ServerInv
  <1>6. v \in Walk /\ v.event = w.event /\ v.next = n
    <2>1. Dead(c) \subseteq Connection
      <3>1. w.dead \subseteq Connection
        BY <1>4 DEF Walk
      <3> QED  BY <3>1 DEF Dead, ServerInv, ServerTypes
    <2> HIDE DEF n
    <2> QED  BY <1>4, <1>5, <2>1 DEF Walk
  <1>7. gone \in [Connection -> {0, 1}] /\ gone[c] = 1
        /\ \A d \in Connection : d # c => gone[d] = 0
    OBVIOUS
  <1>8. /\ rest \in [Connection -> Seq(Walk)] /\ rest[c] = Tail(walks[c])
        /\ \A d \in Connection : d # c => rest[d] = walks[d]
    BY <1>1, <1>3
  <1>9. n = w.next + 1 /\ connections[n] = ws
    OBVIOUS
  <1> DEFINE fresh == TRUE
  <1>10. fresh /\ fresh \in BOOLEAN
    OBVIOUS
  <1> HIDE DEF w, n, ws, v, rest, gone, fresh
  <1>11. PICK p \in 1..Len(connections) : connections[p] = c /\ p <= w.next
    BY <1>3 DEF Places
  <1>12. c # ws
    BY <1>1, <1>4, <1>5, <1>9, <1>11
  <1>13. Shifts(gone, fresh, ws, v)
    <2> SUFFICES ASSUME NEW d \in Connection, NEW i \in 1..Len(walks'[d])
                 PROVE  \/ /\ i + gone[d] \in 1..Len(walks[d]) /\ i + gone[d] > gone[d]
                           /\ walks'[d][i] = walks[d][i + gone[d]]
                           /\ fresh /\ d = ws => i < Len(walks'[d])
                        \/ fresh /\ d = ws /\ i = Len(walks'[d]) /\ walks'[d][i] = v
      BY DEF Shifts
    <2>1. Len(walks[d]) \in Nat /\ walks[d] \in Seq(Walk)
      BY Entries
    <2>2. CASE d = c
      <3>1. walks'[d] = Tail(walks[c])
        BY <1>2, <1>8, <1>12, <2>2
      <3>2. i \in 1..(Len(walks[c]) - 1)
        BY <1>3, <3>1
      <3>3. walks'[d][i] = walks[c][i + 1] /\ i + 1 \in 1..Len(walks[c]) /\ i + 1 > 1
        BY <1>3, <3>1, <3>2
      <3> QED  BY <1>7, <1>12, <2>2, <3>3
    <2>3. CASE d = ws
      <3> DEFINE waits == walks[ws]
      <3>1. walks'[ws] = Append(waits, v) /\ waits \in Seq(Walk) /\ Len(waits) \in Nat
        BY <1>2, <1>5, <1>8, <1>12, <2>1, <2>3
      <3>2. gone[d] = 0 /\ i + gone[d] = i
        BY <1>7, <1>12, <2>3
      <3> HIDE DEF waits
      <3>3. /\ Len(walks'[ws]) = Len(waits) + 1 /\ walks'[ws][Len(waits) + 1] = v
            /\ \A k \in 1..Len(waits) : walks'[ws][k] = waits[k]
        BY <1>6, <3>1
      <3>4. i \in 1..Len(waits) \/ i = Len(waits) + 1
        BY <2>3, <3>1, <3>3
      <3>5. CASE i \in 1..Len(waits)
        <4>1. i < Len(walks'[ws]) /\ i > 0
          BY <3>1, <3>3, <3>5
        <4> QED  BY <2>3, <3>2, <3>3, <3>5, <4>1 DEF waits
      <3>6. CASE i = Len(waits) + 1
        BY <1>10, <2>3, <3>3, <3>6
      <3> QED  BY <3>4, <3>5, <3>6
    <2>4. CASE d # c /\ d # ws
      <3>1. walks'[d] = walks[d] /\ gone[d] = 0 /\ i + gone[d] = i
        BY <1>2, <1>7, <1>8, <2>4
      <3> QED  BY <2>4, <3>1
    <2> QED  BY <2>2, <2>3, <2>4
  <1>14. ASSUME NEW d \in Connection, NEW i \in 1..Len(walks[d]), i > gone[d]
         PROVE  /\ v.event # Ping => walks[d][i].event # v.event
                /\ /\ walks[d][i].event # Ping /\ walks[d][i].event < v.event
                   /\ removed[walks[d][i].event] = 0
                   => v.next < walks[d][i].next \/ (v.next = walks[d][i].next /\ d = ws)
                /\ v.event # Ping /\ v.event < walks[d][i].event /\ removed[v.event] = 0 =>
                      d # ws /\ walks[d][i].next < v.next
    <2> DEFINE u == walks[d][i]
    <2>1. u.event \in Nat /\ u.next \in Nat /\ i \in Nat /\ i >= 1
      BY Entries
    <2>2. ~(d = c /\ i = 1)
      BY <1>7, <1>14
    <2>3. w.event # Ping => u.event # w.event
      BY <1>3, <2>2 DEF WalkedOnce
    <2>4. PICK q \in 1..Len(connections) :
             /\ connections[q] = d /\ q <= u.next
             /\ q = u.next \/ u.event = Ping \/ removed[u.event] > 0
      BY DEF Places
    <2>5. /\ u.event # Ping /\ u.event < w.event /\ removed[u.event] = 0 =>
               /\ d = c => i < 1
               /\ w.next < u.next \/ (w.next = u.next /\ d = c)
          /\ w.event # Ping /\ w.event < u.event /\ removed[w.event] = 0 =>
               u.next < w.next \/ u.next = w.next
      BY <1>3 DEF NoneOvertakes
    <2> HIDE DEF u
    <2>7. ASSUME u.event # Ping, u.event < w.event, removed[u.event] = 0
          PROVE  n < u.next \/ (n = u.next /\ d = ws)
      <3>1. d # c
        BY <2>1, <2>5, <2>7
      <3>2. w.next < u.next
        BY <2>5, <2>7, <3>1
      <3>3. n <= u.next
        BY <1>4, <1>9, <2>1, <3>2
      <3>4. n = u.next => d = ws
        BY <1>9, <2>4, <2>7
      <3> QED  BY <1>5, <2>1, <3>3, <3>4
    <2>8. ASSUME w.event # Ping, w.event < u.event, removed[w.event] = 0
          PROVE  d # ws /\ u.next < n
      <3>1. u.next < n
        BY <1>4, <1>9, <2>1, <2>5, <2>8
      <3>2. q # n
        BY <1>5, <2>1, <2>4, <3>1
      <3> QED  BY <1>1, <1>5, <1>9, <2>4, <3>1, <3>2
    <2> QED  BY <1>6, <2>3, <2>7, <2>8 DEF u
  <1>15. Follows(gone, fresh, ws, v)
    <2>1. v.event # Ping => \A k \in 1..Len(connections) : k >= v.next =>
             \A m \in 1..Len(inbox[connections[k]]) : Before(inbox[connections[k]][m], v.event)
      <3> SUFFICES ASSUME w.event # Ping, NEW k \in 1..Len(connections), k >= n,
                          NEW m \in 1..Len(inbox[connections[k]])
                   PROVE  Before(inbox[connections[k]][m], w.event)
        BY <1>6
      <3>1. k > w.next
        BY <1>4, <1>9
      <3> QED  BY <1>3, <3>1 DEF EarlierAhead
    <2>2. v.next \in 1..Len(connections) /\ connections[v.next] = ws
      BY <1>5, <1>6, <1>9
    <2> QED  BY <1>14, <2>1, <2>2 DEF Follows
  <1>16. Supplies(fresh, v)
    <2>1. outbox \in Seq(Event) /\ sent \in Nat /\ sent <= sent
      BY DEF ServerInv, ServerTypes
    <2>2. v.event <= sent
      BY <1>3, <1>6 DEF LaterWaits
    <2>3. \A k \in 1..Len(outbox) : v.event < outbox[k]
      BY <1>3, <1>6 DEF LaterWaits
    <2>4. \A i, j \in 1..Len(outbox) : i < j => outbox[i] < outbox[j]
      BY DEF LaterWaits
    <2> QED  BY <1>2, <2>1, <2>2, <2>3, <2>4 DEF Supplies
  <1>17. connections' = connections /\ Known' = Known /\ removed' = removed
    BY <1>2 DEF Known, Listed
  <1>18. fresh /\ inbox' = Written(ws, v.event)
    BY <1>2, <1>6, <1>10
  <1> HIDE DEF OrderInv
  <1>19. v \in Walk
    BY <1>6
  <1>20. ws \in Connection
    BY <1>5
  <1>21. gone \in [Connection -> {0, 1}]
    BY <1>7
  <1> QED  BY ONLY ServerInv, OrderInv, <1>10, <1>13, <1>15, <1>16, <1>17, <1>18, <1>19, <1>20,
                   <1>21, WalksMove

LEMMA EndKeepsOrder ==
    ASSUME ServerInv, OrderInv, NEW c \in Connection, End(c)
    PROVE  OrderInv'
  <1> DEFINE gone == [d \in Connection |-> IF d = c THEN 1 ELSE 0]
             v == Head(walks[c])
             fresh == FALSE
  <1>1. /\ walks \in [Connection -> Seq(Walk)] /\ walks[c] \in Seq(Walk) /\ walks[c] # <<>>
        /\ walks' = [walks EXCEPT ![c] = Tail(@)] /\ inbox' = inbox
        /\ UNCHANGED <<broker, outbox, sent, connections, alive, closed, removed>>
    BY DEF End, Goes, peers, record, ServerInv, ServerTypes
  <1>2. /\ v = walks[c][1] /\ 1 \in 1..Len(walks[c]) /\ Tail(walks[c]) \in Seq(Walk)
        /\ Len(Tail(walks[c])) = Len(walks[c]) - 1 /\ Len(walks[c]) \in Nat
        /\ \A i \in 1..(Len(walks[c]) - 1) : Tail(walks[c])[i] = walks[c][i + 1]
    BY <1>1, Rest
  <1>3. v \in Walk
    BY <1>2, Entries
  <1>4. gone \in [Connection -> {0, 1}] /\ gone[c] = 1
        /\ \A d \in Connection : d # c => gone[d] = 0
    OBVIOUS
  <1>5. ~fresh /\ fresh \in BOOLEAN
    OBVIOUS
  <1> HIDE DEF gone, v, fresh
  <1>6. Shifts(gone, fresh, c, v)
    <2> SUFFICES ASSUME NEW d \in Connection, NEW i \in 1..Len(walks'[d])
                 PROVE  /\ i + gone[d] \in 1..Len(walks[d]) /\ i + gone[d] > gone[d]
                        /\ walks'[d][i] = walks[d][i + gone[d]]
      BY <1>5 DEF Shifts
    <2>1. CASE d = c
      <3>1. walks'[d] = Tail(walks[c])
        BY <1>1, <2>1
      <3>2. i \in 1..(Len(walks[c]) - 1)
        BY <1>2, <3>1
      <3>3. walks'[d][i] = walks[c][i + 1] /\ i + 1 \in 1..Len(walks[c]) /\ i + 1 > 1
        BY <1>2, <3>1, <3>2
      <3> QED  BY <1>4, <2>1, <3>3
    <2>2. CASE d # c
      <3>1. walks'[d] = walks[d] /\ gone[d] = 0 /\ i + gone[d] = i /\ Len(walks[d]) \in Nat
        BY <1>1, <1>4, <2>2, Entries
      <3> QED  BY <3>1
    <2> QED  BY <2>1, <2>2
  <1>7. Follows(gone, fresh, c, v)
    BY <1>5 DEF Follows
  <1>8. Supplies(fresh, v)
    <2>1. outbox \in Seq(Event) /\ sent \in Nat /\ sent <= sent
      BY DEF ServerInv, ServerTypes
    <2>2. \A i, j \in 1..Len(outbox) : i < j => outbox[i] < outbox[j]
      BY DEF OrderInv, LaterWaits
    <2> QED  BY <1>1, <1>5, <2>1, <2>2 DEF Supplies
  <1>9. connections' = connections /\ Known' = Known /\ removed' = removed
    BY <1>1 DEF Known, Listed
  <1>10. gone \in [Connection -> {0, 1}] /\ inbox' = inbox
    BY <1>1, <1>4
  <1> QED  BY ONLY ServerInv, OrderInv, c \in Connection, <1>3, <1>5, <1>6, <1>7, <1>8, <1>9, <1>10,
                   WalksMove

(* Steps that leave what the host has sent as it is.                       *)
LEMMA StillLater ==
    ASSUME OrderInv, UNCHANGED <<broker, sent, outbox, walks, inbox>>, Known \subseteq Known'
    PROVE  LaterWaits'
  BY DEF OrderInv, LaterWaits

LEMMA ServerKeepsOrder ==
    ASSUME ServerInv, OrderInv, [Next]_vars
    PROVE  OrderInv'
  <1>1. ServerTypes /\ PeersInv
    BY DEF ServerInv
  <1>2. /\ outbox \in Seq(Event) /\ Len(outbox) \in Nat /\ sent \in Nat /\ sent <= sent
        /\ \A i, j \in 1..Len(outbox) : i < j => outbox[i] < outbox[j]
        /\ \A n \in 1..Len(outbox) : outbox[n] \in Nat /\ outbox[n] # Ping /\ outbox[n] <= sent
    BY <1>1, Entries DEF ServerTypes, OrderInv, LaterWaits
  <1>3. CASE Connect \/ (UNCHANGED vars) \/ \E c \in Connection : Drop(c) \/ Notice(c) \/ Finish(c)
    <2>1. UNCHANGED <<broker, sent, outbox, walks, inbox>>
      BY <1>3 DEF Connect, Drop, Notice, Finish, vars, supply
    <2>2. \/ connections' = connections /\ Known' = Known /\ removed' = removed
          \/ Connect
          \/ \E c \in Connection : Finish(c)
      <3>1. ASSUME UNCHANGED vars
            PROVE  connections' = connections /\ Known' = Known /\ removed' = removed
        BY <3>1 DEF vars, peers, record, Known, Listed
      <3>2. ASSUME NEW c \in Connection, Drop(c) \/ Notice(c)
            PROVE  connections' = connections /\ Known' = Known /\ removed' = removed
        BY <1>1, <3>2 DEF Drop, Notice, record, Known, Listed, PeersInv
      <3> QED  BY <1>3, <3>1, <3>2
    <2>3. Known \subseteq Known'
      <3>1. CASE Connect
        <4>1. alive \subseteq alive' /\ closed' = closed
          BY <3>1 DEF Connect
        <4>2. Listed \subseteq Listed'
          <5> DEFINE c == Cardinality(Known) + 1
          <5>1. c \in Connection /\ connections' = Append(connections, c)
            BY <3>1 DEF Connect, Joined, Known
          <5> HIDE DEF c
          <5> QED  BY <1>1, <5>1, RangeAppended DEF Listed, ServerTypes
        <4> QED  BY <4>1, <4>2 DEF Known
      <3>2. ASSUME NEW c \in Connection, Finish(c)
            PROVE  Known \subseteq Known'
        <4>1. /\ c \in closed /\ c \in Listed /\ connections' = RemoveFirst(connections, c)
              /\ alive' = alive /\ closed' = closed
          BY <1>1, <3>2 DEF Finish, PeersInv, peers
        <4>2. Listed \subseteq Listed' \cup {c}
          BY <1>1, <4>1, OthersStay
        <4> QED  BY <4>1, <4>2 DEF Known
      <3> QED  BY <2>2, <3>1, <3>2
    <2>4. LaterWaits'
      BY <2>1, <2>3, StillLater
    <2> QED  BY <2>1, <2>2, <2>4, QuietKeepsOrder
  <1>4. CASE SendToWorker \/ PostRefused \/ PostTimeout
    <2>1. /\ UNCHANGED <<broker, connections, alive, closed, walks, inbox, removed>>
          /\ Known' = Known
      BY <1>4 DEF SendToWorker, PostRefused, PostTimeout, peers, record, Known, Listed
    <2>2. LaterWaits'
      <3>1. CASE SendToWorker
        <4>1. /\ broker = "http" /\ sent' = sent + 1 /\ outbox' = Append(outbox, sent + 1)
              /\ sent + 1 \in Event /\ sent' \in Nat
          <5>1. sent < MaxEvents /\ broker = "http" /\ sent' = sent + 1
                /\ outbox' = Append(outbox, sent + 1)
            BY <3>1 DEF SendToWorker
          <5> QED  BY <1>2, <5>1, Numbers DEF Event
        <4>2. /\ Len(outbox') = Len(outbox) + 1 /\ outbox'[Len(outbox) + 1] = sent + 1
              /\ \A i \in 1..Len(outbox) : outbox'[i] = outbox[i]
          BY <1>2, <4>1
        <4>3. ASSUME NEW n \in 1..Len(outbox')
              PROVE  \/ n \in 1..Len(outbox) /\ outbox'[n] = outbox[n]
                     \/ n = Len(outbox) + 1 /\ outbox'[n] = sent + 1
          BY <1>2, <4>2
        <4>4. \A i, j \in 1..Len(outbox') : i < j => outbox'[i] < outbox'[j]
          <5> SUFFICES ASSUME NEW i \in 1..Len(outbox'), NEW j \in 1..Len(outbox'), i < j
                       PROVE  outbox'[i] < outbox'[j]
            OBVIOUS
          <5>1. i \in 1..Len(outbox) /\ outbox'[i] = outbox[i]
            BY <1>2, <4>2
          <5> QED  BY <1>2, <4>3, <5>1
        <4>5. ASSUME NEW d \in Connection
              PROVE  /\ \A k \in 1..Len(inbox[d]) : inbox[d][k] <= sent /\ inbox[d][k] \in Nat
                     /\ \A i \in 1..Len(walks[d]) :
                            walks[d][i].event <= sent /\ walks[d][i].event \in Nat
          BY Entries DEF OrderInv, LaterWaits
        <4>6. ASSUME NEW n \in 1..Len(outbox')
              PROVE  /\ outbox'[n] <= sent'
                     /\ \A d \in Connection : \A k \in 1..Len(inbox[d]) : inbox[d][k] < outbox'[n]
                     /\ \A d \in Connection : \A i \in 1..Len(walks[d]) :
                            walks[d][i].event < outbox'[n]
          <5>1. CASE n \in 1..Len(outbox) /\ outbox'[n] = outbox[n]
            BY <1>2, <4>1, <5>1 DEF OrderInv, LaterWaits
          <5>2. CASE n = Len(outbox) + 1 /\ outbox'[n] = sent + 1
            BY <1>2, <4>1, <4>5, <5>2
          <5> QED  BY <4>3, <5>1, <5>2
        <4>7. /\ \A d \in Connection : \A k \in 1..Len(inbox[d]) : inbox[d][k] <= sent'
              /\ \A d \in Connection : \A i \in 1..Len(walks[d]) : walks[d][i].event <= sent'
          BY <1>2, <4>1, <4>5
        <4>8. \A d \in Connection : d \notin Known => inbox[d] = <<>>
          BY DEF OrderInv, LaterWaits
        <4> QED  BY <2>1, <4>1, <4>4, <4>6, <4>7, <4>8 DEF LaterWaits
      <3>2. CASE PostRefused
        <4>1. outbox # <<>> /\ outbox' = Tail(outbox) /\ sent' = sent
          BY <3>2 DEF PostRefused
        <4>2. /\ Len(outbox') = Len(outbox) - 1 /\ Len(outbox) # 0
              /\ \A i \in 1..Len(outbox') : outbox'[i] = outbox[i + 1] /\ i + 1 \in 1..Len(outbox)
          BY <1>2, <4>1, HeadTailProperties
        <4>3. \A i, j \in 1..Len(outbox') : i < j => outbox'[i] < outbox'[j]
          <5> SUFFICES ASSUME NEW i \in 1..Len(outbox'), NEW j \in 1..Len(outbox'), i < j
                       PROVE  outbox'[i] < outbox'[j]
            OBVIOUS
          <5>1. i + 1 < j + 1 /\ i + 1 \in 1..Len(outbox) /\ j + 1 \in 1..Len(outbox)
            BY <4>2
          <5>2. outbox[i + 1] < outbox[j + 1]
            BY <1>2, <5>1
          <5> QED  BY <4>2, <5>2
        <4>4. ASSUME NEW n \in 1..Len(outbox')
              PROVE  \E m \in 1..Len(outbox) : outbox'[n] = outbox[m]
          BY <4>2
        <4>5. broker = "process" => outbox' = <<>>
          BY <4>1 DEF OrderInv, LaterWaits
        <4>6. ASSUME NEW n \in 1..Len(outbox')
              PROVE  /\ outbox'[n] <= sent'
                     /\ \A d \in Connection : \A k \in 1..Len(inbox[d]) : inbox[d][k] < outbox'[n]
                     /\ \A d \in Connection : \A i \in 1..Len(walks[d]) :
                            walks[d][i].event < outbox'[n]
          BY <4>1, <4>4 DEF OrderInv, LaterWaits
        <4> QED  BY <2>1, <4>1, <4>3, <4>5, <4>6 DEF OrderInv, LaterWaits
      <3>3. CASE PostTimeout
        <4>1. UNCHANGED <<broker, sent, outbox, walks, inbox>> /\ Known \subseteq Known'
          BY <2>1, <3>3 DEF PostTimeout
        <4> QED  BY <4>1, StillLater
      <3> QED  BY <1>4, <3>1, <3>2, <3>3
    <2> QED  BY <2>1, <2>2, QuietKeepsOrder
  <1>5. CASE Heartbeat
    <2>1. /\ Begin(Ping) /\ UNCHANGED <<broker, outbox, sent, connections, alive, closed, removed>>
      BY <1>5 DEF Heartbeat, supply, peers, record
    <2>2. Known' = Known /\ Ping \in Event \cup {Ping} /\ Ping <= sent
      BY <1>2, <2>1 DEF Known, Listed, Ping
    <2>3. \A n \in 1..Len(outbox) : Ping < outbox[n]
      BY <1>2 DEF Ping
    <2>4. \A v : v.event = Ping => Supplies(TRUE, v)
      BY <1>2, <2>1, <2>2, <2>3 DEF Supplies
    <2> QED  BY <2>1, <2>2, <2>4, BeginKeepsOrder
  <1>6. CASE SendInProcess
    <2> DEFINE e == sent + 1
    <2>1. /\ broker = "process" /\ Begin(e) /\ sent' = e
          /\ UNCHANGED <<broker, outbox, connections, alive, closed, removed>>
      BY <1>6 DEF SendInProcess, Broadcast, peers
    <2>2. e \in Event /\ e \in Nat /\ e <= e /\ sent <= e /\ sent < e
      <3>1. sent < MaxEvents
        BY <1>6 DEF SendInProcess
      <3> QED  BY <1>2, <3>1, Numbers DEF Event
    <2> HIDE DEF e
    <2>3. Known' = Known /\ e \in Event \cup {Ping}
      BY <2>1, <2>2 DEF Known, Listed
    <2>4. outbox = <<>> /\ Len(outbox) = 0
      BY <2>1 DEF OrderInv, LaterWaits
    <2>5. \A v : v.event = e => Supplies(TRUE, v)
      BY <1>2, <2>1, <2>2, <2>4 DEF Supplies
    <2>6. ASSUME NEW d \in Connection
          PROVE  /\ \A k \in 1..Len(inbox[d]) : inbox[d][k] < e
                 /\ \A i \in 1..Len(walks[d]) : walks[d][i].event < e
      <3>1. /\ \A k \in 1..Len(inbox[d]) : inbox[d][k] <= sent /\ inbox[d][k] \in Nat
            /\ \A i \in 1..Len(walks[d]) : walks[d][i].event <= sent /\ walks[d][i].event \in Nat
        BY Entries DEF OrderInv, LaterWaits
      <3> QED  BY <1>2, <2>2, <3>1
    <2> QED  BY <2>1, <2>3, <2>5, <2>6, BeginKeepsOrder
  <1>7. CASE Post
    <2> DEFINE e == Head(outbox)
    <2>1. /\ outbox # <<>> /\ outbox' = Tail(outbox) /\ Begin(e)
          /\ UNCHANGED <<broker, sent, connections, alive, closed, removed>>
      BY <1>7 DEF Post, Broadcast, peers
    <2>2. /\ e = outbox[1] /\ 1 \in 1..Len(outbox) /\ outbox' \in Seq(Event)
          /\ Len(outbox') = Len(outbox) - 1
          /\ \A i \in 1..Len(outbox') : /\ outbox'[i] = outbox[i + 1] /\ i + 1 \in 1..Len(outbox)
                                        /\ 1 < i + 1
      BY <1>2, <2>1, HeadTailProperties
    <2> HIDE DEF e
    <2>3. Known' = Known /\ e \in Event \cup {Ping}
      <3>1. e \in Event
        BY <2>2, Entries
      <3> QED  BY <2>1, <3>1 DEF Known, Listed
    <2>4. \A i, j \in 1..Len(outbox') : i < j => outbox'[i] < outbox'[j]
      <3> SUFFICES ASSUME NEW i \in 1..Len(outbox'), NEW j \in 1..Len(outbox'), i < j
                   PROVE  outbox'[i] < outbox'[j]
        OBVIOUS
      <3>1. i + 1 < j + 1 /\ i + 1 \in 1..Len(outbox) /\ j + 1 \in 1..Len(outbox)
        BY <2>2
      <3>2. outbox[i + 1] < outbox[j + 1]
        BY <1>2, <3>1
      <3> QED  BY <2>2, <3>2
    <2>5. \A n \in 1..Len(outbox') : \E m \in 1..Len(outbox) : outbox'[n] = outbox[m] /\ e < outbox[m]
      <3> SUFFICES ASSUME NEW n \in 1..Len(outbox')
                   PROVE  outbox'[n] = outbox[n + 1] /\ n + 1 \in 1..Len(outbox) /\ e < outbox[n + 1]
        OBVIOUS
      <3> QED  BY <1>2, <2>2
    <2>6. \A v : v.event = e => Supplies(TRUE, v)
      <3>1. e <= sent
        BY <1>2, <2>2
      <3> QED  BY <1>2, <2>1, <2>2, <2>4, <2>5, <3>1 DEF Supplies
    <2>7. ASSUME NEW d \in Connection
          PROVE  /\ \A k \in 1..Len(inbox[d]) : inbox[d][k] < e
                 /\ \A i \in 1..Len(walks[d]) : walks[d][i].event < e
      BY <2>2 DEF OrderInv, LaterWaits
    <2> QED  BY <2>1, <2>3, <2>6, <2>7, BeginKeepsOrder
  <1>8. ASSUME NEW c \in Connection, Step(c)
        PROVE  OrderInv'
    BY <1>8, StepKeepsOrder
  <1>9. ASSUME NEW c \in Connection, End(c)
        PROVE  OrderInv'
    BY <1>9, EndKeepsOrder
  <1> QED  BY <1>3, <1>4, <1>5, <1>6, <1>7, <1>8, <1>9 DEF Next

LEMMA StartsInOrder == Init => OrderInv
  <1> SUFFICES ASSUME Init
               PROVE  OrderInv
    OBVIOUS
  <1>1. /\ \A c \in Connection : walks[c] = <<>> /\ inbox[c] = <<>>
        /\ outbox = <<>>
    BY DEF Init
  <1>2. /\ \A c \in Connection : \A i \in 1..Len(walks[c]) : FALSE
        /\ \A c \in Connection : \A i \in 1..Len(inbox[c]) : FALSE
        /\ \A i \in 1..Len(outbox) : FALSE
    BY <1>1
  <1>3. Places /\ WalkedOnce /\ NoneOvertakes /\ EarlierAhead
    BY <1>2 DEF Places, WalkedOnce, NoneOvertakes, EarlierAhead
  <1>4. LaterWaits
    BY <1>1, <1>2 DEF LaterWaits
  <1>5. \A c \in Connection : Ascending(inbox[c])
    BY <1>2 DEF Ascending
  <1> QED  BY <1>3, <1>4, <1>5 DEF OrderInv

(* Over the live list, for any number of connections, removals and events: *)
(* no client is written an event twice, or behind a later one unless a     *)
(* connection has left the list during the walk of the earlier, however    *)
(* long the sends of the walks wait.                                       *)
THEOREM EventsInOrder == Spec => []InOrder
  <1>1. Init => ServerInv /\ OrderInv
    BY StartsBounded, StartsInOrder
  <1>2. ServerInv /\ OrderInv /\ [Next]_vars => ServerInv' /\ OrderInv'
    BY ServerStep, ServerKeepsOrder
  <1>3. ServerInv /\ OrderInv => InOrder
    <2> SUFFICES ASSUME ServerInv, OrderInv, NEW c \in Connection,
                        NEW i \in DOMAIN inbox[c], NEW j \in DOMAIN inbox[c], i < j
                 PROVE  Before(inbox[c][i], inbox[c][j])
      BY DEF InOrder, Before
    <2>1. inbox[c] \in Seq(Event)
      BY Entries
    <2>2. DOMAIN inbox[c] = 1..Len(inbox[c])
      BY <2>1
    <2> QED  BY <2>2 DEF OrderInv, Ascending
  <1> QED  BY <1>1, <1>2, <1>3, PTL DEF Spec
=============================================================================
