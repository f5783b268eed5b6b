---------------------------- MODULE LobbyProofs ----------------------------
(***************************************************************************)
(* Proofs about Lobby: the types of the service and of the nodes, for any  *)
(* number of nodes, joins, runs, crashes and suspended handlers; that the  *)
(* nodes show the roster of the service, with no handler suspended; the    *)
(* slots, and what the host knows of its players, with one crash at most.  *)
(***************************************************************************)
EXTENDS Lobby, FiniteSetTheorems, SequenceTheorems, TLAPS

(* What is in flight: an admission names a slot, and so does what a        *)
(* promoted host registers.                                                *)
Sendable == {m \in Message : m.type \in {"created", "joined"} => m.index \in Index}
Pending  == {t \in Task : t.msg \in Sendable}
Sound    == {r \in Request : r.type = "recreate" => r.index \in Index}

(* Types of the nodes.                                                     *)
NodeTypes ==
    /\ phase \in [Node -> Phases]
    /\ role \in [Node -> {"host", "client"}]
    /\ index \in [Node -> Index \cup {NoIndex}]
    /\ roster \in [Node -> SUBSET Entry]
    /\ held \in [Node -> SUBSET Index]
    /\ cached \in [Node -> [index: Index \cup {NoIndex}, peers: SUBSET Node]]
    /\ over \subseteq Node
    /\ used \in [joins: Nat, runs: Nat, crashes: Nat, untold: Nat]

(* Types of the service and of what is between it and the nodes.           *)
FlightTypes ==
    /\ session \in Record
    /\ requests \in [Node -> Seq(Sound)]
    /\ todo \in [Node -> Seq(Pending)]
    /\ inbox \in [Node -> Seq(Sendable)]

(* Whoever is past the handshake has a join index.                         *)
Indexed ==
    \A n \in Node : phase[n] \in {"waiting", "starting", "draining", "playing", "electing"}
                        => index[n] \in Index

(* A process is connected once: who is connected is alive, and has no      *)
(* request to join in front of the service.  What re-registers the session *)
(* is the first request of a host.                                         *)
Opens(r) == r.type \in {"create", "join", "recreate"}
Asks(n, types) == \E k \in 1..Len(requests[n]) : requests[n][k].type \in types
ConnectedOnce ==
    /\ \A i, j \in 1..Len(session.connections) :
            session.connections[i] = session.connections[j] => i = j
    /\ \A n \in Node : Registered(n) => Live(n)
    /\ \A n \in Node : \A k \in 1..Len(requests[n]) : Opens(requests[n][k]) => k = 1
    /\ \A n \in Node : Asks(n, {"join"}) => ~Registered(n)
    /\ \A n \in Node : Asks(n, {"recreate"}) => phase[n] = "playing" /\ role[n] = "host"

(* As long as the session is not created nothing else happens.             *)
Untouched ==
    \A n \in Node : Asks(n, {"create"}) =>
        /\ phase[n] = "joining" /\ role[n] = "host" /\ session = NoSession
        /\ \A m \in Node : /\ todo[m] = <<>> /\ inbox[m] = <<>>
                           /\ m # n => phase[m] = "out" /\ requests[m] = <<>>

LobbyInv == NodeTypes /\ FlightTypes /\ Indexed /\ ConnectedOnce /\ Untouched

-----------------------------------------------------------------------------
(* Sequences.                                                              *)

(* The others keep their order and move up by one.                         *)
LEMMA RemovedOnce ==
    ASSUME NEW S, NEW s \in Seq(S), \A i, j \in 1..Len(s) : s[i] = s[j] => i = j,
           NEW p \in 1..Len(s)
    PROVE  /\ RemoveFirst(s, s[p]) \in Seq(S)
           /\ Len(RemoveFirst(s, s[p])) = Len(s) - 1
           /\ \A i \in 1..(Len(s) - 1) :
                 RemoveFirst(s, s[p])[i] = IF i < p THEN s[i] ELSE s[i + 1]
  <1> DEFINE I == {i \in 1..Len(s) : s[i] = s[p]}
             front == SubSeq(s, 1, p - 1)
             back  == SubSeq(s, p + 1, Len(s))
  <1>1. I = {p} /\ Min(I) = p
    <2>1. I = {p}
      OBVIOUS
    <2>2. \A x \in {p} : x = p /\ p <= p
      OBVIOUS
    <2>3. (CHOOSE x \in {p} : \A y \in {p} : x <= y) = p
      BY <2>2
    <2> QED  BY <2>1, <2>3 DEF Min
  <1>2. RemoveFirst(s, s[p]) = RemoveAt(s, p)
    <2>1. SelectInSeq(s, LAMBDA v : v = s[p]) = p
      BY <1>1 DEF SelectInSeq
    <2> QED  BY <2>1 DEF RemoveFirst
  <1>3. RemoveAt(s, p) = front \o back
    BY DEF RemoveAt
  <1>4. Len(s) \in Nat /\ p \in Nat /\ 1 <= p /\ p <= Len(s)
    OBVIOUS
  <1>5. /\ front \in Seq(S) /\ Len(front) = p - 1 /\ \A i \in 1..(p - 1) : front[i] = s[i]
    BY <1>4
  <1>6. /\ back \in Seq(S) /\ Len(back) = Len(s) - p
        /\ \A i \in 1..(Len(s) - p) : back[i] = s[p + i]
    BY <1>4
  <1> HIDE DEF front, back
  <1>7. /\ front \o back \in Seq(S) /\ Len(front \o back) = Len(front) + Len(back)
        /\ \A i \in 1..Len(front) + Len(back) :
               (front \o back)[i] = IF i <= Len(front) THEN front[i] ELSE back[i - Len(front)]
    <2>1. front \in Seq(S) /\ back \in Seq(S)
      BY <1>5, <1>6
    <2> QED  BY ONLY <2>1, ConcatProperties
  <1> DEFINE r == front \o back
  <1>8. r \in Seq(S) /\ Len(r) = Len(s) - 1
        /\ \A i \in 1..(Len(s) - 1) :
               r[i] = IF i <= p - 1 THEN front[i] ELSE back[i - (p - 1)]
    BY <1>4, <1>5, <1>6, <1>7
  <1> HIDE DEF r
  <1>9. ASSUME NEW i \in 1..(Len(s) - 1)
        PROVE  r[i] = IF i < p THEN s[i] ELSE s[i + 1]
    <2>1. CASE i < p
      BY <1>4, <1>5, <1>8, <2>1
    <2>2. CASE ~(i < p)
      <3>1. i - (p - 1) \in 1..(Len(s) - p) /\ p + (i - (p - 1)) = i + 1
        BY <1>4, <2>2
      <3> QED  BY <1>4, <1>6, <1>8, <2>2, <3>1
    <2> QED  BY <2>1, <2>2
  <1> QED  BY <1>2, <1>3, <1>8, <1>9 DEF r

LEMMA Appended ==
    ASSUME NEW S, NEW s \in Seq(S), NEW x \in S
    PROVE  /\ Append(s, x) \in Seq(S) /\ Len(Append(s, x)) = Len(s) + 1 /\ Len(s) \in Nat
           /\ \A i \in 1..Len(s) : Append(s, x)[i] = s[i]
           /\ Append(s, x)[Len(s) + 1] = x
  OBVIOUS

LEMMA Tailed ==
    ASSUME NEW S, NEW s \in Seq(S), s # <<>>
    PROVE  /\ Head(s) \in S /\ Head(s) = s[1] /\ Len(s) \in Nat /\ Len(s) > 0
           /\ Tail(s) \in Seq(S) /\ Len(Tail(s)) = Len(s) - 1
           /\ \A i \in 1..Len(Tail(s)) : Tail(s)[i] = s[i + 1]
  BY HeadTailProperties

LEMMA Narrower ==
    ASSUME NEW S, NEW T, S \subseteq T, NEW s \in Seq(S)
    PROVE  s \in Seq(T)
  OBVIOUS

-----------------------------------------------------------------------------
(* What the service sends.                                                 *)

LEMMA FirstSlot == 0 \in Index
  BY LobbyAssumption DEF Index

LEMMA MsgIs ==
    ASSUME NEW type \in {"created", "joined", "rejected", "roster", "start", "closed"},
           NEW i \in Index \cup {NoIndex}, NEW players \in SUBSET Entry,
           type \in {"created", "joined"} => i \in Index
    PROVE  Msg(type, i, players) \in Sendable
  BY DEF Msg, Sendable, Message

LEMMA SendIs ==
    ASSUME NEW n \in Node, NEW msg \in Sendable
    PROVE  Send(n, msg) \in Pending
  <1>1. msg \in Message
    BY DEF Sendable
  <1> QED  BY <1>1 DEF Send, Pending, Task

LEMMA DoIs ==
    ASSUME NEW what \in {"fail", "announce", "resume", "drop"}, NEW n \in Node
    PROVE  Do(what, n) \in Pending
  <1>1. Msg("roster", NoIndex, {}) \in Sendable
    BY MsgIs
  <1>2. Msg("roster", NoIndex, {}) \in Message
    BY <1>1 DEF Sendable
  <1> QED  BY <1>1, <1>2 DEF Do, Pending, Task

LEMMA ToAllIs ==
    ASSUME session \in Record, NEW msg \in Sendable
    PROVE  ToAll(msg) \in Seq(Pending)
  <1>1. session.connections \in Seq(Node)
    BY DEF Record
  <1>2. DOMAIN session.connections = 1..Len(session.connections) /\ Len(session.connections) \in Nat
    BY <1>1
  <1>3. ASSUME NEW k \in 1..Len(session.connections)
        PROVE  Send(session.connections[k], msg) \in Pending
    BY <1>1, <1>3, SendIs
  <1> QED  BY <1>2, <1>3 DEF ToAll

LEMMA UnsentIs ==
    ASSUME FlightTypes, NEW n \in Node
    PROVE  Unsent(n) \in [Node -> Seq(Pending)]
  <1> DEFINE of(m) == [k \in DOMAIN todo[m] |->
                LET t == todo[m][k] IN
                IF t.do = "send" /\ t.to = n /\ ~Answer(t) THEN Do("fail", n) ELSE t]
  <1>1. ASSUME NEW m \in Node
        PROVE  of(m) \in Seq(Pending)
    <2>1. todo[m] \in Seq(Pending)
      BY DEF FlightTypes
    <2>2. DOMAIN todo[m] = 1..Len(todo[m]) /\ Len(todo[m]) \in Nat
      BY <2>1
    <2>3. \A k \in 1..Len(todo[m]) : todo[m][k] \in Pending
      BY <2>1
    <2>4. Do("fail", n) \in Pending
      BY DoIs
    <2> QED  BY <2>2, <2>3, <2>4
  <1> QED  BY <1>1 DEF Unsent

(* A socket that is closed leaves the list; the others stay.               *)
LEMMA DropIs ==
    ASSUME session \in Record, NEW n \in Node,
           \A i, j \in 1..Len(session.connections) :
                session.connections[i] = session.connections[j] => i = j,
           NEW s, s = Drop(n, session)
    PROVE  /\ s \in Record
           /\ \A i, j \in 1..Len(s.connections) : s.connections[i] = s.connections[j] => i = j
           /\ \A i \in 1..Len(s.connections) :
                /\ s.connections[i] # n
                /\ \E j \in 1..Len(session.connections) :
                        session.connections[j] = s.connections[i]
           /\ s.open = session.open /\ s.entries = session.entries
           /\ s.active = session.active /\ s.reserved = session.reserved
  <1> DEFINE c == session.connections
  <1>1. c \in Seq(Node) /\ Len(c) \in Nat
    BY DEF Record
  <1>2. s = [session EXCEPT !.connections = RemoveFirst(c, n)]
    BY DEF Drop
  <1>3. CASE \E p \in 1..Len(c) : c[p] = n
    <2>1. PICK p \in 1..Len(c) : c[p] = n
      BY <1>3
    <2> DEFINE r == RemoveFirst(c, n)
    <2>2. /\ r \in Seq(Node) /\ Len(r) = Len(c) - 1
          /\ \A i \in 1..(Len(c) - 1) : r[i] = IF i < p THEN c[i] ELSE c[i + 1]
      BY <1>1, <2>1, RemovedOnce
    <2> HIDE DEF r
    <2>3. s \in Record /\ s.connections = r
      BY <1>2, <2>2 DEF Record, r
    <2>4. ASSUME NEW i \in 1..Len(r)
          PROVE  \E k \in 1..Len(c) : /\ k = (IF i < p THEN i ELSE i + 1)
                                     /\ k # p /\ r[i] = c[k]
      BY <1>1, <2>2, <2>4
    <2>5. ASSUME NEW i \in 1..Len(r), NEW j \in 1..Len(r), r[i] = r[j]
          PROVE  i = j
      <3>1. PICK k \in 1..Len(c) : k = (IF i < p THEN i ELSE i + 1) /\ r[i] = c[k]
        BY <2>4
      <3>2. PICK l \in 1..Len(c) : l = (IF j < p THEN j ELSE j + 1) /\ r[j] = c[l]
        BY <2>4
      <3>3. k = l
        BY <2>5, <3>1, <3>2
      <3> QED  BY <1>1, <2>2, <3>1, <3>2, <3>3
    <2>6. ASSUME NEW i \in 1..Len(r)
          PROVE  r[i] # n /\ \E j \in 1..Len(c) : c[j] = r[i]
      BY <2>1, <2>4
    <2> QED  BY <1>2, <2>3, <2>5, <2>6 DEF Record
  <1>4. CASE ~\E p \in 1..Len(c) : c[p] = n
    <2>1. RemoveFirst(c, n) = c
      BY <1>4 DEF RemoveFirst
    <2>2. s = session
      BY <1>2, <2>1 DEF Record
    <2> QED  BY <1>4, <2>2
  <1> QED  BY <1>3, <1>4

-----------------------------------------------------------------------------
(* The slot of an admission.                                               *)

(* Below every slot there are only so many.                                *)
LEMMA Lowest ==
    ASSUME NEW T, T # {}, T \subseteq Index
    PROVE  \E i \in T : \A j \in T : i <= j
  <1> DEFINE Below(i) == {j \in T : j < i}
             R == StrictSubsetOrdering(T)
             F == {Below(i) : i \in T}
  <1>1. T \subseteq Nat /\ IsFiniteSet(T)
    <2>1. MaxPlayers \in Nat
      BY LobbyAssumption
    <2>2. 0 \in Int /\ MaxPlayers - 1 \in Int /\ 0..(MaxPlayers - 1) \subseteq Nat
      BY <2>1
    <2>3. IsFiniteSet(Index) /\ Index \subseteq Nat
      BY <2>2, FS_Interval DEF Index
    <2> QED  BY <2>3, FS_Subset
  <1>2. IsWellFoundedOn(R, SUBSET T)
    <2>1. FiniteSubsetsOf(T) = SUBSET T
      BY <1>1, FS_FiniteSubsetsOfFinite
    <2> QED  BY <2>1, FS_StrictSubsetOrderingWellFounded
  <1>3. F \subseteq SUBSET T /\ F # {}
    OBVIOUS
  <1>4. PICK x \in F : \A y \in F : <<y, x>> \notin R
    <2> HIDE DEF F, R
    <2> QED  BY <1>2, <1>3, WFMin
  <1>5. PICK i \in T : x = Below(i)
    OBVIOUS
  <1>6. ASSUME NEW j \in T, j < i
        PROVE  FALSE
    <2>1. Below(j) \in F
      OBVIOUS
    <2>2. /\ \A k \in Below(j) : k \in Below(i)
          /\ j \in Below(i) /\ j \notin Below(j)
      BY <1>1, <1>6
    <2>3. <<Below(j), x>> \in R
      BY <1>5, <2>2 DEF StrictSubsetOrdering
    <2> QED  BY <1>4, <2>1, <2>3
  <1>7. \A j \in T : i <= j
    BY <1>1, <1>6
  <1> QED  BY <1>7

LEMMA SlotIs ==
    ASSUME session \in Record, NEW rejoin \in Index \cup {NoIndex}, ~Refused(rejoin)
    PROVE  /\ Slot(rejoin) \in Index
           /\ IF rejoin = NoIndex THEN Slot(rejoin) \notin Occupied ELSE Slot(rejoin) = rejoin
  <1>1. CASE rejoin # NoIndex
    BY <1>1 DEF Slot
  <1>2. CASE rejoin = NoIndex
    <2>1. MaxPlayers \in Nat /\ MaxPlayers > 0 /\ Index = 0..(MaxPlayers - 1)
      BY LobbyAssumption DEF Index
    <2>2. IsFiniteSet(Index) /\ Cardinality(Index) = MaxPlayers
      <3>1. 0 \in Int /\ MaxPlayers - 1 \in Int /\ ~(0 > MaxPlayers - 1)
            /\ (MaxPlayers - 1) - 0 + 1 = MaxPlayers
        BY <2>1
      <3> QED  BY <2>1, <3>1, FS_Interval
    <2>3. Occupied \subseteq Index
      BY DEF Occupied, Indices, Record, Entry
    <2>4. Index \ Occupied # {}
      <3>1. SUFFICES ASSUME Index \ Occupied = {} PROVE FALSE
        OBVIOUS
      <3>2. Occupied = Index
        BY <2>3, <3>1
      <3> QED  BY <1>2, <2>1, <2>2, <3>2 DEF Refused
    <2>5. Index \ Occupied \subseteq Index
      OBVIOUS
    <2>6. \E i \in Index \ Occupied : \A j \in Index \ Occupied : i <= j
      BY <2>4, <2>5, Lowest
    <2> QED  BY <1>2, <2>6 DEF Slot
  <1> QED  BY <1>1, <1>2

-----------------------------------------------------------------------------
(* The steps of the service.                                               *)

LEMMA Created ==
    ASSUME LobbyInv,
           \/ session.open
           \/ \E n \in Node : \/ todo[n] # <<>> \/ inbox[n] # <<>>
                              \/ phase[n] \notin {"out", "joining"}
                              \/ phase[n] = "joining" /\ role[n] = "client"
    PROVE  \A n \in Node : ~Asks(n, {"create"})
  BY DEF LobbyInv, Untouched, NoSession

(* What a handler may do to the session, and to what is to be sent.        *)
Serves(n) ==
    /\ session' \in Record /\ todo' \in [Node -> Seq(Pending)]
    /\ \A i, j \in 1..Len(session'.connections) :
            session'.connections[i] = session'.connections[j] => i = j
    /\ \A i \in 1..Len(session'.connections) :
            \/ session'.connections[i] = n /\ Live(n)
            \/ \E j \in 1..Len(session.connections) :
                    session'.connections[i] = session.connections[j]

(* What handling the first request of a node changes.                      *)
LEMMA HandleKeeps ==
    ASSUME LobbyInv, NEW n \in Node, Handle(n)
    PROVE  LobbyInv'
  <1> USE DEF LobbyInv
  <1>1. /\ requests[n] \in Seq(Sound) /\ requests[n] # <<>> /\ todo[n] = <<>>
        /\ requests' = [requests EXCEPT ![n] = Tail(requests[n])]
        /\ UNCHANGED <<phase, role, index, roster, held, cached, over, inbox, used>>
    BY DEF Handle, FlightTypes, nodeVars
  <1>2. /\ Head(requests[n]) \in Sound /\ Head(requests[n]) = requests[n][1]
        /\ Len(requests[n]) \in Nat /\ Len(requests[n]) > 0
        /\ Tail(requests[n]) \in Seq(Sound) /\ Len(Tail(requests[n])) = Len(requests[n]) - 1
        /\ \A i \in 1..Len(Tail(requests[n])) : Tail(requests[n])[i] = requests[n][i + 1]
    BY <1>1, Tailed
  <1> DEFINE r == Head(requests[n])
  <1>3. r \in Request /\ (r.type = "recreate" => r.index \in Index)
    BY <1>2 DEF Sound
  <1>4. Asks(n, {r.type})
    BY <1>2 DEF Asks
  <1>5. requests' \in [Node -> Seq(Sound)]
    BY <1>1, <1>2 DEF FlightTypes
  <1>6. NodeTypes' /\ Indexed'
    BY <1>1 DEF NodeTypes, Indexed
  (* Nothing that opens a connection is left of n's requests.              *)
  <1>7. \A k \in 1..Len(requests'[n]) : ~Opens(requests'[n][k])
    <2>1. requests'[n] = Tail(requests[n])
      BY <1>1 DEF FlightTypes
    <2>2. ASSUME NEW k \in 1..Len(requests'[n])
          PROVE  k + 1 \in 1..Len(requests[n]) /\ k + 1 # 1
                 /\ requests'[n][k] = requests[n][k + 1]
      BY <1>2, <2>1, <2>2
    <2> QED  BY <2>2 DEF ConnectedOnce
  <1>8. \A m \in Node : m # n => requests'[m] = requests[m]
    BY <1>1 DEF FlightTypes
  <1>9. ASSUME NEW m \in Node, NEW types \in SUBSET {"create", "join", "recreate"}, Asks(m, types)'
        PROVE  m # n /\ Asks(m, types)
    <2>1. m # n
      BY <1>7, <1>9 DEF Asks, Opens
    <2> QED  BY <1>8, <1>9, <2>1 DEF Asks
  <1>10. \A m \in Node : \A k \in 1..Len(requests'[m]) : Opens(requests'[m][k]) => k = 1
    BY <1>7, <1>8 DEF ConnectedOnce
  <1>11. \A m \in Node : Asks(m, {"recreate"})' => phase'[m] = "playing" /\ role'[m] = "host"
    BY <1>1, <1>9 DEF ConnectedOnce
  <1>12. Untouched'
    <2>1. ASSUME NEW m \in Node, Asks(m, {"create"})'
          PROVE  FALSE
      <3>1. m # n /\ Asks(m, {"create"})
        BY <1>9, <2>1
      <3>2. requests[n] = <<>>
        BY <3>1 DEF Untouched
      <3> QED  BY <1>1, <3>2
    <2> QED  BY <2>1 DEF Untouched
  <1>13. session \in Record /\ todo \in [Node -> Seq(Pending)] /\ inbox \in [Node -> Seq(Sendable)]
    BY DEF FlightTypes
  (* It is enough to look at the session and at what is to be sent.        *)
  <1>14. SUFFICES Serves(n)
    <2>1. FlightTypes'
      BY <1>1, <1>5, <1>13, <1>14 DEF FlightTypes, Serves
    <2>2. ASSUME NEW m \in Node, Registered(m)'
          PROVE  (m = n /\ Live(n)) \/ Registered(m)
      <3>1. session' \in Record /\ session \in Record
        BY <1>13, <1>14 DEF Serves
      <3>2. DOMAIN session'.connections = 1..Len(session'.connections)
            /\ DOMAIN session.connections = 1..Len(session.connections)
        BY <3>1 DEF Record
      <3> QED  BY <1>14, <2>2, <3>2 DEF Registered, Serves
    <2>3. \A m \in Node : Registered(m)' => Live(m)'
      BY <1>1, <2>2 DEF ConnectedOnce, Live
    <2>4. \A m \in Node : Asks(m, {"join"})' => ~Registered(m)'
      BY <1>9, <2>2 DEF ConnectedOnce
    <2>5. ConnectedOnce'
      BY <1>10, <1>11, <1>14, <2>3, <2>4 DEF ConnectedOnce, Serves
    <2> QED  BY <1>6, <1>12, <2>1, <2>5
  <1>15. session.connections \in Seq(Node)
    BY <1>13 DEF Record
  <1>16. \A msg \in Sendable : Send(n, msg) \in Pending /\ ToAll(msg) \in Seq(Pending)
    BY <1>13, SendIs, ToAllIs
  <1>17. Do("announce", n) \in Pending /\ Do("resume", n) \in Pending /\ Do("drop", n) \in Pending
    BY DoIs
  <1>18. ASSUME r.type = "create", CreateSession(n)
         PROVE  <1>14!1
    <2>1. Live(n)
      BY <1>4, <1>18 DEF Untouched, Live
    <2>2. Msg("created", 0, {}) \in Sendable
      BY FirstSlot, MsgIs
    <2>3. todo' = [todo EXCEPT ![n] = <<Send(n, Msg("created", 0, {})), Do("announce", n)>>]
      BY <1>18 DEF CreateSession
    <2>4. todo' \in [Node -> Seq(Pending)]
      BY <1>13, <1>16, <1>17, <2>2, <2>3
    <2>5. NoSession \in Record
      BY DEF NoSession, Record
    <2>6. ASSUME NEW s \in Record, s = NoSession
          PROVE  session' \in Record /\ session'.connections = <<n>>
      <3>1. {[index |-> 0, at |-> n, host |-> TRUE]} \in SUBSET Entry
        BY FirstSlot DEF Entry
      <3>2. ASSUME NEW es \in SUBSET Entry, NEW c \in Seq(Node),
                   session' = [s EXCEPT !.open = TRUE, !.connections = c, !.entries = es]
            PROVE  session' \in Record /\ session'.connections = c
        BY <3>2 DEF Record
      <3>3. session' = [s EXCEPT !.open = TRUE, !.connections = <<n>>,
                            !.entries = {[index |-> 0, at |-> n, host |-> TRUE]}]
        BY <1>18, <2>6 DEF CreateSession
      <3>4. <<n>> \in Seq(Node)
        OBVIOUS
      <3> QED  BY <3>1, <3>2, <3>3, <3>4
    <2>7. session' \in Record /\ session'.connections = <<n>>
      BY <2>5, <2>6
    <2> QED  BY <2>1, <2>4, <2>7 DEF Serves
  (* Nobody is connected who still asks to join.                           *)
  <1>19. ASSUME r.type = "join", JoinSession(n, r.index)
         PROVE  Serves(n)
    <2>1. CASE Refused(r.index)
      <3>1. ASSUME UNCHANGED session,
                   todo' = [todo EXCEPT ![n] = <<Send(n, Msg("rejected", NoIndex, {}))>>]
            PROVE  Serves(n)
        <4>1. Msg("rejected", NoIndex, {}) \in Sendable
          BY MsgIs
        <4> QED  BY <1>13, <1>16, <3>1, <4>1 DEF Serves, ConnectedOnce
      <3> QED  BY <1>19, <2>1, <3>1 DEF JoinSession
    <2>2. CASE ~Refused(r.index)
      <3> DEFINE i == Slot(r.index)
                 c == IF Live(n) THEN Append(session.connections, n) ELSE session.connections
                 e == {x \in session.entries : x.index # i}
                        \cup {[index |-> i, at |-> n, host |-> FALSE]}
      <3>1. /\ session' = [session EXCEPT !.entries = e, !.reserved = StillReserved(i),
                                           !.connections = c]
            /\ todo' = [todo EXCEPT ![n] = Welcome(n, i)]
        BY <1>19, <2>2 DEF JoinSession
      <3>2. i \in Index
        BY <1>3, <1>13, <2>2, SlotIs DEF Request
      <3> HIDE DEF i
      <3>3. e \in SUBSET Entry /\ StillReserved(i) \in SUBSET Index
        <4>1. [index |-> i, at |-> n, host |-> FALSE] \in Entry
          BY <3>2 DEF Entry
        <4>2. session.entries \subseteq Entry /\ session.reserved \subseteq Index
          BY <1>13 DEF Record
        <4> QED  BY <4>1, <4>2 DEF StillReserved
      <3> HIDE DEF e
      <3>4. Msg("joined", i, {}) \in Sendable
        BY <3>2, MsgIs
      <3>5. todo' \in [Node -> Seq(Pending)]
        BY <1>13, <1>16, <1>17, <3>1, <3>4 DEF Welcome
      <3>6. ~Registered(n)
        BY <1>4, <1>19 DEF ConnectedOnce
      <3>7. DOMAIN session.connections = 1..Len(session.connections)
        BY <1>15
      <3>8. /\ c \in Seq(Node)
            /\ \A j, k \in 1..Len(c) : c[j] = c[k] => j = k
            /\ \A j \in 1..Len(c) : \/ c[j] = n /\ Live(n)
                                    \/ \E k \in 1..Len(session.connections) :
                                            c[j] = session.connections[k]
        <4>1. CASE Live(n)
          <5>1. /\ c \in Seq(Node) /\ Len(c) = Len(session.connections) + 1
                /\ Len(session.connections) \in Nat
                /\ \A j \in 1..Len(session.connections) : c[j] = session.connections[j]
                /\ c[Len(session.connections) + 1] = n
            BY <1>15, <4>1, Appended
          <5>2. \A k \in 1..Len(session.connections) : session.connections[k] # n
            BY <3>6, <3>7 DEF Registered
          <5> HIDE DEF c
          <5> QED  BY SMTT(30), <4>1, <5>1, <5>2 DEF ConnectedOnce
        <4>2. CASE ~Live(n)
          BY <1>15, <4>2 DEF ConnectedOnce
        <4> QED  BY <4>1, <4>2
      <3> HIDE DEF c
      <3>9. session' \in Record /\ session'.connections = c
        BY <1>13, <3>1, <3>3, <3>8 DEF Record
      <3> QED  BY <3>5, <3>8, <3>9 DEF Serves
    <2> QED  BY <2>1, <2>2
  <1>20. ASSUME r.type = "recreate", RecreateSession(n, r.index, r.reserved)
         PROVE  Serves(n)
    <2>1. Live(n)
      BY <1>4, <1>20 DEF ConnectedOnce, Live
    <2>2. Msg("created", 0, {}) \in Sendable
      BY FirstSlot, MsgIs
    <2>3. todo' = [todo EXCEPT ![n] = <<Send(n, Msg("created", 0, {}))>>]
      BY <1>20 DEF RecreateSession
    <2>4. todo' \in [Node -> Seq(Pending)]
      BY <1>13, <1>16, <2>2, <2>3
    <2>5. r.index \in Index /\ r.reserved \in SUBSET Index
      BY <1>3, <1>20 DEF Request
    <2>6. [index |-> r.index, at |-> n, host |-> TRUE] \in Entry
      BY <2>5 DEF Entry
    <2>7. session' \in Record /\ session'.connections = <<n>>
      BY <1>20, <2>5, <2>6 DEF RecreateSession, Record
    <2> QED  BY <2>1, <2>4, <2>7 DEF Serves
  <1>21. ASSUME r.type = "leave", LeaveSession(n, r.index)
         PROVE  Serves(n)
    <2> DEFINE leaving == {x \in session.entries : x.index = r.index}
    <2>1. Farewell(n, leaving) \in Seq(Pending)
      <3>1. Msg("closed", NoIndex, {}) \in Sendable
        BY MsgIs
      <3>2. ToAll(Msg("closed", NoIndex, {})) \in Seq(Pending) /\ <<Do("drop", n)>> \in Seq(Pending)
        BY <1>16, <1>17, <3>1
      <3>3. ToAll(Msg("closed", NoIndex, {})) \o <<Do("drop", n)>> \in Seq(Pending)
        BY <3>2, ConcatProperties
      <3> QED  BY <1>17, <3>3 DEF Farewell
    <2>2. \/ /\ session' = [session EXCEPT !.entries = session.entries \ leaving]
             /\ todo' = [todo EXCEPT ![n] = Farewell(n, leaving)]
          \/ UNCHANGED <<session, todo>>
      BY <1>21 DEF LeaveSession
    <2> HIDE DEF leaving
    <2>3. todo' \in [Node -> Seq(Pending)]
      BY <1>13, <2>1, <2>2
    <2>4. session' \in Record /\ session'.connections = session.connections
      BY <1>13, <2>2 DEF Record
    <2> QED  BY <2>3, <2>4 DEF Serves, ConnectedOnce
  <1>22. ASSUME r.type = "start", StartSession(n)
         PROVE  Serves(n)
    <2>1. Msg("start", NoIndex, {}) \in Sendable
      BY MsgIs
    <2>2. todo' \in [Node -> Seq(Pending)]
      BY <1>13, <1>16, <1>22, <2>1 DEF StartSession
    <2>3. session' \in Record /\ session'.connections = session.connections
      BY <1>13, <1>22 DEF Record, StartSession
    <2> QED  BY <2>2, <2>3 DEF Serves, ConnectedOnce
  <1> QED  BY <1>18, <1>19, <1>20, <1>21, <1>22 DEF Handle

(* The next await of a handler.                                            *)
LEMMA ContinueKeeps ==
    ASSUME LobbyInv, NEW n \in Node, Continue(n)
    PROVE  LobbyInv'
  <1> USE DEF LobbyInv
  <1>1. /\ todo[n] # <<>>
        /\ UNCHANGED <<phase, role, index, roster, held, cached, over, requests, used>>
    BY DEF Continue, nodeVars
  <1>2. /\ session \in Record /\ todo \in [Node -> Seq(Pending)]
        /\ inbox \in [Node -> Seq(Sendable)] /\ requests \in [Node -> Seq(Sound)]
    BY DEF FlightTypes
  <1>3. todo[n] \in Seq(Pending)
    BY <1>2
  <1>4. Head(todo[n]) \in Pending /\ Tail(todo[n]) \in Seq(Pending)
    BY <1>1, <1>3, Tailed
  <1> DEFINE t == Head(todo[n])
             rest == Tail(todo[n])
  <1>5. t.to \in Node /\ t.msg \in Sendable
    BY <1>4 DEF Pending, Task
  <1>6. inbox' \in [Node -> Seq(Sendable)]
    <2>1. CASE UNCHANGED inbox
      BY <1>2, <2>1
    <2>2. CASE inbox' = [inbox EXCEPT ![t.to] = IF Live(t.to) THEN Append(@, t.msg) ELSE @]
      BY <1>2, <1>5, <2>2
    <2> QED  BY <2>1, <2>2 DEF Continue
  <1>7. todo' \in [Node -> Seq(Pending)]
    <2>1. CASE todo' = [todo EXCEPT ![n] = rest]
      BY <1>2, <1>4, <2>1
    <2>2. CASE todo' = [todo EXCEPT ![n] = ToAll(Msg("roster", NoIndex, session.entries)) \o rest]
      <3>1. Msg("roster", NoIndex, session.entries) \in Sendable
        BY <1>2, MsgIs DEF Record
      <3>2. ToAll(Msg("roster", NoIndex, session.entries)) \o rest \in Seq(Pending)
        BY <1>2, <1>4, <3>1, ToAllIs, ConcatProperties
      <3> QED  BY <1>2, <2>2, <3>2
    <2>3. CASE todo' = [todo EXCEPT ![n] = <<>>]
      BY <1>2, <2>3
    <2>4. CASE todo' = [todo EXCEPT ![n] = IF session.active
                            THEN <<Send(n, Msg("start", NoIndex, {}))>> \o rest ELSE rest]
      <3>1. Send(n, Msg("start", NoIndex, {})) \in Pending
        BY MsgIs, SendIs
      <3>2. <<Send(n, Msg("start", NoIndex, {}))>> \o rest \in Seq(Pending)
        BY <1>4, <3>1, ConcatProperties
      <3> QED  BY <1>2, <1>4, <2>4, <3>2
    <2> QED  BY <2>1, <2>2, <2>3, <2>4 DEF Continue
  <1>8. session' = session \/ session' = NoSession
    BY DEF Continue
  <1>9. NoSession \in Record /\ NoSession.connections = <<>>
    BY DEF NoSession, Record
  <1>10. NodeTypes' /\ FlightTypes' /\ Indexed'
    BY <1>1, <1>2, <1>6, <1>7, <1>8, <1>9 DEF NodeTypes, FlightTypes, Indexed
  <1>11. ConnectedOnce'
    <2>1. CASE session' = session
      BY <1>1, <2>1 DEF ConnectedOnce, Registered, Live, Asks
    <2>2. CASE session' = NoSession
      <3>1. Len(session'.connections) = 0 /\ DOMAIN session'.connections = {}
        BY <1>9, <2>2
      <3> QED  BY <1>1, <3>1 DEF ConnectedOnce, Registered, Asks
    <2> QED  BY <1>8, <2>1, <2>2
  <1>12. Untouched'
    BY <1>1, Created DEF Untouched, Asks
  <1> QED  BY <1>10, <1>11, <1>12

-----------------------------------------------------------------------------
(* The steps of the nodes.                                                 *)

LEMMA EnterKeeps ==
    ASSUME LobbyInv, NEW n \in Node, NEW rejoin \in Index \cup {NoIndex}, Enter(n, rejoin)
    PROVE  LobbyInv'
  <1> USE DEF LobbyInv
  <1>1. /\ phase[n] = "out" /\ session.open
        /\ requests' = [requests EXCEPT ![n] = <<Req("join", rejoin, {})>>]
        /\ phase' = [phase EXCEPT ![n] = "joining"]
        /\ used' = [used EXCEPT !.joins = @ + 1]
        /\ UNCHANGED <<role, index, roster, held, cached, over, session, todo, inbox>>
    BY DEF Enter
  <1>2. Req("join", rejoin, {}) \in Sound /\ Req("join", rejoin, {}).type = "join"
    BY DEF Req, Sound, Request
  <1>3. NodeTypes' /\ FlightTypes' /\ Indexed'
    <2>1. <<Req("join", rejoin, {})>> \in Seq(Sound)
      BY <1>2
    <2>2. FlightTypes'
      BY <1>1, <2>1 DEF FlightTypes
    <2>3. used' \in [joins: Nat, runs: Nat, crashes: Nat, untold: Nat]
      BY <1>1 DEF NodeTypes
    <2>4. phase' \in [Node -> Phases]
      BY <1>1 DEF NodeTypes, Phases
    <2>5. NodeTypes' /\ Indexed'
      BY <1>1, <2>3, <2>4 DEF NodeTypes, Indexed
    <2> QED  BY <2>2, <2>5
  <1>4. \A m \in Node : m # n => requests'[m] = requests[m] /\ phase'[m] = phase[m]
    BY <1>1 DEF FlightTypes, NodeTypes
  <1>5. /\ Len(requests'[n]) = 1 /\ requests'[n][1].type = "join" /\ phase'[n] = "joining"
    BY <1>1, <1>2 DEF FlightTypes, NodeTypes
  <1>6. ~Registered(n)
    BY <1>1 DEF ConnectedOnce, Live
  <1>7. \A m \in Node : Live(m) => Live(m)'
    BY <1>4, <1>5 DEF Live
  <1>8. ASSUME NEW m \in Node, NEW types \in SUBSET {"create", "recreate"}, Asks(m, types)'
        PROVE  m # n /\ Asks(m, types)
    BY <1>4, <1>5, <1>8 DEF Asks
  <1>9. ConnectedOnce'
    <2>1. \A i, j \in 1..Len(session'.connections) :
            session'.connections[i] = session'.connections[j] => i = j
      BY <1>1 DEF ConnectedOnce
    <2>2. \A m \in Node : Registered(m)' => Live(m)'
      BY <1>1, <1>7 DEF ConnectedOnce, Registered
    <2>3. \A m \in Node : \A k \in 1..Len(requests'[m]) : Opens(requests'[m][k]) => k = 1
      BY <1>4, <1>5 DEF ConnectedOnce
    <2>4. \A m \in Node : Asks(m, {"join"})' => ~Registered(m)'
      BY <1>1, <1>4, <1>6 DEF ConnectedOnce, Registered, Asks
    <2>5. \A m \in Node : Asks(m, {"recreate"})' => phase'[m] = "playing" /\ role'[m] = "host"
      BY <1>1, <1>4, <1>8 DEF ConnectedOnce
    <2> QED  BY <2>1, <2>2, <2>3, <2>4, <2>5 DEF ConnectedOnce
  <1>10. Untouched'
    BY <1>1, <1>8, Created DEF Untouched
  <1> QED  BY <1>3, <1>9, <1>10

(* Nobody is added to the list of connections, and who leaves it asks for  *)
(* nothing but to leave.                                                   *)
LEMMA DroppedKeeps ==
    ASSUME LobbyInv, NEW n \in Node, session' = Drop(n, session),
           phase' = [phase EXCEPT ![n] = "out"]
    PROVE  /\ session' \in Record
           /\ \A i, j \in 1..Len(session'.connections) :
                    session'.connections[i] = session'.connections[j] => i = j
           /\ \A m \in Node : Registered(m)' => Registered(m) /\ m # n
           /\ \A m \in Node : Registered(m)' => Live(m)'
  <1>1. session \in Record
    BY DEF LobbyInv, FlightTypes
  <1>2. ASSUME NEW s, s = Drop(n, session)
        PROVE  /\ s \in Record
               /\ \A i, j \in 1..Len(s.connections) : s.connections[i] = s.connections[j] => i = j
               /\ \A i \in 1..Len(s.connections) :
                    /\ s.connections[i] # n
                    /\ \E j \in 1..Len(session.connections) :
                            session.connections[j] = s.connections[i]
    BY <1>1, <1>2, DropIs DEF LobbyInv, ConnectedOnce
  <1>3. /\ session' \in Record
        /\ \A i, j \in 1..Len(session'.connections) :
                session'.connections[i] = session'.connections[j] => i = j
        /\ \A i \in 1..Len(session'.connections) :
                /\ session'.connections[i] # n
                /\ \E j \in 1..Len(session.connections) :
                        session.connections[j] = session'.connections[i]
    BY <1>2
  <1>4. DOMAIN session'.connections = 1..Len(session'.connections)
        /\ DOMAIN session.connections = 1..Len(session.connections)
    BY <1>1, <1>3 DEF Record
  <1>5. \A m \in Node : Registered(m)' => Registered(m) /\ m # n
    BY <1>3, <1>4 DEF Registered
  <1>6. \A m \in Node : Registered(m)' => Live(m)'
    BY <1>5 DEF LobbyInv, ConnectedOnce, NodeTypes, Live
  <1> QED  BY <1>3, <1>5, <1>6

(* The end of a node in the lobby, whose service it leaves or not.         *)
LEMMA TeardownKeeps ==
    ASSUME LobbyInv, NEW n \in Node, Teardown(n), UNCHANGED used,
           phase[n] \notin {"out", "playing"}, \A m \in Node : ~Asks(m, {"create"})
    PROVE  LobbyInv'
  <1> USE DEF LobbyInv
  <1>1. /\ role' = [role EXCEPT ![n] = "client"]
        /\ index' = [index EXCEPT ![n] = NoIndex]
        /\ roster' = [roster EXCEPT ![n] = {}]
        /\ held' = [held EXCEPT ![n] = {}]
        /\ over' = over \ {n}
        /\ phase' = [phase EXCEPT ![n] = "out"]
        /\ inbox' = [inbox EXCEPT ![n] = <<>>]
        /\ cached' = [cached EXCEPT ![n] = NoMetadata]
        /\ session' = Drop(n, session)
        /\ todo' = Unsent(n)
    BY DEF Teardown, Forget
  <1>2. NodeTypes' /\ Indexed'
    BY <1>1 DEF NodeTypes, Indexed, Phases, NoMetadata
  <1>3. PICK q \in Seq(Sound) :
            /\ requests' = [requests EXCEPT ![n] = q]
            /\ \A k \in 1..Len(q) : Opens(q[k]) => k \in 1..Len(requests[n]) /\ q[k] = requests[n][k]
    <2>1. requests \in [Node -> Seq(Sound)] /\ requests[n] \in Seq(Sound)
      BY DEF FlightTypes
    <2>2. CASE requests' = [requests EXCEPT ![n] = Append(@, Req("leave", index[n], {}))]
      <3> DEFINE r == Req("leave", index[n], {})
      <3>1. r \in Sound /\ ~Opens(r)
        BY DEF Req, Sound, Request, NodeTypes, Opens
      <3> HIDE DEF r
      <3> DEFINE q == Append(requests[n], r)
      <3>2. /\ q \in Seq(Sound) /\ Len(q) = Len(requests[n]) + 1 /\ Len(requests[n]) \in Nat
            /\ \A k \in 1..Len(requests[n]) : q[k] = requests[n][k]
            /\ q[Len(requests[n]) + 1] = r
        BY <2>1, <3>1, Appended
      <3>3. requests' = [requests EXCEPT ![n] = q]
        BY <2>2 DEF r
      <3> HIDE DEF q
      <3>4. ASSUME NEW k \in 1..Len(q), Opens(q[k])
            PROVE  k \in 1..Len(requests[n]) /\ q[k] = requests[n][k]
        <4>1. k # Len(requests[n]) + 1
          BY <3>1, <3>2, <3>4
        <4>2. k \in 1..Len(requests[n])
          BY <3>2, <4>1
        <4> QED  BY <3>2, <4>2
      <3> QED  BY <3>2, <3>3, <3>4
    <2>3. CASE UNCHANGED requests
      <3>1. requests' = [requests EXCEPT ![n] = requests[n]]
        BY <2>1, <2>3
      <3> QED  BY <2>1, <3>1
    <2> QED  BY <2>2, <2>3 DEF Teardown
  <1>4. /\ session' \in Record
        /\ \A i, j \in 1..Len(session'.connections) :
                session'.connections[i] = session'.connections[j] => i = j
        /\ \A m \in Node : Registered(m)' => Registered(m) /\ m # n
        /\ \A m \in Node : Registered(m)' => Live(m)'
    BY <1>1, DroppedKeeps
  <1>5. todo' \in [Node -> Seq(Pending)]
    BY <1>1, UnsentIs
  <1>6. FlightTypes'
    <2>1. requests' \in [Node -> Seq(Sound)]
      BY <1>3 DEF FlightTypes
    <2>2. inbox' \in [Node -> Seq(Sendable)]
      BY <1>1 DEF FlightTypes
    <2> QED  BY <1>4, <1>5, <2>1, <2>2 DEF FlightTypes
  <1>7. requests'[n] = q /\ \A m \in Node : m # n => requests'[m] = requests[m]
    BY <1>3 DEF FlightTypes
  <1>8. ASSUME NEW m \in Node, NEW types \in SUBSET {"create", "join", "recreate"}, Asks(m, types)'
        PROVE  Asks(m, types)
    <2>1. CASE m = n
      <3>1. PICK k \in 1..Len(q) : q[k].type \in types
        BY <1>7, <1>8, <2>1 DEF Asks
      <3>2. Opens(q[k])
        BY <1>8, <3>1 DEF Opens
      <3>3. k \in 1..Len(requests[n]) /\ requests[n][k].type \in types
        BY <1>3, <3>1, <3>2
      <3> QED  BY <2>1, <3>3 DEF Asks
    <2>2. CASE m # n
      BY <1>7, <1>8, <2>2 DEF Asks
    <2> QED  BY <2>1, <2>2
  <1>9. \A m \in Node : \A k \in 1..Len(requests'[m]) : Opens(requests'[m][k]) => k = 1
    BY <1>3, <1>7 DEF ConnectedOnce
  <1>10. \A m \in Node : Asks(m, {"recreate"})' => phase'[m] = "playing" /\ role'[m] = "host"
    <2>1. ~Asks(n, {"recreate"})
      BY DEF ConnectedOnce
    <2> QED  BY <1>1, <1>8, <2>1 DEF ConnectedOnce, NodeTypes
  <1>11. \A m \in Node : Asks(m, {"join"})' => ~Registered(m)'
    BY <1>4, <1>8 DEF ConnectedOnce
  <1>12. ConnectedOnce'
    BY <1>4, <1>9, <1>10, <1>11 DEF ConnectedOnce
  <1>13. Untouched'
    BY <1>8 DEF Untouched
  <1> QED  BY <1>2, <1>6, <1>12, <1>13

(* A step that leaves alone what is between the nodes and the service.     *)
LEMMA AsideKeeps ==
    ASSUME LobbyInv, UNCHANGED <<session, requests>>,
           \A n \in Node : ~Asks(n, {"create"}), \A n \in Node : Live(n) => Live(n)',
           \A n \in Node : Asks(n, {"recreate"}) => phase'[n] = phase[n] /\ role'[n] = role[n]
    PROVE  ConnectedOnce' /\ Untouched'
  <1>1. \A n \in Node : Registered(n)' <=> Registered(n)
    BY DEF Registered
  <1>2. \A n \in Node : \A types \in SUBSET {"create", "join", "recreate"} :
            Asks(n, types)' <=> Asks(n, types)
    BY DEF Asks
  <1> QED  BY <1>1, <1>2 DEF LobbyInv, ConnectedOnce, Untouched

LEMMA ReadKeeps ==
    ASSUME LobbyInv, NEW n \in Node, Read(n)
    PROVE  LobbyInv'
  <1> USE DEF LobbyInv
  <1> DEFINE msg == Head(inbox[n])
  <1>1. inbox[n] # <<>> /\ inbox[n] \in Seq(Sendable) /\ UNCHANGED used
    BY DEF Read, FlightTypes
  <1>2. msg \in Sendable /\ Tail(inbox[n]) \in Seq(Sendable)
    BY <1>1, Tailed
  <1>3. /\ msg \in Message /\ msg.players \in SUBSET Entry
        /\ msg.type \in {"created", "joined"} => msg.index \in Index
    BY <1>2 DEF Sendable, Message
  <1>4. \A m \in Node : ~Asks(m, {"create"})
    BY <1>1, Created
  <1>5. ASSUME Teardown(n), phase[n] \notin {"out", "playing"}
        PROVE  LobbyInv'
    BY <1>1, <1>4, <1>5, TeardownKeeps
  (* What any other message may change.                                    *)
  <1>6. ASSUME inbox' = [inbox EXCEPT ![n] = Tail(@)],
               NEW r \in SUBSET Entry, roster' = [roster EXCEPT ![n] = r],
               UNCHANGED <<role, held, over, session, requests, todo>>,
               phase' \in [Node -> Phases], index' \in [Node -> Index \cup {NoIndex}],
               cached' \in [Node -> [index: Index \cup {NoIndex}, peers: SUBSET Node]],
               \A m \in Node : m # n => phase'[m] = phase[m] /\ index'[m] = index[m],
               phase'[n] # "out", phase[n] = "playing" => phase'[n] = "playing",
               phase'[n] \in {"waiting", "starting", "draining", "playing", "electing"} =>
                    index'[n] \in Index
        PROVE  LobbyInv'
    <2>1. NodeTypes'
      BY <1>1, <1>6 DEF NodeTypes
    <2>2. FlightTypes'
      BY <1>2, <1>6 DEF FlightTypes
    <2>3. Indexed'
      BY <1>6 DEF Indexed
    <2>4. \A m \in Node : Live(m) => Live(m)'
      BY <1>6 DEF Live
    <2>5. \A m \in Node : Asks(m, {"recreate"}) => phase'[m] = phase[m] /\ role'[m] = role[m]
      BY <1>6 DEF ConnectedOnce
    <2> QED  BY <1>4, <1>6, <2>1, <2>2, <2>3, <2>4, <2>5, AsideKeeps
  <1>7. CASE Handshake(n, msg)
    <2>1. CASE msg.type = "rejected"
      BY <1>5, <1>7, <2>1 DEF Handshake
    <2>2. CASE msg.type # "rejected"
      <3> DEFINE r == IF msg.type = "roster" THEN msg.players ELSE roster[n]
      <3>1. r \in SUBSET Entry /\ roster' = [roster EXCEPT ![n] = r]
        BY <1>3, <1>7, <2>2 DEF Handshake, NodeTypes
      <3>2. /\ inbox' = [inbox EXCEPT ![n] = Tail(@)]
            /\ UNCHANGED <<role, held, cached, over, session, requests, todo>>
            /\ phase[n] = "joining"
        BY <1>7, <2>2 DEF Handshake
      <3> HIDE DEF r
      <3>3. CASE msg.type \in {"created", "joined"}
        <4>1. /\ phase' = [phase EXCEPT ![n] = "waiting"]
              /\ index' = [index EXCEPT ![n] = msg.index] /\ msg.index \in Index
          BY <1>3, <1>7, <2>2, <3>3 DEF Handshake
        <4> HIDE DEF msg
        <4>2. phase' \in [Node -> Phases] /\ index' \in [Node -> Index \cup {NoIndex}]
          BY <4>1 DEF NodeTypes, Phases
        <4>3. phase'[n] = "waiting" /\ index'[n] \in Index
          BY <4>1 DEF NodeTypes
        <4>4. \A m \in Node : m # n => phase'[m] = phase[m] /\ index'[m] = index[m]
          BY <4>1 DEF NodeTypes
        <4> QED  BY <1>6, <3>1, <3>2, <4>2, <4>3, <4>4 DEF NodeTypes
      <3>4. CASE msg.type \notin {"created", "joined"}
        <4>1. UNCHANGED <<phase, index>>
          BY <1>7, <2>2, <3>4 DEF Handshake
        <4> HIDE DEF msg
        <4> QED  BY <1>6, <3>1, <3>2, <4>1 DEF NodeTypes, Indexed
      <3> QED  BY <3>3, <3>4
    <2> QED  BY <2>1, <2>2
  <1>8. CASE WaitForStart(n, msg)
    <2>1. phase[n] \in {"waiting", "starting", "draining"}
      BY <1>8 DEF WaitForStart
    <2>2. CASE msg.type = "closed" /\ role[n] = "client"
      BY <1>5, <1>8, <2>1, <2>2 DEF WaitForStart
    <2>3. CASE ~(msg.type = "closed" /\ role[n] = "client")
      <3> DEFINE r == IF msg.type = "roster" THEN msg.players ELSE roster[n]
                 next == IF role[n] = "host" THEN "draining" ELSE "playing"
      <3>1. r \in SUBSET Entry /\ roster' = [roster EXCEPT ![n] = r]
        BY <1>3, <1>8, <2>3 DEF WaitForStart, NodeTypes
      <3>2. /\ inbox' = [inbox EXCEPT ![n] = Tail(@)]
            /\ UNCHANGED <<role, index, held, over, session, requests, todo>>
        BY <1>8, <2>3 DEF WaitForStart
      <3>3. \/ /\ phase' = [phase EXCEPT ![n] = next]
               /\ cached' = [cached EXCEPT ![n] = Saved(n)]
            \/ UNCHANGED <<phase, cached>>
        BY <1>8, <2>3 DEF WaitForStart
      <3>4. Saved(n) \in [index: Index \cup {NoIndex}, peers: SUBSET Node]
        BY DEF Saved, NodeTypes, Entry
      <3>5. next \in Phases /\ next \in {"draining", "playing"}
        BY DEF Phases
      <3>6. index[n] \in Index
        BY <2>1 DEF Indexed
      <3> HIDE DEF r, next, msg
      <3>7. /\ phase' \in [Node -> Phases]
            /\ cached' \in [Node -> [index: Index \cup {NoIndex}, peers: SUBSET Node]]
        <4> DEFINE M == [index: Index \cup {NoIndex}, peers: SUBSET Node]
        <4>1. cached \in [Node -> M] /\ phase \in [Node -> Phases] /\ Saved(n) \in M
          BY <3>4 DEF NodeTypes
        <4> HIDE DEF M
        <4>2. phase' \in [Node -> Phases]
          BY <3>3, <3>5, <4>1
        <4>3. cached' \in [Node -> M]
          BY <3>3, <4>1
        <4> QED  BY <4>2, <4>3 DEF M
      <3>8. \A m \in Node : m # n => phase'[m] = phase[m]
        BY <3>3 DEF NodeTypes
      <3>9. phase'[n] # "out"
        BY <2>1, <3>3, <3>5 DEF NodeTypes
      <3> QED  BY <1>6, <2>1, <3>1, <3>2, <3>6, <3>7, <3>8, <3>9 DEF NodeTypes
    <2> QED  BY <2>2, <2>3
  <1>9. CASE ReadInGame(n, msg)
    <2> DEFINE r == IF role[n] = "host" /\ msg.type = "roster"
                    THEN Admitted(n, msg.players) ELSE roster[n]
    <2>1. r \in SUBSET Entry
      BY <1>3 DEF Admitted, NodeTypes
    <2>2. /\ phase[n] = "playing" /\ inbox' = [inbox EXCEPT ![n] = Tail(@)]
          /\ roster' = [roster EXCEPT ![n] = r]
          /\ UNCHANGED <<phase, role, index, held, cached, over, session, requests, todo>>
      BY <1>9 DEF ReadInGame, NodeTypes
    <2> HIDE DEF r
    <2> QED  BY <1>6, <2>1, <2>2 DEF NodeTypes, Indexed
  <1> QED  BY <1>7, <1>8, <1>9 DEF Read

(* The other steps of a node in a lobby or in a game.                      *)
LEMMA LobbyStepKeeps ==
    ASSUME LobbyInv, NEW n \in Node,
           \/ JoinTimeout(n) \/ LeaveLobby(n) \/ PressStart(n) \/ EndDrain(n)
           \/ MergeRoster(n) \/ Evict(n) \/ EndRun(n)
    PROVE  LobbyInv'
  <1> USE DEF LobbyInv
  <1>1. \A m \in Node : ~Asks(m, {"create"})
    <2>1. \/ phase[n] \in {"waiting", "draining", "playing", "stranded"}
          \/ phase[n] = "joining" /\ role[n] = "client"
      <3>1. CASE JoinTimeout(n) \/ LeaveLobby(n)
        BY <3>1 DEF JoinTimeout, LeaveLobby
      <3>2. CASE PressStart(n) \/ EndDrain(n)
        BY <3>2 DEF PressStart, EndDrain
      <3>3. CASE MergeRoster(n)
        BY <3>3 DEF MergeRoster
      <3>4. CASE Evict(n)
        BY <3>4 DEF Evict
      <3>5. CASE EndRun(n)
        BY <3>5 DEF EndRun
      <3> QED  BY <3>1, <3>2, <3>3, <3>4, <3>5
    <2> QED  BY <2>1, Created
  <1>2. CASE JoinTimeout(n)
    BY <1>1, <1>2, TeardownKeeps DEF JoinTimeout
  <1>3. CASE LeaveLobby(n)
    BY <1>1, <1>3, TeardownKeeps DEF LeaveLobby
  <1>4. CASE PressStart(n)
    <2>1. /\ phase[n] = "waiting"
          /\ phase' = [phase EXCEPT ![n] = "starting"]
          /\ requests' = [requests EXCEPT ![n] = Append(@, Req("start", NoIndex, {}))]
          /\ used' = [used EXCEPT !.runs = @ + 1]
          /\ UNCHANGED <<role, index, roster, held, cached, over, session, todo, inbox>>
      BY <1>4 DEF PressStart
    <2> DEFINE r == Req("start", NoIndex, {})
    <2>2. r \in Sound /\ ~Opens(r)
      BY DEF Req, Sound, Request, Opens
    <2>3. requests[n] \in Seq(Sound) /\ requests \in [Node -> Seq(Sound)]
      BY DEF FlightTypes
    <2> HIDE DEF r
    <2> DEFINE q == Append(requests[n], r)
    <2>4. /\ q \in Seq(Sound) /\ Len(q) = Len(requests[n]) + 1 /\ Len(requests[n]) \in Nat
          /\ \A k \in 1..Len(requests[n]) : q[k] = requests[n][k]
          /\ q[Len(requests[n]) + 1] = r
      BY <2>2, <2>3, Appended
    <2>5. requests' = [requests EXCEPT ![n] = q]
      BY <2>1 DEF r
    <2> HIDE DEF q
    <2>6. FlightTypes'
      BY <2>1, <2>4, <2>5 DEF FlightTypes
    <2>7. phase' \in [Node -> Phases] /\ used' \in [joins: Nat, runs: Nat, crashes: Nat, untold: Nat]
      BY <2>1 DEF NodeTypes, Phases
    <2>8. NodeTypes' /\ Indexed'
      BY <2>1, <2>7 DEF NodeTypes, Indexed
    <2>9. requests'[n] = q /\ \A m \in Node : m # n => requests'[m] = requests[m]
      BY <2>3, <2>5
    <2>10. ASSUME NEW k \in 1..Len(q), Opens(q[k])
           PROVE  k \in 1..Len(requests[n]) /\ q[k] = requests[n][k]
      <3>1. k # Len(requests[n]) + 1
        BY <2>2, <2>4, <2>10
      <3>2. k \in 1..Len(requests[n])
        BY <2>4, <3>1
      <3> QED  BY <2>4, <3>2
    <2>11. ASSUME NEW m \in Node, NEW types \in SUBSET {"create", "join", "recreate"}, Asks(m, types)'
           PROVE  Asks(m, types)
      <3>1. CASE m = n
        <4>1. PICK k \in 1..Len(q) : q[k].type \in types
          BY <2>9, <2>11, <3>1 DEF Asks
        <4>2. k \in 1..Len(requests[n]) /\ requests[n][k].type \in types
          BY <2>10, <2>11, <4>1 DEF Opens
        <4> QED  BY <3>1, <4>2 DEF Asks
      <3>2. CASE m # n
        BY <2>9, <2>11, <3>2 DEF Asks
      <3> QED  BY <3>1, <3>2
    <2>12. ConnectedOnce'
      <3>1. \A m \in Node : \A k \in 1..Len(requests'[m]) : Opens(requests'[m][k]) => k = 1
        BY <2>9, <2>10 DEF ConnectedOnce
      <3>2. \A m \in Node : Registered(m)' <=> Registered(m)
        BY <2>1 DEF Registered
      <3>3. \A m \in Node : Live(m) => Live(m)'
        BY <2>1 DEF Live, NodeTypes
      <3>4. \A m \in Node : Asks(m, {"recreate"})' => phase'[m] = "playing" /\ role'[m] = "host"
        BY <2>1, <2>11 DEF ConnectedOnce, NodeTypes
      <3>5. \A i, j \in 1..Len(session'.connections) :
                session'.connections[i] = session'.connections[j] => i = j
        BY <2>1 DEF ConnectedOnce
      <3> QED  BY <2>11, <3>1, <3>2, <3>3, <3>4, <3>5 DEF ConnectedOnce
    <2>13. Untouched'
      BY <1>1, <2>11 DEF Untouched
    <2> QED  BY <2>6, <2>8, <2>12, <2>13
  <1>5. CASE EndDrain(n)
    <2>1. /\ phase[n] = "draining" /\ phase' = [phase EXCEPT ![n] = "playing"]
          /\ UNCHANGED <<role, index, roster, held, cached, over, session, requests, todo, inbox, used>>
      BY <1>5 DEF EndDrain
    <2>2. NodeTypes' /\ FlightTypes' /\ Indexed'
      BY <2>1 DEF NodeTypes, FlightTypes, Indexed, Phases
    <2>3. \A m \in Node : Asks(m, {"recreate"}) => phase'[m] = phase[m] /\ role'[m] = role[m]
      BY <2>1 DEF ConnectedOnce, NodeTypes
    <2>4. \A m \in Node : Live(m) => Live(m)'
      BY <2>1 DEF NodeTypes, Live
    <2> QED  BY <1>1, <2>1, <2>2, <2>3, <2>4, AsideKeeps
  <1>6. CASE MergeRoster(n)
    <2>1. UNCHANGED <<phase, role, index, held, cached, over, session, requests, todo, inbox, used>>
      BY <1>6 DEF MergeRoster
    <2>2. PICK h \in Node : roster' = [roster EXCEPT ![n] = @ \cup Unknown(n, h)]
      BY <1>6 DEF MergeRoster, Hosts
    <2>3. Unknown(n, h) \in SUBSET Entry
      BY DEF Unknown, NodeTypes
    <2>4. roster' \in [Node -> SUBSET Entry]
      BY <2>2, <2>3 DEF NodeTypes
    <2>5. NodeTypes' /\ FlightTypes' /\ Indexed'
      BY <2>1, <2>4 DEF NodeTypes, FlightTypes, Indexed
    <2> QED  BY <1>1, <2>1, <2>5, AsideKeeps DEF Live
  <1>7. CASE Evict(n)
    <2>1. UNCHANGED <<phase, role, index, cached, over, session, requests, todo, inbox, used>>
      BY <1>7 DEF Evict
    <2>2. PICK e \in roster[n], kept \in BOOLEAN :
            LET Gone(m) == {x \in roster[m] : /\ phase[m] = "playing"
                                              /\ x.index = e.index /\ index[m] # e.index}
            IN /\ roster' = [m \in Node |-> roster[m] \ Gone(m)]
               /\ held' = [m \in Node |-> IF kept /\ m \notin Hosts
                                         THEN held[m] \cup Indices(Gone(m)) ELSE held[m]]
      BY <1>7 DEF Evict
    <2>3. roster' \in [Node -> SUBSET Entry]
      BY <2>2 DEF NodeTypes
    <2>4. held' \in [Node -> SUBSET Index]
      BY <2>2 DEF NodeTypes, Indices, Entry
    <2>5. NodeTypes' /\ FlightTypes' /\ Indexed'
      BY <2>1, <2>3, <2>4 DEF NodeTypes, FlightTypes, Indexed
    <2> QED  BY <1>1, <2>1, <2>5, AsideKeeps DEF Live
  <1>8. CASE EndRun(n)
    <2>1. /\ phase[n] = "playing" /\ requests[n] = <<>>
          /\ phase' = [phase EXCEPT ![n] = "waiting"]
          /\ over' \subseteq Node
          /\ UNCHANGED <<role, index, roster, held, cached, session, requests, todo, inbox, used>>
      BY <1>8 DEF EndRun, NodeTypes
    <2>2. NodeTypes' /\ FlightTypes' /\ Indexed'
      BY <2>1 DEF NodeTypes, FlightTypes, Indexed, Phases
    <2>3. \A m \in Node : Asks(m, {"recreate"}) => m # n
      BY <2>1 DEF Asks
    <2>4. \A m \in Node : Asks(m, {"recreate"}) => phase'[m] = phase[m] /\ role'[m] = role[m]
      BY <2>1, <2>3 DEF NodeTypes
    <2>5. \A m \in Node : Live(m) => Live(m)'
      BY <2>1 DEF NodeTypes, Live
    <2> QED  BY <1>1, <2>1, <2>2, <2>4, <2>5, AsideKeeps
  <1> QED  BY <1>2, <1>3, <1>4, <1>5, <1>6, <1>7, <1>8

(* A crash: that of the host takes the service with it.                    *)
LEMMA CrashKeeps ==
    ASSUME LobbyInv, NEW n \in Node, Crash(n)
    PROVE  LobbyInv'
  <1> USE DEF LobbyInv
  <1>1. /\ Live(n)
        /\ role' = [role EXCEPT ![n] = "client"]
        /\ index' = [index EXCEPT ![n] = NoIndex]
        /\ roster' = [roster EXCEPT ![n] = {}]
        /\ held' = [held EXCEPT ![n] = {}]
        /\ over' = over \ {n}
        /\ cached' = cached \/ cached' = [cached EXCEPT ![n] = NoMetadata]
        /\ \E u \in {used.untold, used.untold + 1} :
                used' = [used EXCEPT !.crashes = used.crashes + 1, !.untold = u]
    BY DEF Crash, Forget, Quit
  <1>2. /\ role' \in [Node -> {"host", "client"}]
        /\ index' \in [Node -> Index \cup {NoIndex}]
        /\ roster' \in [Node -> SUBSET Entry] /\ held' \in [Node -> SUBSET Index]
        /\ over' \subseteq Node
    BY <1>1 DEF NodeTypes
  <1>3. /\ cached' \in [Node -> [index: Index \cup {NoIndex}, peers: SUBSET Node]]
        /\ used' \in [joins: Nat, runs: Nat, crashes: Nat, untold: Nat]
    <2> DEFINE M == [index: Index \cup {NoIndex}, peers: SUBSET Node]
    <2>1. cached \in [Node -> M] /\ NoMetadata \in M
      BY DEF NodeTypes, NoMetadata
    <2> HIDE DEF M
    <2>2. cached' \in [Node -> M]
      BY <1>1, <2>1
    <2>3. used' \in [joins: Nat, runs: Nat, crashes: Nat, untold: Nat]
      <3>1. PICK u \in {used.untold, used.untold + 1} :
                used' = [used EXCEPT !.crashes = used.crashes + 1, !.untold = u]
        BY <1>1
      <3>2. used \in [joins: Nat, runs: Nat, crashes: Nat, untold: Nat]
        BY DEF NodeTypes
      <3>3. u \in Nat /\ used.crashes + 1 \in Nat
        BY <3>2
      <3> QED  BY <3>1, <3>2, <3>3
    <2> QED  BY <2>2, <2>3 DEF M
  <1>4. CASE CrashClient(n)
    <2>1. /\ role[n] # "host"
          /\ phase' = [phase EXCEPT ![n] = "out"]
          /\ session' = Drop(n, session) /\ todo' = Unsent(n)
          /\ inbox' = [inbox EXCEPT ![n] = <<>>] /\ UNCHANGED requests
      BY <1>1, <1>4 DEF CrashClient, Hosts
    <2>2. \A m \in Node : ~Asks(m, {"create"})
      BY <1>1, <2>1, Created DEF Live, NodeTypes
    <2>3. phase' \in [Node -> Phases]
      BY <2>1 DEF NodeTypes, Phases
    <2>4. NodeTypes'
      BY <1>2, <1>3, <2>3 DEF NodeTypes
    <2>5. Indexed'
      BY <1>1, <2>1 DEF Indexed, NodeTypes
    <2>6. /\ session' \in Record
          /\ \A i, j \in 1..Len(session'.connections) :
                  session'.connections[i] = session'.connections[j] => i = j
          /\ \A m \in Node : Registered(m)' => Registered(m) /\ m # n
          /\ \A m \in Node : Registered(m)' => Live(m)'
      BY <2>1, DroppedKeeps
    <2>7. FlightTypes'
      <3>1. todo' \in [Node -> Seq(Pending)]
        BY <2>1, UnsentIs
      <3>2. inbox' \in [Node -> Seq(Sendable)]
        BY <2>1 DEF FlightTypes
      <3> QED  BY <2>1, <2>6, <3>1, <3>2 DEF FlightTypes
    <2>8. \A m \in Node : \A types \in SUBSET {"create", "join", "recreate"} :
              Asks(m, types)' <=> Asks(m, types)
      BY <2>1 DEF Asks
    <2>9. \A m \in Node : Asks(m, {"recreate"})' => phase'[m] = "playing" /\ role'[m] = "host"
      BY <1>1, <2>1, <2>8 DEF ConnectedOnce, NodeTypes
    <2>10. \A m \in Node : \A k \in 1..Len(requests'[m]) : Opens(requests'[m][k]) => k = 1
      BY <2>1 DEF ConnectedOnce
    <2>11. \A m \in Node : Asks(m, {"join"})' => ~Registered(m)'
      BY <2>6, <2>8 DEF ConnectedOnce
    <2>12. ConnectedOnce'
      BY <2>6, <2>9, <2>10, <2>11 DEF ConnectedOnce
    <2>13. Untouched'
      BY <2>2, <2>8 DEF Untouched
    <2> QED  BY <2>4, <2>5, <2>7, <2>12, <2>13
  <1>5. CASE CrashHost(n)
    <2>1. PICK survivors \in SUBSET Node, stranded \in SUBSET Node :
            /\ \A m \in survivors : phase[m] = "playing"
            /\ phase' = [m \in Node |-> IF m = n THEN "out"
                                ELSE IF m \in survivors THEN "electing"
                                ELSE IF m \in stranded THEN "stranded" ELSE phase[m]]
            /\ inbox' = [m \in Node |-> IF m \in survivors \cup stranded \cup {n} THEN <<>> ELSE inbox[m]]
      <3>1. /\ Survivors(n) \in SUBSET Node /\ Stranded(n) \in SUBSET Node
            /\ \A m \in Survivors(n) : phase[m] = "playing"
        BY DEF Survivors, Stranded
      <3> QED  BY <1>5, <3>1 DEF CrashHost
    <2>2. /\ session' = NoSession
          /\ requests' = [m \in Node |-> <<>>] /\ todo' = [m \in Node |-> <<>>]
      BY <1>5 DEF CrashHost
    <2>3. phase' \in [Node -> Phases]
      BY <2>1 DEF NodeTypes, Phases
    <2>4. NodeTypes'
      BY <1>2, <1>3, <2>3 DEF NodeTypes
    <2>5. Indexed'
      BY <1>1, <2>1 DEF Indexed, NodeTypes
    <2>6. FlightTypes'
      <3>1. inbox' \in [Node -> Seq(Sendable)]
        BY <2>1 DEF FlightTypes
      <3>2. NoSession \in Record
        BY DEF NoSession, Record
      <3> QED  BY <2>2, <3>1, <3>2 DEF FlightTypes
    <2>7. \A m \in Node : requests'[m] = <<>> /\ Len(requests'[m]) = 0
      BY <2>2
    <2>8. \A m \in Node : \A types : ~Asks(m, types)'
      BY <2>7 DEF Asks
    <2>9. session'.connections = <<>> /\ Len(session'.connections) = 0
          /\ DOMAIN session'.connections = {}
      BY <2>2 DEF NoSession
    <2>10. ConnectedOnce'
      BY <2>7, <2>8, <2>9 DEF ConnectedOnce, Registered
    <2> QED  BY <2>4, <2>5, <2>6, <2>8, <2>10 DEF Untouched
  <1> QED  BY <1>4, <1>5 DEF Crash

(* The promoted host re-registers the session under its own index.         *)
LEMMA PromoteKeeps ==
    ASSUME LobbyInv, NEW n \in Node, Promote(n)
    PROVE  LobbyInv'
  <1> USE DEF LobbyInv
  <1> DEFINE survivors == {m \in Node : phase[m] = "electing"}
  <1>1. /\ phase[n] = "electing"
        /\ role' = [role EXCEPT ![n] = "host"]
        /\ phase' = [m \in Node |-> IF m \in survivors THEN "playing" ELSE phase[m]]
        /\ UNCHANGED <<index, cached, over, session, todo, inbox, used>>
    BY DEF Promote
  <1>2. PICK kept \in BOOLEAN :
          LET Crashed(m) == {e \in roster[m] : m \in survivors /\ e.host}
              Left(m) == roster[m] \ Crashed(m)
              States(m) == held[m] \cup (IF kept THEN Indices(Crashed(m)) ELSE {})
          IN
          /\ roster' = [m \in Node |-> {[e EXCEPT !.host = IF m \in survivors
                                         THEN e.index = index[n] ELSE @] : e \in Left(m)}]
          /\ held' = [m \in Node |-> States(m)]
          /\ requests' = [requests EXCEPT ![n] =
                  <<Req("recreate", index[n], Reserved(n, Left(n), States(n)))>>]
    BY DEF Promote
  <1> DEFINE Crashed(m) == {e \in roster[m] : m \in survivors /\ e.host}
             Left(m) == roster[m] \ Crashed(m)
             States(m) == held[m] \cup (IF kept THEN Indices(Crashed(m)) ELSE {})
  <1>3. \A m \in Node : Left(m) \subseteq Entry /\ States(m) \subseteq Index
    BY DEF NodeTypes, Indices, Entry
  <1>4. roster' \in [Node -> SUBSET Entry]
    <2>1. ASSUME NEW e \in Entry, NEW h \in BOOLEAN
          PROVE  [e EXCEPT !.host = h] \in Entry
      BY DEF Entry
    <2>2. ASSUME NEW m \in Node, NEW e \in Left(m)
          PROVE  [e EXCEPT !.host = IF m \in survivors THEN e.index = index[n] ELSE @] \in Entry
      <3>1. e \in Entry
        BY <1>3, <2>2
      <3> QED  BY <3>1 DEF Entry
    <2> QED  BY <1>2, <2>2
  <1>5. held' \in [Node -> SUBSET Index]
    BY <1>2, <1>3
  <1>6. phase' \in [Node -> Phases] /\ role' \in [Node -> {"host", "client"}]
    BY <1>1 DEF NodeTypes, Phases
  <1>7. NodeTypes'
    BY <1>1, <1>4, <1>5, <1>6 DEF NodeTypes
  <1>8. Indexed'
    BY <1>1 DEF Indexed
  <1>9. index[n] \in Index
    BY <1>1 DEF Indexed
  <1>10. Reserved(n, Left(n), States(n)) \in SUBSET Index
    <2>1. Left(n) \subseteq Entry /\ States(n) \subseteq Index
      BY <1>3
    <2> HIDE DEF Left, States
    <2> QED  BY <2>1 DEF Reserved, Indices, Entry
  <1> DEFINE r == Req("recreate", index[n], Reserved(n, Left(n), States(n)))
  <1>11. r \in Sound /\ r.type = "recreate"
    <2> HIDE DEF Left, States
    <2> QED  BY <1>9, <1>10 DEF Req, Sound, Request
  <1>12. requests' = [requests EXCEPT ![n] = <<r>>]
    BY <1>2
  <1> HIDE DEF r
  <1>13. FlightTypes'
    <2>1. <<r>> \in Seq(Sound)
      BY <1>11
    <2> QED  BY <1>1, <1>12, <2>1 DEF FlightTypes
  <1>14. /\ requests'[n] = <<r>> /\ Len(requests'[n]) = 1 /\ requests'[n][1] = r
         /\ \A m \in Node : m # n => requests'[m] = requests[m]
    BY <1>12 DEF FlightTypes
  <1>15. ASSUME NEW m \in Node, NEW types \in SUBSET {"create", "join"}, Asks(m, types)'
         PROVE  m # n /\ Asks(m, types)
    <2>1. m # n
      BY <1>11, <1>14, <1>15 DEF Asks
    <2> QED  BY <1>14, <1>15, <2>1 DEF Asks
  <1>16. \A m \in Node : ~Asks(m, {"create"})
    BY <1>1, Created
  <1>17. ConnectedOnce'
    <2>1. \A m \in Node : Registered(m)' <=> Registered(m)
      BY <1>1 DEF Registered
    <2>2. \A m \in Node : Live(m) => Live(m)'
      BY <1>1 DEF Live
    <2>3. \A m \in Node : \A k \in 1..Len(requests'[m]) : Opens(requests'[m][k]) => k = 1
      BY <1>14 DEF ConnectedOnce
    <2>4. ASSUME NEW m \in Node, Asks(m, {"recreate"})'
          PROVE  phase'[m] = "playing" /\ role'[m] = "host"
      <3>1. CASE m = n
        BY <1>1, <3>1 DEF NodeTypes
      <3>2. CASE m # n
        <4>1. Asks(m, {"recreate"})
          BY <1>14, <2>4, <3>2 DEF Asks
        <4> QED  BY <1>1, <3>2, <4>1 DEF ConnectedOnce, NodeTypes
      <3> QED  BY <3>1, <3>2
    <2>5. \A i, j \in 1..Len(session'.connections) :
              session'.connections[i] = session'.connections[j] => i = j
      BY <1>1 DEF ConnectedOnce
    <2> QED  BY <1>15, <2>1, <2>2, <2>3, <2>4, <2>5 DEF ConnectedOnce
  <1>18. Untouched'
    BY <1>15, <1>16 DEF Untouched
  <1> QED  BY <1>7, <1>8, <1>13, <1>17, <1>18

-----------------------------------------------------------------------------
LEMMA InitKeeps == Init => LobbyInv
  <1> SUFFICES ASSUME Init PROVE LobbyInv
    OBVIOUS
  <1> USE LobbyAssumption
  <1>1. NodeTypes
    BY DEF Init, NodeTypes, Phases, NoMetadata
  <1>2. <<Req("create", NoIndex, {})>> \in Seq(Sound) /\ Req("create", NoIndex, {}).type = "create"
    BY DEF Req, Sound, Request
  <1>3. FlightTypes
    <2>1. requests \in [Node -> Seq(Sound)]
      BY <1>2 DEF Init
    <2>2. NoSession \in Record
      BY DEF NoSession, Record
    <2> QED  BY <2>1, <2>2 DEF Init, FlightTypes
  <1>4. Indexed
    BY DEF Init, Indexed
  <1>5. /\ requests[Creator] = <<Req("create", NoIndex, {})>> /\ Len(requests[Creator]) = 1
        /\ \A m \in Node : m # Creator => requests[m] = <<>> /\ Len(requests[m]) = 0
    BY DEF Init
  <1>6. ASSUME NEW m \in Node, NEW types, Asks(m, types)
        PROVE  m = Creator /\ "create" \in types
    BY <1>2, <1>5, <1>6 DEF Asks
  <1>7. session = NoSession /\ session.connections = <<>> /\ Len(session.connections) = 0
        /\ DOMAIN session.connections = {}
    BY DEF Init, NoSession
  <1>8. ConnectedOnce
    <2>1. ASSUME NEW m \in Node, NEW k \in 1..Len(requests[m])
          PROVE  k = 1
      <3>1. Len(requests[m]) = 0 \/ Len(requests[m]) = 1
        BY <1>5
      <3>2. \A L \in {0, 1} : k \in 1..L => k = 1
        OBVIOUS
      <3> QED  BY <3>1, <3>2
    <2>2. \A m \in Node : ~Registered(m)
      BY <1>7 DEF Registered
    <2> QED  BY <1>6, <1>7, <2>1, <2>2 DEF ConnectedOnce
  <1>9. Untouched
    BY <1>5, <1>6 DEF Untouched, Init
  <1> QED  BY <1>1, <1>3, <1>4, <1>8, <1>9 DEF LobbyInv

LEMMA StepKeeps ==
    ASSUME LobbyInv, [Next]_vars
    PROVE  LobbyInv'
  <1>1. CASE UNCHANGED vars
    <2> USE <1>1 DEF vars, nodeVars
    <2>1. NodeTypes' /\ FlightTypes' /\ Indexed'
      BY DEF LobbyInv, NodeTypes, FlightTypes, Indexed
    <2>2. ConnectedOnce'
      BY DEF LobbyInv, ConnectedOnce, Registered, Asks, Live
    <2>3. Untouched'
      BY DEF LobbyInv, Untouched, Asks
    <2> QED  BY <2>1, <2>2, <2>3 DEF LobbyInv
  <1>2. ASSUME NEW n \in Node, Handle(n)
        PROVE  LobbyInv'
    BY <1>2, HandleKeeps
  <1>3. ASSUME NEW n \in Node, Continue(n)
        PROVE  LobbyInv'
    BY <1>3, ContinueKeeps
  <1>4. ASSUME NEW n \in Node, NodeStep(n)
        PROVE  LobbyInv'
    <2>1. cached[n].index \in Index \cup {NoIndex}
      BY DEF LobbyInv, NodeTypes
    <2>2. CASE Join(n)
      BY <2>1, <2>2, EnterKeeps DEF Join
    <2>3. CASE Recover(n)
      <3>1. CASE Enter(n, cached[n].index)
        BY <2>1, <3>1, EnterKeeps
      <3>2. ASSUME cached' = [cached EXCEPT ![n] = NoMetadata],
                   UNCHANGED <<phase, role, index, roster, held, over, session,
                               requests, todo, inbox, used>>
            PROVE  LobbyInv'
        <4>1. cached' \in [Node -> [index: Index \cup {NoIndex}, peers: SUBSET Node]]
          BY <3>2 DEF LobbyInv, NodeTypes, NoMetadata
        <4>2. NodeTypes' /\ FlightTypes' /\ Indexed'
          BY <3>2, <4>1 DEF LobbyInv, NodeTypes, FlightTypes, Indexed
        <4>3. ConnectedOnce'
          BY <3>2 DEF LobbyInv, ConnectedOnce, Registered, Asks, Live
        <4>4. Untouched'
          BY <3>2 DEF LobbyInv, Untouched, Asks
        <4> QED  BY <4>2, <4>3, <4>4 DEF LobbyInv
      <3> QED  BY <2>3, <3>1, <3>2 DEF Recover
    <2>4. CASE Read(n)
      BY <2>4, ReadKeeps
    <2>5. CASE Crash(n)
      BY <2>5, CrashKeeps
    <2>6. CASE Promote(n)
      BY <2>6, PromoteKeeps
    <2> QED  BY <1>4, <2>2, <2>3, <2>4, <2>5, <2>6, LobbyStepKeeps DEF NodeStep
  <1> QED  BY <1>1, <1>2, <1>3, <1>4 DEF Next

(* Every list, message and roster of the lobby has its type, through any   *)
(* number of crashes and migrations: above all, a promoted host registers  *)
(* under a join index it has (Indexed), and a process is in the list of    *)
(* connections once, so that closing its socket takes it off the list.     *)
THEOREM LobbyTypes == LobbySpec => []LobbyTypeOK
  <1>1. LobbyInv => LobbyTypeOK
    <2>1. Sendable \subseteq Message /\ Pending \subseteq Task /\ Sound \subseteq Request
      BY DEF Sendable, Pending, Sound
    <2>2. \A S, T : S \subseteq T => Seq(S) \subseteq Seq(T)
      BY Narrower
    <2>3. /\ Seq(Sendable) \subseteq Seq(Message) /\ Seq(Pending) \subseteq Seq(Task)
          /\ Seq(Sound) \subseteq Seq(Request)
      BY <2>1, <2>2
    <2>4. ASSUME FlightTypes
          PROVE  /\ session \in Record /\ requests \in [Node -> Seq(Request)]
                 /\ todo \in [Node -> Seq(Task)] /\ inbox \in [Node -> Seq(Message)]
      BY <2>3, <2>4 DEF FlightTypes
    <2> QED  BY <2>4 DEF LobbyInv, NodeTypes, LobbyTypeOK
  <1>2. LobbyInv /\ [Next]_vars => LobbyInv'
    BY StepKeeps
  <1> QED  BY <1>1, <1>2, InitKeeps, PTL DEF LobbySpec

-----------------------------------------------------------------------------
(* The updates of the roster, when no handler is suspended: MaxSuspended   *)
(* is 0 and one handler works at a time.                                   *)

News(msg)     == msg.type = "roster"
NewsTo(t, n)  == t.do = "send" /\ t.to = n /\ News(t.msg)

(* What a handler has still to do: to answer, which it does first and to   *)
(* its own socket, to read the roster or to close the session, which it    *)
(* does last, and rosters to send, which are the present one.              *)
Announces(q)    == \E k \in 1..Len(q) : q[k].do \in {"announce", "drop"}
Carries(q, n)   == \E k \in 1..Len(q) : NewsTo(q[k], n)
DropsLast(q)    == \A k \in 1..Len(q) : q[k].do = "drop" => k = Len(q)
Current(q, es)  == \A k \in 1..Len(q) : q[k].do = "send" /\ News(q[k].msg) => q[k].msg.players = es

AnswersFirst(q, n) ==
    \A k \in 1..Len(q) : Answer(q[k]) =>
        /\ k = 1 /\ q[k].to = n
        /\ \A j \in 1..Len(q) : j = 1 \/ q[j].do \in {"announce", "resume"}

OneAtWork ==
    /\ \A m, n \in Node : todo[m] # <<>> /\ todo[n] # <<>> => m = n
    /\ \A n \in Node : /\ DropsLast(todo[n]) /\ Current(todo[n], session.entries)
                       /\ AnswersFirst(todo[n], n)

Settled == ~session.open => session = NoSession

(* Who has played has its metadata on disk.                                *)
Played ==
    \A n \in Node : phase[n] \in {"draining", "playing", "electing"} => cached[n] # NoMetadata

(* The rosters that show who is connected and nobody who has left: the     *)
(* session itself, and what it was before the silent join of a process     *)
(* that has ended.                                                         *)
Fitting ==
    {players \in SUBSET Entry :
        /\ \A e \in session.entries : Registered(e.at) => e \in players
        /\ Indices(players) \subseteq Indices(session.entries)}

(* The last roster that a node has not read yet is one of them, and with   *)
(* none left to read the node shows one of them.                           *)
LastIs(box, rs) ==
    \A k \in 1..Len(box) :
        News(box[k]) /\ (\A j \in 1..Len(box) : j > k => ~News(box[j]))
            => box[k].players \in rs
NewsIn(box) == \E k \in 1..Len(box) : News(box[k])
Told(box, shown, rs) == LastIs(box, rs) /\ (~NewsIn(box) => shown \in rs)

(* It is so for a node in its first lobby, unless a roster is on its way.  *)
ToldAt(n) == Registered(n) /\ cached[n] = NoMetadata => Told(inbox[n], roster[n], Fitting)
Informed ==
    \A n \in Node :
        (\A m \in Node : ~Announces(todo[m]) /\ ~Carries(todo[m], n)) => ToldAt(n)

(* A handler whose answer may fail may never announce what it has to.      *)
Failing(n) == todo[n] # <<>> /\ Answer(Head(todo[n])) /\ ~Live(n)
Silenced   == \A n \in Node : Failing(n) => \A m \in Node : ToldAt(m)

RosterInv == OneAtWork /\ Settled /\ Played /\ Informed /\ Silenced

LEMMA Empty == \A n \in Node : todo[n] = <<>> =>
                  /\ ~Announces(todo[n]) /\ DropsLast(todo[n])
                  /\ \A m : ~Carries(todo[n], m)
                  /\ \A es : Current(todo[n], es)
                  /\ AnswersFirst(todo[n], n) /\ ~Failing(n)
  BY DEF Announces, Carries, DropsLast, Current, AnswersFirst, Failing

(* The session itself fits, and a roster that fits goes on to, as long as  *)
(* no connection and no other join is added.                               *)
LEMMA Fits ==
    /\ LobbyInv => session.entries \in Fitting
    /\ (/\ session'.entries = session.entries
        /\ \A n \in Node : Registered(n)' => Registered(n))
       => (LobbyInv => Fitting \subseteq Fitting')
  <1>1. ASSUME LobbyInv
        PROVE  session.entries \in SUBSET Entry /\ \A e \in Entry : e.at \in Node
    BY <1>1 DEF LobbyInv, FlightTypes, Record, Entry
  <1>2. LobbyInv => session.entries \in Fitting
    BY <1>1 DEF Fitting
  <1>3. ASSUME LobbyInv, session'.entries = session.entries,
               \A n \in Node : Registered(n)' => Registered(n)
        PROVE  Fitting \subseteq Fitting'
    BY <1>1, <1>3 DEF Fitting
  <1> QED  BY <1>2, <1>3

LEMMA StillTold ==
    ASSUME NEW box, NEW shown, NEW rs, NEW more, rs \subseteq more, Told(box, shown, rs)
    PROVE  Told(box, shown, more)
  BY DEF Told, LastIs

LEMMA StillLast ==
    ASSUME NEW box, NEW rs, NEW more, rs \subseteq more, LastIs(box, rs)
    PROVE  LastIs(box, more)
  BY DEF LastIs

(* A step that is not of a handler at work finds them all at rest.         *)
LEMMA AtRest ==
    ASSUME MaxSuspended = 0, OneAtWork, Undisturbed
    PROVE  \A n \in Node : todo[n] = <<>>
  <1> DEFINE W == {n \in Node : todo[n] # <<>>}
  <1>1. SUFFICES ASSUME NEW n \in Node, todo[n] # <<>> PROVE FALSE
    OBVIOUS
  <1>2. W = {n}
    BY <1>1 DEF OneAtWork
  <1>3. Cardinality(W) = 1
    BY <1>2, FS_Singleton
  <1>4. Cardinality(W) <= 0
    BY DEF Undisturbed
  <1> QED  BY <1>3, <1>4

(* Reading the first message.                                              *)
LEMMA Heard ==
    ASSUME NEW box \in Seq(Sendable), box # <<>>, NEW shown, NEW rs, Told(box, shown, rs),
           NEW now, now = (IF News(Head(box)) THEN Head(box).players ELSE shown)
    PROVE  Told(Tail(box), now, rs)
  <1> DEFINE rest == Tail(box)
  <1>1. /\ Head(box) = box[1] /\ Len(box) \in Nat /\ Len(box) > 0
        /\ Len(rest) = Len(box) - 1 /\ \A i \in 1..Len(rest) : rest[i] = box[i + 1]
    BY Tailed
  <1>2. 1 \in 1..Len(box) /\ \A i \in 1..Len(rest) : i + 1 \in 1..Len(box)
    BY <1>1
  <1>3. \A j \in 1..Len(box) : j # 1 => j - 1 \in 1..Len(rest) /\ box[j] = rest[j - 1]
    BY <1>1
  <1> HIDE DEF rest
  <1>4. LastIs(rest, rs)
    <2>1. SUFFICES ASSUME NEW k \in 1..Len(rest), News(rest[k]),
                          \A j \in 1..Len(rest) : j > k => ~News(rest[j])
                   PROVE  rest[k].players \in rs
      BY DEF LastIs
    <2>2. \A j \in 1..Len(box) : j > k + 1 => ~News(box[j])
      BY <1>1, <1>3, <2>1
    <2>3. box[k + 1].players \in rs
      BY <1>1, <1>2, <2>1, <2>2 DEF Told, LastIs
    <2> QED  BY <1>1, <2>3
  <1>5. ASSUME ~NewsIn(rest)
        PROVE  now \in rs
    <2>1. \A j \in 1..Len(box) : j > 1 => ~News(box[j])
      BY <1>3, <1>5 DEF NewsIn
    <2>2. CASE News(Head(box))
      BY <1>1, <1>2, <2>1, <2>2 DEF Told, LastIs
    <2>3. CASE ~News(Head(box))
      <3>1. ~NewsIn(box)
        BY <1>1, <2>1, <2>3 DEF NewsIn
      <3> QED  BY <2>3, <3>1 DEF Told
    <2> QED  BY <2>2, <2>3
  <1> QED  BY <1>4, <1>5 DEF Told, rest

(* A message more: the present roster, or no roster.                       *)
LEMMA Hears ==
    ASSUME NEW box \in Seq(Sendable), NEW msg \in Sendable, NEW shown, NEW rs,
           IF News(msg) THEN msg.players \in rs ELSE Told(box, shown, rs)
    PROVE  Told(Append(box, msg), shown, rs)
  <1> DEFINE b == Append(box, msg)
  <1>1. /\ Len(b) = Len(box) + 1 /\ Len(box) \in Nat
        /\ \A i \in 1..Len(box) : b[i] = box[i]
        /\ b[Len(box) + 1] = msg
    BY Appended
  <1>2. \A k \in 1..Len(b) : k \in 1..Len(box) \/ k = Len(b)
    BY <1>1
  <1>3. Len(b) \in 1..Len(b) /\ \A k \in 1..Len(box) : k \in 1..Len(b) /\ k < Len(b)
    BY <1>1
  <1> HIDE DEF b
  <1>4. CASE News(msg)
    <2>1. NewsIn(b) /\ b[Len(b)] = msg
      BY <1>1, <1>3, <1>4 DEF NewsIn
    <2>2. LastIs(b, rs)
      BY <1>2, <1>3, <1>4, <2>1 DEF LastIs
    <2> QED  BY <2>1, <2>2 DEF Told, b
  <1>5. CASE ~News(msg)
    <2>1. \A k \in 1..Len(b) : News(b[k]) => k \in 1..Len(box) /\ b[k] = box[k]
      BY <1>1, <1>2, <1>5
    <2>2. LastIs(b, rs)
      BY <1>1, <1>3, <1>5, <2>1 DEF LastIs, Told
    <2>3. ~NewsIn(b) => ~NewsIn(box)
      BY <1>1, <1>3 DEF NewsIn
    <2> QED  BY <1>5, <2>2, <2>3 DEF Told, b
  <1> QED  BY <1>4, <1>5

(* A step of a node: it reads a message, or changes what it shows only in  *)
(* a run; no connection is added.                                          *)
Listens(n) ==
    cached'[n] = NoMetadata =>
        /\ cached[n] = NoMetadata
        /\ \/ inbox'[n] = inbox[n] /\ roster'[n] = roster[n]
           \/ /\ inbox[n] # <<>> /\ inbox'[n] = Tail(inbox[n])
              /\ roster'[n] = IF News(Head(inbox[n])) THEN Head(inbox[n]).players ELSE roster[n]

LEMMA NodeKeepsRosters ==
    ASSUME LobbyInv, RosterInv, \A n \in Node : todo[n] = <<>> /\ todo'[n] = <<>>,
           Played',
           \/ session' = NoSession
           \/ /\ session'.open = session.open /\ session'.entries = session.entries
              /\ ~session.open => session' = session
              /\ \A n \in Node : Registered(n)' => Registered(n) /\ Listens(n)
    PROVE  RosterInv'
  <1>1. OneAtWork' /\ Silenced'
    <2>1. \A k \in 1..Len(<<>>) : FALSE
      OBVIOUS
    <2> QED  BY <2>1 DEF OneAtWork, DropsLast, Current, AnswersFirst, Silenced, Failing
  <1>2. Settled'
    BY DEF RosterInv, Settled
  <1>3. Informed'
    <2>1. CASE session' = NoSession
      <3>1. DOMAIN session'.connections = {}
        BY <2>1 DEF NoSession
      <3> QED  BY <3>1 DEF Informed, ToldAt, Registered
    <2>2. ASSUME NEW n \in Node, Registered(n)', cached'[n] = NoMetadata,
                 session'.entries = session.entries, Registered(n), Listens(n),
                 \A m \in Node : Registered(m)' => Registered(m)
          PROVE  Told(inbox'[n], roster'[n], Fitting')
      <3>1. Told(inbox[n], roster[n], Fitting)
        BY <2>2, Empty DEF RosterInv, Informed, ToldAt, Listens
      <3>2. inbox[n] \in Seq(Sendable)
        BY DEF LobbyInv, FlightTypes
      <3>3. Told(inbox'[n], roster'[n], Fitting)
        BY <2>2, <3>1, <3>2, Heard DEF Listens
      <3>4. Fitting \subseteq Fitting'
        BY <2>2, Fits
      <3> QED  BY <3>3, <3>4, StillTold
    <2> QED  BY <2>1, <2>2 DEF Informed, ToldAt
  <1> QED  BY <1>1, <1>2, <1>3 DEF RosterInv

(* A step of the service after which it has yet to read the roster, or     *)
(* that changes nothing of it.                                             *)
LEMMA ServiceKeepsRosters ==
    ASSUME LobbyInv, RosterInv, NEW n \in Node, \A m \in Node : m # n => todo[m] = <<>>,
           NEW q, todo' = [todo EXCEPT ![n] = q],
           UNCHANGED <<phase, roster, cached, inbox>>,
           Settled', DropsLast(q), Current(q, session'.entries), AnswersFirst(q, n),
           \A m \in Node :
                Registered(m)' /\ cached[m] = NoMetadata /\ ~Announces(q) /\ ~Carries(q, m) =>
                    /\ \A l \in Node : Registered(l)' => Registered(l)
                    /\ session'.entries = session.entries
                    /\ ~Announces(todo[n]) /\ ~Carries(todo[n], m),
           q # <<>> /\ Answer(Head(q)) => Live(n) \/ \A m \in Node : ToldAt(m)'
    PROVE  RosterInv'
  <1>1. todo'[n] = q /\ \A m \in Node : m # n => todo'[m] = <<>>
    BY DEF LobbyInv, FlightTypes
  <1>2. OneAtWork'
    <2>1. \A k \in 1..Len(<<>>) : FALSE
      OBVIOUS
    <2> QED  BY <1>1, <2>1 DEF OneAtWork, DropsLast, Current, AnswersFirst
  <1>3. Played'
    BY DEF RosterInv, Played
  <1>4. Informed'
    <2>1. SUFFICES ASSUME NEW m \in Node, Registered(m)', cached'[m] = NoMetadata,
                          \A l \in Node : ~Announces(todo'[l]) /\ ~Carries(todo'[l], m)
                   PROVE  Told(inbox'[m], roster'[m], Fitting')
      BY DEF Informed, ToldAt
    <2>2. ~Announces(q) /\ ~Carries(q, m)
      BY <1>1, <2>1
    <2>3. /\ \A l \in Node : Registered(l)' => Registered(l)
          /\ session'.entries = session.entries
          /\ ~Announces(todo[n]) /\ ~Carries(todo[n], m)
      BY <2>1, <2>2
    <2>4. \A l \in Node : ~Announces(todo[l]) /\ ~Carries(todo[l], m)
      BY <2>3, Empty
    <2>5. Told(inbox'[m], roster'[m], Fitting)
      BY <2>1, <2>3, <2>4 DEF RosterInv, Informed, ToldAt
    <2>6. Fitting \subseteq Fitting'
      BY <2>3, Fits
    <2> QED  BY <2>5, <2>6, StillTold
  <1>5. Silenced'
    <2>1. \A m \in Node : Live(m)' <=> Live(m)
      BY DEF Live
    <2>2. \A m \in Node : m # n => ~Failing(m)'
      BY <1>1 DEF Failing
    <2> QED  BY <1>1, <2>1, <2>2 DEF Silenced, Failing
  <1> QED  BY <1>2, <1>3, <1>4, <1>5 DEF RosterInv

(* A message to all is not a roster and reads none.                        *)
LEMMA ToAllTasks ==
    ASSUME session \in Record, NEW msg
    PROVE  /\ Len(ToAll(msg)) = Len(session.connections) /\ Len(session.connections) \in Nat
           /\ \A k \in 1..Len(session.connections) :
                /\ ToAll(msg)[k] = Send(session.connections[k], msg)
                /\ ToAll(msg)[k].do = "send" /\ ToAll(msg)[k].msg = msg
                /\ ToAll(msg)[k].to = session.connections[k]
           /\ \A n \in Node : Registered(n) =>
                \E k \in 1..Len(session.connections) : ToAll(msg)[k].to = n
  <1>1. session.connections \in Seq(Node)
    BY DEF Record
  <1>2. DOMAIN session.connections = 1..Len(session.connections) /\ Len(session.connections) \in Nat
    BY <1>1
  <1>3. ToAll(msg) = [k \in 1..Len(session.connections) |-> Send(session.connections[k], msg)]
    BY <1>2 DEF ToAll
  <1>4. Len(ToAll(msg)) = Len(session.connections)
    BY <1>2, <1>3
  <1>5. \A k \in 1..Len(session.connections) : ToAll(msg)[k] = Send(session.connections[k], msg)
    BY <1>3
  <1>6. \A c : Send(c, msg).do = "send" /\ Send(c, msg).msg = msg /\ Send(c, msg).to = c
    BY DEF Send
  <1>7. \A n \in Node : Registered(n) =>
            \E k \in 1..Len(session.connections) : session.connections[k] = n
    BY <1>2 DEF Registered
  <1> HIDE DEF ToAll
  <1> QED  BY <1>2, <1>4, <1>5, <1>6, <1>7

LEMMA NotRoster ==
    \A type \in {"created", "joined", "rejected", "start", "closed"} :
        \A i, players : ~News(Msg(type, i, players))
  BY DEF News, Msg

(* Only the first of a handler's sends may be an answer.                   *)
LEMMA NoAnswers ==
    /\ \A q, n : (\A k \in 1..Len(q) : ~Answer(q[k])) => AnswersFirst(q, n)
    /\ \A q \in Seq(Pending) : (\A k \in 1..Len(q) : ~Answer(q[k])) /\ q # <<>> => ~Answer(Head(q))
    /\ \A t : t.do # "send" => ~Answer(t)
    /\ \A type \in {"roster", "start", "closed"} : \A i, players, t :
            t.msg = Msg(type, i, players) => ~Answer(t)
  <1>1. ASSUME NEW q \in Seq(Pending), \A k \in 1..Len(q) : ~Answer(q[k]), q # <<>>
        PROVE  ~Answer(Head(q))
    <2>1. Head(q) = q[1] /\ 1 \in 1..Len(q)
      BY <1>1
    <2> QED  BY <1>1, <2>1
  <1> QED  BY <1>1 DEF AnswersFirst, Answer, Answers, Msg

(* Handling a request.                                                     *)
LEMMA HandleKeepsRosters ==
    ASSUME MaxSuspended = 0, LobbyInv, RosterInv, NEW n \in Node, Handle(n)
    PROVE  RosterInv'
  <1>1. /\ requests[n] \in Seq(Sound) /\ requests[n] # <<>>
        /\ UNCHANGED <<phase, roster, cached, inbox>>
    BY DEF Handle, LobbyInv, FlightTypes, nodeVars
  <1>2. \A m \in Node : todo[m] = <<>>
    BY AtRest DEF Handle, RosterInv
  <1>3. ~Announces(todo[n]) /\ \A m : ~Carries(todo[n], m)
    BY <1>2, Empty
  <1>4. session \in Record /\ todo \in [Node -> Seq(Pending)]
    BY DEF LobbyInv, FlightTypes
  <1> DEFINE r == Head(requests[n])
  <1>5. Head(requests[n]) = requests[n][1] /\ Len(requests[n]) \in Nat /\ Len(requests[n]) > 0
    BY <1>1, Tailed
  <1>6. Asks(n, {r.type})
    BY <1>5 DEF Asks
  <1>7. ASSUME NEW q, todo' = [todo EXCEPT ![n] = q], Settled', DropsLast(q),
               Current(q, session'.entries), AnswersFirst(q, n),
               \A m \in Node :
                    Registered(m)' /\ cached[m] = NoMetadata /\ ~Announces(q) =>
                        /\ \A l \in Node : Registered(l)' => Registered(l)
                        /\ session'.entries = session.entries,
               \/ q # <<>> => ~Answer(Head(q))
               \/ Live(n)
               \/ /\ \A m \in Node : Registered(m)' => Registered(m)
                  /\ Fitting \subseteq Fitting'
        PROVE  RosterInv'
    <2>1. \A m \in Node : ToldAt(m)
      BY <1>2, Empty DEF RosterInv, Informed
    <2>2. ASSUME \A m \in Node : Registered(m)' => Registered(m), Fitting \subseteq Fitting'
          PROVE  \A m \in Node : ToldAt(m)'
      BY <1>1, <2>1, <2>2, StillTold DEF ToldAt
    <2> QED  BY <1>1, <1>2, <1>3, <1>7, <2>2, ServiceKeepsRosters
  <1>8. \A m \in Node : session' = session => (Registered(m)' <=> Registered(m))
    BY DEF Registered
  <1>9. ASSUME r.type = "create", CreateSession(n)
        PROVE  RosterInv'
    <2> DEFINE a == Send(n, Msg("created", 0, {}))
               b == Do("announce", n)
               q == <<a, b>>
    <2>1. todo' = [todo EXCEPT ![n] = q]
      BY <1>9 DEF CreateSession
    <2>2. /\ a.do = "send" /\ ~News(a.msg) /\ b.do = "announce"
          /\ Len(q) = 2 /\ q[1] = a /\ q[2] = b /\ 2 \in 1..2 /\ \A k \in 1..2 : k = 1 \/ k = 2
      BY NotRoster DEF Send, Do
    <2>3. session'.open /\ Live(n)
      <3>1. phase[n] = "joining"
        BY <1>6, <1>9 DEF LobbyInv, Untouched
      <3> QED  BY <1>9, <3>1 DEF CreateSession, NoSession, Live
    <2>6. ~Answer(b) /\ a.to = n
      BY NoAnswers DEF Send, Do
    <2> HIDE DEF a, b, q
    <2>4. Announces(q)
      BY <2>2 DEF Announces
    <2>5. DropsLast(q) /\ Current(q, session'.entries)
      BY <2>2 DEF DropsLast, Current
    <2>7. AnswersFirst(q, n)
      BY <2>2, <2>6 DEF AnswersFirst
    <2> QED  BY <1>7, <2>1, <2>3, <2>4, <2>5, <2>7 DEF Settled
  <1>10. ASSUME r.type = "join", JoinSession(n, r.index)
         PROVE  RosterInv'
    <2>1. CASE Refused(r.index)
      <3> DEFINE a == Send(n, Msg("rejected", NoIndex, {}))
                 q == <<a>>
      <3>1. todo' = [todo EXCEPT ![n] = q] /\ session' = session
        BY <1>10, <2>1 DEF JoinSession
      <3>2. /\ a.do = "send" /\ a.to = n /\ ~News(a.msg)
            /\ Len(q) = 1 /\ q[1] = a /\ \A k \in 1..1 : k = 1
        BY NotRoster DEF Send
      <3> HIDE DEF a, q
      <3>3. DropsLast(q) /\ Current(q, session'.entries) /\ AnswersFirst(q, n)
        BY <3>2 DEF DropsLast, Current, AnswersFirst
      <3>4. Fitting \subseteq Fitting'
        BY <1>8, <3>1, Fits
      <3> QED  BY <1>7, <1>8, <3>1, <3>3, <3>4 DEF Settled, RosterInv
    <2>2. CASE ~Refused(r.index)
      <3> DEFINE a == Send(n, Msg("joined", Slot(r.index), {}))
                 b == Do("announce", n)
                 c == Do("resume", n)
                 q == <<a, b, c>>
      <3>1. todo' = [todo EXCEPT ![n] = q]
        BY <1>10, <2>2 DEF JoinSession, Welcome
      <3>2. /\ a.do = "send" /\ ~News(a.msg) /\ b.do = "announce" /\ c.do = "resume"
            /\ Len(q) = 3 /\ q[1] = a /\ q[2] = b /\ q[3] = c /\ 2 \in 1..3
            /\ \A k \in 1..3 : k = 1 \/ k = 2 \/ k = 3
        BY NotRoster DEF Send, Do
      <3>6. ~Answer(b) /\ ~Answer(c) /\ a.to = n
        BY NoAnswers DEF Send, Do
      <3> HIDE DEF a, b, c, q
      <3>3. Announces(q)
        BY <3>2 DEF Announces
      <3>4. DropsLast(q) /\ Current(q, session'.entries)
        BY <3>2 DEF DropsLast, Current
      <3>7. AnswersFirst(q, n)
        BY <3>2, <3>6 DEF AnswersFirst
      <3>5. /\ session'.open
            /\ ~Live(n) => /\ \A m \in Node : Registered(m)' => Registered(m)
                           /\ Fitting \subseteq Fitting'
        <4>1. session.open
          BY <2>2 DEF Refused
        <4> DEFINE i == Slot(r.index)
                   e == {x \in session.entries : x.index # i}
                           \cup {[index |-> i, at |-> n, host |-> FALSE]}
                   l == IF Live(n) THEN Append(session.connections, n) ELSE session.connections
        <4>2. session' = [session EXCEPT !.entries = e, !.reserved = StillReserved(i),
                                         !.connections = l]
          BY <1>10, <2>2 DEF JoinSession
        <4>3. l = session.connections \/ Live(n)
          OBVIOUS
        <4>4. PICK x \in e : /\ x.index = i /\ x.at = n
                             /\ \A y \in e : y = x \/ y \in session.entries
                             /\ \A y \in session.entries : y.index # i => y \in e
          <5>1. [index |-> i, at |-> n, host |-> FALSE] \in e
            OBVIOUS
          <5> QED  BY <5>1
        <4> HIDE DEF e, i, l
        <4>5. session'.open /\ session'.entries = e /\ session'.connections = l
          BY <1>4, <4>1, <4>2 DEF Record
        <4>6. ASSUME ~Live(n)
              PROVE  /\ \A m \in Node : Registered(m)' <=> Registered(m)
                     /\ ~Registered(n)
          BY <4>3, <4>5, <4>6 DEF Registered, LobbyInv, ConnectedOnce
        <4>7. ASSUME ~Live(n)
              PROVE  Fitting \subseteq Fitting'
          <5>1. SUFFICES ASSUME NEW players \in Fitting PROVE players \in Fitting'
            OBVIOUS
          <5>2. /\ players \in SUBSET Entry
                /\ \A f \in session.entries : Registered(f.at) => f \in players
                /\ Indices(players) \subseteq Indices(session.entries)
            BY <5>1 DEF Fitting
          <5>3. \A f \in session'.entries : Registered(f.at)' => f \in players
            <6>1. SUFFICES ASSUME NEW f \in e, Registered(f.at)' PROVE f \in players
              BY <4>5
            <6>2. CASE f = x
              <7>1. Registered(n)'
                BY <4>4, <6>1, <6>2
              <7> QED  BY <4>6, <4>7, <7>1
            <6>3. CASE f \in session.entries
              <7>1. f.at \in Node
                BY <1>4, <6>3 DEF Record, Entry
              <7> QED  BY <4>6, <4>7, <5>2, <6>1, <6>3, <7>1
            <6> QED  BY <4>4, <6>1, <6>2, <6>3
          <5>4. Indices(session.entries) \subseteq Indices(e)
            BY <4>4 DEF Indices
          <5> QED  BY <4>5, <5>2, <5>3, <5>4 DEF Fitting
        <4> QED  BY <4>5, <4>6, <4>7
      <3> QED  BY <1>7, <3>1, <3>3, <3>4, <3>5, <3>7 DEF Settled
    <2> QED  BY <2>1, <2>2
  <1>11. ASSUME r.type = "recreate", RecreateSession(n, r.index, r.reserved)
         PROVE  RosterInv'
    <2> DEFINE a == Send(n, Msg("created", 0, {}))
               q == <<a>>
    <2>1. todo' = [todo EXCEPT ![n] = q]
      BY <1>11 DEF RecreateSession
    <2>2. /\ a.do = "send" /\ a.to = n /\ ~News(a.msg)
          /\ Len(q) = 1 /\ q[1] = a /\ \A k \in 1..1 : k = 1
      BY NotRoster DEF Send
    <2> HIDE DEF a, q
    <2>3. DropsLast(q) /\ Current(q, session'.entries) /\ AnswersFirst(q, n)
      BY <2>2 DEF DropsLast, Current, AnswersFirst
    <2>4. session'.open /\ session'.connections = <<n>>
      BY <1>11 DEF RecreateSession
    <2>5. \A m \in Node : Registered(m)' => m = n
      BY <2>4 DEF Registered
    <2>6. cached[n] # NoMetadata /\ Live(n)
      BY <1>6, <1>11 DEF LobbyInv, ConnectedOnce, RosterInv, Played, Live
    <2> QED  BY <1>7, <2>1, <2>3, <2>4, <2>5, <2>6 DEF Settled
  <1>12. ASSUME r.type = "leave", LeaveSession(n, r.index)
         PROVE  RosterInv'
    <2>1. CASE ~session.open
      <3>1. session' = session /\ todo' = todo /\ todo' = [todo EXCEPT ![n] = <<>>]
        BY <1>2, <1>4, <1>12, <2>1 DEF LeaveSession
      <3>2. DropsLast(<<>>) /\ Current(<<>>, session'.entries) /\ AnswersFirst(<<>>, n)
        BY DEF DropsLast, Current, AnswersFirst
      <3> QED  BY <1>7, <1>8, <3>1, <3>2 DEF Settled, RosterInv
    <2>2. CASE session.open
      <3> DEFINE leaving == {e \in session.entries : e.index = r.index}
      <3>1. /\ session' = [session EXCEPT !.entries = session.entries \ leaving]
            /\ todo' = [todo EXCEPT ![n] = Farewell(n, leaving)]
        BY <1>12, <2>2 DEF LeaveSession
      <3> HIDE DEF leaving
      <3>2. session'.open
        BY <1>4, <2>2, <3>1 DEF Record
      <3>3. CASE \E e \in leaving : e.host
        <4> DEFINE msg == Msg("closed", NoIndex, {})
                   d == Do("drop", n)
                   p == ToAll(msg)
                   q == p \o <<d>>
        <4>1. todo' = [todo EXCEPT ![n] = q]
          BY <3>1, <3>3 DEF Farewell
        <4>2. ~News(msg) /\ d.do = "drop" /\ d \in Pending /\ msg \in Sendable
          BY NotRoster, DoIs, MsgIs DEF Do
        <4>3. /\ Len(p) \in Nat /\ \A k \in 1..Len(p) : p[k].do = "send" /\ p[k].msg = msg
          BY <1>4, ToAllTasks
        <4>4. p \in Seq(Pending)
          BY <1>4, <4>2, ToAllIs
        <4>5. Append(p, d) = q /\ q \in Seq(Pending)
          BY <4>2, <4>4
        <4>11. ~Answer(d) /\ \A k \in 1..Len(p) : ~Answer(p[k])
          BY <4>3, NoAnswers DEF Do
        <4> HIDE DEF msg, d, p
        <4>6. /\ Len(q) = Len(p) + 1 /\ q[Len(p) + 1] = d
              /\ \A k \in 1..Len(p) : q[k] = p[k]
          <5>1. /\ Len(Append(p, d)) = Len(p) + 1 /\ Append(p, d)[Len(p) + 1] = d
                /\ \A k \in 1..Len(p) : Append(p, d)[k] = p[k]
            BY <4>2, <4>4, Appended
          <5> QED  BY <4>5, <5>1
        <4> HIDE DEF q
        <4>7. \A k \in 1..Len(q) : k \in 1..Len(p) \/ k = Len(q)
          BY <4>3, <4>6
        <4>8. Announces(q)
          <5>1. Len(q) \in 1..Len(q)
            BY <4>3, <4>6
          <5> QED  BY <4>2, <4>6, <5>1 DEF Announces
        <4>9. DropsLast(q)
          BY <4>3, <4>6, <4>7 DEF DropsLast
        <4>10. Current(q, session'.entries)
          BY <4>2, <4>3, <4>6, <4>7 DEF Current
        <4>12. AnswersFirst(q, n) /\ (q # <<>> => ~Answer(Head(q)))
          <5>1. \A k \in 1..Len(q) : ~Answer(q[k])
            BY <4>3, <4>6, <4>7, <4>11
          <5> QED  BY <4>5, <5>1, NoAnswers
        <4> QED  BY <1>7, <3>2, <4>1, <4>8, <4>9, <4>10, <4>12 DEF Settled
      <3>4. CASE ~\E e \in leaving : e.host
        <4> DEFINE a == Do("announce", n)
                   q == <<a>>
        <4>1. todo' = [todo EXCEPT ![n] = q]
          BY <3>1, <3>4 DEF Farewell
        <4>2. /\ a.do = "announce" /\ ~Answer(a) /\ Head(q) = a
              /\ Len(q) = 1 /\ q[1] = a /\ \A k \in 1..1 : k = 1
          BY NoAnswers DEF Do
        <4> HIDE DEF a, q
        <4>3. /\ Announces(q) /\ DropsLast(q) /\ Current(q, session'.entries)
              /\ AnswersFirst(q, n) /\ ~Answer(Head(q))
          BY <4>2 DEF DropsLast, Current, Announces, AnswersFirst
        <4> QED  BY <1>7, <3>2, <4>1, <4>3 DEF Settled
      <3> QED  BY <3>3, <3>4
    <2> QED  BY <2>1, <2>2
  <1>13. ASSUME r.type = "start", StartSession(n)
         PROVE  RosterInv'
    <2> DEFINE msg == Msg("start", NoIndex, {})
               q == ToAll(msg)
    <2>1. todo' = [todo EXCEPT ![n] = q] /\ session' = [session EXCEPT !.active = session.open]
      BY <1>13 DEF StartSession
    <2>2. \A k \in 1..Len(q) : q[k].do = "send" /\ ~News(q[k].msg)
      BY <1>4, ToAllTasks, NotRoster
    <2>7. AnswersFirst(q, n) /\ (q # <<>> => ~Answer(Head(q)))
      <3>1. msg \in Sendable
        BY MsgIs
      <3>2. q \in Seq(Pending) /\ \A k \in 1..Len(q) : q[k].msg = msg
        <4> HIDE DEF msg
        <4> QED  BY <1>4, <3>1, ToAllIs, ToAllTasks
      <3>3. \A k \in 1..Len(q) : ~Answer(q[k])
        BY <3>2, NoAnswers
      <3> HIDE DEF q
      <3> QED  BY <3>2, <3>3, NoAnswers
    <2> HIDE DEF q
    <2>3. DropsLast(q) /\ Current(q, session'.entries)
      BY <2>2 DEF DropsLast, Current
    <2>4. /\ session'.entries = session.entries /\ session'.connections = session.connections
          /\ session'.open = session.open
      BY <1>4, <2>1 DEF Record
    <2>5. Settled'
      <3>1. SUFFICES ASSUME ~session.open PROVE session' = NoSession
        BY <2>4 DEF Settled
      <3>2. session = NoSession /\ session.active = FALSE
        BY <3>1 DEF RosterInv, Settled, NoSession
      <3>3. [session EXCEPT !.active = FALSE] = session
        BY <1>4, <3>2 DEF Record
      <3>4. session.open = FALSE
        BY <1>4, <3>1 DEF Record
      <3> QED  BY <2>1, <3>2, <3>3, <3>4
    <2>6. \A m \in Node : Registered(m)' => Registered(m)
      BY <2>4 DEF Registered
    <2> QED  BY <1>7, <2>1, <2>3, <2>4, <2>5, <2>6, <2>7
  <1> QED  BY <1>9, <1>10, <1>11, <1>12, <1>13 DEF Handle

(* The next await of the handler at work.                                  *)
LEMMA ContinueKeepsRosters ==
    ASSUME LobbyInv, RosterInv, NEW n \in Node, Continue(n)
    PROVE  RosterInv'
  <1>1. todo[n] # <<>> /\ UNCHANGED <<phase, roster, cached, requests>>
    BY DEF Continue, nodeVars
  <1>2. \A m \in Node : m # n => todo[m] = <<>>
    BY <1>1 DEF RosterInv, OneAtWork
  <1>3. /\ session \in Record /\ todo \in [Node -> Seq(Pending)] /\ todo[n] \in Seq(Pending)
        /\ inbox \in [Node -> Seq(Sendable)]
    BY DEF LobbyInv, FlightTypes
  <1> DEFINE old == todo[n]
             t == Head(old)
             rest == Tail(old)
  <1>4. /\ t \in Pending /\ t = old[1] /\ Len(old) \in Nat /\ Len(old) > 0
        /\ rest \in Seq(Pending) /\ Len(rest) = Len(old) - 1
        /\ \A i \in 1..Len(rest) : rest[i] = old[i + 1]
    BY <1>1, <1>3, Tailed
  <1>5. 1 \in 1..Len(old) /\ \A i \in 1..Len(rest) : i + 1 \in 1..Len(old)
    BY <1>4
  <1>6. \A j \in 1..Len(old) : j = 1 \/ (j - 1 \in 1..Len(rest) /\ old[j] = rest[j - 1])
    BY <1>4
  <1>7. DropsLast(old) /\ Current(old, session.entries) /\ AnswersFirst(old, n)
    BY DEF RosterInv, OneAtWork
  <1>8. t.to \in Node /\ t.msg \in Sendable
    BY <1>4 DEF Pending, Task
  <1>9. /\ session' = session \/ session' = NoSession
        /\ \/ t.do = "send" /\ todo' = [todo EXCEPT ![n] = rest] /\ session' = session
              /\ inbox' = [inbox EXCEPT ![t.to] = IF Live(t.to) THEN Append(@, t.msg) ELSE @]
           \/ Answer(t) /\ ~Live(n) /\ todo' = [todo EXCEPT ![n] = <<>>]
              /\ UNCHANGED <<session, inbox>>
           \/ t.do = "fail" /\ todo' = [todo EXCEPT ![n] = rest] /\ UNCHANGED <<session, inbox>>
           \/ t.do = "announce" /\ session.open /\ UNCHANGED <<session, inbox>>
              /\ todo' = [todo EXCEPT ![n] = ToAll(Msg("roster", NoIndex, session.entries)) \o rest]
           \/ t.do = "announce" /\ ~session.open /\ UNCHANGED <<session, inbox>>
              /\ todo' = [todo EXCEPT ![n] = <<>>]
           \/ t.do = "resume" /\ UNCHANGED <<session, inbox>>
              /\ todo' = [todo EXCEPT ![n] = IF session.active
                            THEN <<Send(n, Msg("start", NoIndex, {}))>> \o rest ELSE rest]
           \/ t.do = "drop" /\ session' = NoSession /\ todo' = [todo EXCEPT ![n] = rest]
              /\ UNCHANGED inbox
    BY DEF Continue
  <1> HIDE DEF old, t, rest
  <1>24. Answer(t) => t.do = "send"
    BY DEF Answer
  <1>10. old = todo[n]
    BY DEF old
  <1>11. /\ DropsLast(rest) /\ Current(rest, session.entries)
         /\ \A k \in 1..Len(rest) : ~Answer(rest[k])
         /\ AnswersFirst(rest, n) /\ (rest # <<>> => ~Answer(Head(rest)))
    <2>1. DropsLast(rest)
      BY <1>4, <1>5, <1>7 DEF DropsLast
    <2>2. Current(rest, session.entries)
      BY <1>4, <1>5, <1>7 DEF Current
    <2>3. \A k \in 1..Len(rest) : ~Answer(rest[k])
      <3>1. SUFFICES ASSUME NEW k \in 1..Len(rest), Answer(rest[k]) PROVE FALSE
        OBVIOUS
      <3>2. k + 1 = 1
        BY <1>4, <1>5, <1>7, <3>1 DEF AnswersFirst
      <3> QED  BY <1>4, <3>2
    <2> QED  BY <1>4, <2>1, <2>2, <2>3, NoAnswers
  (* What is left of what there was, and what is gone.                     *)
  <1>12. Announces(old) <=> t.do \in {"announce", "drop"} \/ Announces(rest)
    BY <1>4, <1>5, <1>6 DEF Announces
  <1>13. \A m : Carries(old, m) <=> NewsTo(t, m) \/ Carries(rest, m)
    BY <1>4, <1>5, <1>6 DEF Carries
  <1>14. session' = session => \A m \in Node : Registered(m)' <=> Registered(m)
    BY DEF Registered
  <1>15. session' = session => Settled'
    BY DEF RosterInv, Settled
  (* A handler whose answer failed ends: what it had to announce is lost.  *)
  <1>23. CASE Answer(t) /\ ~Live(n) /\ todo' = [todo EXCEPT ![n] = <<>>] /\ UNCHANGED <<session, inbox>>
    <2>1. \A m \in Node : ToldAt(m)
      BY <1>1, <1>10, <1>23 DEF RosterInv, Silenced, Failing, t
    <2>2. todo'[n] = <<>> /\ \A m \in Node : m # n => todo'[m] = <<>>
      BY <1>2, <1>3, <1>23
    <2>3. \A k \in 1..Len(<<>>) : FALSE
      OBVIOUS
    <2>4. OneAtWork' /\ Silenced'
      BY <2>2, <2>3 DEF OneAtWork, DropsLast, Current, AnswersFirst, Silenced, Failing
    <2>5. Played'
      BY <1>1 DEF RosterInv, Played
    <2>6. Fitting \subseteq Fitting'
      BY <1>14, <1>23, Fits
    <2>7. \A m \in Node : ToldAt(m)'
      BY <1>1, <1>14, <1>23, <2>1, <2>6, StillTold DEF ToldAt
    <2> QED  BY <1>15, <1>23, <2>4, <2>5, <2>7 DEF RosterInv, Informed
  <1>16. CASE /\ t.do = "send" /\ todo' = [todo EXCEPT ![n] = rest] /\ session' = session
              /\ inbox' = [inbox EXCEPT ![t.to] = IF Live(t.to) THEN Append(@, t.msg) ELSE @]
    <2>1. /\ todo' = [todo EXCEPT ![n] = rest] /\ session' = session
          /\ inbox' = [inbox EXCEPT ![t.to] = IF Live(t.to) THEN Append(@, t.msg) ELSE @]
      BY <1>9, <1>16
    <2>2. todo'[n] = rest /\ \A m \in Node : m # n => todo'[m] = <<>>
      BY <1>2, <1>3, <2>1
    <2>3. OneAtWork' /\ Silenced'
      <3>1. \A k \in 1..Len(<<>>) : FALSE
        OBVIOUS
      <3>2. OneAtWork'
        BY <1>11, <2>1, <2>2, <3>1 DEF OneAtWork, DropsLast, Current, AnswersFirst
      <3>3. \A m \in Node : ~Failing(m)'
        BY <1>11, <2>2 DEF Failing
      <3> QED  BY <3>2, <3>3 DEF Silenced
    <2>4. Played'
      BY <1>1 DEF RosterInv, Played
    <2>5. Informed'
      <3>1. SUFFICES ASSUME NEW m \in Node, Registered(m)', cached'[m] = NoMetadata,
                            \A l \in Node : ~Announces(todo'[l]) /\ ~Carries(todo'[l], m)
                     PROVE  Told(inbox'[m], roster'[m], Fitting')
        BY DEF Informed, ToldAt
      <3>2. ~Announces(old) /\ (Carries(old, m) => NewsTo(t, m))
        BY <1>12, <1>13, <1>16, <2>2, <3>1
      <3>3. Registered(m) /\ Live(m) /\ cached[m] = NoMetadata
        BY <1>1, <1>14, <2>1, <3>1 DEF LobbyInv, ConnectedOnce
      <3>4. ~NewsTo(t, m) => Told(inbox[m], roster[m], Fitting)
        BY <1>2, <1>10, <3>2, <3>3, Empty DEF RosterInv, Informed, ToldAt
      <3>5. NewsTo(t, m) => t.msg.players \in Fitting
        <4>1. NewsTo(t, m) => t.msg.players = session.entries
          BY <1>4, <1>5, <1>7 DEF Current, NewsTo
        <4> QED  BY <4>1, Fits
      <3>9. Fitting \subseteq Fitting'
        BY <1>14, <2>1, Fits
      <3>6. inbox[m] \in Seq(Sendable)
        BY <1>3
      <3>7. CASE t.to = m
        <4>1. inbox'[m] = Append(inbox[m], t.msg)
          BY <1>3, <2>1, <3>3, <3>7
        <4>2. IF News(t.msg) THEN t.msg.players \in Fitting
                             ELSE Told(inbox[m], roster[m], Fitting)
          BY <1>16, <3>4, <3>5, <3>7 DEF NewsTo
        <4>3. Told(Append(inbox[m], t.msg), roster[m], Fitting)
          BY <1>8, <3>6, <4>2, Hears
        <4> QED  BY <1>1, <3>9, <4>1, <4>3, StillTold
      <3>8. CASE t.to # m
        <4>1. inbox'[m] = inbox[m]
          BY <1>3, <2>1, <3>8
        <4>2. Told(inbox'[m], roster'[m], Fitting)
          BY <1>1, <3>4, <3>8, <4>1 DEF NewsTo
        <4> QED  BY <3>9, <4>2, StillTold
      <3> QED  BY <3>7, <3>8
    <2> QED  BY <1>15, <2>1, <2>3, <2>4, <2>5 DEF RosterInv
  (* The other awaits change no inbox.                                     *)
  <1>17. ASSUME t.do # "send", NEW q \in Seq(Pending), todo' = [todo EXCEPT ![n] = q],
                UNCHANGED inbox, Settled',
                DropsLast(q), Current(q, session'.entries),
                \A k \in 1..Len(q) : ~Answer(q[k]),
                \A m \in Node :
                     Registered(m)' /\ ~Announces(q) /\ ~Carries(q, m) =>
                         /\ session' = session
                         /\ ~Announces(old) /\ ~Carries(old, m)
         PROVE  RosterInv'
    <2>1. AnswersFirst(q, n) /\ (q # <<>> => ~Answer(Head(q)))
      BY <1>17, NoAnswers
    <2>2. \A m \in Node : Registered(m)' /\ ~Announces(q) /\ ~Carries(q, m) =>
                         /\ \A l \in Node : Registered(l)' => Registered(l)
                         /\ session'.entries = session.entries
                         /\ ~Announces(todo[n]) /\ ~Carries(todo[n], m)
      BY <1>10, <1>14, <1>17
    <2> QED  BY <1>1, <1>2, <1>17, <2>1, <2>2, ServiceKeepsRosters
  <1>18. CASE t.do = "fail"
    <2>1. todo' = [todo EXCEPT ![n] = rest] /\ UNCHANGED <<session, inbox>>
      BY <1>9, <1>24, <1>18
    <2>2. \A m \in Node : Registered(m)' /\ ~Announces(rest) /\ ~Carries(rest, m) =>
                Registered(m) /\ ~Announces(old) /\ ~Carries(old, m)
      BY <1>12, <1>13, <1>14, <1>18, <2>1 DEF NewsTo
    <2> QED  BY <1>4, <1>11, <1>15, <1>17, <1>18, <2>1, <2>2
  <1>19. CASE t.do = "announce" /\ session.open
    <2> DEFINE msg == Msg("roster", NoIndex, session.entries)
               p == ToAll(msg)
               q == p \o rest
    <2>1. todo' = [todo EXCEPT ![n] = q] /\ UNCHANGED <<session, inbox>>
      BY <1>9, <1>24, <1>19
    <2>2. News(msg) /\ msg.players = session.entries /\ msg \in Sendable
      <3>1. msg \in Sendable
        BY <1>3, MsgIs DEF Record
      <3> QED  BY <3>1 DEF News, Msg
    <2>3. /\ Len(p) \in Nat /\ \A k \in 1..Len(p) : p[k].do = "send" /\ p[k].msg = msg
          /\ \A m \in Node : Registered(m) => \E k \in 1..Len(p) : p[k].to = m
      <3> DEFINE L == Len(session.connections)
      <3>1. /\ Len(ToAll(msg)) = L /\ L \in Nat
            /\ \A k \in 1..L : ToAll(msg)[k].do = "send" /\ ToAll(msg)[k].msg = msg
            /\ \A m \in Node : Registered(m) => \E k \in 1..L : ToAll(msg)[k].to = m
        <4> HIDE DEF msg
        <4> QED  BY <1>3, ToAllTasks
      <3>2. p = ToAll(msg)
        OBVIOUS
      <3> HIDE DEF msg, p, L
      <3> QED  BY <3>1, <3>2
    <2>4. p \in Seq(Pending)
      <3> HIDE DEF msg
      <3> QED  BY <1>3, <2>2, ToAllIs
    <2>12. \A k \in 1..Len(p) : ~Answer(p[k])
      BY <2>3, NoAnswers
    <2> HIDE DEF msg, p
    <2>13. q \in Seq(Pending)
      <3>1. rest \in Seq(Pending)
        BY <1>4
      <3> QED  BY ONLY <2>4, <3>1, ConcatProperties DEF q
    <2>5. /\ Len(q) = Len(p) + Len(rest)
          /\ \A k \in 1..Len(p) + Len(rest) : q[k] = IF k <= Len(p) THEN p[k] ELSE rest[k - Len(p)]
      <3>1. rest \in Seq(Pending)
        BY <1>4
      <3> QED  BY ONLY <2>4, <3>1, ConcatProperties DEF q
    <2> HIDE DEF q
    <2>6. Len(rest) \in Nat
      BY <1>4
    <2>7. \A k \in 1..Len(p) : k \in 1..Len(q) /\ q[k] = p[k]
      BY <2>3, <2>5, <2>6
    <2>8. \A k \in 1..Len(q) : \/ k \in 1..Len(p) /\ q[k] = p[k]
                               \/ k - Len(p) \in 1..Len(rest) /\ q[k] = rest[k - Len(p)]
      BY <2>3, <2>5, <2>6
    <2>9. DropsLast(q)
      <3>1. ASSUME NEW k \in 1..Len(q), q[k].do = "drop"
            PROVE  k = Len(q)
        <4>1. k - Len(p) \in 1..Len(rest) /\ q[k] = rest[k - Len(p)]
          BY <2>3, <2>8, <3>1
        <4>2. k - Len(p) = Len(rest)
          BY <1>11, <3>1, <4>1 DEF DropsLast
        <4> QED  BY <2>3, <2>5, <2>6, <4>2
      <3> QED  BY <3>1 DEF DropsLast
    <2>10. Current(q, session'.entries)
      <3>1. ASSUME NEW k \in 1..Len(q), q[k].do = "send", News(q[k].msg)
            PROVE  q[k].msg.players = session.entries
        <4>1. CASE k \in 1..Len(p) /\ q[k] = p[k]
          BY <2>2, <2>3, <4>1
        <4>2. CASE k - Len(p) \in 1..Len(rest) /\ q[k] = rest[k - Len(p)]
          BY <1>11, <3>1, <4>2 DEF Current
        <4> QED  BY <2>8, <4>1, <4>2
      <3> QED  BY <2>1, <3>1 DEF Current
    <2>11. \A m \in Node : Registered(m)' => Carries(q, m)
      <3>1. \A m \in Node : Registered(m) => \E k \in 1..Len(q) : NewsTo(q[k], m)
        BY <2>2, <2>3, <2>7 DEF NewsTo
      <3> QED  BY <1>14, <2>1, <3>1 DEF Carries
    <2>14. \A k \in 1..Len(q) : ~Answer(q[k])
      BY <1>11, <2>8, <2>12
    <2> QED  BY <1>15, <1>17, <1>19, <2>1, <2>9, <2>10, <2>11, <2>13, <2>14
  <1>20. CASE t.do = "announce" /\ ~session.open
    <2>1. todo' = [todo EXCEPT ![n] = <<>>] /\ UNCHANGED <<session, inbox>>
      BY <1>9, <1>20
    <2>2. /\ DropsLast(<<>>) /\ Current(<<>>, session'.entries)
          /\ <<>> \in Seq(Pending) /\ \A k \in 1..Len(<<>>) : ~Answer(<<>>[k])
      BY DEF DropsLast, Current
    <2>3. \A m \in Node : ~Registered(m)
      <3>1. session = NoSession
        BY <1>20 DEF RosterInv, Settled
      <3>2. DOMAIN session.connections = {}
        BY <3>1 DEF NoSession
      <3> QED  BY <3>2 DEF Registered
    <2> QED  BY <1>14, <1>15, <1>17, <1>20, <2>1, <2>2, <2>3
  <1>21. CASE t.do = "resume"
    <2> DEFINE a == Send(n, Msg("start", NoIndex, {}))
               q == IF session.active THEN <<a>> \o rest ELSE rest
    <2>1. todo' = [todo EXCEPT ![n] = q] /\ UNCHANGED <<session, inbox>>
      BY <1>9, <1>24, <1>21
    <2>2. a.do = "send" /\ ~News(a.msg) /\ a \in Pending /\ ~Answer(a)
      BY NotRoster, NoAnswers, MsgIs, SendIs DEF Send
    <2> HIDE DEF a
    <2>3. /\ DropsLast(q) /\ Current(q, session'.entries)
          /\ ~Announces(q) => ~Announces(rest)
          /\ \A m : ~Carries(q, m) => ~Carries(rest, m)
          /\ q \in Seq(Pending) /\ \A k \in 1..Len(q) : ~Answer(q[k])
      <3>1. CASE ~session.active
        BY <1>4, <1>11, <2>1, <3>1
      <3>2. CASE session.active
        <4>1. q = <<a>> \o rest
          BY <3>2
        <4>2. /\ Len(<<a>>) = 1 /\ <<a>>[1] = a /\ <<a>> \in Seq(Pending)
          BY <2>2
        <4>3. rest \in Seq(Pending)
          BY <1>4
        <4> DEFINE w == <<a>>
        <4>13. w \o rest \in Seq(Pending)
          BY ONLY <4>2, <4>3, ConcatProperties
        <4>4. /\ Len(w \o rest) = Len(w) + Len(rest)
              /\ \A k \in 1..Len(w) + Len(rest) :
                    (w \o rest)[k] = IF k <= Len(w) THEN w[k] ELSE rest[k - Len(w)]
          BY ONLY <4>2, <4>3, ConcatProperties
        <4>5. Len(rest) \in Nat /\ Len(w) = 1 /\ w[1] = a
          BY <1>4, <4>2
        <4> HIDE DEF q, w
        <4>6. Len(q) = 1 + Len(rest)
              /\ \A k \in 1..1 + Len(rest) : q[k] = IF k <= 1 THEN a ELSE rest[k - 1]
          <5>1. q = w \o rest
            BY <4>1 DEF w
          <5>2. \A k \in 1..1 + Len(rest) : k <= 1 => k = 1
            BY <4>5
          <5> QED  BY <4>4, <4>5, <5>1, <5>2
        <4>7. \A k \in 1..Len(q) : q[k] = a \/ (k - 1 \in 1..Len(rest) /\ q[k] = rest[k - 1])
          BY <4>5, <4>6
        <4>8. \A k \in 1..Len(rest) : k + 1 \in 1..Len(q) /\ q[k + 1] = rest[k]
          BY <4>5, <4>6
        <4>9. DropsLast(q)
          <5>1. ASSUME NEW k \in 1..Len(q), q[k].do = "drop"
                PROVE  k = Len(q)
            <6>1. k - 1 \in 1..Len(rest) /\ q[k] = rest[k - 1]
              BY <2>2, <4>7, <5>1
            <6>2. k - 1 = Len(rest)
              BY <1>11, <5>1, <6>1 DEF DropsLast
            <6> QED  BY <4>5, <4>6, <6>2
          <5> QED  BY <5>1 DEF DropsLast
        <4>10. Current(q, session'.entries)
          BY <1>11, <2>1, <2>2, <4>7 DEF Current
        <4>11. Announces(rest) => Announces(q)
          BY <4>8 DEF Announces
        <4>12. \A m : Carries(rest, m) => Carries(q, m)
          BY <4>8 DEF Carries
        <4>14. q \in Seq(Pending)
          BY <4>1, <4>13 DEF w
        <4>15. \A k \in 1..Len(q) : ~Answer(q[k])
          BY <1>11, <2>2, <4>7
        <4> QED  BY <4>9, <4>10, <4>11, <4>12, <4>14, <4>15
      <3> QED  BY <3>1, <3>2
    <2> HIDE DEF q
    <2>4. \A m \in Node : Registered(m)' /\ ~Announces(q) /\ ~Carries(q, m) =>
                Registered(m) /\ ~Announces(old) /\ ~Carries(old, m)
      BY <1>12, <1>13, <1>14, <1>21, <2>1, <2>3 DEF NewsTo
    <2> QED  BY <1>15, <1>17, <1>21, <2>1, <2>3, <2>4
  <1>22. CASE t.do = "drop"
    <2>1. /\ todo' = [todo EXCEPT ![n] = rest] /\ UNCHANGED inbox /\ session' = NoSession
      BY <1>9, <1>24, <1>22
    <2>2. Len(old) = 1 /\ Len(rest) = 0
      BY <1>4, <1>5, <1>7, <1>22 DEF DropsLast
    <2>3. DropsLast(rest) /\ Current(rest, session'.entries)
      BY <2>2 DEF DropsLast, Current
    <2>5. rest \in Seq(Pending)
      BY <1>4
    <2>4. \A m \in Node : ~Registered(m)'
      <3>1. DOMAIN session'.connections = {}
        BY <2>1 DEF NoSession
      <3> QED  BY <3>1 DEF Registered
    <2> QED  BY <1>11, <1>17, <1>22, <2>1, <2>3, <2>4, <2>5 DEF Settled
  <1> QED  BY <1>9, <1>16, <1>18, <1>19, <1>20, <1>21, <1>22, <1>23

(* Once the handler has sent its answer, it has none left that may fail.   *)
LEMMA NothingFails ==
    ASSUME LobbyInv, RosterInv, NEW n \in Node, Continue(n)
    PROVE  \A m \in Node : ~Failing(m)'
  <1>1. /\ todo[n] # <<>> /\ \A m \in Node : m # n => todo[m] = <<>>
        /\ session \in Record /\ todo \in [Node -> Seq(Pending)] /\ todo[n] \in Seq(Pending)
        /\ AnswersFirst(todo[n], n)
    BY DEF Continue, LobbyInv, FlightTypes, RosterInv, OneAtWork
  <1> DEFINE old == todo[n]
             rest == Tail(old)
             start == Send(n, Msg("start", NoIndex, {}))
             news == Msg("roster", NoIndex, session.entries)
  <1>2. /\ rest \in Seq(Pending) /\ Len(rest) = Len(old) - 1
        /\ Len(old) \in Nat /\ Len(old) > 0
        /\ \A k \in 1..Len(rest) : rest[k] = old[k + 1]
    BY <1>1, Tailed
  <1>3. \A k \in 1..Len(rest) : ~Answer(rest[k])
    <2>1. SUFFICES ASSUME NEW k \in 1..Len(rest), Answer(rest[k]) PROVE FALSE
      OBVIOUS
    <2>2. k + 1 = 1
      BY <1>1, <1>2, <2>1 DEF AnswersFirst
    <2> QED  BY <1>2, <2>2
  <1>4. \/ todo' = [todo EXCEPT ![n] = rest]
        \/ todo' = [todo EXCEPT ![n] = <<>>]
        \/ todo' = [todo EXCEPT ![n] = ToAll(news) \o rest]
        \/ todo' = [todo EXCEPT ![n] = <<start>> \o rest]
    BY DEF Continue
  <1> HIDE DEF old, rest, news, start
  <1>5. ASSUME NEW q \in Seq(Pending), \A k \in 1..Len(q) : ~Answer(q[k]),
               todo' = [todo EXCEPT ![n] = q]
        PROVE  \A m \in Node : ~Failing(m)'
    <2>1. todo'[n] = q /\ \A m \in Node : m # n => todo'[m] = <<>>
      BY <1>1, <1>5
    <2>2. q # <<>> => ~Answer(Head(q))
      BY <1>5, NoAnswers
    <2> QED  BY <2>1, <2>2 DEF Failing
  <1>6. ASSUME NEW w \in Seq(Pending), \A k \in 1..Len(w) : ~Answer(w[k])
        PROVE  /\ w \o rest \in Seq(Pending)
               /\ \A k \in 1..Len(w \o rest) : ~Answer((w \o rest)[k])
    <2>1. /\ w \o rest \in Seq(Pending) /\ Len(w \o rest) = Len(w) + Len(rest)
          /\ \A k \in 1..Len(w) + Len(rest) :
                (w \o rest)[k] = IF k <= Len(w) THEN w[k] ELSE rest[k - Len(w)]
      BY ONLY <1>2, <1>6, ConcatProperties
    <2>2. Len(w) \in Nat /\ Len(rest) \in Nat
      BY <1>2, <1>6
    <2>3. ASSUME NEW k \in 1..Len(w) + Len(rest) PROVE ~Answer((w \o rest)[k])
      <3>1. CASE k <= Len(w)
        BY <1>6, <2>1, <2>2, <2>3, <3>1
      <3>2. CASE ~(k <= Len(w))
        <4>1. k - Len(w) \in 1..Len(rest) /\ (w \o rest)[k] = rest[k - Len(w)]
          BY <2>1, <2>2, <2>3, <3>2
        <4> QED  BY <1>3, <4>1
      <3> QED  BY <3>1, <3>2
    <2> QED  BY <2>1, <2>3
  <1>7. CASE todo' = [todo EXCEPT ![n] = rest]
    BY <1>2, <1>3, <1>5, <1>7
  <1>8. CASE todo' = [todo EXCEPT ![n] = <<>>]
    <2>1. <<>> \in Seq(Pending) /\ \A k \in 1..Len(<<>>) : ~Answer(<<>>[k])
      OBVIOUS
    <2> QED  BY <1>5, <1>8, <2>1
  <1>9. CASE todo' = [todo EXCEPT ![n] = ToAll(news) \o rest]
    <2>1. news \in Sendable
      BY <1>1, MsgIs DEF Record, news
    <2>2. /\ ToAll(news) \in Seq(Pending) /\ \A k \in 1..Len(ToAll(news)) : ~Answer(ToAll(news)[k])
      <3>1. ToAll(news) \in Seq(Pending)
        BY <1>1, <2>1, ToAllIs
      <3>2. \A k \in 1..Len(ToAll(news)) : ToAll(news)[k].msg = news
        <4>1. /\ Len(ToAll(news)) = Len(session.connections)
              /\ \A k \in 1..Len(session.connections) : ToAll(news)[k].msg = news
          BY <1>1, ToAllTasks
        <4> QED  BY <4>1
      <3>3. \A k \in 1..Len(ToAll(news)) : ~Answer(ToAll(news)[k])
        BY <3>2, NoAnswers DEF news
      <3> QED  BY <3>1, <3>3
    <2> DEFINE w == ToAll(news)
    <2>3. w \in Seq(Pending) /\ \A k \in 1..Len(w) : ~Answer(w[k])
      BY <2>2
    <2>4. todo' = [todo EXCEPT ![n] = w \o rest]
      BY <1>9
    <2> HIDE DEF w
    <2> QED  BY <1>5, <1>6, <2>3, <2>4
  <1>10. CASE todo' = [todo EXCEPT ![n] = <<start>> \o rest]
    <2> DEFINE w == <<start>>
    <2>1. start \in Pending /\ ~Answer(start)
      BY NoAnswers, MsgIs, SendIs DEF Send, start
    <2>2. w \in Seq(Pending) /\ \A k \in 1..Len(w) : ~Answer(w[k])
      BY <2>1
    <2>3. todo' = [todo EXCEPT ![n] = w \o rest]
      BY <1>10
    <2> HIDE DEF w
    <2> QED  BY <1>5, <1>6, <2>2, <2>3
  <1> QED  BY <1>4, <1>7, <1>8, <1>9, <1>10

(* The end of a node: its connection goes, and with it what it showed.     *)
LEMMA EndKeepsRosters ==
    ASSUME LobbyInv, RosterInv, \A m \in Node : todo[m] = <<>>, NEW n \in Node,
           phase' = [phase EXCEPT ![n] = "out"], session' = Drop(n, session),
           todo' = Unsent(n),
           \A m \in Node : m # n =>
                cached'[m] = cached[m] /\ inbox'[m] = inbox[m] /\ roster'[m] = roster[m]
    PROVE  RosterInv'
  <1>1. /\ session \in Record
        /\ \A i, j \in 1..Len(session.connections) :
                session.connections[i] = session.connections[j] => i = j
    BY DEF LobbyInv, FlightTypes, ConnectedOnce
  <1>2. \A m \in Node : Registered(m)' => Registered(m) /\ m # n
    BY DroppedKeeps
  <1>3. \A m \in Node : todo'[m] = <<>>
    BY DEF Unsent
  <1>4. Played'
    BY DEF RosterInv, Played, LobbyInv, NodeTypes
  <1>5. ASSUME NEW s, s = Drop(n, session)
        PROVE  /\ s \in Record /\ s.open = session.open /\ s.entries = session.entries
               /\ ~session.open => s = session
    <2>1. /\ s \in Record /\ s.open = session.open /\ s.entries = session.entries
          /\ s.active = session.active /\ s.reserved = session.reserved
          /\ \A i \in 1..Len(s.connections) :
                \E j \in 1..Len(session.connections) : session.connections[j] = s.connections[i]
      BY <1>1, <1>5, DropIs
    <2>2. ASSUME ~session.open
          PROVE  s = session
      <3>1. session = NoSession /\ session.connections = <<>>
        BY <2>2 DEF RosterInv, Settled, NoSession
      <3>2. s.connections \in Seq(Node) /\ Len(session.connections) = 0
        BY <2>1, <3>1 DEF Record
      <3>3. s.connections = <<>>
        <4>1. \A i \in 1..Len(s.connections) : FALSE
          BY <2>1, <3>2
        <4> QED  BY <3>2, <4>1
      <3>4. s.connections = session.connections
        BY <3>1, <3>3
      <3> QED  BY <1>1, <2>1, <3>4 DEF Record
    <2> QED  BY <2>1, <2>2
  <1>6. /\ session'.open = session.open /\ session'.entries = session.entries
        /\ ~session.open => session' = session
    BY <1>5
  <1> QED  BY <1>2, <1>3, <1>4, <1>6, NodeKeepsRosters DEF Listens

LEMMA HasSlot == NoIndex \notin Index
  BY LobbyAssumption DEF Index

LEMMA ReadKeepsRosters ==
    ASSUME MaxSuspended = 0, LobbyInv, RosterInv, NEW n \in Node, Read(n)
    PROVE  RosterInv'
  <1> DEFINE msg == Head(inbox[n])
  <1>1. inbox[n] # <<>> /\ \A m \in Node : todo[m] = <<>>
    BY AtRest DEF Read, RosterInv
  <1>2. ASSUME Teardown(n)
        PROVE  RosterInv'
    BY <1>1, <1>2, EndKeepsRosters DEF Teardown, Forget, LobbyInv, NodeTypes, FlightTypes
  <1>3. ASSUME UNCHANGED <<session, todo>>, inbox' = [inbox EXCEPT ![n] = Tail(@)],
               \A m \in Node : m # n => /\ phase'[m] = phase[m] /\ cached'[m] = cached[m]
                                        /\ roster'[m] = roster[m],
               phase'[n] \in {"draining", "playing", "electing"} => cached'[n] # NoMetadata,
               cached'[n] = NoMetadata =>
                    /\ cached[n] = NoMetadata
                    /\ roster'[n] = IF News(msg) THEN msg.players ELSE roster[n]
        PROVE  RosterInv'
    <2>1. \A m \in Node : Listens(m)
      BY <1>1, <1>3 DEF Listens, LobbyInv, FlightTypes
    <2>2. Played'
      BY <1>3 DEF RosterInv, Played
    <2>3. \A m \in Node : Registered(m)' => Registered(m)
      BY <1>3 DEF Registered
    <2> QED  BY <1>1, <1>3, <2>1, <2>2, <2>3, NodeKeepsRosters
  <1>4. CASE Handshake(n, msg)
    <2>1. CASE msg.type = "rejected"
      BY <1>2, <1>4, <2>1 DEF Handshake
    <2>2. CASE msg.type # "rejected"
      <3>1. /\ UNCHANGED <<session, todo, cached>> /\ inbox' = [inbox EXCEPT ![n] = Tail(@)]
            /\ roster' = [roster EXCEPT ![n] = IF msg.type = "roster" THEN msg.players ELSE @]
            /\ phase' = [phase EXCEPT ![n] = "waiting"] \/ phase' = phase
            /\ phase[n] = "joining"
        BY <1>4, <2>2 DEF Handshake
      <3> HIDE DEF msg
      <3>2. /\ \A m \in Node : m # n => /\ phase'[m] = phase[m] /\ cached'[m] = cached[m]
                                        /\ roster'[m] = roster[m]
            /\ phase'[n] \in {"waiting", "joining"}
            /\ roster'[n] = IF News(msg) THEN msg.players ELSE roster[n]
        BY <3>1 DEF LobbyInv, NodeTypes, News
      <3> QED  BY <1>3, <3>1, <3>2
    <2> QED  BY <2>1, <2>2
  <1>5. CASE WaitForStart(n, msg)
    <2>1. CASE msg.type = "closed" /\ role[n] = "client"
      BY <1>2, <1>5, <2>1 DEF WaitForStart
    <2>2. CASE ~(msg.type = "closed" /\ role[n] = "client")
      <3>1. /\ UNCHANGED <<session, todo>> /\ inbox' = [inbox EXCEPT ![n] = Tail(@)]
            /\ roster' = [roster EXCEPT ![n] = IF msg.type = "roster" THEN msg.players ELSE @]
            /\ phase[n] \in {"waiting", "starting", "draining"}
            /\ \/ UNCHANGED <<phase, cached>>
               \/ /\ phase' = [phase EXCEPT ![n] = IF role[n] = "host" THEN "draining" ELSE "playing"]
                  /\ cached' = [cached EXCEPT ![n] = Saved(n)]
        BY <1>5, <2>2 DEF WaitForStart
      <3>2. Saved(n) # NoMetadata
        <4>1. index[n] # NoIndex
          BY <3>1, HasSlot DEF LobbyInv, Indexed
        <4> QED  BY <4>1 DEF Saved, NoMetadata
      <3> HIDE DEF msg
      <3>3. /\ \A m \in Node : m # n => /\ phase'[m] = phase[m] /\ cached'[m] = cached[m]
                                        /\ roster'[m] = roster[m]
            /\ roster'[n] = IF News(msg) THEN msg.players ELSE roster[n]
        <4>1. roster'[n] = IF News(msg) THEN msg.players ELSE roster[n]
          BY <3>1 DEF LobbyInv, NodeTypes, News
        <4>2. \A m \in Node : m # n => roster'[m] = roster[m]
          BY <3>1 DEF LobbyInv, NodeTypes
        <4>3. \A m \in Node : m # n => phase'[m] = phase[m]
          BY <3>1 DEF LobbyInv, NodeTypes
        <4>4. \A m \in Node : m # n => cached'[m] = cached[m]
          BY <3>1 DEF LobbyInv, NodeTypes
        <4> QED  BY <4>1, <4>2, <4>3, <4>4
      <3>4. UNCHANGED <<phase, cached>> \/ cached'[n] = Saved(n)
        BY <3>1 DEF LobbyInv, NodeTypes
      <3>5. phase'[n] \in {"draining", "playing", "electing"} => cached'[n] # NoMetadata
        BY <3>2, <3>4 DEF RosterInv, Played
      <3> QED  BY <1>3, <3>1, <3>2, <3>3, <3>4, <3>5
    <2> QED  BY <2>1, <2>2
  <1>6. CASE ReadInGame(n, msg)
    <2>1. /\ UNCHANGED <<session, todo, phase, cached>> /\ inbox' = [inbox EXCEPT ![n] = Tail(@)]
          /\ phase[n] = "playing" /\ \A m \in Node : m # n => roster'[m] = roster[m]
      BY <1>6 DEF ReadInGame, LobbyInv, NodeTypes
    <2>2. cached[n] # NoMetadata
      BY <2>1 DEF RosterInv, Played
    <2> HIDE DEF msg
    <2> QED  BY <1>3, <2>1, <2>2
  <1> QED  BY <1>4, <1>5, <1>6 DEF Read

LEMMA NodeStepKeepsRosters ==
    ASSUME MaxSuspended = 0, LobbyInv, RosterInv, NEW n \in Node, NodeStep(n)
    PROVE  RosterInv'
  <1>1. ASSUME Undisturbed
        PROVE  \A m \in Node : todo[m] = <<>>
    BY <1>1, AtRest DEF RosterInv
  <1>2. ASSUME Undisturbed, UNCHANGED <<session, todo>>, Played',
               \A m \in Node : Registered(m) => Listens(m)
        PROVE  RosterInv'
    <2>1. \A m \in Node : Registered(m)' => Registered(m)
      BY <1>2 DEF Registered
    <2> QED  BY <1>1, <1>2, <2>1, NodeKeepsRosters
  <1>3. \A m \in Node : cached[m] = NoMetadata => phase[m] \notin {"draining", "playing", "electing"}
    BY DEF RosterInv, Played
  <1>4. \A m \in Node : Registered(m) => phase[m] # "out"
    BY DEF LobbyInv, ConnectedOnce, Live
  <1>5. ASSUME NEW rejoin, Enter(n, rejoin)
        PROVE  RosterInv'
    <2>1. /\ Undisturbed /\ phase' = [phase EXCEPT ![n] = "joining"]
          /\ UNCHANGED <<roster, cached, session, todo, inbox>>
      BY <1>5 DEF Enter
    <2> QED  BY <1>2, <2>1 DEF Listens, RosterInv, Played, LobbyInv, NodeTypes
  <1>6. CASE Join(n)
    BY <1>5, <1>6 DEF Join
  <1>7. CASE Recover(n)
    <2>1. CASE Undisturbed /\ phase[n] = "out" /\ cached' = [cached EXCEPT ![n] = NoMetadata]
               /\ UNCHANGED <<phase, roster, session, todo, inbox>>
      BY <1>2, <1>4, <2>1 DEF Listens, RosterInv, Played, LobbyInv, NodeTypes
    <2> QED  BY <1>5, <1>7, <2>1 DEF Recover
  <1>8. CASE JoinTimeout(n) \/ LeaveLobby(n)
    <2>1. Undisturbed /\ Teardown(n)
      BY <1>8 DEF JoinTimeout, LeaveLobby
    <2> QED  BY <1>1, <2>1, EndKeepsRosters DEF Teardown, Forget, LobbyInv, NodeTypes, FlightTypes
  <1>9. CASE PressStart(n)
    BY <1>2, <1>9 DEF PressStart, Listens, RosterInv, Played, LobbyInv, NodeTypes
  <1>10. CASE EndDrain(n)
    BY <1>2, <1>10 DEF EndDrain, Listens, RosterInv, Played, LobbyInv, NodeTypes
  <1>11. CASE MergeRoster(n)
    BY <1>2, <1>3, <1>11 DEF MergeRoster, Listens, RosterInv, Played, LobbyInv, NodeTypes
  <1>12. CASE Evict(n)
    <2>1. PICK e \in roster[n] :
            roster' = [m \in Node |-> roster[m] \ {x \in roster[m] :
                        phase[m] = "playing" /\ x.index = e.index /\ index[m] # e.index}]
      BY <1>12 DEF Evict
    <2>2. \A m \in Node : phase[m] # "playing" => roster'[m] = roster[m]
      BY <2>1
    <2>3. Undisturbed /\ UNCHANGED <<phase, cached, session, todo, inbox>>
      BY <1>12 DEF Evict
    <2> QED  BY <1>2, <1>3, <2>2, <2>3 DEF Listens, RosterInv, Played
  <1>13. CASE EndRun(n)
    BY <1>2, <1>13 DEF EndRun, Listens, RosterInv, Played, LobbyInv, NodeTypes
  <1>14. CASE Crash(n)
    <2>1. /\ Undisturbed
          /\ \/ cached' = cached
             \/ cached' = [cached EXCEPT ![n] = NoMetadata]
          /\ roster' = [roster EXCEPT ![n] = {}]
      BY <1>14 DEF Crash, Quit, Forget
    <2>2. \A m \in Node : m # n => cached'[m] = cached[m]
      BY <2>1 DEF LobbyInv, NodeTypes
    <2>3. CASE CrashClient(n)
      <3>1. /\ phase' = [phase EXCEPT ![n] = "out"] /\ session' = Drop(n, session)
            /\ todo' = Unsent(n) /\ inbox' = [inbox EXCEPT ![n] = <<>>]
        BY <2>3 DEF CrashClient
      <3>2. \A m \in Node : m # n => inbox'[m] = inbox[m] /\ roster'[m] = roster[m]
        BY <2>1, <3>1 DEF LobbyInv, NodeTypes, FlightTypes
      <3> QED  BY <1>1, <2>1, <2>2, <3>1, <3>2, EndKeepsRosters
    <2>4. CASE CrashHost(n)
      <3>1. /\ \A m \in Node : phase'[m] \in {"out", "stranded"} \/ phase'[m] = phase[m]
                               \/ phase[m] = "playing"
            /\ phase'[n] = "out"
            /\ session' = NoSession /\ \A m \in Node : todo'[m] = <<>>
        BY <2>4 DEF CrashHost, Survivors
      <3>2. Played'
        BY <2>2, <3>1 DEF RosterInv, Played
      <3> QED  BY <1>1, <2>1, <3>1, <3>2, NodeKeepsRosters
    <2> QED  BY <1>14, <2>3, <2>4 DEF Crash
  <1>15. CASE Promote(n)
    <2>1. /\ Undisturbed /\ UNCHANGED <<cached, session, todo, inbox>>
          /\ \A m \in Node : phase'[m] = phase[m] \/ phase[m] = "electing"
      BY <1>15 DEF Promote
    <2>2. PICK Left \in [Node -> SUBSET Entry] :
            /\ \A m \in Node : phase[m] # "electing" => Left[m] = roster[m]
            /\ roster' = [m \in Node |-> {[e EXCEPT !.host = IF phase[m] = "electing"
                                         THEN e.index = index[n] ELSE @] : e \in Left[m]}]
      <3> DEFINE L == [m \in Node |-> roster[m] \ {e \in roster[m] : phase[m] = "electing" /\ e.host}]
      <3>1. L \in [Node -> SUBSET Entry]
        BY DEF LobbyInv, NodeTypes
      <3>2. \A m \in Node : phase[m] # "electing" => L[m] = roster[m]
        OBVIOUS
      <3>3. roster' = [m \in Node |-> {[e EXCEPT !.host = IF phase[m] = "electing"
                                         THEN e.index = index[n] ELSE @] : e \in L[m]}]
        BY <1>15 DEF Promote
      <3> HIDE DEF L
      <3> QED  BY <3>1, <3>2, <3>3
    <2>3. ASSUME NEW m \in Node, phase[m] # "electing"
          PROVE  roster'[m] = roster[m]
      <3>1. \A e \in Entry : [e EXCEPT !.host = @] = e
        BY DEF Entry
      <3>2. roster[m] \subseteq Entry
        BY DEF LobbyInv, NodeTypes
      <3>3. roster'[m] = {[e EXCEPT !.host = @] : e \in roster[m]}
        BY <2>2, <2>3
      <3> QED  BY <3>1, <3>2, <3>3
    <2> QED  BY <1>2, <1>3, <2>1, <2>3 DEF Listens, RosterInv, Played
  <1>16. CASE Read(n)
    BY <1>16, ReadKeepsRosters
  <1> QED  BY <1>6, <1>7, <1>8, <1>9, <1>10, <1>11, <1>12, <1>13, <1>14, <1>15, <1>16 DEF NodeStep

LEMMA RosterInit == Init => RosterInv
  <1> SUFFICES ASSUME Init PROVE RosterInv
    OBVIOUS
  <1>1. \A n \in Node : todo[n] = <<>>
    BY DEF Init
  <1>2. session = NoSession /\ DOMAIN session.connections = {}
    BY DEF Init, NoSession
  <1>3. Informed /\ Silenced
    BY <1>1, <1>2 DEF Informed, Silenced, Failing, ToldAt, Registered
  <1>4. Played
    BY DEF Init, Played
  <1> QED  BY <1>1, <1>2, <1>3, <1>4, Empty DEF RosterInv, OneAtWork, Settled

LEMMA RosterStep ==
    ASSUME MaxSuspended = 0, LobbyInv, RosterInv, [Next]_vars
    PROVE  RosterInv'
  <1>1. CASE UNCHANGED vars
    <2>1. RosterInv <=> RosterInv'
      BY <1>1 DEF vars, nodeVars, RosterInv, OneAtWork, Settled, Played, Informed, Silenced,
                  ToldAt, Fitting, Failing, Live, Registered
    <2> QED  BY <2>1
  <1>2. CASE Next
    BY <1>2, HandleKeepsRosters, ContinueKeepsRosters, NodeStepKeepsRosters DEF Next
  <1> QED  BY <1>1, <1>2

(* Once nothing is in flight a node in its first lobby shows everybody who *)
(* is connected to its service and nobody who has left, whoever joined,    *)
(* left, crashed or took over meanwhile, if the handlers of the service    *)
(* run to their end one after the other.                                   *)
THEOREM RostersAgree ==
    ASSUME MaxSuspended = 0
    PROVE  LobbySpec => []RosterAgrees
  <1>1. RosterInv => RosterAgrees
    <2>1. SUFFICES ASSUME RosterInv, Quiet, NEW n \in Node, Registered(n), cached[n] = NoMetadata
                   PROVE  roster[n] \in Fitting
      BY DEF RosterAgrees, Fitting
    <2>2. \A m \in Node : ~Announces(todo[m]) /\ ~Carries(todo[m], n)
      BY <2>1, Empty DEF Quiet
    <2>3. Told(inbox[n], roster[n], Fitting)
      BY <2>1, <2>2 DEF RosterInv, Informed, ToldAt
    <2>4. ~NewsIn(inbox[n])
      BY <2>1 DEF Quiet, NewsIn
    <2> QED  BY <2>3, <2>4 DEF Told
  <1>2. LobbyInv /\ RosterInv /\ [Next]_vars => (LobbyInv /\ RosterInv)'
    BY StepKeeps, RosterStep
  <1>3. Init => LobbyInv /\ RosterInv
    BY InitKeeps, RosterInit
  <1> QED  BY <1>1, <1>2, <1>3, PTL DEF LobbySpec

-----------------------------------------------------------------------------
(* The slots, with one crash at most and no handler suspended.             *)

(* A node holds a slot from when the service gives it one, be the answer   *)
(* still on its way, to when the service has read that it leaves.          *)
Given(msg, i)     == msg.type \in {"created", "joined"} /\ msg.index = i
Offers(box, i)    == \E k \in 1..Len(box) : Given(box[k], i)
Sends(q, n, i)    == \E k \in 1..Len(q) : q[k].do = "send" /\ q[k].to = n /\ Given(q[k].msg, i)
Requests(rs, type, i) == \E k \in 1..Len(rs) : rs[k].type = type /\ rs[k].index = i
Holds(n, i) ==
    \/ index[n] = i
    \/ phase[n] = "joining" /\ (Offers(inbox[n], i) \/ \E m \in Node : Sends(todo[m], n, i))
    \/ Requests(requests[n], "leave", i)

(* A process asks for a former slot, or may yet do so.                     *)
Rejoins(n, i) ==
    \/ phase[n] = "out" /\ cached[n].index = i
    \/ Requests(requests[n], "join", i)

Closing  == \E m \in Node : \E k \in 1..Len(todo[m]) : todo[m][k].do = "drop"
Electing == {n \in Node : phase[n] = "electing"}

(* Who is not in a session has no slot.                                    *)
UnassignedAt(n) ==
    /\ phase[n] \in {"out", "joining"} => index[n] = NoIndex /\ held[n] = {}
    /\ index[n] \notin held[n]
    /\ phase[n] = "out" => inbox[n] = <<>> /\ role[n] = "client"
    /\ Asks(n, {"leave"}) => phase[n] = "out"
    /\ Asks(n, {"join"}) => /\ phase[n] \in {"joining", "out"} /\ role[n] = "client"
                            /\ \A i \in Index : ~Holds(n, i)
Unassigned == \A n \in Node : UnassignedAt(n)

Distinct ==
    \A m, n \in Node : \A i, j \in Index : Holds(m, i) /\ Holds(n, j) => (m = n <=> i = j)

ServiceSlots ==
    /\ \A e \in session.entries : e.index \notin session.reserved
    /\ \A e, f \in session.entries : e.index = f.index => e = f

(* The service knows every slot that is held.                              *)
Secured ==
    session.open /\ ~Closing =>
        \A n \in Node : \A i \in Index : Holds(n, i) =>
            \/ i \in session.reserved /\ ~Registered(n)
            \/ \E e \in session.entries : e.at = n /\ e.index = i

(* A slot that is reserved is held by nobody, if anybody may ask for it.   *)
Rejoinable ==
    \A n \in Node : \A i \in Index :
        Rejoins(n, i) /\ i \in session.reserved => \A m \in Node : ~Holds(m, i)

Claims == \A n \in Node : \A i \in Index : Rejoins(n, i) => \A m \in Node : ~Holds(m, i)

(* What a promoted host registers.                                         *)
RecreateInv ==
    \A h \in Node : \A k \in 1..Len(requests[h]) : requests[h][k].type = "recreate" =>
        /\ requests[h][k].index = index[h] /\ index[h] \notin requests[h][k].reserved
        /\ \A n \in Node : \A i \in Index : Holds(n, i) => n = h \/ i \in requests[h][k].reserved
        /\ Claims

(* Between the crash of a host and the registration of the next.           *)
Interregnum ==
    Electing # {} \/ (\E n \in Node : Asks(n, {"recreate"})) =>
        /\ session = NoSession /\ used.crashes > 0
        /\ \A n \in Node : /\ todo[n] = <<>> /\ inbox[n] = <<>>
                           /\ ~Asks(n, {"create", "join", "start"})
        /\ Electing # {} => Hosts = {} /\ \A n \in Node : ~Asks(n, {"recreate"})
ElectingInv ==
    \A h \in Electing :
        /\ \A n \in Node : \A i \in Index : Holds(n, i) =>
                i = index[h] \/ \E e \in roster[h] : e.index = i /\ ~e.host
        /\ \A e \in roster[h] : e.host => e.index # index[h]
        /\ Claims

OneHost ==
    /\ \A m, n \in Hosts : m = n
    /\ \A h \in Hosts : session.open => Registered(h)

(* Before a crash.                                                         *)
NoCrash ==
    used.crashes = 0 =>
        /\ \A n \in Node : role[n] = "host" => n = Creator
        /\ session.reserved = {}
        /\ \A n \in Node : cached[n].index \in {NoIndex, index[n]}
        /\ \A n \in Node : \A i \in Index : ~Rejoins(n, i)

FirstHost(players) == \A e \in players : e.host => e.index = 0
FirstInv ==
    used.crashes = 0 /\ Creator \in Hosts =>
        /\ \A n \in Node : \A i \in Index : Holds(n, i) =>
                /\ i = 0 <=> n = Creator
                /\ Live(n) => Registered(n)
        /\ session.open => \E e \in session.entries : e.index = 0
        /\ ~Closing
        /\ FirstHost(session.entries)
        /\ \A n \in Node : FirstHost(roster[n])
        /\ \A n \in Node : \A k \in 1..Len(inbox[n]) :
                News(inbox[n][k]) => FirstHost(inbox[n][k].players)

(* Rosters list a slot once.                                               *)
OnePerSlot(players) == \A e, f \in players : e.index = f.index => e = f
RostersUnique ==
    \A n \in Node : /\ OnePerSlot(roster[n])
                    /\ \A k \in 1..Len(inbox[n]) :
                            News(inbox[n][k]) => OnePerSlot(inbox[n][k].players)

(* The host knows who is in its session, or will read of it.               *)
Knows(h) ==
    \A e \in session.entries :
        e.at # h /\ Live(e.at) /\ Registered(e.at) /\ Holds(e.at, e.index) =>
            \E f \in roster[h] : f.at = e.at /\ f.index = e.index
AwareAt(h) == LastIs(inbox[h], Fitting) /\ (~NewsIn(inbox[h]) => Knows(h))
Untold(n) == (\A m \in Node : ~Announces(todo[m]) /\ ~Carries(todo[m], n))
             \/ \E m \in Node : Failing(m)
Aware == \A h \in Hosts : Registered(h) /\ Untold(h) => AwareAt(h)

SlotInv == /\ Unassigned /\ Distinct /\ ServiceSlots /\ Secured /\ Rejoinable
           /\ RecreateInv /\ Interregnum /\ ElectingInv /\ OneHost
           /\ NoCrash /\ FirstInv /\ RostersUnique /\ Aware

-----------------------------------------------------------------------------
LEMMA Nothing ==
    /\ \A n, i : ~Sends(<<>>, n, i)
    /\ \A i : ~Offers(<<>>, i)
    /\ \A type, i : ~Requests(<<>>, type, i)
  BY DEF Sends, Offers, Requests

LEMMA LessToRead ==
    ASSUME NEW S, NEW box \in Seq(S), box # <<>>
    PROVE  /\ \A i : Offers(box, i) <=> Given(Head(box), i) \/ Offers(Tail(box), i)
           /\ \A type, i : Requests(box, type, i) <=>
                    (Head(box).type = type /\ Head(box).index = i) \/ Requests(Tail(box), type, i)
           /\ \A n, i : Sends(box, n, i) <=>
                    \/ Head(box).do = "send" /\ Head(box).to = n /\ Given(Head(box).msg, i)
                    \/ Sends(Tail(box), n, i)
  <1>1. /\ Head(box) = box[1] /\ Len(box) \in Nat /\ Len(box) > 0
        /\ Len(Tail(box)) = Len(box) - 1 /\ \A i \in 1..Len(Tail(box)) : Tail(box)[i] = box[i + 1]
    BY Tailed
  <1> DEFINE rest == Tail(box)
  <1>2. /\ 1 \in 1..Len(box) /\ \A i \in 1..Len(rest) : i + 1 \in 1..Len(box) /\ rest[i] = box[i + 1]
        /\ \A j \in 1..Len(box) : j = 1 \/ (j - 1 \in 1..Len(rest) /\ box[j] = rest[j - 1])
    BY <1>1
  <1>3. Head(box) = box[1]
    BY <1>1
  <1> HIDE DEF rest
  <1>4. \A i : Offers(box, i) <=> Given(Head(box), i) \/ Offers(rest, i)
    BY <1>2, <1>3 DEF Offers
  <1>5. \A type, i : Requests(box, type, i) <=>
            (Head(box).type = type /\ Head(box).index = i) \/ Requests(rest, type, i)
    BY <1>2, <1>3 DEF Requests
  <1>6. \A n, i : Sends(box, n, i) <=>
                    \/ Head(box).do = "send" /\ Head(box).to = n /\ Given(Head(box).msg, i)
                    \/ Sends(rest, n, i)
    BY <1>2, <1>3 DEF Sends
  <1> QED  BY <1>4, <1>5, <1>6 DEF rest

LEMMA MoreToRead ==
    ASSUME NEW S, NEW box \in Seq(S), NEW x \in S
    PROVE  /\ \A i : Offers(Append(box, x), i) <=> Offers(box, i) \/ Given(x, i)
           /\ \A type, i : Requests(Append(box, x), type, i) <=>
                    Requests(box, type, i) \/ (x.type = type /\ x.index = i)
  <1> DEFINE b == Append(box, x)
  <1>1. /\ Len(b) = Len(box) + 1 /\ Len(box) \in Nat
        /\ \A i \in 1..Len(box) : b[i] = box[i]
        /\ b[Len(box) + 1] = x
    BY Appended
  <1>2. \A k \in 1..Len(b) : k \in 1..Len(box) \/ k = Len(box) + 1
    BY <1>1
  <1>3. Len(box) + 1 \in 1..Len(b) /\ \A k \in 1..Len(box) : k \in 1..Len(b)
    BY <1>1
  <1> HIDE DEF b
  <1>4. \A i : Offers(b, i) <=> Offers(box, i) \/ Given(x, i)
    BY <1>1, <1>2, <1>3 DEF Offers
  <1>5. \A type, i : Requests(b, type, i) <=> Requests(box, type, i) \/ (x.type = type /\ x.index = i)
    BY <1>1, <1>2, <1>3 DEF Requests
  <1> QED  BY <1>4, <1>5 DEF b

(* A request that asks, first or behind the first.                         *)
LEMMA FewerAsked ==
    ASSUME NEW S, NEW rs \in Seq(S), rs # <<>>, NEW types
    PROVE  (\E k \in 1..Len(Tail(rs)) : Tail(rs)[k].type \in types)
                => \E k \in 1..Len(rs) : rs[k].type \in types
  BY Tailed

(* The service gives no slot and closes no connection but those that end.  *)
SessionKept ==
    /\ session'.open = session.open /\ session'.entries = session.entries
    /\ session'.reserved = session.reserved
    /\ \A m \in Node : Registered(m)' => Registered(m)

LEMMA SlotsKept ==
    ASSUME SlotInv, session'.open /\ Closing => Closing', session' = NoSession \/ SessionKept,
           \A m \in Node : \A i \in Index : Holds(m, i)' => Holds(m, i),
           \/ session'.reserved = {}
           \/ \A m \in Node : \A i \in Index : Rejoins(m, i)' => Rejoins(m, i)
    PROVE  Distinct' /\ ServiceSlots' /\ Secured' /\ Rejoinable'
  <1>1. Distinct'
    BY DEF SlotInv, Distinct
  <1>2. session' = NoSession => ~session'.open /\ session'.entries = {} /\ session'.reserved = {}
    BY DEF NoSession
  <1>3. ServiceSlots'
    BY <1>2 DEF SlotInv, ServiceSlots, SessionKept
  <1>4. Secured'
    <2>1. SUFFICES ASSUME session'.open, ~Closing', NEW n \in Node, NEW i \in Index, Holds(n, i)'
                   PROVE  \/ i \in session'.reserved /\ ~Registered(n)'
                          \/ \E e \in session'.entries : e.at = n /\ e.index = i
      BY DEF Secured
    <2>2. SessionKept /\ session.open /\ ~Closing /\ Holds(n, i)
      BY <1>2, <2>1 DEF SessionKept
    <2>3. \/ i \in session.reserved /\ ~Registered(n)
          \/ \E e \in session.entries : e.at = n /\ e.index = i
      BY <2>2 DEF SlotInv, Secured
    <2> QED  BY <2>2, <2>3 DEF SessionKept
  <1>5. Rejoinable'
    <2>1. session'.reserved = {} \/ (SessionKept /\ session'.reserved = session.reserved)
      BY <1>2 DEF SessionKept
    <2> QED  BY <2>1 DEF SlotInv, Rejoinable
  <1> QED  BY <1>1, <1>3, <1>4, <1>5

LEMMA SlotsStay ==
    ASSUME SlotInv, \A m \in Node : todo[m] = <<>>, session' = NoSession \/ SessionKept,
           \A m \in Node : \A i \in Index : Holds(m, i)' => Holds(m, i),
           \/ session'.reserved = {}
           \/ \A m \in Node : \A i \in Index : Rejoins(m, i)' => Rejoins(m, i)
    PROVE  Distinct' /\ ServiceSlots' /\ Secured' /\ Rejoinable'
  <1>1. ~Closing
    BY DEF Closing
  <1> QED  BY <1>1, SlotsKept

(* What a step of one node does, while no handler is at work.              *)
OthersKeep(n) ==
    \A m \in Node : m # n =>
        /\ phase'[m] = phase[m] /\ role'[m] = role[m] /\ index'[m] = index[m]
        /\ cached'[m] = cached[m] /\ held'[m] = held[m]
        /\ inbox'[m] = inbox[m] /\ requests'[m] = requests[m]

(* Who reads a roster has what it says of the others.                      *)
Attends(n) ==
    \/ inbox'[n] = inbox[n] /\ roster[n] \subseteq roster'[n]
    \/ /\ inbox[n] # <<>> /\ inbox'[n] = Tail(inbox[n])
       /\ IF News(Head(inbox[n]))
          THEN {e \in Head(inbox[n]).players : e.index # index[n]} \subseteq roster'[n]
          ELSE roster[n] \subseteq roster'[n]

NoWorse(n) ==
    /\ \A i \in Index : (Holds(n, i)' => Holds(n, i)) /\ (Rejoins(n, i)' => Rejoins(n, i))
    /\ UnassignedAt(n)'
    /\ Asks(n, {"recreate"})' => requests'[n] = requests[n] /\ index'[n] = index[n]
    /\ Asks(n, {"create", "join", "start"})' =>
            Asks(n, {"create", "join", "start"}) \/ session.open \/ (n \in Hosts /\ phase[n] # "playing")
    /\ phase'[n] # "electing"
    /\ role'[n] = "host" => role[n] = "host"
    /\ cached[n].index \in {NoIndex, index[n]} => cached'[n].index \in {NoIndex, index'[n]}
    /\ phase[n] = "out" => phase'[n] = "out" \/ Asks(n, {"join"})'
    /\ \A k \in 1..Len(inbox'[n]) : \E l \in 1..Len(inbox[n]) : inbox'[n][k] = inbox[n][l]
    /\ n \in Hosts' => Attends(n)

Unchanging(n) ==
    /\ used'.crashes = used.crashes
    /\ \A m \in Node : todo[m] = <<>> /\ todo'[m] = <<>>
    /\ \/ session' = session
       \/ /\ phase'[n] = "out" /\ SessionKept
          /\ \A m \in Node : m # n /\ Registered(m) => Registered(m)'

LEMMA OthersHold ==
    ASSUME NEW n \in Node, OthersKeep(n), \A m \in Node : todo[m] = <<>> /\ todo'[m] = <<>>
    PROVE  \A m \in Node : m # n =>
                /\ \A i \in Index : (Holds(m, i)' <=> Holds(m, i)) /\ (Rejoins(m, i)' <=> Rejoins(m, i))
                /\ \A types : Asks(m, types)' <=> Asks(m, types)
                /\ UnassignedAt(m) => UnassignedAt(m)'
  <1> SUFFICES ASSUME NEW m \in Node, m # n
               PROVE  /\ \A i \in Index : (Holds(m, i)' <=> Holds(m, i)) /\ (Rejoins(m, i)' <=> Rejoins(m, i))
                      /\ \A types : Asks(m, types)' <=> Asks(m, types)
                      /\ UnassignedAt(m) => UnassignedAt(m)'
    OBVIOUS
  <1>1. /\ phase'[m] = phase[m] /\ role'[m] = role[m] /\ index'[m] = index[m]
        /\ cached'[m] = cached[m] /\ held'[m] = held[m]
        /\ inbox'[m] = inbox[m] /\ requests'[m] = requests[m]
    BY DEF OthersKeep
  <1>2. \A i \in Index : Holds(m, i)' <=> Holds(m, i)
    BY <1>1, Nothing DEF Holds
  <1>3. \A i \in Index : Rejoins(m, i)' <=> Rejoins(m, i)
    BY <1>1 DEF Rejoins
  <1>4. \A types : Asks(m, types)' <=> Asks(m, types)
    BY <1>1 DEF Asks
  <1>5. UnassignedAt(m) => UnassignedAt(m)'
    BY <1>1, <1>2, <1>4 DEF UnassignedAt
  <1> QED  BY <1>2, <1>3, <1>4, <1>5

LEMMA OwnStepKeeps ==
    ASSUME LobbyInv, RosterInv, RosterInv', SlotInv, NEW n \in Node,
           OthersKeep(n), NoWorse(n), Unchanging(n),
           \A m \in Node : m # n => roster'[m] = roster[m],
           OnePerSlot(roster'[n]),
           (\A m \in Node : FirstHost(roster[m])
                            /\ \A k \in 1..Len(inbox[m]) : News(inbox[m][k]) => FirstHost(inbox[m][k].players))
                => FirstHost(roster'[n])
    PROVE  SlotInv'
  <1>1. \A m \in Node : todo[m] = <<>> /\ todo'[m] = <<>>
    BY DEF Unchanging
  <1>2. \A m \in Node : m # n =>
                /\ \A i \in Index : (Holds(m, i)' <=> Holds(m, i)) /\ (Rejoins(m, i)' <=> Rejoins(m, i))
                /\ \A types : Asks(m, types)' <=> Asks(m, types)
                /\ UnassignedAt(m) => UnassignedAt(m)'
    BY <1>1, OthersHold
  <1>3. \A m \in Node : \A i \in Index : (Holds(m, i)' => Holds(m, i)) /\ (Rejoins(m, i)' => Rejoins(m, i))
    BY <1>2 DEF NoWorse
  <1>4. SessionKept
    BY DEF Unchanging, SessionKept, Registered
  <1>5. \A m \in Node : m # n =>
            /\ phase'[m] = phase[m] /\ role'[m] = role[m] /\ index'[m] = index[m]
            /\ cached'[m] = cached[m] /\ held'[m] = held[m]
            /\ inbox'[m] = inbox[m] /\ requests'[m] = requests[m] /\ roster'[m] = roster[m]
    BY DEF OthersKeep
  <1>6. Distinct' /\ ServiceSlots' /\ Secured' /\ Rejoinable'
    BY <1>1, <1>3, <1>4, SlotsStay
  <1>7. Unassigned'
    BY <1>2 DEF NoWorse, SlotInv, Unassigned
  <1>8. Claims => Claims'
    BY <1>3 DEF Claims
  <1>9. RecreateInv'
    <2>1. SUFFICES ASSUME NEW h \in Node, NEW k \in 1..Len(requests'[h]), requests'[h][k].type = "recreate"
                   PROVE  /\ requests'[h][k].index = index'[h] /\ index'[h] \notin requests'[h][k].reserved
                          /\ \A m \in Node : \A i \in Index : Holds(m, i)' => m = h \/ i \in requests'[h][k].reserved
                          /\ Claims'
      BY DEF RecreateInv
    <2>2. requests'[h] = requests[h] /\ index'[h] = index[h]
      BY <1>5, <2>1 DEF NoWorse, Asks
    <2> QED  BY <1>3, <1>8, <2>1, <2>2 DEF SlotInv, RecreateInv
  <1>10. Hosts' \subseteq Hosts /\ Electing' \subseteq Electing /\ n \notin Electing'
    <2>1. phase[n] = "out" => role[n] = "client"
      BY DEF SlotInv, Unassigned, UnassignedAt
    <2>2. role'[n] = "host" => role[n] = "host"
      BY DEF NoWorse
    <2>3. Hosts' \subseteq Hosts
      BY <1>5, <2>1, <2>2 DEF Hosts, Live
    <2> QED  BY <1>5, <2>3 DEF Electing, NoWorse
  <1>11. Interregnum'
    <2>1. SUFFICES ASSUME Electing' # {} \/ \E m \in Node : Asks(m, {"recreate"})'
                   PROVE  /\ session' = NoSession /\ used'.crashes > 0
                          /\ \A m \in Node : /\ todo'[m] = <<>> /\ inbox'[m] = <<>>
                                             /\ ~Asks(m, {"create", "join", "start"})'
                          /\ Electing' # {} => Hosts' = {} /\ \A m \in Node : ~Asks(m, {"recreate"})'
      BY DEF Interregnum
    <2>2. \A m \in Node : Asks(m, {"recreate"})' => Asks(m, {"recreate"})
      BY <1>2 DEF NoWorse, Asks
    <2>3. /\ session = NoSession /\ used.crashes > 0
          /\ \A m \in Node : inbox[m] = <<>> /\ ~Asks(m, {"create", "join", "start"})
          /\ Electing # {} => Hosts = {} /\ \A m \in Node : ~Asks(m, {"recreate"})
      BY <1>10, <2>1, <2>2 DEF SlotInv, Interregnum
    <2>4. session' = NoSession
      <3>1. CASE session' = session
        BY <2>3, <3>1
      <3>2. CASE phase'[n] = "out" /\ SessionKept
        <4>1. session'.open = FALSE
          BY <2>3, <3>2 DEF SessionKept, NoSession
        <4> QED  BY <4>1 DEF RosterInv, Settled
      <3> QED  BY <3>1, <3>2 DEF Unchanging
    <2>5. n \in Hosts => phase[n] = "playing"
      <3>1. n \in Hosts => Electing' = {}
        BY <1>10, <2>3
      <3>2. PICK h \in Node : n \in Hosts => Asks(h, {"recreate"})
        BY <2>1, <2>2, <3>1
      <3>3. n \in Hosts => h \in Hosts /\ phase[h] = "playing"
        BY <3>2 DEF LobbyInv, ConnectedOnce, Hosts, Live
      <3> QED  BY <3>3 DEF SlotInv, OneHost
    <2>6. ~Asks(n, {"create", "join", "start"})' /\ inbox'[n] = <<>>
      <3>1. ~session.open
        BY <2>3 DEF NoSession
      <3>2. inbox'[n] = <<>>
        BY <2>3 DEF NoWorse
      <3> QED  BY <2>3, <2>5, <3>1, <3>2 DEF NoWorse
    <2> QED  BY <1>1, <1>2, <1>5, <1>10, <2>2, <2>3, <2>4, <2>6 DEF Unchanging
  <1>12. ElectingInv'
    <2>1. \A h \in Electing' : h \in Electing /\ h # n /\ h \in Node /\ roster'[h] = roster[h] /\ index'[h] = index[h]
      BY <1>5, <1>10 DEF Electing
    <2> QED  BY <1>3, <1>8, <2>1 DEF SlotInv, ElectingInv
  <1>13. OneHost'
    <2>1. \A h \in Hosts' : session'.open => Registered(h)'
      <3>1. \A h \in Hosts : session.open => Registered(h)
        BY DEF SlotInv, OneHost
      <3>2. \A h \in Hosts' : h \in Hosts /\ h \in Node /\ phase'[h] # "out"
        BY <1>10 DEF Hosts, Live
      <3>3. CASE session' = session
        BY <3>1, <3>2, <3>3 DEF Registered
      <3>4. CASE /\ phase'[n] = "out" /\ SessionKept
                 /\ \A m \in Node : m # n /\ Registered(m) => Registered(m)'
        BY <3>1, <3>2, <3>4 DEF SessionKept
      <3> QED  BY <3>3, <3>4 DEF Unchanging
    <2> QED  BY <1>10, <2>1 DEF SlotInv, OneHost
  <1>14. NoCrash'
    <2>1. SUFFICES ASSUME used'.crashes = 0
                   PROVE  /\ \A m \in Node : role'[m] = "host" => m = Creator
                          /\ session'.reserved = {}
                          /\ \A m \in Node : cached'[m].index \in {NoIndex, index'[m]}
                          /\ \A m \in Node : \A i \in Index : ~Rejoins(m, i)'
      BY DEF NoCrash
    <2>2. /\ \A m \in Node : role[m] = "host" => m = Creator
          /\ session.reserved = {}
          /\ \A m \in Node : cached[m].index \in {NoIndex, index[m]}
          /\ \A m \in Node : \A i \in Index : ~Rejoins(m, i)
      BY <2>1 DEF SlotInv, NoCrash, Unchanging
    <2>3. \A m \in Node : role'[m] = "host" => m = Creator
      BY <1>5, <2>2 DEF NoWorse
    <2>4. \A m \in Node : cached'[m].index \in {NoIndex, index'[m]}
      BY <1>5, <2>2 DEF NoWorse
    <2> QED  BY <1>3, <1>4, <2>2, <2>3, <2>4 DEF SessionKept
  <1>15. FirstInv'
    <2>1. SUFFICES ASSUME used'.crashes = 0, Creator \in Hosts'
                   PROVE  /\ \A m \in Node : \A i \in Index : Holds(m, i)' =>
                                /\ i = 0 <=> m = Creator
                                /\ Live(m)' => Registered(m)'
                          /\ session'.open => \E e \in session'.entries : e.index = 0
                          /\ ~Closing'
                          /\ FirstHost(session'.entries)
                          /\ \A m \in Node : FirstHost(roster'[m])
                          /\ \A m \in Node : \A k \in 1..Len(inbox'[m]) :
                                News(inbox'[m][k]) => FirstHost(inbox'[m][k].players)
      BY DEF FirstInv
    <2>2. used.crashes = 0 /\ Creator \in Hosts
      BY <1>10, <2>1 DEF Unchanging
    <2>3. /\ \A m \in Node : \A i \in Index : Holds(m, i) =>
                                /\ i = 0 <=> m = Creator
                                /\ Live(m) => Registered(m)
          /\ session.open => \E e \in session.entries : e.index = 0
          /\ FirstHost(session.entries)
          /\ \A m \in Node : FirstHost(roster[m])
          /\ \A m \in Node : \A k \in 1..Len(inbox[m]) :
                News(inbox[m][k]) => FirstHost(inbox[m][k].players)
      BY <2>2 DEF SlotInv, FirstInv
    <2>4. ~Closing'
      BY <1>1 DEF Closing
    <2>5. ASSUME NEW m \in Node, NEW i \in Index, Holds(m, i)', Live(m)'
          PROVE  Registered(m)'
      <3>1. Live(m)
        <4>1. CASE m # n
          BY <1>5, <2>5, <4>1 DEF Live
        <4>2. CASE m = n
          <5>1. ~Asks(n, {"join"})'
            BY <2>5, <4>2 DEF NoWorse, UnassignedAt
          <5> QED  BY <2>5, <4>2, <5>1 DEF NoWorse, Live
        <4> QED  BY <4>1, <4>2
      <3>2. Registered(m)
        BY <1>3, <2>3, <2>5, <3>1
      <3>3. session' = session \/ m # n
        BY <2>5 DEF Unchanging, Live
      <3>4. session' = session => Registered(m)'
        BY <3>2 DEF Registered
      <3> QED  BY <3>2, <3>3, <3>4 DEF Unchanging
    <2>6. FirstHost(roster'[n])
      BY <2>3
    <2>7. \A k \in 1..Len(inbox'[n]) : News(inbox'[n][k]) => FirstHost(inbox'[n][k].players)
      BY <2>3 DEF NoWorse
    <2> QED  BY <1>3, <1>4, <1>5, <2>3, <2>4, <2>5, <2>6, <2>7 DEF SessionKept
  <1>16. RostersUnique'
    <2>1. \A k \in 1..Len(inbox'[n]) : News(inbox'[n][k]) => OnePerSlot(inbox'[n][k].players)
      BY DEF NoWorse, SlotInv, RostersUnique
    <2> QED  BY <1>5, <2>1 DEF SlotInv, RostersUnique
  <1>17. Aware'
    <2>1. SUFFICES ASSUME NEW h \in Hosts', Registered(h)'
                   PROVE  LastIs(inbox'[h], Fitting') /\ (~NewsIn(inbox'[h]) => Knows(h)')
      BY DEF Aware, AwareAt
    <2>2. h \in Hosts /\ h \in Node /\ Registered(h)
      BY <1>4, <1>10, <2>1 DEF Hosts, SessionKept
    <2>9. Fitting \subseteq Fitting'
      BY <1>4, Fits DEF SessionKept
    <2>3. /\ LastIs(inbox[h], Fitting) /\ (~NewsIn(inbox[h]) => Knows(h))
          /\ LastIs(inbox[h], Fitting')
      <3>1. LastIs(inbox[h], Fitting) /\ (~NewsIn(inbox[h]) => Knows(h))
        BY <1>1, <2>2, Empty DEF SlotInv, Aware, AwareAt, Untold
      <3> QED  BY <2>9, <3>1, StillLast
    <2>4. ASSUME NEW e \in session.entries, Live(e.at)', Registered(e.at)', Holds(e.at, e.index)'
          PROVE  /\ Live(e.at) /\ Registered(e.at) /\ Holds(e.at, e.index)
                 /\ e.at \in Node /\ e.index \in Index
      <3>1. e.at \in Node /\ e.index \in Index
        BY DEF LobbyInv, FlightTypes, Record, Entry
      <3>2. Live(e.at)
        <4>1. CASE e.at # n
          BY <1>5, <2>4, <3>1, <4>1 DEF Live
        <4>2. CASE e.at = n
          <5>1. ~Asks(n, {"join"})'
            BY <2>4, <3>1, <4>2 DEF NoWorse, UnassignedAt
          <5> QED  BY <2>4, <4>2, <5>1 DEF NoWorse, Live
        <4> QED  BY <4>1, <4>2
      <3>3. Registered(e.at)
        BY <1>4, <2>4, <3>1 DEF SessionKept
      <3> QED  BY <1>3, <2>4, <3>1, <3>2, <3>3
    <2>5. session'.entries = session.entries
      BY <1>4 DEF SessionKept
    <2>6. ASSUME Knows(h), roster[h] \subseteq roster'[h]
          PROVE  Knows(h)'
      BY <2>4, <2>5, <2>6 DEF Knows
    <2>7. CASE h # n
      <3>1. inbox'[h] = inbox[h] /\ roster'[h] = roster[h]
        BY <1>5, <2>2, <2>7
      <3> QED  BY <2>3, <2>6, <3>1
    <2>8. CASE h = n
      <3>1. CASE inbox'[n] = inbox[n] /\ roster[n] \subseteq roster'[n]
        BY <2>3, <2>6, <2>8, <3>1
      <3>2. ASSUME inbox[n] # <<>>, inbox'[n] = Tail(inbox[n]),
                   IF News(Head(inbox[n]))
                   THEN {e \in Head(inbox[n]).players : e.index # index[n]} \subseteq roster'[n]
                   ELSE roster[n] \subseteq roster'[n]
            PROVE  LastIs(inbox'[h], Fitting') /\ (~NewsIn(inbox'[h]) => Knows(h)')
        <4> DEFINE box == inbox[n]
                   es == session.entries
        <4>1. box \in Seq(Sendable)
          BY DEF LobbyInv, FlightTypes
        <4>2. /\ Head(box) = box[1] /\ Len(box) \in Nat /\ Len(box) > 0
              /\ Len(Tail(box)) = Len(box) - 1 /\ \A i \in 1..Len(Tail(box)) : Tail(box)[i] = box[i + 1]
          BY <3>2, <4>1, Tailed
        <4>3. LastIs(Tail(box), Fitting')
          <5>1. Told(box, es, Fitting)
            BY <2>3, <2>8, Fits DEF Told
          <5>2. LastIs(Tail(box), Fitting)
            BY <3>2, <4>1, <5>1, Heard DEF Told
          <5> QED  BY <2>9, <5>2, StillLast
        <4>4. ASSUME ~NewsIn(Tail(box))
              PROVE  Knows(h)'
          <5>1. \A j \in 1..Len(box) : j > 1 => ~News(box[j])
            <6>1. \A j \in 1..Len(box) : j > 1 => j - 1 \in 1..Len(Tail(box)) /\ box[j] = Tail(box)[j - 1]
              BY <4>2
            <6> QED  BY <4>4, <6>1 DEF NewsIn
          <5>2. 1 \in 1..Len(box)
            BY <4>2
          <5>3. CASE News(Head(box))
            <6>1. Head(box).players \in Fitting
              BY <2>3, <2>8, <4>2, <5>1, <5>2, <5>3 DEF LastIs
            <6>2. ASSUME NEW e \in es, e.at # h, Live(e.at)', Registered(e.at)', Holds(e.at, e.index)'
                  PROVE  \E f \in roster'[h] : f.at = e.at /\ f.index = e.index
              <7>1. /\ Holds(e.at, e.index) /\ e.at \in Node /\ e.index \in Index
                    /\ Registered(e.at)
                BY <2>4, <6>2
              <7>4. e \in Head(box).players
                BY <6>1, <7>1 DEF Fitting
              <7>2. index[n] \in Index => Holds(n, index[n])
                BY DEF Holds
              <7>3. e.index # index[n]
                BY <2>8, <6>2, <7>1, <7>2 DEF SlotInv, Distinct
              <7> QED  BY <2>8, <3>2, <5>3, <7>3, <7>4
            <6> QED  BY <2>5, <6>2 DEF Knows
          <5>4. CASE ~News(Head(box))
            <6>1. ~NewsIn(box)
              BY <4>2, <5>1, <5>4 DEF NewsIn
            <6> QED  BY <2>3, <2>6, <2>8, <3>2, <5>4, <6>1
          <5> QED  BY <5>3, <5>4
        <4> QED  BY <2>8, <3>2, <4>3, <4>4
      <3> QED  BY <2>1, <2>8, <3>1, <3>2 DEF NoWorse, Attends
    <2> QED  BY <2>7, <2>8
  <1> QED  BY <1>6, <1>7, <1>9, <1>11, <1>12, <1>13, <1>14, <1>15, <1>16, <1>17 DEF SlotInv

(* The others stay connected.                                              *)
LEMMA OthersStayIn ==
    ASSUME LobbyInv, NEW n \in Node, NEW s, s = Drop(n, session), NEW m \in Node, m # n, Registered(m)
    PROVE  \E k \in DOMAIN s.connections : s.connections[k] = m
  <1> DEFINE c == session.connections
             r == RemoveFirst(c, n)
  <1>1. session \in Record /\ c \in Seq(Node) /\ Len(c) \in Nat
    BY DEF LobbyInv, FlightTypes, Record
  <1>2. \A i, j \in 1..Len(c) : c[i] = c[j] => i = j
    BY DEF LobbyInv, ConnectedOnce
  <1>3. s.connections = r
    BY <1>1 DEF Drop, Record
  <1>4. PICK k \in 1..Len(c) : c[k] = m
    BY <1>1 DEF Registered
  <1>5. CASE \E p \in 1..Len(c) : c[p] = n
    <2>1. PICK p \in 1..Len(c) : c[p] = n
      BY <1>5
    <2>2. /\ r \in Seq(Node) /\ Len(r) = Len(c) - 1
          /\ \A i \in 1..(Len(c) - 1) : r[i] = IF i < p THEN c[i] ELSE c[i + 1]
      BY <1>1, <1>2, <2>1, RemovedOnce
    <2> HIDE DEF r, c
    <2>3. k # p
      BY <1>4, <2>1
    <2>4. CASE k < p
      <3>1. k \in 1..(Len(c) - 1)
        BY <1>1, <1>4, <2>1, <2>4
      <3>2. k \in 1..Len(r) /\ DOMAIN r = 1..Len(r) /\ r[k] = m
        BY <1>4, <2>2, <2>4, <3>1
      <3> QED  BY <1>3, <3>2
    <2>5. CASE k > p
      <3>1. k - 1 \in 1..(Len(c) - 1) /\ ~(k - 1 < p) /\ (k - 1) + 1 = k
        BY <1>1, <1>4, <2>1, <2>5
      <3>2. k - 1 \in 1..Len(r) /\ DOMAIN r = 1..Len(r) /\ r[k - 1] = m
        BY <1>4, <2>2, <3>1
      <3> QED  BY <1>3, <3>2
    <2> QED  BY <1>1, <2>1, <2>3, <2>4, <2>5
  <1>6. CASE ~\E p \in 1..Len(c) : c[p] = n
    <2>1. r = c
      BY <1>6 DEF RemoveFirst
    <2> QED  BY <1>1, <1>3, <1>4, <2>1
  <1> QED  BY <1>5, <1>6

LEMMA DropKept ==
    ASSUME LobbyInv, NEW n \in Node, session' = Drop(n, session), phase' = [phase EXCEPT ![n] = "out"]
    PROVE  /\ SessionKept
           /\ \A m \in Node : m # n /\ Registered(m) => Registered(m)'
  <1>1. /\ session \in Record
        /\ \A i, j \in 1..Len(session.connections) :
                session.connections[i] = session.connections[j] => i = j
    BY DEF LobbyInv, FlightTypes, ConnectedOnce
  <1>2. /\ session'.open = session.open /\ session'.entries = session.entries
        /\ session'.reserved = session.reserved
    BY <1>1, DropIs
  <1>3. \A m \in Node : m # n /\ Registered(m) => Registered(m)'
    BY OthersStayIn DEF Registered
  <1>4. \A m \in Node : Registered(m)' => Registered(m)
    BY DroppedKeeps
  <1> QED  BY <1>2, <1>3, <1>4 DEF SessionKept

LEMMA NothingUnsent == (\A m \in Node : todo[m] = <<>>) => \A n \in Node : \A m \in Node : Unsent(n)[m] = <<>>
  BY DEF Unsent

LEMMA NoRoster ==
    /\ OnePerSlot({}) /\ FirstHost({})
    /\ \A S, T : S \subseteq T => (OnePerSlot(T) => OnePerSlot(S)) /\ (FirstHost(T) => FirstHost(S))
  BY DEF OnePerSlot, FirstHost

(* A process ends in the lobby.                                            *)
LEMMA TeardownSlots ==
    ASSUME LobbyInv, RosterInv, RosterInv', SlotInv, NEW n \in Node, \A m \in Node : todo[m] = <<>>,
           Teardown(n), UNCHANGED used,
           phase[n] \notin {"out", "playing"}
    PROVE  SlotInv'
  <1>1. /\ role' = [role EXCEPT ![n] = "client"] /\ index' = [index EXCEPT ![n] = NoIndex]
        /\ roster' = [roster EXCEPT ![n] = {}] /\ held' = [held EXCEPT ![n] = {}]
        /\ phase' = [phase EXCEPT ![n] = "out"] /\ inbox' = [inbox EXCEPT ![n] = <<>>]
        /\ cached' = [cached EXCEPT ![n] = NoMetadata]
        /\ session' = Drop(n, session) /\ todo' = Unsent(n)
    BY DEF Teardown, Forget
  <1>2. \/ index[n] # NoIndex /\ requests' = [requests EXCEPT ![n] = Append(@, Req("leave", index[n], {}))]
        \/ UNCHANGED requests
    BY DEF Teardown
  <1>3. NodeTypes /\ FlightTypes /\ requests \in [Node -> Seq(Sound)]
    BY DEF LobbyInv, FlightTypes
  <1>4. /\ role'[n] = "client" /\ index'[n] = NoIndex /\ roster'[n] = {} /\ held'[n] = {}
        /\ phase'[n] = "out" /\ inbox'[n] = <<>> /\ cached'[n] = NoMetadata
    BY <1>1, <1>3 DEF NodeTypes, FlightTypes
  <1>5. OthersKeep(n) /\ \A m \in Node : m # n => roster'[m] = roster[m]
    <2>1. \A m \in Node : m # n => requests'[m] = requests[m]
      BY <1>2, <1>3
    <2> QED  BY <1>1, <1>3, <2>1 DEF OthersKeep, NodeTypes, FlightTypes
  <1>6. Unchanging(n)
    <2>1. \A m \in Node : todo'[m] = <<>>
      BY <1>1, NothingUnsent
    <2> QED  BY <1>1, <1>4, <2>1, DropKept DEF Unchanging
  <1>7. ~Asks(n, {"recreate"}) /\ ~Asks(n, {"leave"})
    BY DEF LobbyInv, ConnectedOnce, SlotInv, Unassigned, UnassignedAt
  <1>8. /\ \A i \in Index : Requests(requests'[n], "leave", i) => index[n] = i
        /\ \A i \in Index : Requests(requests'[n], "join", i) => Requests(requests[n], "join", i)
        /\ Asks(n, {"recreate"})' => FALSE
        /\ Asks(n, {"create", "join", "start"})' => Asks(n, {"create", "join", "start"})
        /\ Asks(n, {"join"})' => Asks(n, {"join"}) /\ requests' = requests
    <2>1. CASE UNCHANGED requests
      BY <1>7, <2>1 DEF Asks, Requests
    <2>2. CASE index[n] # NoIndex /\ requests' = [requests EXCEPT ![n] = Append(@, Req("leave", index[n], {}))]
      <3> DEFINE r == Req("leave", index[n], {})
      <3>1. requests[n] \in Seq(Sound) /\ r \in Sound /\ r.type = "leave" /\ r.index = index[n]
        BY <1>3 DEF Req, Sound, Request, NodeTypes
      <3>2. requests'[n] = Append(requests[n], r)
        BY <1>3, <2>2
      <3>3. /\ Len(requests'[n]) = Len(requests[n]) + 1 /\ Len(requests[n]) \in Nat
            /\ \A k \in 1..Len(requests[n]) : requests'[n][k] = requests[n][k]
            /\ requests'[n][Len(requests[n]) + 1] = r
        <4> HIDE DEF r
        <4> QED  BY <3>1, <3>2, Appended
      <3>4. \A k \in 1..Len(requests'[n]) : k \in 1..Len(requests[n]) \/ k = Len(requests[n]) + 1
        BY <3>3
      <3>5. \A k \in 1..Len(requests'[n]) : requests'[n][k].type # "leave" =>
                k \in 1..Len(requests[n]) /\ requests'[n][k] = requests[n][k]
        BY <3>1, <3>3, <3>4
      <3>6. \A i \in Index : Requests(requests'[n], "leave", i) => index[n] = i
        BY <1>7, <3>1, <3>3, <3>4 DEF Requests, Asks
      <3>7. ~Asks(n, {"join"})
        BY <2>2, <1>3 DEF SlotInv, Unassigned, UnassignedAt, NodeTypes
      <3> QED  BY <1>7, <3>5, <3>6, <3>7 DEF Requests, Asks
    <2> QED  BY <1>2, <2>1, <2>2
  <1>9. \A i \in Index : (Holds(n, i)' => Holds(n, i)) /\ (Rejoins(n, i)' => Rejoins(n, i))
    <2>1. NoIndex \notin Index
      BY HasSlot
    <2>2. \A i \in Index : Holds(n, i)' => Requests(requests'[n], "leave", i)
      BY <1>4, <2>1 DEF Holds
    <2>3. \A i \in Index : Rejoins(n, i)' => Requests(requests'[n], "join", i)
      BY <1>4, <2>1 DEF Rejoins, NoMetadata
    <2> QED  BY <1>8, <2>2, <2>3 DEF Holds, Rejoins
  <1>10. UnassignedAt(n)'
    <2>1. NoIndex \notin Index
      BY HasSlot
    <2>2. Asks(n, {"join"})' => \A i \in Index : ~Holds(n, i)'
      BY <1>8, <1>9 DEF SlotInv, Unassigned, UnassignedAt
    <2> QED  BY <1>4, <2>2 DEF UnassignedAt
  <1>11. NoWorse(n)
    <2>1. n \notin Hosts'
      BY <1>4 DEF Hosts, Live
    <2>2. \A k \in 1..Len(inbox'[n]) : FALSE
      BY <1>4
    <2> QED  BY <1>4, <1>8, <1>9, <1>10, <2>1, <2>2 DEF NoWorse, NoMetadata
  <1> QED  BY <1>4, <1>5, <1>6, <1>11, NoRoster, OwnStepKeeps

(* A step in which a process neither comes nor goes nor reads.             *)
LEMMA ThinksSlots ==
    ASSUME LobbyInv, RosterInv, RosterInv', SlotInv, NEW n \in Node, \A m \in Node : todo[m] = <<>>,
           UNCHANGED <<role, index, held, cached, session, todo, inbox>>, used'.crashes = used.crashes,
           \A m \in Node : m # n => phase'[m] = phase[m] /\ requests'[m] = requests[m]
                                    /\ roster'[m] = roster[m],
           phase'[n] \notin {"out", "joining", "electing"}, phase[n] \notin {"out", "joining"},
           \/ requests' = requests
           \/ /\ requests' = [requests EXCEPT ![n] = Append(@, Req("start", NoIndex, {}))]
              /\ n \in Hosts /\ phase[n] # "playing",
           roster[n] \subseteq roster'[n], OnePerSlot(roster'[n]),
           (\A m \in Node : FirstHost(roster[m])) => FirstHost(roster'[n])
    PROVE  SlotInv'
  <1>1. OthersKeep(n)
    BY DEF OthersKeep
  <1>2. Unchanging(n)
    BY DEF Unchanging
  <1>3. ~Asks(n, {"leave"}) /\ ~Asks(n, {"join"}) /\ (phase[n] # "playing" => ~Asks(n, {"recreate"}))
    BY DEF LobbyInv, ConnectedOnce, SlotInv, Unassigned, UnassignedAt
  <1>4. /\ \A i : ~Requests(requests'[n], "leave", i)
        /\ \A i : ~Requests(requests'[n], "join", i)
        /\ Asks(n, {"recreate"})' => requests'[n] = requests[n]
        /\ Asks(n, {"create", "join", "start"})' =>
                Asks(n, {"create", "join", "start"}) \/ (n \in Hosts /\ phase[n] # "playing")
        /\ ~Asks(n, {"join"})' /\ ~Asks(n, {"leave"})'
    <2>1. CASE requests' = requests
      BY <1>3, <2>1 DEF Asks, Requests
    <2>2. CASE /\ requests' = [requests EXCEPT ![n] = Append(@, Req("start", NoIndex, {}))]
               /\ n \in Hosts /\ phase[n] # "playing"
      <3> DEFINE r == Req("start", NoIndex, {})
      <3>1. requests[n] \in Seq(Sound) /\ r \in Sound /\ r.type = "start"
        BY DEF Req, Sound, Request, LobbyInv, FlightTypes
      <3>2. requests'[n] = Append(requests[n], r)
        BY <2>2 DEF LobbyInv, FlightTypes
      <3>3. /\ Len(requests'[n]) = Len(requests[n]) + 1 /\ Len(requests[n]) \in Nat
            /\ \A k \in 1..Len(requests[n]) : requests'[n][k] = requests[n][k]
            /\ requests'[n][Len(requests[n]) + 1] = r
        <4> HIDE DEF r
        <4> QED  BY <3>1, <3>2, Appended
      <3>4. \A k \in 1..Len(requests'[n]) : requests'[n][k].type # "start" =>
                k \in 1..Len(requests[n]) /\ requests'[n][k] = requests[n][k]
        BY <3>1, <3>3
      <3> QED  BY <1>3, <2>2, <3>4 DEF Requests, Asks
    <2> QED  BY <2>1, <2>2
  <1>5. \A i \in Index : (Holds(n, i)' => Holds(n, i)) /\ ~Rejoins(n, i)'
    BY <1>4 DEF Holds, Rejoins
  <1>6. UnassignedAt(n)'
    BY <1>4 DEF SlotInv, Unassigned, UnassignedAt
  <1>7. NoWorse(n)
    <2>1. Attends(n)
      BY DEF Attends
    <2> QED  BY <1>4, <1>5, <1>6, <2>1 DEF NoWorse
  <1> QED  BY <1>1, <1>2, <1>7, OwnStepKeeps

(* A process enters the lobby.                                             *)
LEMMA EnterSlots ==
    ASSUME LobbyInv, RosterInv, RosterInv', SlotInv, NEW n \in Node, \A m \in Node : todo[m] = <<>>,
           NEW rejoin, rejoin \in {NoIndex, cached[n].index}, Enter(n, rejoin)
    PROVE  SlotInv'
  <1> DEFINE r == Req("join", rejoin, {})
  <1>1. /\ phase[n] = "out" /\ session.open /\ requests[n] = <<>>
        /\ requests' = [requests EXCEPT ![n] = <<r>>]
        /\ phase' = [phase EXCEPT ![n] = "joining"]
        /\ used' = [used EXCEPT !.joins = @ + 1]
        /\ UNCHANGED <<role, index, roster, held, cached, session, todo, inbox>>
    BY DEF Enter
  <1>2. NodeTypes /\ FlightTypes
    BY DEF LobbyInv
  <1>3. phase'[n] = "joining" /\ requests'[n] = <<r>> /\ r.type = "join" /\ r.index = rejoin
    BY <1>1, <1>2 DEF NodeTypes, FlightTypes, Req
  <1>4. OthersKeep(n)
    BY <1>1, <1>2 DEF OthersKeep, NodeTypes, FlightTypes
  <1>5. Unchanging(n)
    BY <1>1, <1>2 DEF Unchanging, NodeTypes
  <1>6. index[n] = NoIndex /\ held[n] = {} /\ inbox[n] = <<>> /\ role[n] = "client"
    BY <1>1 DEF SlotInv, Unassigned, UnassignedAt
  <1> HIDE DEF r
  <1>7. requests'[n][1] = r /\ Len(requests'[n]) = 1 /\ \A k \in 1..1 : k = 1
    BY <1>3
  <1>8. /\ Asks(n, {"join"})' /\ ~Asks(n, {"leave"})' /\ ~Asks(n, {"recreate"})'
        /\ \A i : ~Requests(requests'[n], "leave", i)
        /\ \A i : Requests(requests'[n], "join", i) => i = rejoin
    BY <1>3, <1>7 DEF Asks, Requests
  <1>9. NoIndex \notin Index
    BY HasSlot
  <1>10. \A i \in Index : ~Holds(n, i)'
    <2>1. \A m \in Node : todo'[m] = <<>>
      BY <1>1
    <2> QED  BY <1>1, <1>6, <1>8, <1>9, <2>1, Nothing DEF Holds
  <1>11. \A i \in Index : Rejoins(n, i)' => Rejoins(n, i)
    BY <1>1, <1>3, <1>8, <1>9 DEF Rejoins
  <1>12. UnassignedAt(n)'
    BY <1>1, <1>3, <1>6, <1>8, <1>10 DEF UnassignedAt, SlotInv, Unassigned
  <1>13. NoWorse(n)
    BY <1>1, <1>3, <1>6, <1>8, <1>10, <1>11, <1>12 DEF NoWorse, Attends
  <1> QED  BY <1>1, <1>4, <1>5, <1>13, OwnStepKeeps DEF SlotInv, RostersUnique

(* No host is found, and the metadata go.                                  *)
LEMMA GivesUpSlots ==
    ASSUME LobbyInv, RosterInv, RosterInv', SlotInv, NEW n \in Node, \A m \in Node : todo[m] = <<>>,
           phase[n] = "out", cached' = [cached EXCEPT ![n] = NoMetadata],
           UNCHANGED <<phase, role, index, roster, held, session, requests, todo, inbox, used>>
    PROVE  SlotInv'
  <1>1. cached'[n] = NoMetadata /\ \A m \in Node : m # n => cached'[m] = cached[m]
    BY DEF LobbyInv, NodeTypes
  <1>2. OthersKeep(n) /\ Unchanging(n)
    BY <1>1 DEF OthersKeep, Unchanging
  <1>3. NoIndex \notin Index
    BY HasSlot
  <1>4. \A i \in Index : (Holds(n, i)' => Holds(n, i)) /\ (Rejoins(n, i)' => Rejoins(n, i))
    BY <1>1, <1>3 DEF Holds, Rejoins, NoMetadata
  <1>5. UnassignedAt(n)'
    BY <1>4 DEF UnassignedAt, SlotInv, Unassigned, Asks
  <1>6. NoWorse(n)
    BY <1>1, <1>4, <1>5 DEF NoWorse, Attends, Asks, NoMetadata
  <1> QED  BY <1>2, <1>6, OwnStepKeeps DEF SlotInv, RostersUnique

(* A node reads a message, and goes on.                                    *)
LEMMA ReadsSlots ==
    ASSUME LobbyInv, RosterInv, RosterInv', SlotInv, NEW n \in Node, \A m \in Node : todo[m] = <<>>,
           NEW msg, inbox[n] # <<>>, msg = Head(inbox[n]),
           inbox' = [inbox EXCEPT ![n] = Tail(@)],
           UNCHANGED <<role, held, session, requests, todo, used>>,
           \A m \in Node : m # n => /\ phase'[m] = phase[m] /\ index'[m] = index[m]
                                    /\ cached'[m] = cached[m] /\ roster'[m] = roster[m],
           phase'[n] \notin {"out", "electing"}, phase[n] # "out",
           \/ index'[n] = index[n] /\ (phase'[n] = "joining" <=> phase[n] = "joining")
           \/ phase[n] = "joining" /\ phase'[n] = "waiting" /\ Given(msg, index'[n]) /\ index'[n] \in Index,
           cached'[n] = cached[n] \/ cached'[n].index = index'[n],
           OnePerSlot(roster'[n]),
           (\A m \in Node : FirstHost(roster[m])) /\ (News(msg) => FirstHost(msg.players))
                => FirstHost(roster'[n]),
           n \in Hosts => IF News(msg) THEN {e \in msg.players : e.index # index[n]} \subseteq roster'[n]
                                       ELSE roster[n] \subseteq roster'[n]
    PROVE  SlotInv'
  <1>1. NodeTypes /\ FlightTypes /\ inbox[n] \in Seq(Sendable)
    BY DEF LobbyInv, FlightTypes
  <1>2. inbox'[n] = Tail(inbox[n]) /\ \A m \in Node : m # n => inbox'[m] = inbox[m]
    BY <1>1 DEF FlightTypes
  <1>3. OthersKeep(n) /\ Unchanging(n)
    BY <1>2 DEF OthersKeep, Unchanging
  <1>4. \A i : Offers(inbox[n], i) <=> Given(msg, i) \/ Offers(inbox'[n], i)
    BY <1>1, <1>2, LessToRead
  <1>5. /\ msg = inbox[n][1] /\ Len(inbox[n]) \in Nat /\ Len(inbox[n]) > 0
        /\ Len(inbox'[n]) = Len(inbox[n]) - 1
        /\ \A i \in 1..Len(inbox'[n]) : inbox'[n][i] = inbox[n][i + 1]
    <2> DEFINE box == inbox[n]
    <2>1. /\ Head(box) = box[1] /\ Len(box) \in Nat /\ Len(box) > 0
          /\ Len(Tail(box)) = Len(box) - 1
          /\ \A i \in 1..Len(Tail(box)) : Tail(box)[i] = box[i + 1]
      BY <1>1, Tailed
    <2> QED  BY <1>2, <2>1
  <1>6. 1 \in 1..Len(inbox[n])
        /\ \A k \in 1..Len(inbox'[n]) : \E l \in 1..Len(inbox[n]) : inbox'[n][k] = inbox[n][l]
    <2>1. \A k \in 1..Len(inbox'[n]) : k + 1 \in 1..Len(inbox[n])
      BY <1>5
    <2> QED  BY <1>5, <2>1
  <1>7. \A i \in Index : Holds(n, i)' => Holds(n, i)
    <2>1. CASE index'[n] = index[n] /\ (phase'[n] = "joining" <=> phase[n] = "joining")
      BY <1>4, <2>1 DEF Holds
    <2>2. CASE phase[n] = "joining" /\ phase'[n] = "waiting" /\ Given(msg, index'[n])
      BY <1>4, <2>2 DEF Holds
    <2> QED  BY <2>1, <2>2
  <1>8. \A i \in Index : Rejoins(n, i)' => Rejoins(n, i)
    BY DEF Rejoins
  <1>9. index'[n] = index[n] \/ (phase[n] = "joining" /\ index[n] = NoIndex /\ held[n] = {} /\ Holds(n, index'[n]))
    BY <1>4 DEF Holds, SlotInv, Unassigned, UnassignedAt
  <1>10. UnassignedAt(n)'
    <2>1. ~Asks(n, {"leave"})
      BY DEF SlotInv, Unassigned, UnassignedAt
    <2>2. Asks(n, {"join"}) => phase'[n] = "joining" /\ role[n] = "client" /\ \A i \in Index : ~Holds(n, i)'
      <3>1. Asks(n, {"join"}) => phase[n] = "joining" /\ role[n] = "client" /\ \A i \in Index : ~Holds(n, i)
        BY DEF SlotInv, Unassigned, UnassignedAt
      <3>2. phase[n] = "joining" /\ Given(msg, index'[n]) => Holds(n, index'[n])
        BY <1>4 DEF Holds
      <3> QED  BY <1>7, <3>1, <3>2
    <2>3. \A types : Asks(n, types)' <=> Asks(n, types)
      BY DEF Asks
    <2> QED  BY <1>9, <2>1, <2>2, <2>3 DEF SlotInv, Unassigned, UnassignedAt
  <1>11. n \in Hosts' => n \in Hosts
    BY DEF Hosts, Live
  <1>12. NoWorse(n)
    <2>1. \A types : Asks(n, types)' <=> Asks(n, types)
      BY DEF Asks
    <2>2. Asks(n, {"recreate"}) => index'[n] = index[n]
      BY DEF LobbyInv, ConnectedOnce
    <2>3. cached[n].index \in {NoIndex, index[n]} => cached'[n].index \in {NoIndex, index'[n]}
      BY <1>9
    <2>4. n \in Hosts' => Attends(n)
      BY <1>2, <1>11 DEF Attends
    <2> QED  BY <1>6, <1>7, <1>8, <1>10, <2>1, <2>2, <2>3, <2>4 DEF NoWorse
  <1>13. (\A m \in Node : FirstHost(roster[m])
                          /\ \A k \in 1..Len(inbox[m]) : News(inbox[m][k]) => FirstHost(inbox[m][k].players))
            => FirstHost(roster'[n])
    BY <1>5, <1>6
  <1> QED  BY <1>3, <1>12, <1>13, OwnStepKeeps

(* What a node reads is typed, and lists a slot once.                      *)
LEMMA ReadSlots ==
    ASSUME MaxSuspended = 0, LobbyInv, LobbyInv', RosterInv, RosterInv', SlotInv, NEW n \in Node, Read(n)
    PROVE  SlotInv'
  <1> DEFINE msg == Head(inbox[n])
  <1>1. inbox[n] # <<>> /\ UNCHANGED used /\ \A m \in Node : todo[m] = <<>>
    BY AtRest DEF Read, RosterInv
  <1>2. NodeTypes /\ FlightTypes /\ inbox[n] \in Seq(Sendable)
    BY DEF LobbyInv, FlightTypes
  <1>3. msg = inbox[n][1] /\ 1 \in 1..Len(inbox[n]) /\ msg \in Sendable
    BY <1>1, <1>2, Tailed
  <1>4. News(msg) => OnePerSlot(msg.players)
    BY <1>3 DEF SlotInv, RostersUnique
  <1>5. OnePerSlot(roster[n])
    BY DEF SlotInv, RostersUnique
  <1>6. phase[n] \notin {"out", "playing"} /\ Teardown(n) => SlotInv'
    BY <1>1, TeardownSlots
  <1>7. phase[n] # "out"
    BY <1>1 DEF SlotInv, Unassigned, UnassignedAt
  <1>8. CASE Handshake(n, msg)
    <2>1. CASE msg.type = "rejected"
      BY <1>6, <1>8, <2>1 DEF Handshake
    <2>2. CASE msg.type # "rejected"
      <3>1. /\ UNCHANGED <<role, held, cached, session, requests, todo>>
            /\ inbox' = [inbox EXCEPT ![n] = Tail(@)]
            /\ roster' = [roster EXCEPT ![n] = IF msg.type = "roster" THEN msg.players ELSE @]
            /\ phase[n] = "joining"
            /\ \/ /\ msg.type \in {"created", "joined"}
                  /\ phase' = [phase EXCEPT ![n] = "waiting"] /\ index' = [index EXCEPT ![n] = msg.index]
               \/ UNCHANGED <<phase, index>>
        BY <1>8, <2>2 DEF Handshake
      <3> HIDE DEF msg
      <3>2. /\ roster'[n] = IF News(msg) THEN msg.players ELSE roster[n]
            /\ \A m \in Node : m # n => roster'[m] = roster[m]
        BY <1>2, <3>1 DEF NodeTypes, News
      <3>3. CASE msg.type \in {"created", "joined"} /\ phase' = [phase EXCEPT ![n] = "waiting"]
                 /\ index' = [index EXCEPT ![n] = msg.index]
        <4>1. /\ phase'[n] = "waiting" /\ index'[n] = msg.index
              /\ \A m \in Node : m # n => phase'[m] = phase[m] /\ index'[m] = index[m]
          BY <1>2, <3>3 DEF NodeTypes
        <4>2. Given(msg, index'[n]) /\ index'[n] \in Index
          BY <1>3, <3>3, <4>1 DEF Given, Sendable
        <4> QED  BY ZenonT(60), <1>1, <1>4, <1>5, <1>7, <3>1, <3>2, <4>1, <4>2, ReadsSlots DEF msg
      <3>4. CASE UNCHANGED <<phase, index>>
        BY <1>1, <1>4, <1>5, <1>7, <3>1, <3>2, <3>4, ReadsSlots DEF msg
      <3> QED  BY <3>1, <3>3, <3>4
    <2> QED  BY <2>1, <2>2
  <1>9. CASE WaitForStart(n, msg)
    <2>1. CASE msg.type = "closed" /\ role[n] = "client"
      BY <1>6, <1>9, <2>1 DEF WaitForStart
    <2>2. CASE ~(msg.type = "closed" /\ role[n] = "client")
      <3>1. /\ UNCHANGED <<role, index, held, session, requests, todo>>
            /\ inbox' = [inbox EXCEPT ![n] = Tail(@)]
            /\ roster' = [roster EXCEPT ![n] = IF msg.type = "roster" THEN msg.players ELSE @]
            /\ phase[n] \in {"waiting", "starting", "draining"}
            /\ \/ UNCHANGED <<phase, cached>>
               \/ /\ phase' = [phase EXCEPT ![n] = IF role[n] = "host" THEN "draining" ELSE "playing"]
                  /\ cached' = [cached EXCEPT ![n] = Saved(n)]
        BY <1>9, <2>2 DEF WaitForStart
      <3> HIDE DEF msg
      <3>2. /\ roster'[n] = IF News(msg) THEN msg.players ELSE roster[n]
            /\ \A m \in Node : m # n => roster'[m] = roster[m]
        BY <1>2, <3>1 DEF NodeTypes, News
      <3>3. CASE UNCHANGED <<phase, cached>>
        BY <1>1, <1>4, <1>5, <1>7, <3>1, <3>2, <3>3, ReadsSlots DEF msg
      <3>4. CASE /\ phase' = [phase EXCEPT ![n] = IF role[n] = "host" THEN "draining" ELSE "playing"]
                 /\ cached' = [cached EXCEPT ![n] = Saved(n)]
        <4>1. /\ phase'[n] \in {"draining", "playing"} /\ cached'[n] = Saved(n)
              /\ \A m \in Node : m # n => phase'[m] = phase[m]
          BY <1>2, <3>4 DEF NodeTypes
        <4>2. \A m \in Node : m # n => cached'[m] = cached[m]
          BY <1>2, <3>4 DEF NodeTypes
        <4>3. Saved(n).index = index[n]
          BY DEF Saved
        <4>4. /\ cached'[n].index = index'[n] /\ index'[n] = index[n]
              /\ (phase'[n] = "joining" <=> phase[n] = "joining") /\ phase'[n] \notin {"out", "electing"}
          BY <3>1, <4>1, <4>3
        <4>5. /\ UNCHANGED <<role, held, session, requests, todo, used>>
              /\ \A m \in Node : m # n => /\ phase'[m] = phase[m] /\ index'[m] = index[m]
                                       /\ cached'[m] = cached[m] /\ roster'[m] = roster[m]
          BY <1>1, <3>1, <3>2, <4>1, <4>2
        <4>6. /\ OnePerSlot(roster'[n])
              /\ (\A m \in Node : FirstHost(roster[m])) /\ (News(msg) => FirstHost(msg.players))
                    => FirstHost(roster'[n])
              /\ IF News(msg) THEN {e \in msg.players : e.index # index[n]} \subseteq roster'[n]
                              ELSE roster[n] \subseteq roster'[n]
          BY <1>4, <1>5, <3>2
        <4>7. msg = Head(inbox[n])
          BY DEF msg
        <4> QED  BY <1>1, <1>7, <3>1, <4>4, <4>5, <4>6, <4>7, ReadsSlots
      <3> QED  BY <3>1, <3>3, <3>4
    <2> QED  BY <2>1, <2>2
  <1>10. CASE ReadInGame(n, msg)
    <2>1. /\ UNCHANGED <<session, todo, phase, cached, role, index, held, requests>>
          /\ inbox' = [inbox EXCEPT ![n] = Tail(@)]
          /\ roster' = [roster EXCEPT ![n] = IF role[n] = "host" /\ msg.type = "roster"
                                             THEN Admitted(n, msg.players) ELSE @]
          /\ phase[n] = "playing"
      BY <1>10 DEF ReadInGame
    <2> HIDE DEF msg
    <2>2. /\ roster'[n] = IF role[n] = "host" /\ News(msg) THEN Admitted(n, msg.players) ELSE roster[n]
          /\ \A m \in Node : m # n => roster'[m] = roster[m]
      BY <1>2, <2>1 DEF NodeTypes, News
    <2>3. {e \in msg.players : e.index # index[n]} \subseteq Admitted(n, msg.players)
      BY DEF Admitted
    <2>4. News(msg) => OnePerSlot(Admitted(n, msg.players))
      BY <1>4, <1>5 DEF Admitted, OnePerSlot, Indices
    <2>5. FirstHost(roster[n]) /\ FirstHost(msg.players) => FirstHost(Admitted(n, msg.players))
      BY DEF Admitted, FirstHost
    <2>6. n \in Hosts => role[n] = "host"
      BY DEF Hosts
    <2> QED  BY <1>1, <1>4, <1>5, <1>7, <2>1, <2>2, <2>3, <2>4, <2>5, <2>6, ReadsSlots DEF msg
  <1> QED  BY <1>8, <1>9, <1>10 DEF Read

(* The host evicts who is gone.                                            *)
LEMMA EvictSlots ==
    ASSUME LobbyInv, RosterInv, RosterInv', SlotInv, NEW h \in Node, \A m \in Node : todo[m] = <<>>,
           Evict(h)
    PROVE  SlotInv'
  <1> DEFINE gone(m, e) == {x \in roster[m] : /\ phase[m] = "playing"
                                              /\ x.index = e.index /\ index[m] # e.index}
  <1>1. PICK e \in roster[h] :
            /\ Ended(e)
            /\ \A m \in Node : roster'[m] = roster[m] \ gone(m, e)
            /\ \A m \in Node : held'[m] = held[m] \/ held'[m] = held[m] \cup Indices(gone(m, e))
    BY DEF Evict
  <1>2. /\ UNCHANGED <<phase, role, index, cached, over, session, requests, todo, inbox, used>>
        /\ h \in Hosts /\ phase[h] = "playing"
    BY DEF Evict
  <1>3. \A m \in Node : \A i \in Index : (Holds(m, i)' <=> Holds(m, i)) /\ (Rejoins(m, i)' <=> Rejoins(m, i))
    BY <1>2 DEF Holds, Rejoins
  <1>4. SessionKept
    BY <1>2 DEF SessionKept, Registered
  <1>5. Distinct' /\ ServiceSlots' /\ Secured' /\ Rejoinable'
    BY <1>3, <1>4, SlotsStay
  <1>6. \A m \in Node : \A types : Asks(m, types)' <=> Asks(m, types)
    BY <1>2 DEF Asks
  <1>7. Unassigned'
    <2>1. SUFFICES ASSUME NEW m \in Node PROVE UnassignedAt(m)'
      BY DEF Unassigned
    <2>2. UnassignedAt(m)
      BY DEF SlotInv, Unassigned
    <2>3. phase[m] # "playing" => held'[m] = held[m]
      <3>1. phase[m] # "playing" => Indices(gone(m, e)) = {}
        BY DEF Indices
      <3> HIDE DEF gone
      <3> QED  BY <1>1, <3>1
    <2>4. index[m] \notin held'[m]
      <3>1. index[m] \notin Indices(gone(m, e))
        BY DEF Indices
      <3>2. index[m] \notin held[m]
        BY <2>2 DEF UnassignedAt
      <3> HIDE DEF gone
      <3> QED  BY <1>1, <3>1, <3>2
    <2> QED  BY <1>2, <1>3, <1>6, <2>2, <2>3, <2>4 DEF UnassignedAt
  <1>8. Claims' <=> Claims
    BY <1>3 DEF Claims
  <1>9. RecreateInv'
    BY <1>2, <1>3, <1>8 DEF SlotInv, RecreateInv
  <1>10. Hosts' = Hosts /\ Electing' = Electing
    BY <1>2 DEF Hosts, Electing, Live
  <1>11. Interregnum'
    BY <1>2, <1>6, <1>10 DEF SlotInv, Interregnum
  <1>12. ElectingInv'
    <2>1. \A m \in Electing : m \in Node /\ roster'[m] = roster[m]
      BY <1>1 DEF Electing
    <2> QED  BY <1>2, <1>3, <1>8, <1>10, <2>1 DEF SlotInv, ElectingInv
  <1>13. \A m \in Node : Registered(m)' <=> Registered(m)
    BY <1>2 DEF Registered
  <1>14. OneHost'
    BY <1>2, <1>10, <1>13 DEF SlotInv, OneHost, Hosts
  <1>15. NoCrash'
    BY <1>2, <1>3 DEF SlotInv, NoCrash
  <1>16. FirstInv'
    <2>1. \A m \in Node : FirstHost(roster[m]) => FirstHost(roster'[m])
      BY <1>1, NoRoster
    <2>2. ~Closing'
      BY <1>2 DEF Closing
    <2>3. \A m \in Node : Live(m)' <=> Live(m)
      BY <1>2 DEF Live
    <2> QED  BY <1>2, <1>3, <1>10, <1>13, <2>1, <2>2, <2>3 DEF SlotInv, FirstInv
  <1>17. RostersUnique'
    <2>1. \A m \in Node : roster'[m] \subseteq roster[m]
      BY <1>1
    <2>2. \A m \in Node : OnePerSlot(roster'[m])
      BY <2>1, NoRoster DEF SlotInv, RostersUnique
    <2> QED  BY <1>2, <2>2 DEF SlotInv, RostersUnique
  <1>18. Aware'
    <2>1. SUFFICES ASSUME NEW g \in Hosts, Registered(g)
                   PROVE  LastIs(inbox[g], Fitting') /\ (~NewsIn(inbox[g]) => Knows(g)')
      BY <1>2, <1>10, <1>13 DEF Aware, AwareAt, Hosts
    <2>2. g = h
      BY <1>2 DEF SlotInv, OneHost
    <2>6. LastIs(inbox[h], Fitting) /\ (~NewsIn(inbox[h]) => Knows(h))
      BY <2>1, <2>2, Empty DEF SlotInv, Aware, AwareAt, Untold
    <2>3. LastIs(inbox[h], Fitting') /\ (~NewsIn(inbox[h]) => Knows(h))
      <3>1. Fitting \subseteq Fitting'
        BY <1>4, Fits DEF SessionKept
      <3> QED  BY <2>6, <3>1, StillLast
    <2>4. ASSUME Knows(h), NEW x \in session.entries, x.at # h, Live(x.at), Registered(x.at),
                 Holds(x.at, x.index)
          PROVE  \E f \in roster'[h] : f.at = x.at /\ f.index = x.index
      <3>1. PICK f \in roster[h] : f.at = x.at /\ f.index = x.index
        BY <2>4 DEF Knows
      <3>2. SUFFICES ASSUME f.index = e.index PROVE FALSE
        BY <1>1, <3>1
      <3>3. f = e
        BY <3>2 DEF SlotInv, RostersUnique, OnePerSlot
      <3>4. x.at \in Node /\ x.index \in Index
        BY DEF LobbyInv, FlightTypes, Record, Entry
      <3>5. index[x.at] \in Index \cup {NoIndex}
        BY <3>4 DEF LobbyInv, NodeTypes
      <3>6. index[x.at] \in Index => Holds(x.at, index[x.at])
        BY DEF Holds
      <3>7. index[x.at] \in {NoIndex, x.index}
        BY <2>4, <3>4, <3>5, <3>6 DEF SlotInv, Distinct
      <3> QED  BY <1>1, <2>4, <3>1, <3>3, <3>7 DEF Ended, Live
    <2>5. Knows(h) => Knows(h)'
      <3>1. \A x \in session.entries : x.at \in Node /\ x.index \in Index
        BY DEF LobbyInv, FlightTypes, Record, Entry
      <3>2. \A m \in Node : Live(m)' <=> Live(m)
        BY <1>2 DEF Live
      <3> QED  BY <1>2, <1>3, <1>13, <2>4, <3>1, <3>2 DEF Knows
    <2> QED  BY <2>2, <2>3, <2>5
  <1> QED  BY <1>5, <1>7, <1>9, <1>11, <1>12, <1>14, <1>15, <1>16, <1>17, <1>18 DEF SlotInv

(* The first crash.                                                        *)
LEMMA FirstCrash ==
    ASSUME MaxCrashes <= 1, LobbyInv, SlotInv, NEW n \in Node, Crash(n)
    PROVE  /\ used.crashes = 0 /\ used'.crashes = 1
           /\ Electing = {} /\ \A m \in Node : ~Asks(m, {"recreate"})
           /\ session.reserved = {}
           /\ \A m \in Node : \A i \in Index : ~Rejoins(m, i)
           /\ \A m \in Node : cached[m].index \in {NoIndex, index[m]}
           /\ \A m \in Node : role[m] = "host" => m = Creator
  <1>1. used \in [joins: Nat, runs: Nat, crashes: Nat, untold: Nat] /\ MaxCrashes \in Nat
    BY LobbyAssumption DEF LobbyInv, NodeTypes
  <1>2. used.crashes < MaxCrashes /\ used'.crashes = used.crashes + 1
    <2>1. used' = [used EXCEPT !.crashes = used.crashes + 1,
                      !.untold = IF HasTold(n) THEN used.untold ELSE used.untold + 1]
      BY DEF Crash
    <2> QED  BY <1>1, <2>1 DEF Crash
  <1>3. used.crashes = 0 /\ used'.crashes = 1
    BY <1>1, <1>2
  <1>4. Electing = {} /\ \A m \in Node : ~Asks(m, {"recreate"})
    BY <1>3 DEF SlotInv, Interregnum
  <1> QED  BY <1>3, <1>4 DEF SlotInv, NoCrash

(* A host that has told all its players.                                   *)
LEMMA CrashTold ==
    ASSUME LobbyInv, NEW n \in Node, Crash(n), used'.untold = 0
    PROVE  HasTold(n)
  <1>1. used \in [joins: Nat, runs: Nat, crashes: Nat, untold: Nat]
    BY DEF LobbyInv, NodeTypes
  <1>2. used' = [used EXCEPT !.crashes = used.crashes + 1,
                    !.untold = IF HasTold(n) THEN used.untold ELSE used.untold + 1]
    BY DEF Crash
  <1>3. ~HasTold(n) => used'.untold = used.untold + 1
    BY <1>1, <1>2
  <1> QED  BY <1>1, <1>3

LEMMA CrashClientSlots ==
    ASSUME MaxCrashes <= 1, LobbyInv, RosterInv, RosterInv', SlotInv, NEW n \in Node,
           \A m \in Node : todo[m] = <<>>, Crash(n), CrashClient(n)
    PROVE  SlotInv'
  <1>1. /\ n \notin Hosts /\ phase' = [phase EXCEPT ![n] = "out"]
        /\ session' = Drop(n, session) /\ todo' = Unsent(n)
        /\ inbox' = [inbox EXCEPT ![n] = <<>>] /\ UNCHANGED requests
        /\ role' = [role EXCEPT ![n] = "client"] /\ index' = [index EXCEPT ![n] = NoIndex]
        /\ roster' = [roster EXCEPT ![n] = {}] /\ held' = [held EXCEPT ![n] = {}]
    BY DEF CrashClient, Crash, Forget
  <1>2. /\ used.crashes = 0 /\ used'.crashes = 1
        /\ Electing = {} /\ \A m \in Node : ~Asks(m, {"recreate"})
        /\ session.reserved = {}
    BY FirstCrash
  <1>3. NodeTypes /\ FlightTypes
    BY DEF LobbyInv
  <1>4. /\ role'[n] = "client" /\ index'[n] = NoIndex /\ roster'[n] = {} /\ held'[n] = {}
        /\ phase'[n] = "out" /\ inbox'[n] = <<>>
    BY <1>1, <1>3 DEF NodeTypes, FlightTypes
  <1>5. \A m \in Node : m # n =>
            /\ phase'[m] = phase[m] /\ role'[m] = role[m] /\ index'[m] = index[m]
            /\ held'[m] = held[m] /\ inbox'[m] = inbox[m] /\ roster'[m] = roster[m]
    BY <1>1, <1>3 DEF NodeTypes, FlightTypes
  <1>6. /\ SessionKept
        /\ \A m \in Node : m # n /\ Registered(m) => Registered(m)'
    BY <1>1, DropKept
  <1>7. \A m \in Node : todo'[m] = <<>>
    BY <1>1, NothingUnsent
  <1>8. \A m \in Node : \A i \in Index : Holds(m, i)' => Holds(m, i)
    <2>1. \A i \in Index : Holds(n, i)' => Holds(n, i)
      BY <1>1, <1>4, HasSlot DEF Holds
    <2>2. \A m \in Node : m # n => \A i \in Index : Holds(m, i)' => Holds(m, i)
      BY <1>1, <1>5, <1>7, Nothing DEF Holds
    <2> QED  BY <2>1, <2>2
  <1>9. Distinct' /\ ServiceSlots' /\ Secured' /\ Rejoinable'
    BY <1>2, <1>6, <1>8, SlotsStay DEF SessionKept
  <1>10. \A m \in Node : \A types : Asks(m, types)' <=> Asks(m, types)
    BY <1>1 DEF Asks
  <1>11. Unassigned'
    <2>1. UnassignedAt(n)'
      BY <1>4, <1>8, <1>10, HasSlot DEF SlotInv, Unassigned, UnassignedAt
    <2>2. \A m \in Node : m # n => UnassignedAt(m)'
      BY <1>5, <1>8, <1>10 DEF SlotInv, Unassigned, UnassignedAt
    <2> QED  BY <2>1, <2>2 DEF Unassigned
  <1>12. Electing' = {} /\ \A m \in Node : ~Asks(m, {"recreate"})'
    BY <1>2, <1>4, <1>5, <1>10 DEF Electing
  <1>13. RecreateInv' /\ Interregnum' /\ ElectingInv'
    BY <1>12 DEF RecreateInv, Interregnum, ElectingInv, Asks
  <1>14. Hosts' \subseteq Hosts /\ n \notin Hosts'
    BY <1>4, <1>5 DEF Hosts, Live
  <1>15. OneHost'
    <2>1. \A g \in Hosts' : session'.open => Registered(g)'
      BY <1>6, <1>14 DEF SlotInv, OneHost, SessionKept, Hosts
    <2> QED  BY <1>14, <2>1 DEF SlotInv, OneHost
  <1>16. NoCrash' /\ FirstInv'
    BY <1>2 DEF NoCrash, FirstInv
  <1>17. RostersUnique'
    <2>1. \A k \in 1..Len(inbox'[n]) : FALSE
      BY <1>4
    <2> QED  BY <1>4, <1>5, <2>1, NoRoster DEF SlotInv, RostersUnique
  <1>18. Aware'
    <2>1. SUFFICES ASSUME NEW g \in Hosts', Registered(g)'
                   PROVE  LastIs(inbox'[g], Fitting') /\ (~NewsIn(inbox'[g]) => Knows(g)')
      BY DEF Aware, AwareAt
    <2>2. /\ g \in Hosts /\ g \in Node /\ g # n /\ Registered(g)
          /\ inbox'[g] = inbox[g] /\ roster'[g] = roster[g]
      BY <1>5, <1>6, <1>14, <2>1 DEF Hosts, SessionKept
    <2>7. LastIs(inbox[g], Fitting) /\ (~NewsIn(inbox[g]) => Knows(g))
      BY <2>2, Empty DEF SlotInv, Aware, AwareAt, Untold
    <2>3. LastIs(inbox[g], Fitting') /\ (~NewsIn(inbox[g]) => Knows(g))
      <3>1. Fitting \subseteq Fitting'
        BY <1>6, Fits DEF SessionKept
      <3> QED  BY <2>7, <3>1, StillLast
    <2>4. session'.entries = session.entries
      BY <1>6 DEF SessionKept
    <2>5. ASSUME NEW e \in session.entries, Live(e.at)', Registered(e.at)', Holds(e.at, e.index)'
          PROVE  Live(e.at) /\ Registered(e.at) /\ Holds(e.at, e.index)
      <3>1. e.at \in Node /\ e.index \in Index
        BY DEF LobbyInv, FlightTypes, Record, Entry
      <3> QED  BY <1>4, <1>5, <1>6, <1>8, <2>5, <3>1 DEF Live, SessionKept
    <2>6. Knows(g) => Knows(g)'
      BY <2>2, <2>4, <2>5 DEF Knows
    <2> QED  BY <2>2, <2>3, <2>6
  <1> QED  BY <1>9, <1>11, <1>13, <1>15, <1>16, <1>17, <1>18 DEF SlotInv

(* The host dies: who plays on knows every slot that is held.              *)
LEMMA CrashHostSlots ==
    ASSUME MaxCrashes <= 1, LobbyInv, RosterInv, RosterInv', SlotInv, NEW n \in Node,
           \A m \in Node : todo[m] = <<>>, Crash(n), CrashHost(n), HasTold(n)
    PROVE  SlotInv'
  <1> DEFINE survivors == Survivors(n)
             left == Stranded(n)
  <1>1. /\ n \in Hosts
        /\ survivors # {} => Quiet /\ \A m \in survivors : Unknown(m, n) = {}
        /\ phase' = [m \in Node |-> IF m = n THEN "out"
                                    ELSE IF m \in survivors THEN "electing"
                                    ELSE IF m \in left THEN "stranded" ELSE phase[m]]
        /\ inbox' = [m \in Node |-> IF m \in survivors \cup left \cup {n} THEN <<>> ELSE inbox[m]]
        /\ session' = NoSession
        /\ requests' = [m \in Node |-> <<>>]
        /\ todo' = [m \in Node |-> <<>>]
        /\ role' = [role EXCEPT ![n] = "client"] /\ index' = [index EXCEPT ![n] = NoIndex]
        /\ roster' = [roster EXCEPT ![n] = {}] /\ held' = [held EXCEPT ![n] = {}]
        /\ cached' = cached \/ cached' = [cached EXCEPT ![n] = NoMetadata]
    BY DEF CrashHost, Crash, Forget, Quit, HasTold
  <1>2. /\ used.crashes = 0 /\ used'.crashes = 1
        /\ Electing = {} /\ session.reserved = {}
        /\ \A m \in Node : \A i \in Index : ~Rejoins(m, i)
        /\ \A m \in Node : cached[m].index \in {NoIndex, index[m]}
        /\ \A m \in Node : role[m] = "host" => m = Creator
    BY FirstCrash
  <1>3. NodeTypes /\ FlightTypes
    BY DEF LobbyInv
  <1>4. /\ role'[n] = "client" /\ index'[n] = NoIndex /\ roster'[n] = {} /\ held'[n] = {}
        /\ phase'[n] = "out" /\ inbox'[n] = <<>>
    BY <1>1, <1>3 DEF NodeTypes
  <1>5. \A m \in Node : m # n =>
            /\ m \in survivors => phase'[m] = "electing" /\ inbox'[m] = <<>>
            /\ m \notin survivors /\ m \in left => phase'[m] = "stranded" /\ inbox'[m] = <<>>
            /\ m \notin survivors /\ m \notin left => phase'[m] = phase[m] /\ inbox'[m] = inbox[m]
            /\ role'[m] = role[m] /\ index'[m] = index[m]
            /\ held'[m] = held[m] /\ roster'[m] = roster[m]
    BY <1>1, <1>3 DEF NodeTypes
  <1>6. /\ \A m \in survivors : m \in Node /\ m # n /\ phase[m] = "playing"
        /\ \A m \in left : m \in Node /\ m # n /\ phase[m] \in {"joining", "waiting"}
    BY DEF Survivors, Stranded
  <1> HIDE DEF survivors, left
  <1>7. \A m \in Node : requests'[m] = <<>> /\ todo'[m] = <<>>
    BY <1>1
  <1>8. \A m \in Node : \A types : ~Asks(m, types)'
    BY <1>7 DEF Asks
  <1>9. \A m \in Node : \A i \in Index : Holds(m, i)' => Holds(m, i) /\ m # n
    <2>1. \A i \in Index : ~Holds(n, i)'
      BY <1>4, <1>7, HasSlot, Nothing DEF Holds
    <2>2. ASSUME NEW m \in Node, m # n, NEW i \in Index, Holds(m, i)'
          PROVE  Holds(m, i)
      <3>1. index[m] = i \/ (phase'[m] = "joining" /\ Offers(inbox'[m], i))
        BY <1>5, <1>7, <2>2, Nothing DEF Holds
      <3> QED  BY <1>5, <2>2, <3>1 DEF Holds
    <2> QED  BY <2>1, <2>2
  <1>10. n = Creator /\ Hosts = {n} /\ Hosts' = {}
    <2>1. n = Creator
      BY <1>1, <1>2 DEF Hosts
    <2>2. Hosts = {n}
      BY <1>1 DEF SlotInv, OneHost
    <2>3. Hosts' = {}
      <3>1. \A m \in Node : m # n => role[m] # "host"
        BY <1>2, <2>1
      <3> QED  BY <1>4, <1>5, <3>1 DEF Hosts
    <2> QED  BY <2>1, <2>2, <2>3
  <1>11. Distinct' /\ ServiceSlots' /\ Secured' /\ Rejoinable'
    <2>1. session'.reserved = {}
      BY <1>1 DEF NoSession
    <2> QED  BY <1>1, <1>9, <2>1, SlotsStay
  <1>12. Unassigned'
    <2>1. UnassignedAt(n)'
      BY <1>4, <1>8, HasSlot DEF UnassignedAt
    <2>2. ASSUME NEW m \in Node, m # n
          PROVE  UnassignedAt(m)'
      BY <1>5, <1>8, <2>2 DEF SlotInv, Unassigned, UnassignedAt
    <2> QED  BY <2>1, <2>2 DEF Unassigned
  <1>13. RecreateInv'
    <2>1. \A m \in Node : \A k \in 1..Len(requests'[m]) : FALSE
      BY <1>7
    <2> QED  BY <2>1 DEF RecreateInv
  <1>14. \A m \in Electing' : m \in survivors /\ m \in Node /\ m # n
    BY <1>2, <1>4, <1>5 DEF Electing
  <1>15. Interregnum'
    <2>1. Electing' # {} => \A m \in Node : inbox'[m] = <<>>
      <3>1. SUFFICES ASSUME Electing' # {}, NEW m \in Node PROVE inbox'[m] = <<>>
        OBVIOUS
      <3>2. Quiet
        BY <1>1, <1>6, <1>14, <3>1
      <3> QED  BY <1>4, <1>5, <3>2 DEF Quiet
    <2> QED  BY <1>1, <1>2, <1>7, <1>8, <1>10, <2>1 DEF Interregnum
  <1>16. ElectingInv'
    <2>1. SUFFICES ASSUME NEW h \in Electing'
                   PROVE  /\ \A m \in Node : \A i \in Index : Holds(m, i)' =>
                                i = index'[h] \/ \E e \in roster'[h] : e.index = i /\ ~e.host
                          /\ \A e \in roster'[h] : e.host => e.index # index'[h]
                          /\ Claims'
      BY DEF ElectingInv
    <2>2. /\ h \in Node /\ h # n /\ h \in survivors
          /\ index'[h] = index[h] /\ roster'[h] = roster[h]
          /\ phase[h] = "playing" /\ Live(n) /\ Quiet /\ Unknown(h, n) = {}
      BY <1>1, <1>5, <1>6, <1>14 DEF Crash
    <2>3. /\ \A m \in Node : \A i \in Index : Holds(m, i) =>
                /\ i = 0 <=> m = n
                /\ Live(m) => Registered(m)
          /\ \A m \in Node : FirstHost(roster[m])
      BY <1>2, <1>10 DEF SlotInv, FirstInv
    <2>4. index[h] \in Index /\ Holds(h, index[h])
      <3>1. index[h] \in Index
        BY <2>2 DEF LobbyInv, Indexed
      <3> QED  BY <3>1 DEF Holds
    <2>6. index[h] # 0
      BY <2>2, <2>3, <2>4
    <2>5. index[n] \in Index => index[n] = 0 /\ Holds(n, index[n])
      BY <2>3 DEF Holds
    <2>7. Registered(n) /\ session.open
      <3>1. Registered(h)
        BY <2>2, <2>3, <2>4 DEF Live
      <3>2. session # NoSession
        BY <3>1 DEF Registered, NoSession
      <3>3. session.open
        BY <3>2 DEF RosterInv, Settled
      <3> QED  BY <1>1, <3>3 DEF SlotInv, OneHost
    <2>8. Knows(n)
      <3>1. \A m \in Node : ~Announces(todo[m]) /\ ~Carries(todo[m], n)
        BY Empty
      <3>2. ~NewsIn(inbox[n])
        BY <2>2 DEF Quiet, NewsIn
      <3> QED  BY <1>1, <2>7, <3>1, <3>2 DEF SlotInv, Aware, AwareAt, Untold
    <2>9. ASSUME NEW m \in Node, NEW i \in Index, Holds(m, i)'
          PROVE  i = index[h] \/ \E e \in roster[h] : e.index = i /\ ~e.host
      <3>1. Holds(m, i) /\ m # n
        BY <1>9, <2>9
      <3>2. index[m] = i
        <4>1. inbox'[m] = <<>> /\ index'[m] = index[m]
          BY <1>5, <2>2, <3>1 DEF Quiet
        <4> QED  BY <1>7, <2>9, <4>1, Nothing DEF Holds
      <3>3. Live(m)
        BY <3>2, HasSlot DEF Live, SlotInv, Unassigned, UnassignedAt
      <3>4. Registered(m)
        BY <2>3, <3>1, <3>3
      <3>5. ~Closing
        BY DEF Closing
      <3>6. PICK e \in session.entries : e.at = m /\ e.index = i
        BY <1>2, <2>7, <3>1, <3>5 DEF SlotInv, Secured
      <3>7. PICK f \in roster[n] : f.at = m /\ f.index = i
        BY <2>8, <3>1, <3>3, <3>4, <3>6 DEF Knows
      <3>8. i \in Indices(roster[h]) \cup {index[h]}
        BY <2>2, <3>7 DEF Unknown
      <3>9. CASE i \in Indices(roster[h])
        <4>1. PICK x \in roster[h] : x.index = i
          BY <3>9 DEF Indices
        <4>2. ~x.host
          BY <2>2, <2>3, <3>1, <4>1 DEF FirstHost
        <4> QED  BY <4>1, <4>2
      <3> QED  BY <3>8, <3>9
    <2>10. Claims'
      <3>1. SUFFICES ASSUME NEW m \in Node, NEW i \in Index, Rejoins(m, i)', NEW l \in Node, Holds(l, i)'
                     PROVE  FALSE
        BY DEF Claims
      <3>2. phase'[m] = "out" /\ cached'[m].index = i
        BY <1>7, <3>1, Nothing DEF Rejoins
      <3>3. Holds(l, i) /\ l # n
        BY <1>9, <3>1
      <3>4. CASE m # n
        <4>1. phase[m] = "out"
          BY <1>5, <3>2, <3>4
        <4>2. cached[m].index = i
          BY <1>1, <1>3, <3>2, <3>4 DEF NodeTypes
        <4> QED  BY <1>2, <4>1, <4>2 DEF Rejoins
      <3>5. CASE m = n
        <4>1. cached'[n] = cached[n] \/ cached'[n] = NoMetadata
          BY <1>1, <1>3 DEF NodeTypes
        <4>2. i = index[n]
          BY <1>2, <3>1, <3>2, <3>5, <4>1, HasSlot DEF NoMetadata
        <4> QED  BY <2>5, <3>1, <3>3, <4>2 DEF SlotInv, Distinct
      <3> QED  BY <3>4, <3>5
    <2>11. \A e \in roster[h] : e.host => e.index # index[h]
      BY <2>2, <2>3, <2>6 DEF FirstHost
    <2> QED  BY <2>2, <2>9, <2>10, <2>11
  <1>17. OneHost' /\ NoCrash' /\ FirstInv' /\ Aware'
    BY <1>2, <1>10 DEF OneHost, NoCrash, FirstInv, Aware
  <1>18. RostersUnique'
    <2>1. SUFFICES ASSUME NEW m \in Node
                   PROVE  /\ OnePerSlot(roster'[m])
                          /\ \A k \in 1..Len(inbox'[m]) : News(inbox'[m][k]) => OnePerSlot(inbox'[m][k].players)
      BY DEF RostersUnique
    <2>2. roster'[m] = roster[m] \/ roster'[m] = {}
      BY <1>4, <1>5
    <2>3. inbox'[m] = inbox[m] \/ inbox'[m] = <<>>
      BY <1>4, <1>5
    <2>4. inbox'[m] = <<>> => \A k \in 1..Len(inbox'[m]) : FALSE
      OBVIOUS
    <2> QED  BY <2>2, <2>3, <2>4, NoRoster DEF SlotInv, RostersUnique
  <1> QED  BY <1>11, <1>12, <1>13, <1>15, <1>16, <1>17, <1>18 DEF SlotInv

(* The survivor of the lowest index registers the session.                 *)
LEMMA PromoteSlots ==
    ASSUME LobbyInv, RosterInv, SlotInv, NEW n \in Node, Promote(n)
    PROVE  SlotInv'
  <1> DEFINE crashed(m) == {e \in roster[m] : m \in Electing /\ e.host}
             left(m) == roster[m] \ crashed(m)
  <1>1. n \in Electing /\ UNCHANGED <<index, cached, session, todo, inbox, used>>
    BY DEF Promote, Electing
  <1>2. /\ role' = [role EXCEPT ![n] = "host"]
        /\ \A m \in Node : phase'[m] = IF m \in Electing THEN "playing" ELSE phase[m]
    BY DEF Promote, Electing
  <1>3. /\ \A m \in Node : roster'[m] = {[e EXCEPT !.host = IF m \in Electing
                                        THEN e.index = index[n] ELSE @] : e \in left(m)}
        /\ \A m \in Node : held'[m] = held[m] \/ held'[m] = held[m] \cup Indices(crashed(m))
        /\ requests' = [requests EXCEPT ![n] =
                <<Req("recreate", index[n], Reserved(n, left(n), held'[n]))>>]
    <2> DEFINE gone(m) == {e \in roster[m] : m \in {l \in Node : phase[l] = "electing"} /\ e.host}
               states(m, kept) == held[m] \cup (IF kept THEN Indices(gone(m)) ELSE {})
    <2>1. PICK kept \in BOOLEAN :
            /\ roster' = [m \in Node |-> {[e EXCEPT !.host = IF m \in {l \in Node : phase[l] = "electing"}
                                        THEN e.index = index[n] ELSE @] : e \in roster[m] \ gone(m)}]
            /\ held' = [m \in Node |-> states(m, kept)]
            /\ requests' = [requests EXCEPT ![n] =
                    <<Req("recreate", index[n], Reserved(n, roster[n] \ gone(n), states(n, kept)))>>]
      BY DEF Promote
    <2>2. \A m \in Node : gone(m) = crashed(m)
      BY DEF Electing
    <2>3. \A m \in Node : held'[m] = states(m, kept)
      BY <2>1
    <2>4. \A m \in Node : states(m, kept) = held[m] \/ states(m, kept) = held[m] \cup Indices(gone(m))
      OBVIOUS
    <2>5. \A m \in Node : roster'[m] = {[e EXCEPT !.host = IF m \in Electing
                                        THEN e.index = index[n] ELSE @] : e \in left(m)}
      <3>1. Electing = {l \in Node : phase[l] = "electing"}
        BY DEF Electing
      <3> QED  BY <2>1, <2>2, <3>1
    <2> HIDE DEF gone, states, crashed
    <2>6. \A m \in Node : held'[m] = held[m] \/ held'[m] = held[m] \cup Indices(crashed(m))
      BY <2>2, <2>3, <2>4
    <2>7. requests' = [requests EXCEPT ![n] =
                <<Req("recreate", index[n], Reserved(n, left(n), held'[n]))>>]
      BY <2>1, <2>2, <2>3
    <2> QED  BY <2>5, <2>6, <2>7
  <1>4. NodeTypes /\ FlightTypes
    BY DEF LobbyInv
  <1>5. Electing \subseteq Node /\ \A m \in Node : m \in Electing <=> phase[m] = "electing"
    BY DEF Electing
  <1>6. role'[n] = "host" /\ \A m \in Node : m # n => role'[m] = role[m] /\ requests'[m] = requests[m]
    BY <1>2, <1>3, <1>4 DEF NodeTypes, FlightTypes
  <1> DEFINE reserved == Reserved(n, left(n), held'[n])
             r == Req("recreate", index[n], reserved)
  <1>7. /\ requests'[n] = <<r>> /\ r.type = "recreate" /\ r.index = index[n] /\ r.reserved = reserved
        /\ Len(<<r>>) = 1 /\ <<r>>[1] = r /\ \A k \in 1..1 : k = 1
    <2>1. requests'[n] = <<r>>
      BY <1>3, <1>4 DEF FlightTypes
    <2>2. r.type = "recreate" /\ r.index = index[n] /\ r.reserved = reserved
      BY DEF Req
    <2> HIDE DEF r
    <2> QED  BY <2>1, <2>2
  <1>8. /\ session = NoSession /\ used.crashes > 0 /\ Hosts = {}
        /\ \A m \in Node : /\ todo[m] = <<>> /\ inbox[m] = <<>>
                           /\ ~Asks(m, {"create", "join", "start"}) /\ ~Asks(m, {"recreate"})
    BY <1>1 DEF SlotInv, Interregnum
  <1>9. /\ \A m \in Node : \A i \in Index : Holds(m, i) =>
                i = index[n] \/ \E e \in roster[n] : e.index = i /\ ~e.host
        /\ \A h \in Electing : \A e \in roster[h] : e.host => e.index # index[h]
        /\ Claims
    BY <1>1 DEF SlotInv, ElectingInv
  <1>10. \A m \in Node : index[m] \notin Indices(crashed(m)) /\ (m \notin Electing => Indices(crashed(m)) = {})
    BY <1>9 DEF Indices
  <1>11. reserved = (Indices(left(n)) \ {index[n]}) \cup held'[n]
    BY DEF Reserved
  <1>12. \A m \in Node : OnePerSlot(roster'[m])
    <2>1. SUFFICES ASSUME NEW m \in Node, NEW e \in roster'[m], NEW f \in roster'[m], e.index = f.index
                   PROVE  e = f
      BY DEF OnePerSlot
    <2>2. left(m) \subseteq roster[m] /\ roster[m] \subseteq Entry /\ OnePerSlot(roster[m])
      BY <1>4 DEF NodeTypes, SlotInv, RostersUnique
    <2> HIDE DEF left
    <2>3. PICK x \in left(m) : e = [x EXCEPT !.host = IF m \in Electing THEN x.index = index[n] ELSE @]
      BY <1>3
    <2>4. PICK y \in left(m) : f = [y EXCEPT !.host = IF m \in Electing THEN y.index = index[n] ELSE @]
      BY <1>3
    <2>5. x \in Entry /\ y \in Entry
      BY <2>2
    <2>6. e.index = x.index /\ f.index = y.index
      BY <2>3, <2>4, <2>5 DEF Entry
    <2> QED  BY <2>1, <2>2, <2>3, <2>4, <2>6 DEF OnePerSlot
  <1>13. \A i \in Indices(roster[n]) : i \in Indices(left(n)) \/ \A e \in roster[n] : e.index = i => e.host
    BY DEF Indices
  <1>14. index[n] \in Index
    BY <1>1, <1>5 DEF LobbyInv, Indexed
  <1> HIDE DEF crashed, left, reserved, r
  <1>15. \A m \in Node : index[m] \notin held'[m]
    BY <1>3, <1>10 DEF SlotInv, Unassigned, UnassignedAt
  <1>16. /\ \A types : Asks(n, types)' => "recreate" \in types
         /\ \A type, i : Requests(requests'[n], type, i) => type = "recreate"
    BY <1>7 DEF Asks, Requests
  <1>17. \A m \in Node : \A i \in Index : (Holds(m, i)' => Holds(m, i)) /\ (Rejoins(m, i)' => Rejoins(m, i))
    <2>1. SUFFICES ASSUME NEW m \in Node, NEW i \in Index
                   PROVE  (Holds(m, i)' => Holds(m, i)) /\ (Rejoins(m, i)' => Rejoins(m, i))
      OBVIOUS
    <2>2. /\ phase'[m] = "joining" => phase[m] = "joining"
          /\ phase'[m] = "out" => phase[m] = "out"
      BY <1>2
    <2>3. \A type \in {"leave", "join"} : Requests(requests'[m], type, i) => Requests(requests[m], type, i)
      BY <1>6, <1>16
    <2> QED  BY <1>1, <2>2, <2>3 DEF Holds, Rejoins
  <1>18. Distinct' /\ ServiceSlots' /\ Secured' /\ Rejoinable'
    BY <1>1, <1>8, <1>17, SlotsStay
  <1>19. Unassigned'
    <2>1. SUFFICES ASSUME NEW m \in Node PROVE UnassignedAt(m)'
      BY DEF Unassigned
    <2>2. UnassignedAt(m)
      BY DEF SlotInv, Unassigned
    <2>3. phase'[m] \in {"out", "joining"} => phase'[m] = phase[m] /\ held'[m] = held[m] /\ m # n
      <3>1. phase'[m] \in {"out", "joining"} => m \notin Electing /\ phase'[m] = phase[m]
        BY <1>2
      <3> QED  BY <1>1, <1>3, <1>10, <3>1
    <2>4. ~Asks(m, {"join"})' /\ (Asks(m, {"leave"})' => m # n /\ Asks(m, {"leave"}))
      <3>1. ~Asks(m, {"join"})
        BY <1>8 DEF Asks
      <3> QED  BY <1>6, <1>16, <3>1 DEF Asks
    <2>5. phase[m] = "out" => phase'[m] = "out"
      BY <1>2, <1>5
    <2> QED  BY <1>1, <1>6, <1>15, <2>2, <2>3, <2>4, <2>5 DEF UnassignedAt
  <1>20. RecreateInv'
    <2>1. SUFFICES ASSUME NEW h \in Node, NEW k \in 1..Len(requests'[h]), requests'[h][k].type = "recreate"
                   PROVE  /\ requests'[h][k].index = index'[h] /\ index'[h] \notin requests'[h][k].reserved
                          /\ \A m \in Node : \A i \in Index : Holds(m, i)' => m = h \/ i \in requests'[h][k].reserved
                          /\ Claims'
      BY DEF RecreateInv
    <2>2. h = n
      BY <1>6, <1>8, <2>1 DEF Asks
    <2>3. requests'[h][k] = r
      BY <1>7, <2>1, <2>2
    <2>4. index[n] \notin reserved
      BY <1>11, <1>15
    <2>5. ASSUME NEW m \in Node, NEW i \in Index, Holds(m, i)', m # n
          PROVE  i \in reserved
      <3>1. Holds(m, i)
        BY <1>17, <2>5
      <3>2. i # index[n]
        <4>1. Holds(n, index[n])
          BY DEF Holds
        <4> QED  BY <1>14, <2>5, <3>1, <4>1 DEF SlotInv, Distinct
      <3>3. PICK e \in roster[n] : e.index = i /\ ~e.host
        BY <1>9, <3>1, <3>2
      <3>4. i \in Indices(left(n))
        BY <1>13, <3>3 DEF Indices
      <3> QED  BY <1>11, <3>2, <3>4
    <2>6. Claims'
      BY <1>9, <1>17 DEF Claims
    <2> QED  BY <1>1, <1>7, <2>2, <2>3, <2>4, <2>5, <2>6
  <1>21. Electing' = {}
    BY <1>2, <1>5 DEF Electing
  <1>22. ElectingInv'
    BY <1>21 DEF ElectingInv
  <1>23. Interregnum'
    <2>1. \A m \in Node : ~Asks(m, {"create", "join", "start"})'
      BY <1>6, <1>8, <1>16 DEF Asks
    <2> QED  BY <1>1, <1>8, <1>21, <2>1 DEF Interregnum
  <1>24. Hosts' \subseteq {n}
    BY <1>2, <1>5, <1>6, <1>8 DEF Hosts, Live
  <1>25. OneHost' /\ Aware'
    <2>1. ~session'.open /\ DOMAIN session'.connections = {}
      BY <1>1, <1>8 DEF NoSession
    <2>2. \A m : ~Registered(m)'
      BY <2>1 DEF Registered
    <2> QED  BY <1>24, <2>1, <2>2 DEF OneHost, Aware
  <1>26. NoCrash' /\ FirstInv'
    <2>1. used'.crashes # 0
      BY <1>1, <1>4, <1>8 DEF NodeTypes
    <2> QED  BY <2>1 DEF NoCrash, FirstInv
  <1>27. RostersUnique'
    BY <1>1, <1>12 DEF SlotInv, RostersUnique
  <1> QED  BY <1>18, <1>19, <1>20, <1>22, <1>23, <1>25, <1>26, <1>27 DEF SlotInv

LEMMA NodeStepSlots ==
    ASSUME MaxSuspended = 0, MaxCrashes <= 1, LobbyInv, LobbyInv', RosterInv, RosterInv', SlotInv,
           NEW n \in Node, NodeStep(n), used'.untold = 0
    PROVE  SlotInv'
  <1>1. ASSUME Undisturbed
        PROVE  \A m \in Node : todo[m] = <<>>
    BY <1>1, AtRest DEF RosterInv
  <1>2. NodeTypes /\ \A m \in Node : OnePerSlot(roster[m])
    BY DEF LobbyInv, SlotInv, RostersUnique
  <1>3. ASSUME NEW rejoin, rejoin \in {NoIndex, cached[n].index}, Enter(n, rejoin)
        PROVE  SlotInv'
    BY <1>1, <1>3, EnterSlots DEF Enter
  <1>4. CASE Join(n)
    BY <1>3, <1>4 DEF Join
  <1>5. CASE Recover(n)
    <2>1. CASE /\ Undisturbed /\ phase[n] = "out"
               /\ cached' = [cached EXCEPT ![n] = NoMetadata]
               /\ UNCHANGED <<phase, role, index, roster, held, over, session, requests, todo, inbox, used>>
      BY <1>1, <2>1, GivesUpSlots
    <2> QED  BY <1>3, <1>5, <2>1 DEF Recover
  <1>6. CASE JoinTimeout(n) \/ LeaveLobby(n)
    <2>1. Undisturbed /\ Teardown(n) /\ UNCHANGED used /\ phase[n] \notin {"out", "playing"}
      BY <1>6 DEF JoinTimeout, LeaveLobby
    <2> QED  BY <1>1, <2>1, TeardownSlots
  <1>7. CASE PressStart(n)
    <2>1. /\ UNCHANGED <<role, index, roster, held, cached, session, todo, inbox>>
          /\ phase[n] = "waiting" /\ role[n] = "host" /\ Undisturbed
          /\ requests' = [requests EXCEPT ![n] = Append(@, Req("start", NoIndex, {}))]
          /\ used' = [used EXCEPT !.runs = @ + 1]
          /\ phase' = [phase EXCEPT ![n] = "starting"]
      BY <1>7 DEF PressStart
    <2>2. used'.crashes = used.crashes
      BY <1>2, <2>1 DEF NodeTypes
    <2>3. /\ phase'[n] = "starting" /\ n \in Hosts
          /\ \A m \in Node : m # n => phase'[m] = phase[m] /\ requests'[m] = requests[m]
      BY <1>2, <2>1 DEF NodeTypes, Hosts, Live, LobbyInv, FlightTypes
    <2> QED  BY <1>1, <1>2, <2>1, <2>2, <2>3, ThinksSlots
  <1>8. CASE EndDrain(n)
    <2>1. /\ UNCHANGED <<role, index, roster, held, cached, session, requests, todo, inbox, used>>
          /\ phase[n] = "draining" /\ phase' = [phase EXCEPT ![n] = "playing"] /\ Undisturbed
      BY <1>8 DEF EndDrain
    <2>2. phase'[n] = "playing" /\ \A m \in Node : m # n => phase'[m] = phase[m]
      BY <1>2, <2>1 DEF NodeTypes
    <2> QED  BY <1>1, <1>2, <2>1, <2>2, ThinksSlots
  <1>9. CASE EndRun(n)
    <2>1. /\ UNCHANGED <<role, index, roster, held, cached, session, requests, todo, inbox, used>>
          /\ phase[n] = "playing" /\ phase' = [phase EXCEPT ![n] = "waiting"] /\ Undisturbed
      BY <1>9 DEF EndRun
    <2>2. phase'[n] = "waiting" /\ \A m \in Node : m # n => phase'[m] = phase[m]
      BY <1>2, <2>1 DEF NodeTypes
    <2> QED  BY <1>1, <1>2, <2>1, <2>2, ThinksSlots
  <1>10. CASE MergeRoster(n)
    <2>1. /\ UNCHANGED <<phase, role, index, held, cached, over, session, requests, todo, inbox, used>>
          /\ phase[n] = "playing" /\ Undisturbed
      BY <1>10 DEF MergeRoster
    <2>2. PICK h \in Node : roster' = [roster EXCEPT ![n] = @ \cup Unknown(n, h)]
      BY <1>10 DEF MergeRoster, Hosts
    <2>3. roster'[n] = roster[n] \cup Unknown(n, h) /\ \A m \in Node : m # n => roster'[m] = roster[m]
      BY <1>2, <2>2 DEF NodeTypes
    <2>4. OnePerSlot(roster[n] \cup Unknown(n, h))
      BY <1>2 DEF OnePerSlot, Unknown, Indices
    <2>5. FirstHost(roster[n]) /\ FirstHost(roster[h]) => FirstHost(roster[n] \cup Unknown(n, h))
      BY DEF FirstHost, Unknown
    <2> QED  BY <1>1, <2>1, <2>3, <2>4, <2>5, ThinksSlots
  <1>11. CASE Read(n)
    BY <1>11, ReadSlots
  <1>12. CASE Evict(n)
    BY <1>1, <1>12, EvictSlots DEF Evict
  <1>13. CASE Crash(n)
    <2>1. HasTold(n)
      BY <1>13, CrashTold
    <2> QED  BY <1>1, <1>13, <2>1, CrashClientSlots, CrashHostSlots DEF Crash
  <1>14. CASE Promote(n)
    BY <1>14, PromoteSlots
  <1> QED  BY <1>4, <1>5, <1>6, <1>7, <1>8, <1>9, <1>10, <1>11, <1>12, <1>13, <1>14 DEF NodeStep

(* Who leaves sends nothing more.                                          *)
LeavesLast ==
    \A n \in Node : \A k \in 1..Len(requests[n]) :
        requests[n][k].type = "leave" => k = Len(requests[n])

LEMMA LeavesLastStep ==
    ASSUME LobbyInv, SlotInv, LeavesLast, [Next]_vars
    PROVE  LeavesLast'
  <1>1. requests \in [Node -> Seq(Sound)]
    BY DEF LobbyInv, FlightTypes
  <1>2. \A n \in Node : phase[n] # "out" => ~Asks(n, {"leave"})
    BY DEF SlotInv, Unassigned, UnassignedAt
  <1>3. ASSUME requests' = requests
        PROVE  LeavesLast'
    BY <1>3 DEF LeavesLast
  <1>4. ASSUME NEW n \in Node, NEW rs, requests' = [requests EXCEPT ![n] = rs],
               \A k \in 1..Len(rs) : rs[k].type = "leave" => k = Len(rs)
        PROVE  LeavesLast'
    <2>1. requests'[n] = rs /\ \A m \in Node : m # n => requests'[m] = requests[m]
      BY <1>1, <1>4
    <2> QED  BY <1>4, <2>1 DEF LeavesLast
  <1>5. ASSUME NEW n \in Node, NEW r \in Sound, requests' = [requests EXCEPT ![n] = <<r>>]
        PROVE  LeavesLast'
    <2> DEFINE rs == <<r>>
    <2>1. Len(rs) = 1 /\ \A k \in 1..1 : k = 1
      OBVIOUS
    <2> HIDE DEF rs
    <2> QED  BY <1>4, <1>5, <2>1 DEF rs
  <1>6. ASSUME NEW n \in Node, NEW r \in Sound, phase[n] # "out",
               requests' = [requests EXCEPT ![n] = Append(@, r)]
        PROVE  LeavesLast'
    <2> DEFINE rs == Append(requests[n], r)
    <2>1. requests' = [requests EXCEPT ![n] = rs]
      BY <1>6
    <2>2. requests[n] \in Seq(Sound)
      BY <1>1
    <2>3. /\ Len(rs) = Len(requests[n]) + 1 /\ Len(requests[n]) \in Nat
          /\ \A k \in 1..Len(requests[n]) : rs[k] = requests[n][k]
      BY <2>2, Appended
    <2> HIDE DEF rs
    <2>4. \A k \in 1..Len(rs) : k \in 1..Len(requests[n]) \/ k = Len(rs)
      BY <2>3
    <2>5. \A k \in 1..Len(rs) : rs[k].type = "leave" => k = Len(rs)
      BY <1>2, <1>6, <2>3, <2>4 DEF Asks
    <2> QED  BY <1>4, <2>1, <2>5
  <1>7. ASSUME NEW n \in Node, Teardown(n), phase[n] # "out"
        PROVE  LeavesLast'
    <2>1. CASE UNCHANGED requests
      BY <1>3, <2>1
    <2>2. CASE index[n] # NoIndex /\ requests' = [requests EXCEPT ![n] = Append(@, Req("leave", index[n], {}))]
      <3>1. Req("leave", index[n], {}) \in Sound
        BY <2>2 DEF Req, Sound, Request, LobbyInv, NodeTypes
      <3> QED  BY <1>6, <1>7, <2>2, <3>1
    <2> QED  BY <1>7, <2>1, <2>2 DEF Teardown
  <1>8. ASSUME NEW n \in Node, Handle(n)
        PROVE  LeavesLast'
    <2> DEFINE old == requests[n]
               rs == Tail(old)
    <2>1. old \in Seq(Sound) /\ old # <<>> /\ requests' = [requests EXCEPT ![n] = rs]
      BY <1>1, <1>8 DEF Handle
    <2>2. /\ Len(old) \in Nat /\ Len(rs) = Len(old) - 1 /\ \A k \in 1..Len(rs) : rs[k] = old[k + 1]
      BY <2>1, Tailed
    <2>3. \A k \in 1..Len(old) : old[k].type = "leave" => k = Len(old)
      BY DEF LeavesLast
    <2> HIDE DEF old, rs
    <2>4. \A k \in 1..Len(rs) : k + 1 \in 1..Len(old)
      BY <2>2
    <2>5. \A k \in 1..Len(rs) : rs[k].type = "leave" => k = Len(rs)
      BY <2>2, <2>3, <2>4
    <2> QED  BY <1>4, <2>1, <2>5
  <1>9. ASSUME NEW n \in Node, NEW rejoin, rejoin \in {NoIndex, cached[n].index}, Enter(n, rejoin)
        PROVE  LeavesLast'
    <2>1. Req("join", rejoin, {}) \in Sound
      BY <1>9 DEF Req, Sound, Request, LobbyInv, NodeTypes
    <2> QED  BY <1>5, <1>9, <2>1 DEF Enter
  <1>10. ASSUME NEW n \in Node, Read(n)
         PROVE  LeavesLast'
    <2>1. CASE requests' = requests
      BY <1>3, <2>1
    <2>2. CASE Teardown(n) /\ phase[n] # "out"
      BY <1>7, <2>2
    <2> QED  BY <1>10, <2>1, <2>2 DEF Read, Handshake, WaitForStart, ReadInGame
  <1>11. ASSUME NEW n \in Node, Crash(n)
         PROVE  LeavesLast'
    <2>1. CASE CrashClient(n)
      BY <1>3, <2>1 DEF CrashClient
    <2>2. CASE CrashHost(n)
      <3>1. \A m \in Node : requests'[m] = <<>>
        BY <2>2 DEF CrashHost
      <3>2. \A k \in 1..Len(<<>>) : FALSE
        OBVIOUS
      <3> QED  BY <3>1, <3>2 DEF LeavesLast
    <2> QED  BY <1>11, <2>1, <2>2 DEF Crash
  <1>12. ASSUME NEW n \in Node, PressStart(n)
         PROVE  LeavesLast'
    <2>1. Req("start", NoIndex, {}) \in Sound
      BY DEF Req, Sound, Request
    <2> QED  BY <1>6, <1>12, <2>1 DEF PressStart
  <1>13. ASSUME NEW n \in Node, Promote(n)
         PROVE  LeavesLast'
    <2>1. PICK reserved : requests' = [requests EXCEPT ![n] = <<Req("recreate", index[n], reserved)>>]
      BY <1>13 DEF Promote
    <2> DEFINE rs == <<Req("recreate", index[n], reserved)>>
    <2>2. Len(rs) = 1 /\ \A k \in 1..1 : k = 1
      OBVIOUS
    <2>3. requests' = [requests EXCEPT ![n] = rs]
      BY <2>1
    <2> HIDE DEF rs
    <2> QED  BY <1>4, <2>2, <2>3
  <1>14. ASSUME NEW n \in Node, NodeStep(n)
         PROVE  LeavesLast'
    <2>1. CASE Recover(n)
      BY <1>3, <1>9, <2>1 DEF Recover
    <2>2. CASE JoinTimeout(n) \/ LeaveLobby(n)
      BY <1>7, <2>2 DEF JoinTimeout, LeaveLobby
    <2>3. CASE EndDrain(n) \/ MergeRoster(n) \/ Evict(n) \/ EndRun(n)
      BY <1>3, <2>3 DEF EndDrain, MergeRoster, Evict, EndRun
    <2> QED  BY <1>9, <1>10, <1>11, <1>12, <1>13, <1>14, <2>1, <2>2, <2>3 DEF NodeStep, Join
  <1>15. CASE UNCHANGED vars
    BY <1>3, <1>15 DEF vars
  <1>16. CASE \E n \in Node : Continue(n)
    BY <1>3, <1>16 DEF Continue
  <1> QED  BY <1>8, <1>14, <1>15, <1>16 DEF Next

(* The handler of n reads a request: it may give n a slot.                 *)
Takes(n) ==
    /\ requests[n] # <<>> /\ requests' = [requests EXCEPT ![n] = Tail(@)]
    /\ UNCHANGED <<nodeVars, inbox, used>>
    /\ \A m \in Node : todo[m] = <<>>

(* No host is to be replaced.                                              *)
Settles(n) == Electing = {} /\ \A m \in Node : m # n => ~Asks(m, {"recreate"})

LEMMA Taken ==
    ASSUME LobbyInv, NEW n \in Node, Takes(n)
    PROVE  /\ \A types : Asks(n, types)' => Asks(n, types)
           /\ ~Asks(n, {"create", "join", "recreate"})'
           /\ \A type, i : Requests(requests'[n], type, i) => Requests(requests[n], type, i)
           /\ Requests(requests[n], Head(requests[n]).type, Head(requests[n]).index)
           /\ \A m \in Node : m # n => requests'[m] = requests[m]
           /\ Head(requests[n]) \in Sound
           /\ \A types : Head(requests[n]).type \in types => Asks(n, types)
  <1>1. requests \in [Node -> Seq(Sound)] /\ requests[n] \in Seq(Sound) /\ requests[n] # <<>>
    BY DEF LobbyInv, FlightTypes, Takes
  <1> DEFINE old == requests[n]
             rest == Tail(old)
  <1>2. requests'[n] = rest /\ \A m \in Node : m # n => requests'[m] = requests[m]
    BY <1>1 DEF Takes
  <1>3. /\ Head(old) \in Sound /\ Head(old) = old[1] /\ Len(old) \in Nat /\ Len(old) > 0
        /\ Len(rest) = Len(old) - 1 /\ \A i \in 1..Len(rest) : rest[i] = old[i + 1]
    BY <1>1, Tailed
  <1>4. \A k \in 1..Len(old) : Opens(old[k]) => k = 1
    BY DEF LobbyInv, ConnectedOnce
  <1>5. old = requests[n]
    OBVIOUS
  <1> HIDE DEF old, rest
  <1>6. 1 \in 1..Len(old) /\ \A i \in 1..Len(rest) : i + 1 \in 1..Len(old) /\ i + 1 # 1 /\ rest[i] = old[i + 1]
    BY <1>3
  <1>7. \A types : Asks(n, types)' => Asks(n, types)
    BY <1>2, <1>5, <1>6 DEF Asks
  <1>8. ~Asks(n, {"create", "join", "recreate"})'
    BY <1>2, <1>4, <1>5, <1>6 DEF Asks, Opens
  <1>9. \A type, i : Requests(requests'[n], type, i) => Requests(requests[n], type, i)
    BY <1>2, <1>5, <1>6 DEF Requests
  <1>10. Requests(requests[n], Head(requests[n]).type, Head(requests[n]).index)
    BY <1>3, <1>5, <1>6 DEF Requests
  <1>11. \A types : Head(requests[n]).type \in types => Asks(n, types)
    BY <1>3, <1>5, <1>6 DEF Asks
  <1> QED  BY <1>2, <1>3, <1>5, <1>7, <1>8, <1>9, <1>10, <1>11

(* Nobody else takes or gives up a slot.                                   *)
LEMMA TakenHolds ==
    ASSUME LobbyInv, NEW n \in Node, Takes(n), NEW q, todo' = [todo EXCEPT ![n] = q],
           \A m \in Node : \A i \in Index : Sends(q, m, i) => m = n
    PROVE  /\ \A m \in Node : \A i \in Index :
                /\ Holds(m, i)' => Holds(m, i) \/ (m = n /\ phase[n] = "joining" /\ Sends(q, n, i))
                /\ m # n /\ Holds(m, i) => Holds(m, i)'
           /\ \A m \in Node : \A i \in Index : Rejoins(m, i)' => Rejoins(m, i)
           /\ Closing' => \E k \in 1..Len(q) : q[k].do = "drop"
  <1>1. UNCHANGED <<phase, index, cached, inbox>> /\ \A m \in Node : todo[m] = <<>>
    BY DEF Takes, nodeVars
  <1>2. todo'[n] = q /\ \A m \in Node : m # n => todo'[m] = <<>>
    BY <1>1 DEF LobbyInv, FlightTypes
  <1>3. /\ \A type, i : Requests(requests'[n], type, i) => Requests(requests[n], type, i)
        /\ \A m \in Node : m # n => requests'[m] = requests[m]
    BY Taken
  <1>4. \A m \in Node : \A i : ~\E l \in Node : Sends(todo[l], m, i)
    BY <1>1, Nothing
  <1>5. \A m \in Node : \A i \in Index : (\E l \in Node : Sends(todo'[l], m, i)) => m = n /\ Sends(q, n, i)
    BY <1>2, Nothing
  <1>6. \A m \in Node : \A i \in Index :
                Holds(m, i)' => Holds(m, i) \/ (m = n /\ phase[n] = "joining" /\ Sends(q, n, i))
    BY <1>1, <1>3, <1>5 DEF Holds
  <1>7. \A m \in Node : \A i \in Index : m # n /\ Holds(m, i) => Holds(m, i)'
    BY <1>1, <1>3, <1>4 DEF Holds
  <1>8. \A m \in Node : \A i \in Index : Rejoins(m, i)' => Rejoins(m, i)
    BY <1>1, <1>3 DEF Rejoins
  <1>9. Closing' => \E k \in 1..Len(q) : q[k].do = "drop"
    <2>1. \A k \in 1..Len(<<>>) : FALSE
      OBVIOUS
    <2> QED  BY <1>2, <2>1 DEF Closing
  <1> QED  BY <1>6, <1>7, <1>8, <1>9

LEMMA HandledSlots ==
    ASSUME LobbyInv, SlotInv, NEW n \in Node, Takes(n),
           NEW q, todo' = [todo EXCEPT ![n] = q],
           \A m \in Node : \A i \in Index : Sends(q, m, i) => m = n,
           Settles(n) \/ (session' = session /\ q = <<>>),
           Distinct', ServiceSlots', Secured', Rejoinable', FirstInv', Aware',
           \A h \in Hosts : session'.open => Registered(h)',
           used.crashes = 0 => session'.reserved = {}
    PROVE  SlotInv'
  <1>1. UNCHANGED <<phase, role, index, held, cached, roster, inbox, used>> /\ \A m \in Node : todo[m] = <<>>
    BY DEF Takes, nodeVars
  <1>2. /\ \A m \in Node : \A i \in Index :
                /\ Holds(m, i)' => Holds(m, i) \/ (m = n /\ phase[n] = "joining" /\ Sends(q, n, i))
                /\ m # n /\ Holds(m, i) => Holds(m, i)'
        /\ \A m \in Node : \A i \in Index : Rejoins(m, i)' => Rejoins(m, i)
    BY TakenHolds
  <1>3. /\ \A types : Asks(n, types)' => Asks(n, types)
        /\ ~Asks(n, {"create", "join", "recreate"})'
        /\ \A m \in Node : m # n => requests'[m] = requests[m]
    BY Taken
  <1>4. \A m \in Node : m # n => \A types : Asks(m, types)' <=> Asks(m, types)
    BY <1>3 DEF Asks
  <1>5. ~Asks(n, {"join"})' /\ ~Asks(n, {"recreate"})'
    BY <1>3 DEF Asks
  <1>6. Hosts' = Hosts /\ Electing' = Electing
    BY <1>1 DEF Hosts, Live, Electing
  <1>7. Unassigned'
    <2>1. UnassignedAt(n)'
      BY <1>1, <1>3, <1>5 DEF SlotInv, Unassigned, UnassignedAt
    <2>2. \A m \in Node : m # n => UnassignedAt(m)'
      BY <1>1, <1>2, <1>4 DEF SlotInv, Unassigned, UnassignedAt
    <2> QED  BY <2>1, <2>2 DEF Unassigned
  <1>8. CASE Settles(n)
    <2>1. Electing' = {} /\ \A m \in Node : ~Asks(m, {"recreate"})'
      BY <1>4, <1>5, <1>6, <1>8 DEF Settles
    <2>2. RecreateInv' /\ Interregnum' /\ ElectingInv'
      BY <2>1 DEF RecreateInv, Interregnum, ElectingInv, Asks
    <2> QED  BY <1>1, <1>2, <1>6, <1>7, <2>2 DEF SlotInv, OneHost, NoCrash, RostersUnique
  <1>9. CASE session' = session /\ q = <<>>
    <2>1. \A m \in Node : \A i \in Index : Holds(m, i)' => Holds(m, i)
      BY <1>2, <1>9, Nothing
    <2>2. Claims => Claims'
      BY <1>2, <2>1 DEF Claims
    <2>3. RecreateInv'
      <3>1. SUFFICES ASSUME NEW h \in Node, NEW k \in 1..Len(requests'[h]), requests'[h][k].type = "recreate"
                     PROVE  /\ requests'[h][k].index = index'[h] /\ index'[h] \notin requests'[h][k].reserved
                            /\ \A m \in Node : \A i \in Index : Holds(m, i)' => m = h \/ i \in requests'[h][k].reserved
                            /\ Claims'
        BY DEF RecreateInv
      <3>2. h # n
        BY <1>5, <3>1 DEF Asks
      <3> QED  BY <1>1, <1>3, <2>1, <2>2, <3>1, <3>2 DEF SlotInv, RecreateInv
    <2>4. ElectingInv'
      BY <1>1, <1>6, <2>1, <2>2 DEF SlotInv, ElectingInv
    <2>5. Interregnum'
      <3>1. \A m \in Node : todo'[m] = <<>>
        BY <1>1, <1>9 DEF LobbyInv, FlightTypes
      <3>2. \A m \in Node : \A types : Asks(m, types)' => Asks(m, types)
        BY <1>3, <1>4
      <3> QED  BY <1>1, <1>6, <1>9, <3>1, <3>2 DEF SlotInv, Interregnum
    <2> QED  BY <1>1, <1>2, <1>6, <1>7, <2>3, <2>4, <2>5 DEF SlotInv, OneHost, NoCrash, RostersUnique
  <1> QED  BY <1>8, <1>9

(* Who is not told: nothing is announced, or the answer may fail.          *)
LEMMA UntoldIs ==
    ASSUME LobbyInv, LobbyInv', NEW n \in Node, \A m \in Node : todo[m] = <<>>, UNCHANGED phase,
           NEW q, todo' = [todo EXCEPT ![n] = q], NEW h \in Node, Untold(h)'
    PROVE  \/ ~Announces(q) /\ ~Carries(q, h)
           \/ ~Live(n) /\ \E k \in 1..Len(q) : Answer(q[k])
  <1>1. todo'[n] = q /\ q \in Seq(Pending) /\ \A m \in Node : m # n => todo'[m] = <<>>
    BY DEF LobbyInv, FlightTypes
  <1>2. CASE \A m \in Node : ~Announces(todo'[m]) /\ ~Carries(todo'[m], h)
    BY <1>1, <1>2
  <1>3. CASE \E m \in Node : Failing(m)'
    <2>1. q # <<>> /\ Answer(Head(q)) /\ ~Live(n)
      BY <1>1, <1>3 DEF Failing, Live
    <2>2. Head(q) = q[1] /\ 1 \in 1..Len(q)
      BY <1>1, <2>1
    <2> QED  BY <2>1, <2>2
  <1> QED  BY <1>2, <1>3 DEF Untold

(* The service answers, and the session stays as it is.                    *)
LEMMA AnswersSlots ==
    ASSUME LobbyInv, RosterInv, SlotInv, NEW n \in Node, Takes(n),
           NEW q, todo' = [todo EXCEPT ![n] = q],
           \A k \in 1..Len(q) : q[k].do # "drop" /\ \A i : ~Given(q[k].msg, i),
           Settles(n) \/ (session' = session /\ q = <<>>),
           SessionKept, \A m \in Node : Registered(m) => Registered(m)'
    PROVE  SlotInv'
  <1>1. \A m \in Node : \A i \in Index : ~Sends(q, m, i)
    BY DEF Sends
  <1>2. /\ \A m \in Node : \A i \in Index : Holds(m, i)' => Holds(m, i)
        /\ \A m \in Node : \A i \in Index : Rejoins(m, i)' => Rejoins(m, i)
        /\ ~Closing'
    <2>1. ~\E k \in 1..Len(q) : q[k].do = "drop"
      OBVIOUS
    <2> QED  BY <1>1, <2>1, TakenHolds
  <1>3. UNCHANGED <<phase, role, index, held, cached, roster, inbox, used>> /\ \A m \in Node : todo[m] = <<>>
    BY DEF Takes, nodeVars
  <1>4. Distinct' /\ ServiceSlots' /\ Secured' /\ Rejoinable'
    BY <1>2, <1>3, SlotsStay
  <1>5. Hosts' = Hosts /\ \A m \in Node : Live(m)' <=> Live(m)
    BY <1>3 DEF Hosts, Live
  <1>6. /\ session'.entries = session.entries /\ session'.open = session.open
        /\ session'.reserved = session.reserved
        /\ \A m \in Node : Registered(m)' <=> Registered(m)
    BY DEF SessionKept
  <1>7. FirstInv'
    BY <1>2, <1>3, <1>5, <1>6 DEF SlotInv, FirstInv
  <1>8. Aware'
    <2>1. SUFFICES ASSUME NEW h \in Hosts, Registered(h)
                   PROVE  LastIs(inbox[h], Fitting') /\ (~NewsIn(inbox[h]) => Knows(h)')
      BY <1>3, <1>5, <1>6 DEF Aware, AwareAt, Hosts
    <2>5. LastIs(inbox[h], Fitting) /\ (~NewsIn(inbox[h]) => Knows(h))
      BY <1>3, <2>1, Empty DEF SlotInv, Aware, AwareAt, Untold
    <2>2. LastIs(inbox[h], Fitting') /\ (~NewsIn(inbox[h]) => Knows(h))
      <3>1. Fitting \subseteq Fitting'
        BY <1>6, Fits
      <3> QED  BY <2>5, <3>1, StillLast
    <2>3. \A e \in session.entries : e.at \in Node /\ e.index \in Index
      BY DEF LobbyInv, FlightTypes, Record, Entry
    <2>4. Knows(h) => Knows(h)'
      BY <1>2, <1>3, <1>5, <1>6, <2>3 DEF Knows
    <2> QED  BY <2>2, <2>4
  <1>9. \A h \in Hosts : session'.open => Registered(h)'
    BY <1>6 DEF SlotInv, OneHost, Hosts
  <1>10. used.crashes = 0 => session'.reserved = {}
    BY <1>6 DEF SlotInv, NoCrash
  <1> QED  BY <1>1, <1>4, <1>7, <1>8, <1>9, <1>10, HandledSlots

(* A request that is not one of the next host, or that asks for a session. *)
LEMMA Unhurried ==
    ASSUME SlotInv, NEW n \in Node, session.open \/ Asks(n, {"create", "join", "start"})
    PROVE  Settles(n)
  <1>1. session # NoSession \/ Asks(n, {"create", "join", "start"})
    BY DEF NoSession
  <1> QED  BY <1>1 DEF SlotInv, Interregnum, Settles

LEMMA CreateSlots ==
    ASSUME LobbyInv, LobbyInv', RosterInv, SlotInv, NEW n \in Node, Takes(n), Asks(n, {"create"}),
           CreateSession(n)
    PROVE  SlotInv'
  <1> DEFINE a == Send(n, Msg("created", 0, {}))
             b == Do("announce", n)
             q == <<a, b>>
             e == [index |-> 0, at |-> n, host |-> TRUE]
  <1>1. /\ todo' = [todo EXCEPT ![n] = q]
        /\ session'.open /\ session'.connections = <<n>> /\ session'.entries = {e} /\ session'.reserved = {}
    BY DEF CreateSession, NoSession
  <1>2. /\ a.do = "send" /\ a.to = n /\ a.msg.type = "created" /\ a.msg.index = 0 /\ b.do = "announce"
        /\ Len(q) = 2 /\ q[1] = a /\ q[2] = b /\ 1 \in 1..2 /\ 2 \in 1..2 /\ \A k \in 1..2 : k = 1 \/ k = 2
    BY DEF Send, Do, Msg
  <1>3. e.index = 0 /\ e.at = n /\ e.host
    OBVIOUS
  <1>4. /\ phase[n] = "joining" /\ role[n] = "host" /\ session = NoSession
        /\ \A m \in Node : /\ todo[m] = <<>> /\ inbox[m] = <<>>
                           /\ m # n => phase[m] = "out" /\ requests[m] = <<>>
    BY DEF LobbyInv, Untouched
  <1> HIDE DEF a, b, q, e
  <1>5. /\ \A m, i : Sends(q, m, i) => m = n /\ i = 0
        /\ Announces(q) /\ ~\E k \in 1..Len(q) : q[k].do = "drop"
    BY <1>2 DEF Sends, Given, Announces
  <1>6. UNCHANGED <<phase, role, index, held, cached, roster, inbox, used>>
    BY DEF Takes, nodeVars
  <1>7. \A m \in Node : \A i \in Index : ~Holds(m, i)
    <2>1. ~Asks(n, {"leave"})
      BY <1>4 DEF SlotInv, Unassigned, UnassignedAt
    <2>2. \A m \in Node : \A i : ~Requests(requests[m], "leave", i)
      <3>1. \A m \in Node : m # n => \A i : ~Requests(requests[m], "leave", i)
        BY <1>4, Nothing
      <3>2. \A i : ~Requests(requests[n], "leave", i)
        BY <2>1 DEF Requests, Asks
      <3> QED  BY <3>1, <3>2
    <2>3. \A m \in Node : index[m] = NoIndex
      BY <1>4 DEF SlotInv, Unassigned, UnassignedAt
    <2> QED  BY <1>4, <2>2, <2>3, HasSlot, Nothing DEF Holds
  <1>8. /\ \A m \in Node : \A i \in Index : Holds(m, i)' => m = n /\ i = 0
        /\ \A m \in Node : \A i \in Index : Rejoins(m, i)' => Rejoins(m, i)
        /\ ~Closing'
    <2>1. \A m \in Node : \A i \in Index : Sends(q, m, i) => m = n
      BY <1>5
    <2>2. /\ \A m \in Node : \A i \in Index :
                Holds(m, i)' => Holds(m, i) \/ (m = n /\ phase[n] = "joining" /\ Sends(q, n, i))
          /\ \A m \in Node : \A i \in Index : Rejoins(m, i)' => Rejoins(m, i)
          /\ Closing' => \E k \in 1..Len(q) : q[k].do = "drop"
      BY <1>1, <2>1, TakenHolds
    <2> QED  BY <1>5, <1>7, <2>2
  <1>9. Registered(n)'
    BY <1>1 DEF Registered
  <1>10. Distinct'
    BY <1>8 DEF Distinct
  <1>11. ServiceSlots' /\ Rejoinable'
    BY <1>1 DEF ServiceSlots, Rejoinable
  <1>12. Secured'
    BY <1>1, <1>3, <1>8 DEF Secured
  <1>13. n \in Hosts /\ Hosts = {n}
    BY <1>4 DEF Hosts, Live
  <1>14. FirstInv'
    <2>1. SUFFICES ASSUME used.crashes = 0 PROVE FirstInv'
      BY <1>6 DEF FirstInv
    <2>2. n = Creator
      BY <1>4, <2>1 DEF SlotInv, NoCrash
    <2>3. FirstHost(session'.entries)
      BY <1>1, <1>3 DEF FirstHost
    <2>4. /\ \A m \in Node : FirstHost(roster[m])
          /\ \A m \in Node : \A k \in 1..Len(inbox[m]) : News(inbox[m][k]) => FirstHost(inbox[m][k].players)
      BY <1>13, <2>1, <2>2 DEF SlotInv, FirstInv
    <2>5. \A m \in Node : \A i \in Index : Holds(m, i)' => (i = 0 <=> m = Creator) /\ Registered(m)'
      BY <1>8, <1>9, <2>2
    <2>6. \E x \in session'.entries : x.index = 0
      BY <1>1, <1>3
    <2> QED  BY <1>6, <1>8, <2>3, <2>4, <2>5, <2>6 DEF FirstInv
  <1>15. Aware'
    <2>1. \A h \in Node : ~Untold(h)'
      <3>1. \A m \in Node : todo[m] = <<>>
        BY <1>4
      <3> QED  BY <1>1, <1>4, <1>5, <1>6, <3>1, UntoldIs DEF Live
    <2> QED  BY <2>1 DEF Aware, Hosts
  <1>16. Settles(n)
    BY Unhurried DEF Asks
  <1>17. \A m \in Node : \A i \in Index : Sends(q, m, i) => m = n
    BY <1>5
  <1> QED  BY <1>1, <1>9, <1>10, <1>11, <1>12, <1>13, <1>14, <1>15, <1>16, <1>17, HandledSlots

LEMMA RecreateSlots ==
    ASSUME LobbyInv, RosterInv, SlotInv, NEW n \in Node, Takes(n),
           NEW r, r = Head(requests[n]), r.type = "recreate", RecreateSession(n, r.index, r.reserved)
    PROVE  SlotInv'
  <1> DEFINE a == Send(n, Msg("created", 0, {}))
             q == <<a>>
             e == [index |-> r.index, at |-> n, host |-> TRUE]
  <1>1. /\ todo' = [todo EXCEPT ![n] = q]
        /\ session'.open /\ session'.connections = <<n>> /\ session'.entries = {e}
        /\ session'.reserved = r.reserved
    BY DEF RecreateSession
  <1>2. /\ a.do = "send" /\ a.to = n /\ Len(q) = 1 /\ q[1] = a /\ \A k \in 1..1 : k = 1
    BY DEF Send
  <1>3. e.index = r.index /\ e.at = n /\ e.host
    OBVIOUS
  <1> HIDE DEF a, q, e
  <1>4. /\ \A m, i : Sends(q, m, i) => m = n
        /\ ~\E k \in 1..Len(q) : q[k].do = "drop"
    BY <1>2 DEF Sends
  <1>5. UNCHANGED <<phase, role, index, held, cached, roster, inbox, used>>
    BY DEF Takes, nodeVars
  <1>6. Asks(n, {"recreate"})
    BY Taken
  <1>7. /\ phase[n] = "playing" /\ role[n] = "host" /\ n \in Hosts
    BY <1>6 DEF LobbyInv, ConnectedOnce, Hosts, Live
  <1>8. /\ r.index = index[n] /\ index[n] \notin r.reserved
        /\ \A m \in Node : \A i \in Index : Holds(m, i) => m = n \/ i \in r.reserved
        /\ Claims
    <2>1. requests[n] \in Seq(Sound) /\ requests[n] # <<>>
      BY DEF LobbyInv, FlightTypes, Takes
    <2>2. 1 \in 1..Len(requests[n]) /\ r = requests[n][1]
      <3> DEFINE old == requests[n]
      <3>1. old \in Seq(Sound) /\ old # <<>>
        BY <2>1
      <3>2. Head(old) = old[1] /\ Len(old) \in Nat /\ Len(old) > 0
        BY <3>1, Tailed
      <3>3. 1 \in 1..Len(old)
        BY <3>2
      <3> QED  BY <3>2, <3>3
    <2> QED  BY <2>2 DEF SlotInv, RecreateInv
  <1>9. /\ used.crashes > 0 /\ Electing = {} /\ \A m \in Node : inbox[m] = <<>>
    BY <1>6 DEF SlotInv, Interregnum
  <1>10. Settles(n)
    <2>1. \A m \in Node : Asks(m, {"recreate"}) => m \in Hosts
      BY DEF LobbyInv, ConnectedOnce, Hosts, Live
    <2> QED  BY <1>7, <1>9, <2>1 DEF Settles, SlotInv, OneHost
  <1>11. index[n] \in Index
    BY <1>7 DEF LobbyInv, Indexed
  <1>12. /\ \A m \in Node : \A i \in Index : Holds(m, i)' => Holds(m, i)
         /\ \A m \in Node : \A i \in Index : Rejoins(m, i)' => Rejoins(m, i)
    <2>1. phase[n] # "joining"
      BY <1>7
    <2> QED  BY <1>1, <1>4, <2>1, TakenHolds
  <1>13. Registered(n)' /\ \A m \in Node : Registered(m)' => m = n
    BY <1>1 DEF Registered
  <1>14. Distinct'
    BY <1>12 DEF SlotInv, Distinct
  <1>15. ServiceSlots'
    BY <1>1, <1>3, <1>8 DEF ServiceSlots
  <1>16. Rejoinable'
    BY <1>8, <1>12 DEF Rejoinable, Claims
  <1>17. Secured'
    <2>1. SUFFICES ASSUME NEW m \in Node, NEW i \in Index, Holds(m, i)
                   PROVE  \/ i \in session'.reserved /\ ~Registered(m)'
                          \/ \E x \in session'.entries : x.at = m /\ x.index = i
      BY <1>12 DEF Secured
    <2>2. Holds(n, index[n])
      BY DEF Holds
    <2>3. m = n => i = index[n]
      BY <1>11, <2>1, <2>2 DEF SlotInv, Distinct
    <2> QED  BY <1>1, <1>3, <1>8, <1>13, <2>1, <2>3
  <1>18. Hosts = {n}
    BY <1>7 DEF SlotInv, OneHost
  <1>19. used.crashes # 0
    BY <1>9 DEF LobbyInv, NodeTypes
  <1>20. FirstInv'
    BY <1>5, <1>19 DEF FirstInv
  <1>21. Aware'
    <2>1. \A k \in 1..Len(<<>>) : FALSE
      OBVIOUS
    <2>2. LastIs(inbox'[n], Fitting')
      BY <1>5, <1>9, <2>1 DEF LastIs
    <2>3. Knows(n)'
      BY <1>1, <1>3 DEF Knows
    <2>4. Hosts' = {n}
      BY <1>5, <1>18 DEF Hosts, Live
    <2> QED  BY <2>2, <2>3, <2>4 DEF Aware, AwareAt
  <1>22. \A m \in Node : \A i \in Index : Sends(q, m, i) => m = n
    BY <1>4
  <1> QED  BY <1>1, <1>10, <1>13, <1>14, <1>15, <1>16, <1>17, <1>18, <1>19, <1>20, <1>21, <1>22, HandledSlots

(* A request to join is admitted: its slot is nobody's.                    *)
LEMMA AdmitSlots ==
    ASSUME LobbyInv, LobbyInv', RosterInv, SlotInv, NEW n \in Node, Takes(n),
           NEW rejoin \in Index \cup {NoIndex},
           Asks(n, {"join"}), Requests(requests[n], "join", rejoin),
           ~Refused(rejoin), JoinSession(n, rejoin)
    PROVE  SlotInv'
  <1> DEFINE i == Slot(rejoin)
             new == [index |-> i, at |-> n, host |-> FALSE]
             a == Send(n, Msg("joined", i, {}))
             b == Do("announce", n)
             c == Do("resume", n)
             q == <<a, b, c>>
             es == {x \in session.entries : x.index # i} \cup {new}
             l == IF Live(n) THEN Append(session.connections, n) ELSE session.connections
             rs == session.reserved \ {i}
  <1>1. session \in Record /\ session.entries \subseteq Entry /\ session.connections \in Seq(Node)
    BY DEF LobbyInv, FlightTypes, Record
  <1>2. /\ session' = [session EXCEPT !.entries = es, !.reserved = rs, !.connections = l]
        /\ todo' = [todo EXCEPT ![n] = q] /\ session.open
    BY DEF JoinSession, Welcome, StillReserved, Refused
  <1>3. /\ a.do = "send" /\ a.to = n /\ Given(a.msg, i) /\ \A j : Given(a.msg, j) => j = i
        /\ b.do = "announce" /\ c.do = "resume"
        /\ Len(q) = 3 /\ q[1] = a /\ q[2] = b /\ q[3] = c /\ 2 \in 1..3
        /\ \A k \in 1..3 : k = 1 \/ k = 2 \/ k = 3
    BY DEF Send, Do, Msg, Given
  <1>4. i \in Index /\ IF rejoin = NoIndex THEN i \notin Occupied ELSE i = rejoin
    BY <1>1, SlotIs
  <1>5. \A m \in Node : Registered(m)' <=> \E k \in 1..Len(session'.connections) : session'.connections[k] = m
    <2>1. session'.connections \in Seq(Node)
      <3>1. l \in Seq(Node)
        BY <1>1
      <3> HIDE DEF es, rs, l
      <3> QED  BY <1>1, <1>2, <3>1 DEF Record
    <2> QED  BY <2>1 DEF Registered
  <1>6. /\ \A m \in Node : Registered(m) => \E k \in 1..Len(l) : l[k] = m
        /\ Live(n) => \E k \in 1..Len(l) : l[k] = n
        /\ \A m \in Node : m # n /\ ~Registered(m) => ~\E k \in 1..Len(l) : l[k] = m
    <2> DEFINE w == session.connections
    <2>1. w \in Seq(Node) /\ \A m \in Node : Registered(m) <=> \E k \in 1..Len(w) : w[k] = m
      BY <1>1 DEF Registered
    <2> HIDE DEF w
    <2>2. /\ Len(Append(w, n)) = Len(w) + 1 /\ Len(w) \in Nat
          /\ \A k \in 1..Len(w) : Append(w, n)[k] = w[k]
          /\ Append(w, n)[Len(w) + 1] = n
      BY <2>1, Appended
    <2>3. \A k \in 1..Len(Append(w, n)) : k \in 1..Len(w) \/ k = Len(w) + 1
      BY <2>2
    <2>4. Len(w) + 1 \in 1..Len(Append(w, n)) /\ \A k \in 1..Len(w) : k \in 1..Len(Append(w, n))
      BY <2>2
    <2>5. l = IF Live(n) THEN Append(w, n) ELSE w
      BY DEF w
    <2> HIDE DEF l
    <2>6. CASE Live(n)
      <3>1. l = Append(w, n)
        BY <2>5, <2>6
      <3> QED  BY <2>1, <2>2, <2>3, <2>4, <3>1
    <2>7. CASE ~Live(n)
      BY <2>1, <2>5, <2>7
    <2> QED  BY <2>6, <2>7
  <1>7. new.index = i /\ new.at = n /\ ~new.host
    OBVIOUS
  <1>8. /\ \A e \in es : e = new \/ (e \in session.entries /\ e.index # i)
        /\ new \in es /\ \A e \in session.entries : e.index # i => e \in es
        /\ \A j : j \in rs <=> j \in session.reserved /\ j # i
    OBVIOUS
  <1> HIDE DEF i, new, a, b, c, q, es, l, rs
  <1>9. session'.open /\ session'.entries = es /\ session'.reserved = rs /\ session'.connections = l
    BY <1>1, <1>2 DEF Record
  <1>10. /\ \A m, j : Sends(q, m, j) => m = n /\ j = i
         /\ Announces(q) /\ ~\E k \in 1..Len(q) : q[k].do = "drop"
    BY <1>3 DEF Sends, Announces
  <1>11. UNCHANGED <<phase, role, index, held, cached, roster, inbox, used>> /\ \A m \in Node : todo[m] = <<>>
    BY DEF Takes, nodeVars
  <1>12. /\ role[n] = "client" /\ \A j \in Index : ~Holds(n, j)
    BY DEF SlotInv, Unassigned, UnassignedAt
  <1>13. ~Closing
    BY <1>11 DEF Closing
  <1>14. \A m \in Node : ~Holds(m, i)
    <2>1. CASE rejoin = NoIndex
      <3>1. SUFFICES ASSUME NEW m \in Node, Holds(m, i) PROVE FALSE
        OBVIOUS
      <3>2. i \in session.reserved \/ \E e \in session.entries : e.index = i
        BY <1>2, <1>4, <1>13, <3>1 DEF SlotInv, Secured
      <3>3. i \notin session.reserved /\ i \notin Indices(session.entries)
        BY <1>4, <2>1 DEF Occupied
      <3> QED  BY <3>2, <3>3 DEF Indices
    <2>2. CASE rejoin # NoIndex
      <3>1. rejoin \in session.reserved /\ Rejoins(n, rejoin)
        BY <2>2 DEF Refused, Rejoins
      <3> QED  BY <1>4, <2>2, <3>1 DEF SlotInv, Rejoinable
    <2> QED  BY <2>1, <2>2
  <1>15. \A e \in session.entries : e.index # i
    <2>1. CASE rejoin = NoIndex
      BY <1>4, <2>1 DEF Occupied, Indices
    <2>2. CASE rejoin # NoIndex
      BY <1>4, <2>2 DEF Refused, SlotInv, ServiceSlots
    <2> QED  BY <2>1, <2>2
  <1>16. /\ \A m \in Node : \A j \in Index : Holds(m, j)' => Holds(m, j) \/ (m = n /\ j = i)
         /\ \A m \in Node : \A j \in Index : Rejoins(m, j)' => Rejoins(m, j)
         /\ ~Closing'
    <2>1. \A m \in Node : \A j \in Index : Sends(q, m, j) => m = n
      BY <1>10
    <2>2. /\ \A m \in Node : \A j \in Index :
                Holds(m, j)' => Holds(m, j) \/ (m = n /\ phase[n] = "joining" /\ Sends(q, n, j))
          /\ \A m \in Node : \A j \in Index : Rejoins(m, j)' => Rejoins(m, j)
          /\ Closing' => \E k \in 1..Len(q) : q[k].do = "drop"
      BY <1>2, <2>1, TakenHolds
    <2> QED  BY <1>10, <2>2
  <1>17. Distinct'
    BY <1>12, <1>14, <1>16 DEF SlotInv, Distinct
  <1>18. ServiceSlots'
    BY <1>7, <1>8, <1>9 DEF SlotInv, ServiceSlots
  <1>19. Secured'
    <2>1. SUFFICES ASSUME NEW m \in Node, NEW j \in Index, Holds(m, j)'
                   PROVE  \/ j \in session'.reserved /\ ~Registered(m)'
                          \/ \E e \in session'.entries : e.at = m /\ e.index = j
      BY DEF Secured
    <2>2. CASE m = n
      <3>1. j = i
        BY <1>12, <1>16, <2>1, <2>2
      <3> QED  BY <1>7, <1>8, <1>9, <2>2, <3>1
    <2>3. CASE m # n
      <3>1. Holds(m, j) /\ j # i
        BY <1>14, <1>16, <2>1, <2>3
      <3>2. \/ j \in session.reserved /\ ~Registered(m)
            \/ \E e \in session.entries : e.at = m /\ e.index = j
        BY <1>2, <1>13, <3>1 DEF SlotInv, Secured
      <3>3. ~Registered(m) => ~Registered(m)'
        BY <1>5, <1>6, <1>9, <2>3
      <3> QED  BY <1>8, <1>9, <3>1, <3>2, <3>3
    <2> QED  BY <2>2, <2>3
  <1>20. Rejoinable'
    BY <1>8, <1>9, <1>16 DEF SlotInv, Rejoinable
  <1>21. \A m \in Node : Registered(m) => Registered(m)'
    BY <1>5, <1>6, <1>9
  <1>22. FirstInv'
    <2>1. SUFFICES ASSUME used.crashes = 0, Creator \in Hosts
                   PROVE  /\ \A m \in Node : \A j \in Index : Holds(m, j)' =>
                                /\ j = 0 <=> m = Creator
                                /\ Live(m) => Registered(m)'
                          /\ \E e \in session'.entries : e.index = 0
                          /\ ~Closing'
                          /\ FirstHost(session'.entries)
                          /\ \A m \in Node : FirstHost(roster[m])
                          /\ \A m \in Node : \A k \in 1..Len(inbox[m]) :
                                News(inbox[m][k]) => FirstHost(inbox[m][k].players)
      BY <1>11 DEF FirstInv, Hosts, Live
    <2>2. /\ \A m \in Node : \A j \in Index : Holds(m, j) =>
                /\ j = 0 <=> m = Creator
                /\ Live(m) => Registered(m)
          /\ \E e \in session.entries : e.index = 0
          /\ FirstHost(session.entries)
          /\ \A m \in Node : FirstHost(roster[m])
          /\ \A m \in Node : \A k \in 1..Len(inbox[m]) :
                                News(inbox[m][k]) => FirstHost(inbox[m][k].players)
      BY <1>2, <2>1 DEF SlotInv, FirstInv
    <2>3. n # Creator
      BY <1>12, <2>1 DEF Hosts
    <2>4. i # 0
      BY <1>15, <2>2
    <2>5. Live(n) => Registered(n)'
      BY <1>5, <1>6, <1>9
    <2>6. \E e \in session'.entries : e.index = 0
      BY <1>8, <1>9, <2>2, <2>4
    <2>7. FirstHost(session'.entries)
      BY <1>7, <1>8, <1>9, <2>2 DEF FirstHost
    <2> QED  BY <1>16, <1>21, <2>2, <2>3, <2>4, <2>5, <2>6, <2>7
  <1>23. Aware'
    <2>1. SUFFICES ASSUME NEW h \in Hosts, Registered(h)', Untold(h)'
                   PROVE  LastIs(inbox[h], Fitting') /\ (~NewsIn(inbox[h]) => Knows(h)')
      BY <1>11 DEF Aware, AwareAt, Hosts, Live
    <2>2. ~Live(n) /\ h \in Node
      BY <1>2, <1>10, <1>11, <2>1, UntoldIs DEF Hosts
    <2>3. \A m \in Node : Registered(m)' <=> Registered(m)
      <3>1. l = session.connections
        BY <2>2 DEF l
      <3> QED  BY <1>9, <3>1 DEF Registered
    <2>4. LastIs(inbox[h], Fitting) /\ (~NewsIn(inbox[h]) => Knows(h))
      BY <1>11, <2>1, <2>2, <2>3, Empty DEF SlotInv, Aware, AwareAt, Untold
    <2>5. ~Registered(n)
      BY <2>2 DEF LobbyInv, ConnectedOnce, Live
    <2>6. LastIs(inbox[h], Fitting')
      <3>1. Fitting \subseteq Fitting'
        <4>1. \A x \in session'.entries : Registered(x.at)' => x \in session.entries /\ Registered(x.at)
          BY <1>1, <1>7, <1>8, <1>9, <2>3, <2>5 DEF Entry
        <4>2. Indices(session.entries) \subseteq Indices(session'.entries)
          BY <1>8, <1>9, <1>15 DEF Indices
        <4> QED  BY <4>1, <4>2 DEF Fitting
      <3> QED  BY <2>4, <3>1, StillLast
    <2>7. ASSUME Knows(h), NEW x \in session'.entries, x.at # h, Live(x.at)', Registered(x.at)',
                 Holds(x.at, x.index)'
          PROVE  \E f \in roster'[h] : f.at = x.at /\ f.index = x.index
      <3>1. x # new
        BY <1>7, <2>3, <2>5, <2>7
      <3>2. x \in session.entries /\ x.at \in Node /\ x.index \in Index /\ x.index # i
        BY <1>1, <1>8, <1>9, <2>7, <3>1 DEF Entry
      <3>3. Live(x.at) /\ Registered(x.at) /\ Holds(x.at, x.index)
        BY <1>11, <1>16, <2>3, <2>7, <3>2 DEF Live
      <3> QED  BY <1>11, <2>7, <3>2, <3>3 DEF Knows
    <2> QED  BY <2>4, <2>6, <2>7 DEF Knows
  <1>24. Settles(n)
    BY <1>2, Unhurried
  <1>25. \A h \in Hosts : session'.open => Registered(h)'
    BY <1>2, <1>21 DEF SlotInv, OneHost, Hosts
  <1>26. used.crashes = 0 => session'.reserved = {}
    BY <1>8, <1>9 DEF SlotInv, NoCrash
  <1>27. \A m \in Node : \A j \in Index : Sends(q, m, j) => m = n
    BY <1>10
  <1> QED  BY <1>2, <1>17, <1>18, <1>19, <1>20, <1>22, <1>23, <1>24, <1>25, <1>26, <1>27, HandledSlots

(* A player leaves.                                                        *)
LEMMA LeaveSlots ==
    ASSUME LobbyInv, LobbyInv', RosterInv, SlotInv, LeavesLast, NEW n \in Node, Takes(n),
           NEW r, r = Head(requests[n]), r.type = "leave", session.open, LeaveSession(n, r.index)
    PROVE  SlotInv'
  <1> DEFINE leaving == {e \in session.entries : e.index = r.index}
             q == Farewell(n, leaving)
  <1>1. session \in Record /\ session.entries \subseteq Entry /\ r \in Sound
    BY Taken DEF LobbyInv, FlightTypes, Record
  <1>2. /\ session' = [session EXCEPT !.entries = session.entries \ leaving]
        /\ todo' = [todo EXCEPT ![n] = q]
    BY DEF LeaveSession
  <1>3. /\ \A e \in session.entries \ leaving : e \in session.entries /\ e.index # r.index
        /\ \A e \in session.entries : e.index # r.index => e \in session.entries \ leaving
        /\ \A e \in leaving : e \in session.entries /\ e.index = r.index
    OBVIOUS
  <1> DEFINE es == session.entries \ leaving
  <1>4. Announces(q) /\ (\A m, i : ~Sends(q, m, i)) /\ \A k \in 1..Len(q) : ~Answer(q[k])
    <2>1. CASE \E e \in leaving : e.host
      <3> DEFINE msg == Msg("closed", NoIndex, {})
                 d == Do("drop", n)
                 p == ToAll(msg)
      <3>1. q = p \o <<d>>
        BY <2>1 DEF Farewell
      <3>2. d.do = "drop" /\ d \in Pending /\ msg \in Sendable /\ \A i : ~Given(msg, i)
        BY DoIs, MsgIs DEF Do, Msg, Given
      <3>3. /\ Len(p) \in Nat /\ \A k \in 1..Len(p) : p[k].do = "send" /\ p[k].msg = msg
        BY <1>1, ToAllTasks
      <3>4. p \in Seq(Pending)
        BY <1>1, <3>2, ToAllIs
      <3>5. Append(p, d) = q
        BY <3>1, <3>2, <3>4
      <3> HIDE DEF msg, d, p, q
      <3>6. /\ Len(q) = Len(p) + 1 /\ q[Len(p) + 1] = d
            /\ \A k \in 1..Len(p) : q[k] = p[k]
        <4>1. /\ Len(Append(p, d)) = Len(p) + 1 /\ Append(p, d)[Len(p) + 1] = d
              /\ \A k \in 1..Len(p) : Append(p, d)[k] = p[k]
          BY <3>2, <3>4, Appended
        <4> QED  BY <3>5, <4>1
      <3>7. \A k \in 1..Len(q) : k \in 1..Len(p) \/ k = Len(p) + 1
        BY <3>3, <3>6
      <3>8. Len(p) + 1 \in 1..Len(q)
        BY <3>3, <3>6
      <3>9. ~Answer(d) /\ \A t : t.msg = msg => ~Answer(t)
        BY NoAnswers DEF d, msg, Do
      <3>10. \A k \in 1..Len(q) : ~Answer(q[k])
        BY <3>3, <3>6, <3>7, <3>9
      <3> QED  BY <3>2, <3>3, <3>6, <3>7, <3>8, <3>10 DEF Announces, Sends
    <2>2. CASE ~\E e \in leaving : e.host
      <3> DEFINE b == Do("announce", n)
      <3>1. q = <<b>> /\ b.do = "announce" /\ Len(<<b>>) = 1 /\ <<b>>[1] = b /\ \A k \in 1..1 : k = 1
        BY <2>2 DEF Farewell, Do
      <3> HIDE DEF b, q
      <3> QED  BY <3>1, NoAnswers DEF Announces, Sends
    <2> QED  BY <2>1, <2>2
  <1>5. (\E k \in 1..Len(q) : q[k].do = "drop") => \E e \in leaving : e.host
    <2>1. SUFFICES ASSUME ~\E e \in leaving : e.host
                   PROVE  ~\E k \in 1..Len(q) : q[k].do = "drop"
      OBVIOUS
    <2> DEFINE b == Do("announce", n)
    <2>2. q = <<b>> /\ b.do = "announce" /\ Len(<<b>>) = 1 /\ <<b>>[1] = b /\ \A k \in 1..1 : k = 1
      BY <2>1 DEF Farewell, Do
    <2> HIDE DEF b, q
    <2> QED  BY <2>2
  <1> HIDE DEF leaving, q, es
  <1>6. /\ session'.open /\ session'.entries = es /\ session'.reserved = session.reserved
        /\ session'.connections = session.connections
    BY <1>1, <1>2 DEF Record, es
  <1>7. UNCHANGED <<phase, role, index, held, cached, roster, inbox, used>> /\ \A m \in Node : todo[m] = <<>>
    BY DEF Takes, nodeVars
  <1>8. Asks(n, {"leave"}) /\ phase[n] = "out" /\ index[n] = NoIndex /\ Requests(requests[n], "leave", r.index)
    <2>1. Asks(n, {"leave"}) /\ Requests(requests[n], "leave", r.index)
      BY Taken
    <2> QED  BY <2>1 DEF SlotInv, Unassigned, UnassignedAt
  <1>9. requests'[n] = <<>>
    <2> DEFINE old == requests[n]
               rest == Tail(old)
    <2>1. old \in Seq(Sound) /\ old # <<>> /\ requests'[n] = rest
      BY DEF LobbyInv, FlightTypes, Takes
    <2>2. /\ r = old[1] /\ Len(old) \in Nat /\ Len(old) > 0 /\ Len(rest) = Len(old) - 1
          /\ rest \in Seq(Sound)
      BY <2>1, Tailed
    <2>3. \A k \in 1..Len(old) : old[k].type = "leave" => k = Len(old)
      BY DEF LeavesLast
    <2> HIDE DEF old, rest
    <2>4. 1 \in 1..Len(old)
      BY <2>2
    <2>5. Len(old) = 1
      BY <2>2, <2>3, <2>4
    <2> QED  BY <2>1, <2>2, <2>5
  <1>10. /\ \A m \in Node : \A i \in Index : Holds(m, i)' => Holds(m, i) /\ m # n
         /\ \A m \in Node : \A i \in Index : Rejoins(m, i)' => Rejoins(m, i)
         /\ Closing' => \E e \in leaving : e.host
    <2>1. \A m \in Node : \A i \in Index : Sends(q, m, i) => m = n
      BY <1>4
    <2>2. /\ \A m \in Node : \A i \in Index :
                Holds(m, i)' => Holds(m, i) \/ (m = n /\ phase[n] = "joining" /\ Sends(q, n, i))
          /\ \A m \in Node : \A i \in Index : Rejoins(m, i)' => Rejoins(m, i)
          /\ Closing' => \E k \in 1..Len(q) : q[k].do = "drop"
      BY <1>2, <2>1, TakenHolds
    <2>3. \A i \in Index : ~Holds(n, i)'
      BY <1>7, <1>8, <1>9, HasSlot, Nothing DEF Holds
    <2> QED  BY <1>5, <1>8, <2>2, <2>3
  <1>11. \A m \in Node : \A i \in Index : Holds(m, i)' => i # r.index
    <2>1. SUFFICES ASSUME NEW m \in Node, NEW i \in Index, Holds(m, i)', i = r.index PROVE FALSE
      OBVIOUS
    <2>2. Holds(n, i)
      BY <1>8, <2>1 DEF Holds
    <2> QED  BY <1>10, <2>1, <2>2 DEF SlotInv, Distinct
  <1>12. ~Closing
    BY <1>7 DEF Closing
  <1>13. \A m \in Node : Registered(m)' <=> Registered(m)
    BY <1>6 DEF Registered
  <1>14. Distinct'
    BY <1>10 DEF SlotInv, Distinct
  <1>15. ServiceSlots'
    BY <1>3, <1>6 DEF SlotInv, ServiceSlots, es
  <1>16. Secured'
    <2>1. SUFFICES ASSUME NEW m \in Node, NEW i \in Index, Holds(m, i)'
                   PROVE  \/ i \in session'.reserved /\ ~Registered(m)'
                          \/ \E e \in session'.entries : e.at = m /\ e.index = i
      BY DEF Secured
    <2>2. Holds(m, i) /\ i # r.index
      BY <1>10, <1>11, <2>1
    <2>3. \/ i \in session.reserved /\ ~Registered(m)
          \/ \E e \in session.entries : e.at = m /\ e.index = i
      BY <1>12, <2>2 DEF SlotInv, Secured
    <2> QED  BY <1>3, <1>6, <1>13, <2>2, <2>3 DEF es
  <1>17. Rejoinable'
    BY <1>6, <1>10 DEF SlotInv, Rejoinable
  <1>18. FirstInv'
    <2>1. SUFFICES ASSUME used.crashes = 0, Creator \in Hosts
                   PROVE  /\ \A m \in Node : \A i \in Index : Holds(m, i)' =>
                                /\ i = 0 <=> m = Creator
                                /\ Live(m) => Registered(m)'
                          /\ \E e \in session'.entries : e.index = 0
                          /\ ~Closing'
                          /\ FirstHost(session'.entries)
                          /\ \A m \in Node : FirstHost(roster[m])
                          /\ \A m \in Node : \A k \in 1..Len(inbox[m]) :
                                News(inbox[m][k]) => FirstHost(inbox[m][k].players)
      BY <1>7 DEF FirstInv, Hosts, Live
    <2>2. /\ \A m \in Node : \A i \in Index : Holds(m, i) =>
                /\ i = 0 <=> m = Creator
                /\ Live(m) => Registered(m)
          /\ \E e \in session.entries : e.index = 0
          /\ FirstHost(session.entries)
          /\ \A m \in Node : FirstHost(roster[m])
          /\ \A m \in Node : \A k \in 1..Len(inbox[m]) :
                                News(inbox[m][k]) => FirstHost(inbox[m][k].players)
      BY <2>1 DEF SlotInv, FirstInv
    <2>3. n # Creator
      BY <1>8, <2>1 DEF Hosts, Live
    <2>4. r.index # 0
      <3>1. 0 \in Index
        BY FirstSlot
      <3>2. r.index = 0 => Holds(n, 0)
        BY <1>8 DEF Holds
      <3> QED  BY <2>2, <2>3, <3>1, <3>2
    <2>5. ~Closing'
      BY <1>3, <1>10, <2>2, <2>4 DEF FirstHost
    <2>6. \E e \in session'.entries : e.index = 0
      BY <1>3, <1>6, <2>2, <2>4 DEF es
    <2>7. FirstHost(session'.entries)
      BY <1>3, <1>6, <2>2 DEF FirstHost, es
    <2> QED  BY <1>10, <1>13, <2>2, <2>5, <2>6, <2>7
  <1>19. Aware'
    <2>1. \A h \in Node : ~Untold(h)'
      BY <1>2, <1>4, <1>7, UntoldIs
    <2> QED  BY <2>1 DEF Aware, Hosts
  <1>20. Settles(n)
    BY Unhurried
  <1>21. \A h \in Hosts : session'.open => Registered(h)'
    BY <1>13 DEF SlotInv, OneHost, Hosts
  <1>22. used.crashes = 0 => session'.reserved = {}
    BY <1>6 DEF SlotInv, NoCrash
  <1>23. \A m \in Node : \A i \in Index : Sends(q, m, i) => m = n
    BY <1>4
  <1> QED  BY <1>2, <1>14, <1>15, <1>16, <1>17, <1>18, <1>19, <1>20, <1>21, <1>22, <1>23, HandledSlots

LEMMA HandleSlots ==
    ASSUME MaxSuspended = 0, LobbyInv, RosterInv, SlotInv, LeavesLast, NEW n \in Node, Handle(n)
    PROVE  SlotInv'
  <1> DEFINE r == Head(requests[n])
  <1>1. Takes(n)
    <2>1. \A m \in Node : todo[m] = <<>>
      BY AtRest DEF Handle, RosterInv
    <2> QED  BY <2>1 DEF Handle, Takes
  <1>2. /\ \A types : r.type \in types => Asks(n, types)
        /\ Requests(requests[n], r.type, r.index) /\ r \in Sound
    BY <1>1, Taken
  <1>3. session \in Record
    BY DEF LobbyInv, FlightTypes
  <1>9. LobbyInv'
    BY StepKeeps DEF Next
  <1>4. CASE r.type = "create" /\ CreateSession(n)
    <2>1. Asks(n, {"create"})
      BY <1>2, <1>4
    <2> QED  BY <1>1, <1>4, <1>9, <2>1, CreateSlots
  <1>5. CASE r.type = "join" /\ JoinSession(n, r.index)
    <2>1. Asks(n, {"join"}) /\ Asks(n, {"create", "join", "start"})
      BY <1>2, <1>5
    <2>2. CASE Refused(r.index)
      <3> DEFINE a == Send(n, Msg("rejected", NoIndex, {}))
                 q == <<a>>
      <3>1. todo' = [todo EXCEPT ![n] = q] /\ session' = session
        BY <1>5, <2>2 DEF JoinSession
      <3>2. a.do = "send" /\ (\A i : ~Given(a.msg, i)) /\ Len(q) = 1 /\ q[1] = a /\ \A k \in 1..1 : k = 1
        BY DEF Send, Msg, Given
      <3> HIDE DEF a, q
      <3>3. \A k \in 1..Len(q) : q[k].do # "drop" /\ \A i : ~Given(q[k].msg, i)
        BY <3>2
      <3>4. SessionKept /\ \A m \in Node : Registered(m) => Registered(m)'
        BY <3>1 DEF SessionKept, Registered
      <3>5. Settles(n)
        BY <2>1, Unhurried
      <3> QED  BY <1>1, <3>1, <3>3, <3>4, <3>5, AnswersSlots
    <2>3. CASE ~Refused(r.index)
      <3>1. r.index \in Index \cup {NoIndex} /\ Requests(requests[n], "join", r.index)
        BY <1>2, <1>5 DEF Sound, Request
      <3> QED  BY <1>1, <1>5, <1>9, <2>1, <2>3, <3>1, AdmitSlots
    <2> QED  BY <2>2, <2>3
  <1>6. CASE r.type = "recreate" /\ RecreateSession(n, r.index, r.reserved)
    BY <1>1, <1>6, RecreateSlots
  <1>7. CASE r.type = "leave" /\ LeaveSession(n, r.index)
    <2>1. CASE session.open
      BY <1>1, <1>7, <1>9, <2>1, LeaveSlots
    <2>2. CASE ~session.open
      <3> DEFINE q == <<>>
      <3>1. session' = session /\ todo' = todo
        BY <1>7, <2>2, <1>3 DEF LeaveSession
      <3>2. todo' = [todo EXCEPT ![n] = q]
        BY <1>1, <3>1 DEF LobbyInv, FlightTypes, Takes
      <3>3. \A k \in 1..Len(q) : FALSE
        OBVIOUS
      <3>4. \A k \in 1..Len(q) : q[k].do # "drop" /\ \A i : ~Given(q[k].msg, i)
        BY <3>3
      <3>5. SessionKept /\ \A m \in Node : Registered(m) => Registered(m)'
        BY <3>1 DEF SessionKept, Registered
      <3>6. session' = session /\ q = <<>>
        BY <3>1
      <3> HIDE DEF q
      <3> QED  BY <1>1, <3>2, <3>4, <3>5, <3>6, AnswersSlots
    <2> QED  BY <2>1, <2>2
  <1>8. CASE r.type = "start" /\ StartSession(n)
    <2> DEFINE msg == Msg("start", NoIndex, {})
               q == ToAll(msg)
    <2>1. todo' = [todo EXCEPT ![n] = q] /\ session' = [session EXCEPT !.active = session.open]
      BY <1>8 DEF StartSession
    <2>2. \A i : ~Given(msg, i)
      BY DEF Given, Msg
    <2>3. \A k \in 1..Len(q) : q[k].do # "drop" /\ \A i : ~Given(q[k].msg, i)
      BY <1>3, <2>2, ToAllTasks
    <2> HIDE DEF q
    <2>4. /\ session'.entries = session.entries /\ session'.connections = session.connections
          /\ session'.open = session.open /\ session'.reserved = session.reserved
      BY <1>3, <2>1 DEF Record
    <2>5. SessionKept /\ \A m \in Node : Registered(m) => Registered(m)'
      BY <2>4 DEF SessionKept, Registered
    <2>6. Asks(n, {"create", "join", "start"})
      BY <1>2, <1>8
    <2>7. Settles(n)
      BY <2>6, Unhurried
    <2> QED  BY <1>1, <2>1, <2>3, <2>5, <2>7, AnswersSlots
  <1> QED  BY <1>4, <1>5, <1>6, <1>7, <1>8 DEF Handle

Drops(q) == \E k \in 1..Len(q) : q[k].do = "drop"

(* A handler at work gives no slot away.                                   *)
LEMMA AwaitedSlots ==
    ASSUME LobbyInv, SlotInv, NEW n \in Node, todo[n] # <<>>,
           UNCHANGED <<nodeVars, requests, used>>,
           session' = session \/ (session' = NoSession /\ Closing),
           \A m \in Node : \A i \in Index : Holds(m, i)' => Holds(m, i),
           session'.open /\ Closing => Closing', Closing' => Closing,
           \A m \in Node : phase[m] = "out" => inbox'[m] = inbox[m],
           \A m \in Node : \A k \in 1..Len(inbox'[m]) : News(inbox'[m][k]) =>
                \/ inbox'[m][k].players = session.entries
                \/ \E j \in 1..Len(inbox[m]) : inbox[m][j] = inbox'[m][k],
           Aware'
    PROVE  SlotInv'
  <1>1. UNCHANGED <<phase, role, index, held, cached, roster, requests, used>>
    BY DEF nodeVars
  <1>2. Electing = {} /\ \A m \in Node : ~Asks(m, {"recreate"})
    BY DEF SlotInv, Interregnum
  <1>3. /\ Electing' = Electing /\ Hosts' = Hosts
        /\ \A m \in Node : \A types : Asks(m, types)' <=> Asks(m, types)
        /\ \A m \in Node : \A i \in Index : Rejoins(m, i)' <=> Rejoins(m, i)
        /\ \A m \in Node : Live(m)' <=> Live(m)
    BY <1>1 DEF Electing, Hosts, Live, Asks, Rejoins
  <1>4. RecreateInv' /\ Interregnum' /\ ElectingInv'
    <2>1. Electing' = {} /\ \A m \in Node : ~Asks(m, {"recreate"})'
      BY <1>2, <1>3
    <2> QED  BY <2>1 DEF RecreateInv, Interregnum, ElectingInv, Asks
  <1>5. Unassigned'
    BY <1>1, <1>3 DEF SlotInv, Unassigned, UnassignedAt
  <1>6. session' = session => \A m \in Node : Registered(m)' <=> Registered(m)
    BY DEF Registered
  <1>7. Distinct' /\ ServiceSlots' /\ Secured' /\ Rejoinable'
    <2>1. session' = NoSession \/ SessionKept
      BY <1>6 DEF SessionKept
    <2> QED  BY <1>3, <2>1, SlotsKept
  <1>8. session' = NoSession => ~session'.open /\ session'.reserved = {}
    BY DEF NoSession
  <1>9. OneHost'
    BY <1>3, <1>6, <1>8 DEF SlotInv, OneHost, Hosts
  <1>10. NoCrash'
    BY <1>1, <1>3, <1>8 DEF SlotInv, NoCrash
  <1>11. RostersUnique'
    <2>1. \A m \in Node : \A k \in 1..Len(inbox'[m]) : News(inbox'[m][k]) => OnePerSlot(inbox'[m][k].players)
      <3>1. SUFFICES ASSUME NEW m \in Node, NEW k \in 1..Len(inbox'[m]), News(inbox'[m][k])
                     PROVE  OnePerSlot(inbox'[m][k].players)
        OBVIOUS
      <3>2. OnePerSlot(session.entries)
        BY DEF SlotInv, ServiceSlots, OnePerSlot
      <3> QED  BY <3>1, <3>2 DEF SlotInv, RostersUnique
    <2> QED  BY <1>1, <2>1 DEF SlotInv, RostersUnique
  <1>12. FirstInv'
    <2>1. SUFFICES ASSUME used.crashes = 0, Creator \in Hosts PROVE FirstInv'
      BY <1>1, <1>3 DEF FirstInv
    <2>2. /\ \A m \in Node : \A i \in Index : Holds(m, i) =>
                /\ i = 0 <=> m = Creator
                /\ Live(m) => Registered(m)
          /\ session.open => \E e \in session.entries : e.index = 0
          /\ ~Closing
          /\ FirstHost(session.entries)
          /\ \A m \in Node : FirstHost(roster[m])
          /\ \A m \in Node : \A k \in 1..Len(inbox[m]) :
                News(inbox[m][k]) => FirstHost(inbox[m][k].players)
      BY <2>1 DEF SlotInv, FirstInv
    <2>3. session' = session /\ ~Closing'
      BY <2>2
    <2>4. \A m \in Node : \A k \in 1..Len(inbox'[m]) :
                News(inbox'[m][k]) => FirstHost(inbox'[m][k].players)
      <3>1. SUFFICES ASSUME NEW m \in Node, NEW k \in 1..Len(inbox'[m]), News(inbox'[m][k])
                     PROVE  FirstHost(inbox'[m][k].players)
        OBVIOUS
      <3> QED  BY <2>2, <3>1
    <2> QED  BY <1>1, <1>3, <1>6, <2>2, <2>3, <2>4 DEF FirstInv
  <1> QED  BY <1>4, <1>5, <1>7, <1>9, <1>10, <1>11, <1>12 DEF SlotInv

LEMMA ContinueSlots ==
    ASSUME LobbyInv, RosterInv, SlotInv, NEW n \in Node, Continue(n)
    PROVE  SlotInv'
  <1>1. todo[n] # <<>> /\ UNCHANGED <<nodeVars, requests, used>>
        /\ UNCHANGED <<phase, role, index, held, cached, roster>>
    BY DEF Continue, nodeVars
  <1>2. \A m \in Node : m # n => todo[m] = <<>>
    BY <1>1 DEF RosterInv, OneAtWork
  <1>3. /\ session \in Record /\ todo \in [Node -> Seq(Pending)] /\ todo[n] \in Seq(Pending)
        /\ inbox \in [Node -> Seq(Sendable)]
    BY DEF LobbyInv, FlightTypes
  <1> DEFINE old == todo[n]
             t == Head(old)
             rest == Tail(old)
  <1>4. /\ t \in Pending /\ t = old[1] /\ Len(old) \in Nat /\ Len(old) > 0
        /\ rest \in Seq(Pending) /\ Len(rest) = Len(old) - 1
        /\ \A i \in 1..Len(rest) : rest[i] = old[i + 1]
    BY <1>1, <1>3, Tailed
  <1>5. 1 \in 1..Len(old) /\ \A i \in 1..Len(rest) : i + 1 \in 1..Len(old)
    BY <1>4
  <1>6. \A j \in 1..Len(old) : j = 1 \/ (j - 1 \in 1..Len(rest) /\ old[j] = rest[j - 1])
    BY <1>4
  <1>7. DropsLast(old) /\ Current(old, session.entries) /\ AnswersFirst(old, n)
    BY DEF RosterInv, OneAtWork
  <1>8. t.to \in Node /\ t.msg \in Sendable
    BY <1>4 DEF Pending, Task
  <1>9. /\ \/ t.do = "send" /\ todo' = [todo EXCEPT ![n] = rest] /\ session' = session
              /\ inbox' = [inbox EXCEPT ![t.to] = IF Live(t.to) THEN Append(@, t.msg) ELSE @]
           \/ Answer(t) /\ ~Live(n) /\ todo' = [todo EXCEPT ![n] = <<>>]
              /\ UNCHANGED <<session, inbox>>
           \/ t.do = "fail" /\ todo' = [todo EXCEPT ![n] = rest] /\ UNCHANGED <<session, inbox>>
           \/ t.do = "announce" /\ session.open /\ UNCHANGED <<session, inbox>>
              /\ todo' = [todo EXCEPT ![n] = ToAll(Msg("roster", NoIndex, session.entries)) \o rest]
           \/ t.do = "announce" /\ ~session.open /\ UNCHANGED <<session, inbox>>
              /\ todo' = [todo EXCEPT ![n] = <<>>]
           \/ t.do = "resume" /\ UNCHANGED <<session, inbox>>
              /\ todo' = [todo EXCEPT ![n] = IF session.active
                            THEN <<Send(n, Msg("start", NoIndex, {}))>> \o rest ELSE rest]
           \/ t.do = "drop" /\ session' = NoSession /\ todo' = [todo EXCEPT ![n] = rest]
              /\ UNCHANGED inbox
    BY DEF Continue
  <1>10. \A m, i : Sends(old, m, i) <=>
                \/ t.do = "send" /\ t.to = m /\ Given(t.msg, i)
                \/ Sends(rest, m, i)
    BY <1>1, <1>3, LessToRead
  <1> HIDE DEF old, t, rest
  <1>11. old = todo[n]
    BY DEF old
  <1>27. Answer(t) => t.do = "send"
    BY DEF Answer
  <1>12. Announces(old) <=> t.do \in {"announce", "drop"} \/ Announces(rest)
    BY <1>4, <1>5, <1>6 DEF Announces
  <1>13. \A m : Carries(old, m) <=> NewsTo(t, m) \/ Carries(rest, m)
    BY <1>4, <1>5, <1>6 DEF Carries
  <1>14. Drops(old) <=> t.do = "drop" \/ Drops(rest)
    BY <1>4, <1>5, <1>6 DEF Drops
  <1>15. Closing <=> Drops(old)
    <2>1. \A k \in 1..Len(<<>>) : FALSE
      OBVIOUS
    <2> QED  BY <1>2, <1>11, <2>1 DEF Closing, Drops
  <1>16. session' = session => \A m \in Node : Registered(m)' <=> Registered(m)
    BY DEF Registered
  <1>17. Hosts' = Hosts /\ Hosts \subseteq Node /\ \A m \in Node : Live(m)' <=> Live(m)
    BY <1>1 DEF Hosts, Live
  (* What is left to do gives no slot that was not given before.           *)
  <1>18. ASSUME NEW q, todo' = [todo EXCEPT ![n] = q],
                \A m, i : Sends(q, m, i) => Sends(old, m, i),
                \A m \in Node : \A i \in Index :
                    Offers(inbox'[m], i) => Offers(inbox[m], i) \/ Sends(old, m, i)
         PROVE  /\ \A m \in Node : \A i \in Index : Holds(m, i)' => Holds(m, i)
                /\ Closing' <=> Drops(q)
                /\ todo'[n] = q /\ \A m \in Node : m # n => todo'[m] = <<>>
    <2>1. todo'[n] = q /\ \A m \in Node : m # n => todo'[m] = <<>>
      BY <1>2, <1>3, <1>18
    <2>2. \A k \in 1..Len(<<>>) : FALSE
      OBVIOUS
    <2>3. Closing' <=> Drops(q)
      BY <2>1, <2>2 DEF Closing, Drops
    <2>4. \A m \in Node : \A i \in Index :
                (\E l \in Node : Sends(todo'[l], m, i)) => \E l \in Node : Sends(todo[l], m, i)
      BY <1>11, <1>18, <2>1, Nothing
    <2>5. \A m \in Node : \A i \in Index :
                Offers(inbox'[m], i) => Offers(inbox[m], i) \/ \E l \in Node : Sends(todo[l], m, i)
      BY <1>11, <1>18
    <2>6. \A m \in Node : \A i \in Index : Holds(m, i)' => Holds(m, i)
      BY <1>1, <2>4, <2>5 DEF Holds
    <2> QED  BY <2>1, <2>3, <2>6
  <1>19. ASSUME \A m \in Node : \A i \in Index : Holds(m, i)' => Holds(m, i), session' = session, NEW h \in Hosts, Knows(h)
         PROVE  Knows(h)'
    <2>1. \A e \in session.entries : e.at \in Node /\ e.index \in Index
      BY <1>3 DEF Record, Entry
    <2> QED  BY <1>1, <1>16, <1>17, <1>19, <2>1 DEF Knows
  (* No handler may fail now, so who is untold has no roster on its way.   *)
  <1>28. ASSUME NEW q, todo'[n] = q, NEW h \in Node, Untold(h)'
         PROVE  ~Announces(q) /\ ~Carries(q, h)
    BY <1>28, NothingFails DEF Untold
  <1>20. CASE /\ t.do = "send" /\ todo' = [todo EXCEPT ![n] = rest] /\ session' = session
              /\ inbox' = [inbox EXCEPT ![t.to] = IF Live(t.to) THEN Append(@, t.msg) ELSE @]
    <2>1. /\ todo' = [todo EXCEPT ![n] = rest] /\ session' = session
          /\ inbox' = [inbox EXCEPT ![t.to] = IF Live(t.to) THEN Append(@, t.msg) ELSE @]
      BY <1>20
    <2>2. \A m \in Node : \/ inbox'[m] = inbox[m] /\ (m = t.to => ~Live(m))
                          \/ m = t.to /\ Live(m) /\ inbox'[m] = Append(inbox[m], t.msg)
      BY <1>3, <2>1
    <2>3. \A m \in Node : /\ \A i : Offers(Append(inbox[m], t.msg), i) <=> Offers(inbox[m], i) \/ Given(t.msg, i)
                          /\ Len(Append(inbox[m], t.msg)) = Len(inbox[m]) + 1 /\ Len(inbox[m]) \in Nat
                          /\ \A k \in 1..Len(inbox[m]) : Append(inbox[m], t.msg)[k] = inbox[m][k]
                          /\ Append(inbox[m], t.msg)[Len(inbox[m]) + 1] = t.msg
      <3>1. SUFFICES ASSUME NEW m \in Node
                     PROVE  /\ \A i : Offers(Append(inbox[m], t.msg), i) <=> Offers(inbox[m], i) \/ Given(t.msg, i)
                            /\ Len(Append(inbox[m], t.msg)) = Len(inbox[m]) + 1 /\ Len(inbox[m]) \in Nat
                            /\ \A k \in 1..Len(inbox[m]) : Append(inbox[m], t.msg)[k] = inbox[m][k]
                            /\ Append(inbox[m], t.msg)[Len(inbox[m]) + 1] = t.msg
        OBVIOUS
      <3> DEFINE box == inbox[m]
      <3>2. box \in Seq(Sendable)
        BY <1>3
      <3> HIDE DEF box
      <3>3. /\ \A i : Offers(Append(box, t.msg), i) <=> Offers(box, i) \/ Given(t.msg, i)
            /\ Len(Append(box, t.msg)) = Len(box) + 1 /\ Len(box) \in Nat
            /\ \A k \in 1..Len(box) : Append(box, t.msg)[k] = box[k]
            /\ Append(box, t.msg)[Len(box) + 1] = t.msg
        BY <1>8, <3>2, MoreToRead, Appended
      <3> QED  BY <3>3 DEF box
    <2>4. \A m \in Node : \A i \in Index : Offers(inbox'[m], i) => Offers(inbox[m], i) \/ Sends(old, m, i)
      BY <1>10, <1>20, <2>2, <2>3
    <2>5. \A m, i : Sends(rest, m, i) => Sends(old, m, i)
      BY <1>10
    <2>6. /\ \A m \in Node : \A i \in Index : Holds(m, i)' => Holds(m, i)
          /\ Closing' <=> Drops(rest)
          /\ todo'[n] = rest /\ \A m \in Node : m # n => todo'[m] = <<>>
      BY <1>18, <2>1, <2>4, <2>5
    <2>7. News(t.msg) => t.msg.players = session.entries
      BY <1>4, <1>5, <1>7, <1>20 DEF Current
    <2>8. ASSUME NEW m \in Node, NEW k \in 1..Len(inbox'[m]), News(inbox'[m][k])
          PROVE  \/ inbox'[m][k].players = session.entries
                 \/ \E j \in 1..Len(inbox[m]) : inbox[m][j] = inbox'[m][k]
      <3>1. CASE inbox'[m] = inbox[m]
        BY <2>8, <3>1
      <3>2. CASE inbox'[m] = Append(inbox[m], t.msg)
        <4>1. k \in 1..Len(inbox[m]) \/ k = Len(inbox[m]) + 1
          BY <2>3, <3>2
        <4> QED  BY <2>3, <2>7, <2>8, <3>2, <4>1
      <3> QED  BY <2>2, <3>1, <3>2
    <2>9. Aware'
      <3>1. SUFFICES ASSUME NEW h \in Hosts, Registered(h), Untold(h)'
                     PROVE  LastIs(inbox'[h], Fitting') /\ (~NewsIn(inbox'[h]) => Knows(h)')
        BY <1>16, <1>17, <2>1 DEF Aware, AwareAt
      <3>2. ~Announces(old) /\ (Carries(old, h) => NewsTo(t, h))
        <4>1. ~Announces(rest) /\ ~Carries(rest, h)
          BY <1>17, <1>28, <2>6, <3>1
        <4> QED  BY <1>12, <1>13, <1>20, <4>1
      <3>3. ~NewsTo(t, h) => LastIs(inbox[h], Fitting) /\ (~NewsIn(inbox[h]) => Knows(h))
        <4>1. ~NewsTo(t, h) => Untold(h)
          BY <1>2, <1>11, <3>2, Empty DEF Untold
        <4> QED  BY <3>1, <4>1 DEF SlotInv, Aware, AwareAt
      <3>4. Knows(h) => Knows(h)'
        BY <1>19, <2>1, <2>6
      <3>7. Fitting \subseteq Fitting'
        BY <1>16, <2>1, Fits
      <3>8. LastIs(inbox'[h], Fitting) => LastIs(inbox'[h], Fitting')
        BY <3>7, StillLast
      <3>5. CASE inbox'[h] = inbox[h] /\ (h = t.to => ~Live(h))
        <4>1. ~NewsTo(t, h)
          BY <3>5 DEF NewsTo, Hosts
        <4> QED  BY <3>3, <3>4, <3>5, <3>8, <4>1
      <3>6. CASE h = t.to /\ inbox'[h] = Append(inbox[h], t.msg)
        <4> DEFINE box == inbox[h]
                   fs == Fitting
        <4>1. box \in Seq(Sendable)
          BY <1>3, <1>17
        <4>2. IF News(t.msg) THEN t.msg.players \in fs ELSE LastIs(box, fs)
          <5>1. News(t.msg) => t.msg.players \in fs
            BY <2>7, Fits
          <5> QED  BY <3>3, <5>1 DEF NewsTo
        <4>3. ASSUME NEW shown, ~NewsIn(box) => shown \in fs
              PROVE  Told(Append(box, t.msg), shown, fs)
          <5>1. IF News(t.msg) THEN t.msg.players \in fs ELSE Told(box, shown, fs)
            BY <4>2, <4>3 DEF Told
          <5> HIDE DEF box, fs
          <5> QED  BY <1>8, <4>1, <5>1, Hears
        <4>4. LastIs(Append(box, t.msg), fs)
          <5>1. session.entries \in fs
            BY Fits
          <5> HIDE DEF fs, box
          <5> QED  BY <4>3, <5>1 DEF Told
        <4>5. ~NewsIn(Append(box, t.msg)) => ~News(t.msg) /\ ~NewsIn(box)
          <5>1. /\ Len(Append(box, t.msg)) = Len(box) + 1 /\ Len(box) \in Nat
                /\ \A k \in 1..Len(box) : Append(box, t.msg)[k] = box[k]
                /\ Append(box, t.msg)[Len(box) + 1] = t.msg
            BY <1>17, <2>3
          <5>2. /\ Len(box) + 1 \in 1..Len(Append(box, t.msg))
                /\ \A k \in 1..Len(box) : k \in 1..Len(Append(box, t.msg))
            BY <5>1
          <5> HIDE DEF box
          <5> QED  BY <5>1, <5>2 DEF NewsIn
        <4>6. ~News(t.msg) => (~NewsIn(box) => Knows(h))
          BY <3>3 DEF NewsTo
        <4> QED  BY <3>4, <3>6, <3>8, <4>4, <4>5, <4>6
      <3> QED  BY <1>17, <2>2, <3>5, <3>6
    <2>10. \A m \in Node : phase[m] = "out" => inbox'[m] = inbox[m]
      BY <2>2 DEF Live
    <2>11. Closing' <=> Closing
      BY <1>14, <1>15, <1>20, <2>6
    <2> QED  BY <1>1, <2>1, <2>6, <2>8, <2>9, <2>10, <2>11, AwaitedSlots
  (* The other awaits change no inbox.                                     *)
  <1>21. ASSUME NEW q, todo' = [todo EXCEPT ![n] = q], UNCHANGED inbox,
                session' = session \/ (session' = NoSession /\ t.do = "drop"),
                \A m, i : Sends(q, m, i) => Sends(old, m, i),
                Drops(q) => Drops(old), session'.open /\ Drops(old) => Drops(q),
                Failing(n) => session' = session,
                \A m \in Node :
                     Registered(m)' /\ ~Announces(q) /\ ~Carries(q, m) =>
                         session' = session /\ ((~Announces(old) /\ ~Carries(old, m)) \/ Failing(n))
         PROVE  SlotInv'
    <2>1. /\ \A m \in Node : \A i \in Index : Holds(m, i)' => Holds(m, i)
          /\ Closing' <=> Drops(q)
          /\ todo'[n] = q /\ \A m \in Node : m # n => todo'[m] = <<>>
      BY <1>18, <1>21
    <2>2. session' = session \/ (session' = NoSession /\ Closing)
      BY <1>14, <1>15, <1>21
    <2>3. Aware'
      <3>1. SUFFICES ASSUME NEW h \in Hosts, Registered(h)', Untold(h)'
                     PROVE  LastIs(inbox'[h], Fitting') /\ (~NewsIn(inbox'[h]) => Knows(h)')
        BY <1>17 DEF Aware, AwareAt
      <3>2. h \in Node /\ session' = session /\ Untold(h)
        <4>1. h \in Node /\ ((~Announces(q) /\ ~Carries(q, h)) \/ Failing(n))
          BY <1>17, <1>21, <1>28, <2>1, <3>1
        <4>2. CASE Failing(n)
          BY <1>21, <4>1, <4>2 DEF Untold
        <4>3. CASE ~Announces(q) /\ ~Carries(q, h)
          BY <1>2, <1>11, <1>21, <3>1, <4>1, <4>3, Empty DEF Untold
        <4> QED  BY <4>1, <4>2, <4>3
      <3>3. Registered(h)
        BY <1>16, <3>1, <3>2
      <3>4. LastIs(inbox[h], Fitting) /\ (~NewsIn(inbox[h]) => Knows(h))
        BY <3>2, <3>3 DEF SlotInv, Aware, AwareAt
      <3>5. Knows(h) => Knows(h)'
        BY <1>19, <2>1, <3>2
      <3>6. Fitting \subseteq Fitting'
        BY <1>16, <3>2, Fits
      <3>7. LastIs(inbox'[h], Fitting')
        BY <1>21, <3>4, <3>6, StillLast
      <3> QED  BY <1>21, <3>2, <3>4, <3>5, <3>7
    <2>4. \A m \in Node : \A k \in 1..Len(inbox'[m]) : News(inbox'[m][k]) =>
                \/ inbox'[m][k].players = session.entries
                \/ \E j \in 1..Len(inbox[m]) : inbox[m][j] = inbox'[m][k]
      BY <1>21
    <2> QED  BY <1>1, <1>15, <1>21, <2>1, <2>2, <2>3, <2>4, AwaitedSlots
  <1>22. CASE t.do = "fail"
    <2>1. todo' = [todo EXCEPT ![n] = rest] /\ UNCHANGED <<session, inbox>>
      BY <1>9, <1>27, <1>22
    <2>2. \A m, i : Sends(rest, m, i) => Sends(old, m, i)
      BY <1>10
    <2>3. Drops(rest) <=> Drops(old)
      BY <1>14, <1>22
    <2>4. \A m \in Node : Registered(m)' /\ ~Announces(rest) /\ ~Carries(rest, m) =>
                session' = session /\ ~Announces(old) /\ ~Carries(old, m)
      BY <1>12, <1>13, <1>22, <2>1 DEF NewsTo
    <2> QED  BY <1>21, <2>1, <2>2, <2>3, <2>4
  <1>23. CASE t.do = "announce" /\ session.open
    <2> DEFINE msg == Msg("roster", NoIndex, session.entries)
               p == ToAll(msg)
               q == p \o rest
    <2>1. todo' = [todo EXCEPT ![n] = q] /\ UNCHANGED <<session, inbox>>
      BY <1>9, <1>27, <1>23
    <2>2. News(msg) /\ msg \in Sendable /\ \A i : ~Given(msg, i)
      <3>1. msg \in Sendable
        BY <1>3, MsgIs DEF Record
      <3> QED  BY <3>1 DEF News, Msg, Given
    <2>3. /\ Len(p) \in Nat /\ \A k \in 1..Len(p) : p[k].do = "send" /\ p[k].msg = msg
          /\ \A m \in Node : Registered(m) => \E k \in 1..Len(p) : p[k].to = m
      <3> DEFINE L == Len(session.connections)
      <3>1. /\ Len(ToAll(msg)) = L /\ L \in Nat
            /\ \A k \in 1..L : ToAll(msg)[k].do = "send" /\ ToAll(msg)[k].msg = msg
            /\ \A m \in Node : Registered(m) => \E k \in 1..L : ToAll(msg)[k].to = m
        <4> HIDE DEF msg
        <4> QED  BY <1>3, ToAllTasks
      <3>2. p = ToAll(msg)
        OBVIOUS
      <3> HIDE DEF msg, p, L
      <3> QED  BY <3>1, <3>2
    <2>4. p \in Seq(Pending)
      <3> HIDE DEF msg
      <3> QED  BY <1>3, <2>2, ToAllIs
    <2> HIDE DEF msg, p
    <2>5. /\ Len(q) = Len(p) + Len(rest)
          /\ \A k \in 1..Len(p) + Len(rest) : q[k] = IF k <= Len(p) THEN p[k] ELSE rest[k - Len(p)]
      <3>1. rest \in Seq(Pending)
        BY <1>4
      <3> QED  BY ONLY <2>4, <3>1, ConcatProperties DEF q
    <2> HIDE DEF q
    <2>6. Len(rest) \in Nat
      BY <1>4
    <2>7. \A k \in 1..Len(p) : k \in 1..Len(q) /\ q[k] = p[k]
      BY <2>3, <2>5, <2>6
    <2>8. \A k \in 1..Len(q) : \/ k \in 1..Len(p) /\ q[k] = p[k]
                               \/ k - Len(p) \in 1..Len(rest) /\ q[k] = rest[k - Len(p)]
      BY <2>3, <2>5, <2>6
    <2>9. \A k \in 1..Len(rest) : k + Len(p) \in 1..Len(q) /\ q[k + Len(p)] = rest[k]
      <3>1. SUFFICES ASSUME NEW k \in 1..Len(rest)
                     PROVE  k + Len(p) \in 1..Len(q) /\ q[k + Len(p)] = rest[k]
        OBVIOUS
      <3>2. /\ k + Len(p) \in 1..Len(p) + Len(rest) /\ ~(k + Len(p) <= Len(p))
            /\ (k + Len(p)) - Len(p) = k
        BY <2>3, <2>6
      <3> QED  BY <2>5, <3>2
    <2>10. \A m, i : Sends(q, m, i) => Sends(old, m, i)
      <3>1. ASSUME NEW m, NEW i, NEW k \in 1..Len(q), q[k].do = "send" /\ q[k].to = m /\ Given(q[k].msg, i)
            PROVE  \E j \in 1..Len(rest) : rest[j].do = "send" /\ rest[j].to = m /\ Given(rest[j].msg, i)
        <4>1. ~(k \in 1..Len(p) /\ q[k] = p[k])
          BY <2>2, <2>3, <3>1
        <4>2. k - Len(p) \in 1..Len(rest) /\ q[k] = rest[k - Len(p)]
          BY <2>8, <4>1
        <4> QED  BY <3>1, <4>2
      <3>2. \A m, i : Sends(q, m, i) => Sends(rest, m, i)
        <4> HIDE DEF rest
        <4> QED  BY <3>1 DEF Sends
      <3> QED  BY <1>10, <3>2
    <2>11. Drops(q) <=> Drops(rest)
      <3>1. ASSUME NEW k \in 1..Len(q), q[k].do = "drop"
            PROVE  \E j \in 1..Len(rest) : rest[j].do = "drop"
        <4>1. ~(k \in 1..Len(p) /\ q[k] = p[k])
          BY <2>3, <3>1
        <4>2. k - Len(p) \in 1..Len(rest) /\ q[k] = rest[k - Len(p)]
          BY <2>8, <4>1
        <4> QED  BY <3>1, <4>2
      <3>2. ASSUME NEW k \in 1..Len(rest), rest[k].do = "drop"
            PROVE  \E j \in 1..Len(q) : q[j].do = "drop"
        <4>1. k + Len(p) \in 1..Len(q) /\ q[k + Len(p)] = rest[k]
          BY <2>9
        <4> QED  BY <3>2, <4>1
      <3> HIDE DEF rest
      <3> QED  BY <3>1, <3>2 DEF Drops
    <2>12. \A m \in Node : Registered(m)' => Carries(q, m)
      <3>1. \A m \in Node : Registered(m) => \E k \in 1..Len(q) : NewsTo(q[k], m)
        BY <2>2, <2>3, <2>7 DEF NewsTo
      <3> QED  BY <1>16, <2>1, <3>1 DEF Carries
    <2> QED  BY <1>14, <1>21, <1>23, <2>1, <2>10, <2>11, <2>12
  <1>24. CASE t.do = "announce" /\ ~session.open
    <2> DEFINE q == <<>>
    <2>1. todo' = [todo EXCEPT ![n] = q] /\ UNCHANGED <<session, inbox>>
      BY <1>9, <1>27, <1>24
    <2>2. (\A m, i : ~Sends(q, m, i)) /\ ~Drops(q)
      BY Nothing DEF Drops
    <2>3. \A m \in Node : ~Registered(m)'
      <3>1. session = NoSession
        BY <1>24 DEF RosterInv, Settled
      <3>2. DOMAIN session'.connections = {}
        BY <2>1, <3>1 DEF NoSession
      <3> QED  BY <3>2 DEF Registered
    <2> HIDE DEF q
    <2> QED  BY <1>21, <1>24, <2>1, <2>2, <2>3
  <1>25. CASE t.do = "resume"
    <2> DEFINE a == Send(n, Msg("start", NoIndex, {}))
               q == IF session.active THEN <<a>> \o rest ELSE rest
    <2>1. todo' = [todo EXCEPT ![n] = q] /\ UNCHANGED <<session, inbox>>
      BY <1>9, <1>27, <1>25
    <2>2. a.do = "send" /\ ~News(a.msg) /\ a \in Pending /\ \A i : ~Given(a.msg, i)
      <3>1. \A i : ~Given(Msg("start", NoIndex, {}), i)
        BY DEF Given, Msg
      <3> QED  BY <3>1, NotRoster, MsgIs, SendIs DEF Send
    <2> HIDE DEF a
    <2>3. /\ \A m, i : Sends(q, m, i) => Sends(rest, m, i)
          /\ Drops(q) <=> Drops(rest)
          /\ ~Announces(q) => ~Announces(rest)
          /\ \A m : ~Carries(q, m) => ~Carries(rest, m)
      <3>1. CASE ~session.active
        BY <3>1
      <3>2. CASE session.active
        <4>1. q = <<a>> \o rest
          BY <3>2
        <4> DEFINE w == <<a>>
        <4>2. Len(w) = 1 /\ w[1] = a /\ w \in Seq(Pending) /\ rest \in Seq(Pending)
          BY <1>4, <2>2
        <4>3. /\ Len(w \o rest) = Len(w) + Len(rest)
              /\ \A k \in 1..Len(w) + Len(rest) :
                    (w \o rest)[k] = IF k <= Len(w) THEN w[k] ELSE rest[k - Len(w)]
          BY ONLY <4>2, ConcatProperties
        <4>4. Len(rest) \in Nat
          BY <1>4
        <4> HIDE DEF q, w
        <4>5. Len(q) = 1 + Len(rest)
              /\ \A k \in 1..1 + Len(rest) : q[k] = IF k <= 1 THEN a ELSE rest[k - 1]
          <5>1. q = w \o rest
            BY <4>1 DEF w
          <5>2. \A k \in 1..1 + Len(rest) : k <= 1 => k = 1
            BY <4>4
          <5> QED  BY <4>2, <4>3, <4>4, <5>1, <5>2
        <4>6. \A k \in 1..Len(q) : q[k] = a \/ (k - 1 \in 1..Len(rest) /\ q[k] = rest[k - 1])
          BY <4>4, <4>5
        <4>7. \A k \in 1..Len(rest) : k + 1 \in 1..Len(q) /\ q[k + 1] = rest[k]
          BY <4>4, <4>5
        <4>8. \A m, i : Sends(q, m, i) => Sends(rest, m, i)
          BY <2>2, <4>6 DEF Sends
        <4>9. Drops(q) <=> Drops(rest)
          BY <2>2, <4>6, <4>7 DEF Drops
        <4>10. (Announces(rest) => Announces(q)) /\ \A m : Carries(rest, m) => Carries(q, m)
          BY <4>7 DEF Announces, Carries
        <4> QED  BY <4>8, <4>9, <4>10
      <3> QED  BY <3>1, <3>2
    <2> HIDE DEF q
    <2>4. \A m \in Node : Registered(m)' /\ ~Announces(q) /\ ~Carries(q, m) =>
                session' = session /\ ~Announces(old) /\ ~Carries(old, m)
      BY <1>12, <1>13, <1>25, <2>1, <2>3 DEF NewsTo
    <2>5. (\A m, i : Sends(q, m, i) => Sends(old, m, i)) /\ (Drops(q) <=> Drops(old))
      BY <1>10, <1>14, <1>25, <2>3
    <2> QED  BY <1>21, <2>1, <2>4, <2>5
  <1>26. CASE t.do = "drop"
    <2>1. /\ todo' = [todo EXCEPT ![n] = rest] /\ UNCHANGED inbox /\ session' = NoSession
      BY <1>9, <1>27, <1>26
    <2>2. ~session'.open /\ \A m \in Node : ~Registered(m)'
      <3>1. ~session'.open /\ DOMAIN session'.connections = {}
        BY <2>1 DEF NoSession
      <3> QED  BY <3>1 DEF Registered
    <2>3. \A m, i : Sends(rest, m, i) => Sends(old, m, i)
      BY <1>10
    <2>4. Drops(rest) => Drops(old)
      BY <1>14
    <2>5. ~Failing(n)
      BY <1>11, <1>26, <1>27 DEF Failing, t
    <2> QED  BY <1>21, <1>26, <2>1, <2>2, <2>3, <2>4, <2>5
  (* The handler whose answer failed ends.                                 *)
  <1>30. CASE Answer(t) /\ ~Live(n) /\ todo' = [todo EXCEPT ![n] = <<>>] /\ UNCHANGED <<session, inbox>>
    <2> DEFINE q == <<>>
    <2>1. (\A m, i : ~Sends(q, m, i)) /\ ~Drops(q)
      BY Nothing DEF Drops
    <2>2. Failing(n)
      BY <1>1, <1>11, <1>30 DEF Failing, t
    <2>3. ~Drops(old)
      <3>1. SUFFICES ASSUME NEW k \in 1..Len(old), old[k].do = "drop" PROVE FALSE
        BY DEF Drops
      <3>2. k = 1 \/ old[k].do \in {"announce", "resume"}
        BY <1>4, <1>5, <1>7, <1>30 DEF AnswersFirst
      <3> QED  BY <1>4, <1>27, <1>30, <3>1, <3>2
    <2>4. todo' = [todo EXCEPT ![n] = q]
      BY <1>30
    <2> HIDE DEF q
    <2> QED  BY <1>21, <1>30, <2>1, <2>2, <2>3, <2>4
  <1> QED  BY <1>9, <1>20, <1>22, <1>23, <1>24, <1>25, <1>26, <1>30

LEMMA SlotInit == Init => SlotInv /\ LeavesLast
  <1> SUFFICES ASSUME Init PROVE SlotInv /\ LeavesLast
    OBVIOUS
  <1>1. /\ \A n \in Node : /\ todo[n] = <<>> /\ inbox[n] = <<>> /\ index[n] = NoIndex
                           /\ held[n] = {} /\ roster[n] = {} /\ cached[n].index = NoIndex
                           /\ phase[n] = IF n = Creator THEN "joining" ELSE "out"
                           /\ role[n] = IF n = Creator THEN "host" ELSE "client"
        /\ used.crashes = 0
    BY DEF Init, NoMetadata
  <1>2. /\ session = NoSession /\ ~session.open /\ session.entries = {} /\ session.reserved = {}
        /\ DOMAIN session.connections = {}
    BY DEF Init, NoSession
  <1>3. /\ \A n \in Node : n # Creator => requests[n] = <<>>
        /\ requests[Creator] = <<Req("create", NoIndex, {})>>
    BY LobbyAssumption DEF Init
  <1>4. \A n \in Node : \A k \in 1..Len(requests[n]) : requests[n][k].type = "create"
    <2>1. /\ Len(<<Req("create", NoIndex, {})>>) = 1 /\ \A k \in 1..1 : k = 1
          /\ <<Req("create", NoIndex, {})>>[1] = Req("create", NoIndex, {})
      OBVIOUS
    <2>2. \A k \in 1..Len(<<>>) : FALSE
      OBVIOUS
    <2>3. \A k \in 1..Len(requests[Creator]) : requests[Creator][k].type = "create"
      BY <1>3, <2>1 DEF Req
    <2> QED  BY <1>3, <2>2, <2>3
  <1>5. /\ \A n \in Node : \A type, i : type # "create" => ~Requests(requests[n], type, i)
        /\ \A n \in Node : \A types : "create" \notin types => ~Asks(n, types)
    BY <1>4 DEF Requests, Asks
  <1>6. \A n \in Node : \A i \in Index : ~Holds(n, i) /\ ~Rejoins(n, i)
    BY <1>1, <1>5, Nothing, HasSlot DEF Holds, Rejoins
  <1>7. /\ Hosts = {Creator} /\ Electing = {}
        /\ \A n \in Node : \A k \in 1..Len(inbox[n]) : FALSE
    <2>1. \A k \in 1..Len(<<>>) : FALSE
      OBVIOUS
    <2> QED  BY <1>1, <2>1, LobbyAssumption DEF Hosts, Live, Electing
  <1>8. ~Closing /\ \A m \in Node : ~Registered(m)
    <2>1. \A k \in 1..Len(<<>>) : FALSE
      OBVIOUS
    <2> QED  BY <1>1, <1>2, <2>1 DEF Closing, Registered
  <1>9. Unassigned
    BY <1>1, <1>5, <1>6 DEF Unassigned, UnassignedAt
  <1>10. Distinct /\ ServiceSlots /\ Secured /\ Rejoinable
    BY <1>2, <1>6 DEF Distinct, ServiceSlots, Secured, Rejoinable
  <1>11. RecreateInv /\ LeavesLast
    BY <1>4 DEF RecreateInv, LeavesLast
  <1>12. Interregnum /\ ElectingInv
    BY <1>5, <1>7 DEF Interregnum, ElectingInv
  <1>13. OneHost /\ NoCrash
    BY <1>1, <1>2, <1>6, <1>7 DEF OneHost, NoCrash
  <1>14. FirstInv
    BY <1>1, <1>2, <1>6, <1>7, <1>8 DEF FirstInv, FirstHost
  <1>15. RostersUnique /\ Aware
    BY <1>1, <1>7, <1>8 DEF RostersUnique, OnePerSlot, Aware, Hosts
  <1> QED  BY <1>9, <1>10, <1>11, <1>12, <1>13, <1>14, <1>15 DEF SlotInv

LEMMA SlotStep ==
    ASSUME MaxSuspended = 0, MaxCrashes <= 1, LobbyInv, LobbyInv', RosterInv, RosterInv',
           SlotInv, LeavesLast, used'.untold = 0, [Next]_vars
    PROVE  SlotInv'
  <1>1. CASE Next
    BY <1>1, HandleSlots, ContinueSlots, NodeStepSlots DEF Next
  <1>2. CASE UNCHANGED vars
    <2>1. /\ UNCHANGED <<phase, role, index, roster, held, cached, over>>
          /\ UNCHANGED <<session, requests, todo, inbox, used>>
      BY <1>2 DEF vars, nodeVars
    <2>2. /\ \A n \in Node : \A i : (Holds(n, i)' <=> Holds(n, i)) /\ (Rejoins(n, i)' <=> Rejoins(n, i))
          /\ \A n \in Node : Registered(n)' <=> Registered(n)
          /\ \A n \in Node : \A types : Asks(n, types)' <=> Asks(n, types)
          /\ (Closing' <=> Closing) /\ Hosts' = Hosts /\ Electing' = Electing
          /\ \A n \in Node : (Knows(n)' <=> Knows(n)) /\ (Untold(n)' <=> Untold(n))
          /\ Fitting' = Fitting
      BY <2>1 DEF Holds, Rejoins, Registered, Asks, Closing, Hosts, Live, Electing, Knows,
                  Untold, Failing, Fitting
    <2>3. (Unassigned /\ Distinct /\ ServiceSlots /\ Secured /\ Rejoinable)'
      BY <2>1, <2>2 DEF SlotInv, Unassigned, UnassignedAt, Distinct, ServiceSlots, Secured, Rejoinable
    <2>4. (RecreateInv /\ Interregnum /\ ElectingInv)'
      BY <2>1, <2>2 DEF SlotInv, RecreateInv, Interregnum, ElectingInv, Claims
    <2>5. OneHost' /\ NoCrash'
      <3>1. \A h \in Hosts' : h \in Hosts /\ (session'.open => Registered(h)')
        BY <2>1, <2>2 DEF SlotInv, OneHost, Hosts
      <3>2. OneHost'
        BY <2>2, <3>1 DEF SlotInv, OneHost
      <3>3. NoCrash'
        BY <2>1, <2>2 DEF SlotInv, NoCrash
      <3> QED  BY <3>2, <3>3
    <2>6. FirstInv'
      BY <2>1, <2>2 DEF SlotInv, FirstInv, FirstHost, Live, News
    <2>7. RostersUnique'
      BY <2>1 DEF SlotInv, RostersUnique, OnePerSlot, News
    <2>8. Aware'
      <3>1. SUFFICES ASSUME NEW h \in Hosts, Registered(h), Untold(h)
                     PROVE  LastIs(inbox[h], Fitting) /\ (~NewsIn(inbox[h]) => Knows(h))
        BY <2>1, <2>2 DEF Aware, AwareAt, Hosts
      <3> QED  BY <3>1 DEF SlotInv, Aware, AwareAt
    <2> QED  BY <2>3, <2>4, <2>5, <2>6, <2>7, <2>8 DEF SlotInv
  <1> QED  BY <1>1, <1>2

LEMMA SlotsApart ==
    ASSUME LobbyInv, SlotInv
    PROVE  SlotsDiffer
  <1>1. \A n \in Node : InSession(n) => index[n] \in Index /\ Holds(n, index[n])
    BY DEF InSession, Holds, LobbyInv, Indexed, NodeTypes
  <1>2. \A m, n \in Node : m # n /\ InSession(m) /\ InSession(n) => index[m] # index[n]
    BY <1>1 DEF SlotInv, Distinct
  <1>3. session.reserved \cap Indices(session.entries) = {}
    BY DEF SlotInv, ServiceSlots, Indices
  <1>4. Cardinality(Indices(session.entries)) = Cardinality(session.entries)
    <2> DEFINE es == session.entries
               is == Indices(es)
               slot == [e \in es |-> e.index]
    <2>1. is \subseteq Index
      BY DEF LobbyInv, FlightTypes, Record, Entry, Indices
    <2>2. IsFiniteSet(Index)
      <3>1. 0 \in Int /\ MaxPlayers - 1 \in Int
        BY LobbyAssumption
      <3> QED  BY <3>1, FS_Interval DEF Index
    <2>3. IsFiniteSet(is)
      BY <2>1, <2>2, FS_Subset
    <2>4. \A e, f \in es : e.index = f.index => e = f
      BY DEF SlotInv, ServiceSlots
    <2>5. \A i \in is : \E e \in es : e.index = i
      BY DEF Indices
    <2>6. \A e \in es : e.index \in is
      BY DEF Indices
    <2> HIDE DEF es, is
    <2>7. slot \in [es -> is] /\ slot \in Injection(es, is) /\ slot \in Surjection(es, is)
      BY <2>4, <2>5, <2>6 DEF Injection, Surjection, IsInjective
    <2>8. Cardinality(es) = Cardinality(is)
      <3> HIDE DEF slot
      <3> QED  BY <2>3, <2>7, FS_Injection
    <2> QED  BY <2>8 DEF es, is
  <1> QED  BY <1>2, <1>3, <1>4 DEF SlotsDiffer

(* A crash of a host that has not told the others is not undone.           *)
LEMMA OnceUntold ==
    ASSUME LobbyInv, [Next]_vars, used'.untold = 0
    PROVE  used.untold = 0
  <1>1. used \in [joins: Nat, runs: Nat, crashes: Nat, untold: Nat]
    BY DEF LobbyInv, NodeTypes
  <1>2. UNCHANGED used \/ \E n \in Node : NodeStep(n)
    BY DEF Next, Handle, Continue, vars
  <1>3. ASSUME NEW n \in Node, NodeStep(n)
        PROVE  used'.untold = used.untold \/ used'.untold = used.untold + 1
    <2>1. CASE Crash(n)
      BY <1>1, <2>1 DEF Crash
    <2>2. CASE ~Crash(n)
      <3>1. \/ UNCHANGED used
            \/ used' = [used EXCEPT !.joins = @ + 1]
            \/ used' = [used EXCEPT !.runs = @ + 1]
        BY <1>3, <2>2 DEF NodeStep, Join, Recover, Enter, JoinTimeout, LeaveLobby, PressStart,
                          Read, EndDrain, MergeRoster, Evict, EndRun, Promote
      <3> QED  BY <1>1, <3>1
    <2> QED  BY <2>1, <2>2
  <1> QED  BY <1>1, <1>2, <1>3

(* Until a host crashes before the others know its players, no two players *)
(* of a session have the same join index, none that is reserved for a      *)
(* rejoin is in use, and the service lists an index once (join_session,    *)
(* register_active_session), through every join, leave, replay and         *)
(* promotion, with one crash at most and handlers that run to their end    *)
(* one after the other.  SlotTwice.cfg shows a slot given twice after more *)
(* crashes, UntoldCrash.cfg after that of a host that told nobody.         *)
THEOREM SlotsUnique ==
    ASSUME MaxSuspended = 0, MaxCrashes <= 1
    PROVE  LobbySpec => []UniqueSlots
  <1> DEFINE Inv == /\ LobbyInv /\ RosterInv
                    /\ used.untold = 0 => SlotInv /\ LeavesLast
  <1>1. Init => Inv
    BY InitKeeps, RosterInit, SlotInit
  <1>2. Inv /\ [Next]_vars => Inv'
    <2>1. SUFFICES ASSUME Inv, [Next]_vars PROVE Inv'
      OBVIOUS
    <2>2. LobbyInv'
      BY <2>1, StepKeeps
    <2>3. RosterInv'
      BY <2>1, RosterStep
    <2>4. ASSUME used'.untold = 0 PROVE SlotInv' /\ LeavesLast'
      <3>1. SlotInv /\ LeavesLast
        BY <2>1, <2>4, OnceUntold
      <3>2. SlotInv'
        BY <2>1, <2>2, <2>3, <2>4, <3>1, SlotStep
      <3>3. LeavesLast'
        BY <2>1, <3>1, LeavesLastStep
      <3> QED  BY <3>2, <3>3
    <2> QED  BY <2>2, <2>3, <2>4
  <1>3. Inv => UniqueSlots
    BY SlotsApart DEF UniqueSlots
  <1> QED  BY <1>1, <1>2, <1>3, PTL DEF LobbySpec

-----------------------------------------------------------------------------
(* What a node knows of itself.                                            *)

Own(n, players) == \E e \in players : e.at = n /\ Holds(n, e.index)
Shown(n)        == Own(n, roster[n]) \/ NewsIn(inbox[n])
Starting(t)     == t.do = "resume" \/ (t.do = "send" /\ t.msg.type = "start")
Informs(t, n)   == t.do = "announce" \/ NewsTo(t, n)

(* Who is registered has been given a slot.                                *)
Answered == \A n \in Node : Registered(n) => \E i \in Index : Holds(n, i)

(* A roster names whom it is sent to, and a GameStart comes after one.     *)
OwnNews(q) ==
    \A k \in 1..Len(q) : q[k].do = "send" /\ News(q[k].msg) /\ Live(q[k].to)
                            => Own(q[k].to, q[k].msg.players)
StartsKnown(q) ==
    \A k \in 1..Len(q) : Starting(q[k]) /\ Live(q[k].to) =>
        /\ Registered(q[k].to)
        /\ Shown(q[k].to) \/ \E j \in 1..Len(q) : j < k /\ Informs(q[j], q[k].to)
ReadsOpen(q) ==
    \A k \in 1..Len(q) : q[k].do = "announce" => session.open /\ ~Closing
ServiceTells ==
    \A m \in Node : OwnNews(todo[m]) /\ StartsKnown(todo[m]) /\ ReadsOpen(todo[m])

OwnBox(n) ==
    \A k \in 1..Len(inbox[n]) :
        /\ News(inbox[n][k]) => Own(n, inbox[n][k].players)
        /\ inbox[n][k].type = "start" =>
                \/ Own(n, roster[n])
                \/ \E j \in 1..Len(inbox[n]) : j < k /\ News(inbox[n][j])
OwnRosters ==
    \A n \in Node :
        /\ OwnBox(n)
        /\ phase[n] \in {"draining", "playing", "electing"} => Own(n, roster[n])

SelfAware == \A n \in Node : Registered(n) /\ Untold(n) => Shown(n)

OwnInv == Answered /\ ServiceTells /\ OwnRosters /\ SelfAware

-----------------------------------------------------------------------------
Plays(n) == phase[n] \in {"draining", "playing", "electing"}

(* What a step leaves to one node, with no handler at work.                *)
StaysAware(m) ==
    /\ Registered(m)' => /\ Registered(m) /\ \A i \in Index : Holds(m, i) => Holds(m, i)'
                         /\ Shown(m) => Shown(m)'
    /\ OwnBox(m)'
    /\ Plays(m)' => Own(m, roster[m])'

LEMMA AllAware ==
    ASSUME OwnInv, \A m \in Node : todo[m] = <<>> /\ todo'[m] = <<>>,
           \A m \in Node : StaysAware(m)
    PROVE  OwnInv'
  <1>1. \A k \in 1..Len(<<>>) : FALSE
    OBVIOUS
  <1>2. ServiceTells'
    BY <1>1 DEF ServiceTells, OwnNews, StartsKnown, ReadsOpen
  <1>3. \A m \in Node : Registered(m) => Shown(m)
    BY Empty DEF OwnInv, SelfAware, Untold
  <1>4. SelfAware'
    BY <1>3 DEF StaysAware, SelfAware
  <1>5. Answered' /\ OwnRosters'
    BY DEF OwnInv, Answered, OwnRosters, StaysAware, Plays
  <1> QED  BY <1>2, <1>4, <1>5 DEF OwnInv

(* A process that has ended, or has just begun.                            *)
LEMMA AbsentAware ==
    ASSUME NEW m \in Node, inbox'[m] = <<>>, ~Registered(m)', ~Plays(m)'
    PROVE  StaysAware(m)
  <1>1. \A k \in 1..Len(<<>>) : FALSE
    OBVIOUS
  <1> QED  BY <1>1 DEF StaysAware, OwnBox

(* A process that keeps its slot and its entry.                            *)
LEMMA PresentAware ==
    ASSUME LobbyInv, SlotInv, OwnInv, \A l \in Node : todo[l] = <<>>,
           NEW m \in Node, Live(m), index'[m] = index[m],
           phase[m] = "joining" => phase'[m] = "joining" /\ inbox'[m] = inbox[m],
           inbox'[m] = inbox[m] \/ (inbox'[m] = <<>> /\ ~Registered(m)'),
           Registered(m)' => Registered(m), Plays(m)' => Plays(m),
           \A e \in roster[m] : e.at = m /\ Holds(m, e.index)
                => \E f \in roster'[m] : f.at = m /\ f.index = e.index
    PROVE  StaysAware(m)
  <1>1. \A i : ~Requests(requests[m], "leave", i)
    BY DEF SlotInv, Unassigned, UnassignedAt, Asks, Requests, Live
  <1>2. \A i : Holds(m, i) => Holds(m, i)'
    BY <1>1, Nothing DEF Holds
  <1>3. \A players : Own(m, players) => \E e \in players : e.at = m /\ Holds(m, e.index)'
    BY <1>2 DEF Own
  <1>4. Own(m, roster[m]) => Own(m, roster[m])'
    BY <1>2 DEF Own
  <1>5. OwnBox(m)'
    <2>1. CASE inbox'[m] = inbox[m]
      <3>1. OwnBox(m)
        BY DEF OwnInv, OwnRosters
      <3>2. \A k \in 1..Len(inbox[m]) : Own(m, inbox[m][k].players) =>
                \E e \in inbox'[m][k].players : e.at = m /\ Holds(m, e.index)'
        BY <1>3, <2>1
      <3>3. \A k \in 1..Len(inbox[m]) : Own(m, inbox[m][k].players) => Own(m, inbox[m][k].players)'
        BY <2>1, <3>2 DEF Own
      <3> QED  BY <1>4, <2>1, <3>1, <3>3 DEF OwnBox
    <2>2. CASE inbox'[m] = <<>>
      <3>1. \A k \in 1..Len(<<>>) : FALSE
        OBVIOUS
      <3> QED  BY <2>2, <3>1 DEF OwnBox
    <2> QED  BY <2>1, <2>2
  <1>6. Registered(m)' /\ Shown(m) => Shown(m)'
    BY <1>4 DEF Shown
  <1>7. Plays(m)' => Own(m, roster[m])'
    BY <1>4 DEF OwnInv, OwnRosters, Plays
  <1> QED  BY <1>2, <1>5, <1>6, <1>7 DEF StaysAware

(* A step that leaves m alone.                                             *)
LEMMA AsideAware ==
    ASSUME LobbyInv, LobbyInv', SlotInv, SlotInv', OwnInv, \A l \in Node : todo[l] = <<>>,
           NEW m \in Node, phase'[m] = phase[m], index'[m] = index[m],
           inbox'[m] = inbox[m], roster'[m] = roster[m], Registered(m)' => Registered(m)
    PROVE  StaysAware(m)
  <1>1. CASE Live(m)
    <2>1. Plays(m)' => Plays(m)
      BY DEF Plays
    <2> QED  BY <1>1, <2>1, PresentAware
  <1>2. CASE ~Live(m)
    <2>1. inbox'[m] = <<>> /\ ~Registered(m)
      BY <1>2 DEF Live, SlotInv, Unassigned, UnassignedAt, LobbyInv, ConnectedOnce
    <2>2. ~Plays(m)'
      BY <1>2 DEF Live, Plays
    <2> QED  BY <2>1, <2>2, AbsentAware
  <1> QED  BY <1>1, <1>2

LEMMA EnterOwn ==
    ASSUME LobbyInv, LobbyInv', SlotInv, SlotInv', OwnInv, \A l \in Node : todo[l] = <<>>,
           NEW n \in Node, NEW rejoin, Enter(n, rejoin)
    PROVE  OwnInv'
  <1>1. /\ phase[n] = "out" /\ phase' = [phase EXCEPT ![n] = "joining"]
        /\ UNCHANGED <<index, roster, session, todo, inbox>>
    BY DEF Enter
  <1>2. phase'[n] = "joining" /\ \A m \in Node : m # n => phase'[m] = phase[m]
    BY <1>1 DEF LobbyInv, NodeTypes
  <1>3. \A m \in Node : Registered(m)' <=> Registered(m)
    BY <1>1 DEF Registered
  <1>4. StaysAware(n)
    <2>1. inbox'[n] = <<>> /\ ~Registered(n)'
      BY <1>1, <1>3 DEF SlotInv, Unassigned, UnassignedAt, LobbyInv, ConnectedOnce, Live
    <2>2. ~Plays(n)'
      BY <1>2 DEF Plays
    <2> QED  BY <2>1, <2>2, AbsentAware
  <1>5. \A m \in Node : m # n => StaysAware(m)
    BY <1>1, <1>2, <1>3, AsideAware
  <1> QED  BY <1>1, <1>4, <1>5, AllAware

(* A process ends, in its lobby or in game.                                *)
LEMMA EndOwn ==
    ASSUME LobbyInv, LobbyInv', SlotInv, SlotInv', OwnInv, \A l \in Node : todo[l] = <<>>,
           NEW n \in Node, phase' = [phase EXCEPT ![n] = "out"], session' = Drop(n, session),
           todo' = Unsent(n), inbox' = [inbox EXCEPT ![n] = <<>>], Forget(n)
    PROVE  OwnInv'
  <1>1. /\ phase'[n] = "out" /\ inbox'[n] = <<>>
        /\ \A m \in Node : m # n => /\ phase'[m] = phase[m] /\ inbox'[m] = inbox[m]
                                    /\ index'[m] = index[m] /\ roster'[m] = roster[m]
    BY DEF Forget, LobbyInv, NodeTypes, FlightTypes
  <1>2. \A m \in Node : Registered(m)' => Registered(m)
    BY DropKept DEF SessionKept
  <1>3. StaysAware(n)
    <2>1. ~Registered(n)' /\ ~Plays(n)'
      BY <1>1 DEF LobbyInv, ConnectedOnce, Live, Plays
    <2> QED  BY <1>1, <2>1, AbsentAware
  <1>4. \A m \in Node : m # n => StaysAware(m)
    BY <1>1, <1>2, AsideAware
  <1>5. \A m \in Node : todo'[m] = <<>>
    BY NothingUnsent
  <1> QED  BY <1>3, <1>4, <1>5, AllAware

LEMMA CrashHostOwn ==
    ASSUME LobbyInv, LobbyInv', SlotInv, SlotInv', OwnInv, \A l \in Node : todo[l] = <<>>,
           NEW n \in Node, Forget(n), CrashHost(n)
    PROVE  OwnInv'
  <1>1. /\ phase' = [m \in Node |-> IF m = n THEN "out"
                                    ELSE IF m \in Survivors(n) THEN "electing"
                                    ELSE IF m \in Stranded(n) THEN "stranded" ELSE phase[m]]
        /\ inbox' = [m \in Node |-> IF m \in Survivors(n) \cup Stranded(n) \cup {n}
                                    THEN <<>> ELSE inbox[m]]
        /\ session' = NoSession /\ todo' = [m \in Node |-> <<>>]
    BY DEF CrashHost
  <1>2. \A m \in Node : ~Registered(m)'
    <2>1. DOMAIN session'.connections = {}
      BY <1>1 DEF NoSession
    <2> QED  BY <2>1 DEF Registered
  <1>3. \A m \in Node : m # n => index'[m] = index[m] /\ roster'[m] = roster[m]
    BY DEF Forget, LobbyInv, NodeTypes
  <1>4. StaysAware(n)
    <2>1. inbox'[n] = <<>> /\ phase'[n] = "out"
      BY <1>1
    <2>2. ~Plays(n)'
      BY <2>1 DEF Plays
    <2> QED  BY <1>2, <2>1, <2>2, AbsentAware
  <1>5. ASSUME NEW m \in Node, m # n
        PROVE  StaysAware(m)
    <2>1. CASE m \in Survivors(n)
      <3>1. phase[m] = "playing" /\ inbox'[m] = <<>>
        BY <1>1, <2>1 DEF Survivors
      <3>2. Live(m) /\ phase[m] # "joining" /\ Plays(m)
        BY <3>1 DEF Live, Plays
      <3> QED  BY <1>2, <1>3, <1>5, <3>1, <3>2, PresentAware
    <2>2. CASE m \in Stranded(n) \ Survivors(n)
      <3>1. phase'[m] = "stranded" /\ inbox'[m] = <<>>
        BY <1>1, <1>5, <2>2
      <3>2. ~Plays(m)'
        BY <3>1 DEF Plays
      <3> QED  BY <1>2, <3>1, <3>2, AbsentAware
    <2>3. CASE m \notin Survivors(n) \cup Stranded(n)
      <3>1. phase'[m] = phase[m] /\ inbox'[m] = inbox[m]
        BY <1>1, <1>5, <2>3
      <3> QED  BY <1>2, <1>3, <1>5, <3>1, AsideAware
    <2> QED  BY <2>1, <2>2, <2>3
  <1>6. \A m \in Node : todo'[m] = <<>>
    BY <1>1
  <1> QED  BY <1>4, <1>5, <1>6, AllAware

(* A step in which everybody keeps its slot and its entry.                 *)
LEMMA ThinksOwn ==
    ASSUME LobbyInv, LobbyInv', SlotInv, SlotInv', OwnInv, \A l \in Node : todo[l] = <<>>,
           UNCHANGED <<index, session, todo, inbox>>,
           \A m \in Node : \/ phase'[m] = phase[m]
                           \/ phase[m] \notin {"out", "joining"} /\ (Plays(m)' => Plays(m)),
           \A m \in Node : \A e \in roster[m] : e.at = m /\ Holds(m, e.index)
                => \E f \in roster'[m] : f.at = m /\ f.index = e.index
    PROVE  OwnInv'
  <1>1. \A m \in Node : Registered(m)' <=> Registered(m)
    BY DEF Registered
  <1>2. ASSUME NEW m \in Node, Live(m)
        PROVE  StaysAware(m)
    <2>1. Plays(m)' => Plays(m)
      BY DEF Plays
    <2>2. phase[m] = "joining" => phase'[m] = "joining"
      OBVIOUS
    <2>3. inbox'[m] = inbox[m] /\ index'[m] = index[m]
      OBVIOUS
    <2> QED  BY <1>1, <1>2, <2>1, <2>2, <2>3, PresentAware
  <1>3. ASSUME NEW m \in Node, ~Live(m)
        PROVE  StaysAware(m)
    <2>1. inbox'[m] = <<>> /\ ~Registered(m)'
      BY <1>1, <1>3 DEF Live, SlotInv, Unassigned, UnassignedAt, LobbyInv, ConnectedOnce
    <2>2. ~Plays(m)'
      BY <1>3 DEF Live, Plays
    <2> QED  BY <2>1, <2>2, AbsentAware
  <1>4. \A m \in Node : todo'[m] = <<>>
    OBVIOUS
  <1> QED  BY <1>2, <1>3, <1>4, AllAware

(* Who plays has the index of its slot.                                    *)
LEMMA OwnIndex ==
    ASSUME LobbyInv, SlotInv, NEW m \in Node, NEW i \in Index, Holds(m, i), index[m] # NoIndex
    PROVE  i = index[m]
  <1>1. index[m] \in Index /\ Holds(m, index[m])
    BY DEF LobbyInv, NodeTypes, Holds
  <1> QED  BY <1>1 DEF SlotInv, Distinct

LEMMA EvictOwn ==
    ASSUME LobbyInv, LobbyInv', SlotInv, SlotInv', OwnInv, \A l \in Node : todo[l] = <<>>,
           NEW h \in Node, Evict(h)
    PROVE  OwnInv'
  <1> DEFINE gone(m, e) == {x \in roster[m] : /\ phase[m] = "playing"
                                              /\ x.index = e.index /\ index[m] # e.index}
  <1>1. PICK e \in roster[h] : \A m \in Node : roster'[m] = roster[m] \ gone(m, e)
    BY DEF Evict
  <1>2. UNCHANGED <<phase, index, session, todo, inbox>>
    BY DEF Evict
  <1>3. ASSUME NEW m \in Node, NEW x \in roster[m], x.at = m, Holds(m, x.index)
        PROVE  x \in roster'[m]
    <2>1. x.index \in Index /\ (phase[m] = "playing" => index[m] # NoIndex)
      BY HasSlot DEF LobbyInv, NodeTypes, Entry, Indexed
    <2>2. phase[m] = "playing" => x.index = index[m]
      BY <1>3, <2>1, OwnIndex
    <2> QED  BY <1>1, <1>3, <2>2
  <1> QED  BY <1>2, <1>3, ThinksOwn

LEMMA PromoteOwn ==
    ASSUME LobbyInv, LobbyInv', SlotInv, SlotInv', OwnInv, NEW n \in Node, Promote(n)
    PROVE  OwnInv'
  <1> DEFINE left(m) == roster[m] \ {e \in roster[m] : m \in Electing /\ e.host}
  <1>1. /\ n \in Electing /\ UNCHANGED <<index, session, todo, inbox>>
        /\ \A m \in Node : phase'[m] = IF m \in Electing THEN "playing" ELSE phase[m]
    BY DEF Promote, Electing
  <1>2. \A m \in Node : roster'[m] = {[e EXCEPT !.host = IF m \in Electing
                                        THEN e.index = index[n] ELSE @] : e \in left(m)}
    <2> DEFINE S == {l \in Node : phase[l] = "electing"}
               gone(m) == {e \in roster[m] : m \in S /\ e.host}
    <2>1. roster' = [m \in Node |-> {[e EXCEPT !.host = IF m \in S
                                        THEN e.index = index[n] ELSE @] : e \in roster[m] \ gone(m)}]
      BY DEF Promote
    <2>2. S = Electing
      BY DEF Electing
    <2> HIDE DEF S
    <2> QED  BY <2>1, <2>2
  <1>3. \A l \in Node : todo[l] = <<>>
    BY <1>1 DEF SlotInv, Interregnum
  <1>4. ASSUME NEW m \in Node, NEW e \in roster[m], e.at = m, Holds(m, e.index)
        PROVE  \E f \in roster'[m] : f.at = m /\ f.index = e.index
    <2>1. e \in Entry
      BY DEF LobbyInv, NodeTypes
    <2>2. e \in left(m)
      <3>1. SUFFICES ASSUME m \in Electing, e.host PROVE FALSE
        OBVIOUS
      <3>2. index[m] # NoIndex
        BY <3>1, HasSlot DEF Electing, LobbyInv, Indexed
      <3>3. e.index = index[m]
        BY <1>4, <2>1, <3>2, OwnIndex DEF Entry
      <3> QED  BY <3>1, <3>3 DEF SlotInv, ElectingInv
    <2> DEFINE f == [e EXCEPT !.host = IF m \in Electing THEN e.index = index[n] ELSE @]
    <2>3. f.at = m /\ f.index = e.index
      BY <1>4, <2>1 DEF Entry
    <2> HIDE DEF left
    <2>4. f \in roster'[m]
      BY <1>2, <2>2
    <2> QED  BY <2>3, <2>4
  <1>5. \A m \in Node : \/ phase'[m] = phase[m]
                        \/ phase[m] \notin {"out", "joining"} /\ (Plays(m)' => Plays(m))
    BY <1>1 DEF Electing, Plays
  <1> QED  BY <1>1, <1>3, <1>4, <1>5, ThinksOwn

(* A node reads a message, and goes on.                                    *)
LEMMA ReadsOwn ==
    ASSUME LobbyInv, LobbyInv', SlotInv, SlotInv', OwnInv, NEW n \in Node, \A m \in Node : todo[m] = <<>>,
           NEW msg, inbox[n] # <<>>, msg = Head(inbox[n]),
           inbox' = [inbox EXCEPT ![n] = Tail(@)], UNCHANGED <<session, todo>>,
           \A m \in Node : m # n => /\ phase'[m] = phase[m] /\ index'[m] = index[m]
                                    /\ roster'[m] = roster[m],
           phase[n] # "out",
           \/ /\ index'[n] = index[n] /\ (phase[n] = "joining" => phase'[n] = "joining")
              /\ phase[n] = "joining" => \A i : ~Given(msg, i)
           \/ phase[n] = "joining" /\ Given(msg, index'[n]) /\ index'[n] \in Index,
           ~News(msg) => roster'[n] = roster[n],
           News(msg) => \/ roster'[n] = msg.players
                        \/ Plays(n) /\ \A e \in roster[n] : e.index = index[n] => e \in roster'[n],
           Plays(n)' => Plays(n) \/ msg.type = "start"
    PROVE  OwnInv'
  <1> DEFINE box == inbox[n]
             rest == Tail(box)
  <1>1. box \in Seq(Sendable) /\ inbox'[n] = rest /\ \A m \in Node : m # n => inbox'[m] = inbox[m]
    BY DEF LobbyInv, FlightTypes
  <1>2. /\ msg = box[1] /\ Len(box) \in Nat /\ Len(box) > 0 /\ msg \in Sendable
        /\ Len(rest) = Len(box) - 1 /\ \A k \in 1..Len(rest) : rest[k] = box[k + 1]
    BY <1>1, Tailed
  <1>3. \A i : Offers(box, i) <=> Given(msg, i) \/ Offers(rest, i)
    BY <1>1, LessToRead
  <1>4. 1 \in 1..Len(box) /\ \A k \in 1..Len(rest) : k + 1 \in 1..Len(box) /\ rest[k] = box[k + 1] /\ k + 1 # 1
    BY <1>2
  <1>5. \A j \in 1..Len(box) : j = 1 \/ (j - 1 \in 1..Len(rest) /\ rest[j - 1] = box[j]
                                         /\ \A k \in 1..Len(rest) : j < k + 1 => j - 1 < k)
    BY <1>2
  <1>6. box = inbox[n]
    OBVIOUS
  <1>7. \A k \in 1..Len(box) : News(box[k]) => box[k].players \subseteq Entry
    BY <1>1 DEF Sendable, Message
  <1> HIDE DEF box, rest
  <1>8. \A i : ~Requests(requests[n], "leave", i)
    BY DEF SlotInv, Unassigned, UnassignedAt, Asks, Requests
  <1>9. ASSUME NEW i \in Index, Holds(n, i)
        PROVE  Holds(n, i)'
    <2>1. index[n] = i \/ (phase[n] = "joining" /\ Offers(box, i))
      BY <1>6, <1>8, <1>9, Nothing DEF Holds
    <2>2. CASE /\ index'[n] = index[n] /\ (phase[n] = "joining" => phase'[n] = "joining")
               /\ phase[n] = "joining" => ~Given(msg, i)
      BY <1>1, <1>3, <2>1, <2>2 DEF Holds
    <2>3. CASE phase[n] = "joining" /\ Given(msg, index'[n]) /\ index'[n] \in Index
      <3>1. Holds(n, index'[n])
        BY <1>3, <1>6, <2>3 DEF Holds
      <3>2. i = index'[n]
        BY <1>9, <2>3, <3>1 DEF SlotInv, Distinct
      <3> QED  BY <3>2 DEF Holds
    <2> QED  BY <2>2, <2>3
  <1>10. ASSUME NEW players \in SUBSET Entry, Own(n, players)
         PROVE  \E e \in players : e.at = n /\ Holds(n, e.index)'
    BY <1>9, <1>10 DEF Own, Entry
  <1>11. roster[n] \in SUBSET Entry /\ OwnBox(n)
    BY DEF LobbyInv, NodeTypes, OwnInv, OwnRosters
  <1>12. News(msg) => Own(n, roster[n])'
    <2>1. ASSUME News(msg), roster'[n] = msg.players
          PROVE  Own(n, roster[n])'
      <3>1. Own(n, msg.players) /\ msg.players \in SUBSET Entry
        BY <1>2, <1>4, <1>6, <1>7, <1>11, <2>1 DEF OwnBox
      <3>2. \E e \in roster'[n] : e.at = n /\ Holds(n, e.index)'
        BY <1>10, <2>1, <3>1
      <3> QED  BY <3>2 DEF Own
    <2>2. ASSUME Plays(n), \A e \in roster[n] : e.index = index[n] => e \in roster'[n]
          PROVE  Own(n, roster[n])'
      <3>1. Own(n, roster[n])
        BY <2>2 DEF OwnInv, OwnRosters, Plays
      <3>2. PICK e \in roster[n] : e.at = n /\ Holds(n, e.index)
        BY <3>1 DEF Own
      <3>3. e.index \in Index /\ index[n] # NoIndex
        BY <1>11, <2>2, HasSlot DEF Entry, Plays, LobbyInv, Indexed
      <3>4. e.index = index[n]
        BY <3>2, <3>3, OwnIndex
      <3> QED  BY <1>9, <2>2, <3>2, <3>3, <3>4 DEF Own
    <2> QED  BY <2>1, <2>2
  <1>13. Own(n, roster[n]) => Own(n, roster[n])'
    <2>1. CASE roster'[n] = roster[n]
      BY <1>10, <1>11, <2>1 DEF Own
    <2> QED  BY <1>12, <2>1
  <1>14. OwnBox(n)'
    <2>1. ASSUME NEW k \in 1..Len(rest), News(rest[k])
          PROVE  \E e \in rest[k].players : e.at = n /\ Holds(n, e.index)'
      <3>1. Own(n, rest[k].players) /\ rest[k].players \in SUBSET Entry
        BY <1>4, <1>6, <1>7, <1>11, <2>1 DEF OwnBox
      <3> QED  BY <1>10, <3>1
    <2>2. ASSUME NEW k \in 1..Len(rest), rest[k].type = "start"
          PROVE  Own(n, roster[n])' \/ \E j \in 1..Len(rest) : j < k /\ News(rest[j])
      <3>1. Own(n, roster[n]) \/ \E j \in 1..Len(box) : j < k + 1 /\ News(box[j])
        BY <1>4, <1>6, <1>11, <2>2 DEF OwnBox
      <3>2. ASSUME NEW j \in 1..Len(box), j < k + 1, News(box[j])
            PROVE  Own(n, roster[n])' \/ \E l \in 1..Len(rest) : l < k /\ News(rest[l])
        BY <1>2, <1>5, <1>12, <3>2
      <3> QED  BY <1>13, <3>1, <3>2
    <2>3. \A k \in 1..Len(inbox'[n]) : News(inbox'[n][k]) => Own(n, inbox[n][k].players)'
      BY <1>1, <2>1 DEF Own
    <2>4. \A k \in 1..Len(inbox'[n]) : inbox'[n][k].type = "start" =>
            Own(n, roster[n])' \/ \E j \in 1..Len(inbox'[n]) : j < k /\ News(inbox'[n][j])
      BY <1>1, <2>2
    <2> QED  BY <2>3, <2>4 DEF OwnBox
  <1>15. Shown(n) => Shown(n)'
    <2>1. ASSUME NEW k \in 1..Len(box), News(box[k])
          PROVE  Own(n, roster[n])' \/ NewsIn(rest)
      BY <1>2, <1>5, <1>12, <2>1 DEF NewsIn
    <2> QED  BY <1>1, <1>6, <1>13, <2>1 DEF Shown, NewsIn
  <1>16. Plays(n)' => Own(n, roster[n])'
    <2>1. Plays(n) => Own(n, roster[n])
      BY DEF OwnInv, OwnRosters, Plays
    <2>2. ASSUME msg.type = "start"
          PROVE  Own(n, roster[n])
      <3>1. Own(n, roster[n]) \/ \E j \in 1..Len(box) : j < 1 /\ News(box[j])
        BY <1>2, <1>4, <1>6, <1>11, <2>2 DEF OwnBox
      <3>2. \A j \in 1..Len(box) : ~(j < 1)
        BY <1>2
      <3> QED  BY <3>1, <3>2
    <2> QED  BY <1>13, <2>1, <2>2
  <1>17. \A m \in Node : Registered(m)' <=> Registered(m)
    BY DEF Registered
  <1>18. StaysAware(n)
    BY <1>9, <1>14, <1>15, <1>16, <1>17 DEF StaysAware
  <1>19. \A m \in Node : m # n => StaysAware(m)
    BY <1>1, <1>17, AsideAware
  <1> QED  BY <1>18, <1>19, AllAware

LEMMA ReadOwn ==
    ASSUME MaxSuspended = 0, LobbyInv, LobbyInv', RosterInv, SlotInv, SlotInv', OwnInv,
           NEW n \in Node, Read(n)
    PROVE  OwnInv'
  <1> DEFINE msg == Head(inbox[n])
  <1>1. inbox[n] # <<>> /\ \A m \in Node : todo[m] = <<>>
    BY AtRest DEF Read, RosterInv
  <1>2. NodeTypes /\ FlightTypes /\ inbox[n] \in Seq(Sendable)
    BY DEF LobbyInv, FlightTypes
  <1>3. msg \in Sendable
    BY <1>1, <1>2, Tailed
  <1>4. Teardown(n) => OwnInv'
    BY <1>1, EndOwn DEF Teardown
  <1>5. phase[n] # "out"
    BY <1>1 DEF SlotInv, Unassigned, UnassignedAt
  <1>6. CASE Handshake(n, msg)
    <2>1. CASE msg.type = "rejected"
      BY <1>4, <1>6, <2>1 DEF Handshake
    <2>2. CASE msg.type # "rejected"
      <3>1. /\ UNCHANGED <<session, todo>> /\ phase[n] = "joining"
            /\ inbox' = [inbox EXCEPT ![n] = Tail(@)]
            /\ roster' = [roster EXCEPT ![n] = IF msg.type = "roster" THEN msg.players ELSE @]
            /\ \/ /\ msg.type \in {"created", "joined"}
                  /\ phase' = [phase EXCEPT ![n] = "waiting"] /\ index' = [index EXCEPT ![n] = msg.index]
               \/ msg.type \notin {"created", "joined"} /\ UNCHANGED <<phase, index>>
        BY <1>6, <2>2 DEF Handshake
      <3>2. msg = Head(inbox[n])
        OBVIOUS
      <3> HIDE DEF msg
      <3>3. /\ roster'[n] = IF News(msg) THEN msg.players ELSE roster[n]
            /\ \A m \in Node : m # n => roster'[m] = roster[m]
        BY <1>2, <3>1 DEF NodeTypes, News
      <3>4. CASE msg.type \in {"created", "joined"} /\ phase' = [phase EXCEPT ![n] = "waiting"]
                 /\ index' = [index EXCEPT ![n] = msg.index]
        <4>1. /\ phase'[n] = "waiting" /\ index'[n] = msg.index
              /\ \A m \in Node : m # n => phase'[m] = phase[m] /\ index'[m] = index[m]
          BY <1>2, <3>4 DEF NodeTypes
        <4>2. Given(msg, index'[n]) /\ index'[n] \in Index
          BY <1>3, <3>4, <4>1 DEF Given, Sendable
        <4>3. ~Plays(n)'
          BY <4>1 DEF Plays
        <4> QED  BY <1>1, <1>5, <3>1, <3>2, <3>3, <4>1, <4>2, <4>3, ReadsOwn
      <3>5. CASE msg.type \notin {"created", "joined"} /\ UNCHANGED <<phase, index>>
        <4>1. \A i : ~Given(msg, i)
          BY <3>5 DEF Given
        <4>2. ~Plays(n)'
          BY <3>1, <3>5 DEF Plays
        <4> QED  BY <1>1, <1>5, <3>1, <3>2, <3>3, <3>5, <4>1, <4>2, ReadsOwn
      <3> QED  BY <3>1, <3>4, <3>5
    <2> QED  BY <2>1, <2>2
  <1>7. CASE WaitForStart(n, msg)
    <2>1. CASE msg.type = "closed" /\ role[n] = "client"
      BY <1>4, <1>7, <2>1 DEF WaitForStart
    <2>2. CASE ~(msg.type = "closed" /\ role[n] = "client")
      <3>1. /\ UNCHANGED <<index, session, todo>>
            /\ inbox' = [inbox EXCEPT ![n] = Tail(@)]
            /\ roster' = [roster EXCEPT ![n] = IF msg.type = "roster" THEN msg.players ELSE @]
            /\ phase[n] \in {"waiting", "starting", "draining"}
            /\ \/ UNCHANGED phase
               \/ /\ phase' = [phase EXCEPT ![n] = IF role[n] = "host" THEN "draining" ELSE "playing"]
                  /\ msg.type = "start"
        BY <1>7, <2>2 DEF WaitForStart, Starts
      <3>2. msg = Head(inbox[n])
        OBVIOUS
      <3> HIDE DEF msg
      <3>3. /\ roster'[n] = IF News(msg) THEN msg.players ELSE roster[n]
            /\ \A m \in Node : m # n => roster'[m] = roster[m]
        BY <1>2, <3>1 DEF NodeTypes, News
      <3>4. \A m \in Node : m # n => phase'[m] = phase[m]
        BY <1>2, <3>1 DEF NodeTypes
      <3>5. Plays(n)' => Plays(n) \/ msg.type = "start"
        BY <3>1 DEF Plays
      <3>6. /\ inbox' = [inbox EXCEPT ![n] = Tail(@)] /\ UNCHANGED <<session, todo>>
            /\ \A m \in Node : m # n => /\ phase'[m] = phase[m] /\ index'[m] = index[m]
                                     /\ roster'[m] = roster[m]
        BY <3>1, <3>3, <3>4
      <3>7. /\ index'[n] = index[n] /\ (phase[n] = "joining" => phase'[n] = "joining")
            /\ phase[n] = "joining" => \A i : ~Given(msg, i)
        BY <3>1
      <3>8. /\ ~News(msg) => roster'[n] = roster[n]
            /\ News(msg) => roster'[n] = msg.players
        BY <3>3
      <3> QED  BY <1>1, <1>5, <3>2, <3>5, <3>6, <3>7, <3>8, ReadsOwn
    <2> QED  BY <2>1, <2>2
  <1>8. CASE ReadInGame(n, msg)
    <2>1. /\ UNCHANGED <<session, todo, phase, index>>
          /\ inbox' = [inbox EXCEPT ![n] = Tail(@)]
          /\ roster' = [roster EXCEPT ![n] = IF role[n] = "host" /\ msg.type = "roster"
                                             THEN Admitted(n, msg.players) ELSE @]
          /\ phase[n] = "playing"
      BY <1>8 DEF ReadInGame
    <2>2. msg = Head(inbox[n])
      OBVIOUS
    <2> HIDE DEF msg
    <2>3. /\ roster'[n] = IF role[n] = "host" /\ News(msg) THEN Admitted(n, msg.players) ELSE roster[n]
          /\ \A m \in Node : m # n => roster'[m] = roster[m]
      BY <1>2, <2>1 DEF NodeTypes, News
    <2>4. \A e \in roster[n] : e.index = index[n] => e \in Admitted(n, msg.players)
      BY DEF Admitted, Indices
    <2>5. Plays(n) /\ phase[n] # "joining"
      BY <2>1 DEF Plays
    <2> QED  BY <1>1, <1>5, <2>1, <2>2, <2>3, <2>4, <2>5, ReadsOwn
  <1> QED  BY <1>6, <1>7, <1>8 DEF Read

LEMMA NodeStepOwn ==
    ASSUME MaxSuspended = 0, LobbyInv, LobbyInv', RosterInv, SlotInv, SlotInv', OwnInv,
           NEW n \in Node, NodeStep(n)
    PROVE  OwnInv'
  <1>1. ASSUME Undisturbed
        PROVE  \A m \in Node : todo[m] = <<>>
    BY <1>1, AtRest DEF RosterInv
  <1>2. NodeTypes
    BY DEF LobbyInv
  <1>3. ASSUME NEW rejoin, Enter(n, rejoin)
        PROVE  OwnInv'
    BY <1>1, <1>3, EnterOwn DEF Enter
  <1>4. ASSUME Undisturbed, UNCHANGED <<index, session, todo, inbox>>, roster' = roster,
               \A m \in Node : m # n => phase'[m] = phase[m],
               phase'[n] = phase[n] \/ (phase[n] \notin {"out", "joining"} /\ (Plays(n)' => Plays(n)))
        PROVE  OwnInv'
    BY <1>1, <1>4, ThinksOwn
  <1>5. CASE Join(n)
    BY <1>3, <1>5 DEF Join
  <1>6. CASE Recover(n)
    <2>1. CASE Undisturbed /\ UNCHANGED <<phase, index, roster, session, todo, inbox>>
      BY <1>4, <2>1
    <2> QED  BY <1>3, <1>6, <2>1 DEF Recover
  <1>7. CASE JoinTimeout(n) \/ LeaveLobby(n)
    <2>1. Undisturbed /\ Teardown(n)
      BY <1>7 DEF JoinTimeout, LeaveLobby
    <2> QED  BY <1>1, <2>1, EndOwn DEF Teardown
  <1>8. CASE PressStart(n)
    <2>1. /\ Undisturbed /\ UNCHANGED <<index, roster, session, todo, inbox>>
          /\ phase' = [phase EXCEPT ![n] = "starting"] /\ phase[n] = "waiting"
      BY <1>8 DEF PressStart
    <2>2. phase'[n] = "starting" /\ \A m \in Node : m # n => phase'[m] = phase[m]
      BY <1>2, <2>1 DEF NodeTypes
    <2>3. ~Plays(n)'
      BY <2>2 DEF Plays
    <2> QED  BY <1>4, <2>1, <2>2, <2>3
  <1>9. CASE EndDrain(n)
    <2>1. /\ Undisturbed /\ UNCHANGED <<index, roster, session, todo, inbox>>
          /\ phase' = [phase EXCEPT ![n] = "playing"] /\ phase[n] = "draining"
      BY <1>9 DEF EndDrain
    <2>2. \A m \in Node : m # n => phase'[m] = phase[m]
      BY <1>2, <2>1 DEF NodeTypes
    <2>3. Plays(n)
      BY <2>1 DEF Plays
    <2> QED  BY <1>4, <2>1, <2>2, <2>3
  <1>10. CASE EndRun(n)
    <2>1. /\ Undisturbed /\ UNCHANGED <<index, roster, session, todo, inbox>>
          /\ phase' = [phase EXCEPT ![n] = "waiting"] /\ phase[n] = "playing"
      BY <1>10 DEF EndRun
    <2>2. phase'[n] = "waiting" /\ \A m \in Node : m # n => phase'[m] = phase[m]
      BY <1>2, <2>1 DEF NodeTypes
    <2>3. ~Plays(n)'
      BY <2>2 DEF Plays
    <2> QED  BY <1>4, <2>1, <2>2, <2>3
  <1>11. CASE MergeRoster(n)
    <2>1. UNCHANGED <<phase, index, session, todo, inbox>> /\ Undisturbed
      BY <1>11 DEF MergeRoster
    <2>2. PICK h \in Node : roster' = [roster EXCEPT ![n] = @ \cup Unknown(n, h)]
      BY <1>11 DEF MergeRoster, Hosts
    <2>3. \A m \in Node : roster[m] \subseteq roster'[m]
      BY <1>2, <2>2 DEF NodeTypes
    <2>4. \A m \in Node : phase'[m] = phase[m]
      BY <2>1
    <2> QED  BY <1>1, <2>1, <2>3, <2>4, ThinksOwn
  <1>12. CASE Read(n)
    BY <1>12, ReadOwn
  <1>13. CASE Evict(n)
    BY <1>1, <1>13, EvictOwn DEF Evict
  <1>14. CASE Crash(n)
    BY <1>1, <1>14, EndOwn, CrashHostOwn DEF Crash, CrashClient
  <1>15. CASE Promote(n)
    BY <1>15, PromoteOwn
  <1> QED  BY <1>5, <1>6, <1>7, <1>8, <1>9, <1>10, <1>11, <1>12, <1>13, <1>14, <1>15 DEF NodeStep

(* A node that keeps its slot, what it shows and what it has to read.      *)
LEMMA OwnKept ==
    ASSUME NEW m \in Node, \A i : Holds(m, i) => Holds(m, i)',
           roster'[m] = roster[m], inbox'[m] = inbox[m]
    PROVE  /\ Own(m, roster[m]) => Own(m, roster[m])'
           /\ OwnBox(m) => OwnBox(m)'
           /\ Shown(m) => Shown(m)'
  <1>1. Own(m, roster[m]) => Own(m, roster[m])'
    BY DEF Own
  <1>2. \A k \in 1..Len(inbox[m]) : Own(m, inbox[m][k].players) => Own(m, inbox[m][k].players)'
    BY DEF Own
  <1> QED  BY <1>1, <1>2 DEF OwnBox, Shown

(* The service reads a request.                                            *)
LEMMA HandledOwn ==
    ASSUME LobbyInv, LobbyInv', SlotInv, OwnInv, NEW n \in Node, Takes(n),
           NEW q, todo' = [todo EXCEPT ![n] = q],
           OwnNews(q)', StartsKnown(q)', ReadsOpen(q)',
           \A m \in Node : Registered(m)' =>
                /\ Registered(m) \/ \E i \in Index : Holds(m, i)'
                /\ Registered(m) \/ (m = n /\ Announces(q)) \/ Own(m, roster[m])
    PROVE  OwnInv'
  <1>1. UNCHANGED <<phase, index, roster, inbox>> /\ \A m \in Node : todo[m] = <<>>
    BY DEF Takes, nodeVars
  <1>2. \A m \in Node : m # n => requests'[m] = requests[m]
    BY Taken
  <1>3. todo'[n] = q /\ \A m \in Node : m # n => todo'[m] = <<>>
    BY <1>1 DEF LobbyInv, FlightTypes
  <1>4. ASSUME NEW m \in Node, Live(m)
        PROVE  \A i : Holds(m, i) => Holds(m, i)'
    <2>1. \A i : ~Requests(requests[m], "leave", i)
      BY <1>4 DEF SlotInv, Unassigned, UnassignedAt, Asks, Requests, Live
    <2> QED  BY <1>1, <2>1, Nothing DEF Holds
  <1>5. \A m \in Node : Live(m) =>
            /\ Own(m, roster[m]) => Own(m, roster[m])'
            /\ OwnBox(m) => OwnBox(m)'
            /\ Shown(m) => Shown(m)'
    BY <1>1, <1>4, OwnKept
  <1>6. \A k \in 1..Len(<<>>) : FALSE
    OBVIOUS
  <1>7. OwnRosters'
    <2>1. SUFFICES ASSUME NEW m \in Node
                   PROVE  OwnBox(m)' /\ (phase'[m] \in {"draining", "playing", "electing"} => Own(m, roster[m])')
      BY DEF OwnRosters
    <2>2. OwnBox(m) /\ (Plays(m) => Own(m, roster[m]))
      BY DEF OwnInv, OwnRosters, Plays
    <2>3. CASE Live(m)
      BY <1>1, <1>5, <2>2, <2>3 DEF Plays
    <2>4. CASE ~Live(m)
      <3>1. inbox'[m] = <<>>
        BY <1>1, <2>4 DEF Live, SlotInv, Unassigned, UnassignedAt
      <3> QED  BY <1>1, <1>6, <2>4, <3>1 DEF OwnBox, Live
    <2> QED  BY <2>3, <2>4
  <1>8. \A m \in Node : Registered(m) => Live(m) /\ Shown(m)
    BY <1>1, Empty DEF LobbyInv, ConnectedOnce, OwnInv, SelfAware, Untold
  <1>9. Answered'
    BY <1>4, <1>8 DEF OwnInv, Answered
  <1>10. ServiceTells'
    <2>1. OwnNews(<<>>)' /\ StartsKnown(<<>>)' /\ ReadsOpen(<<>>)'
      BY <1>6 DEF OwnNews, StartsKnown, ReadsOpen
    <2> QED  BY <1>3, <2>1 DEF ServiceTells
  <1>11. SelfAware'
    <2>1. SUFFICES ASSUME NEW m \in Node, Registered(m)', Untold(m)'
                   PROVE  Shown(m)'
      BY DEF SelfAware
    <2>4. ~(m = n /\ Announces(q))
      <3>1. SUFFICES ASSUME m = n, Announces(q) PROVE FALSE
        OBVIOUS
      <3>2. Live(n)
        BY <1>1, <2>1, <3>1 DEF LobbyInv, ConnectedOnce, Live
      <3>3. UNCHANGED phase /\ \A l \in Node : todo[l] = <<>>
        BY <1>1
      <3> QED  BY <2>1, <3>1, <3>2, <3>3, UntoldIs
    <2>2. Registered(m) => Shown(m)'
      BY <1>5, <1>8
    <2>3. Own(m, roster[m]) => Shown(m)'
      <3>1. Live(m)
        BY <1>1, <2>1 DEF LobbyInv, ConnectedOnce, Live
      <3> QED  BY <1>5, <3>1 DEF Shown
    <2> QED  BY <2>1, <2>2, <2>3, <2>4
  <1> QED  BY <1>7, <1>9, <1>10, <1>11 DEF OwnInv

(* A handler that announces nothing and starts nobody.                     *)
LEMMA Idles ==
    ASSUME NEW q,
           \A k \in 1..Len(q) : ~Starting(q[k]) /\ q[k].do # "announce" /\ (q[k].do = "send" => ~News(q[k].msg))
    PROVE  OwnNews(q)' /\ StartsKnown(q)' /\ ReadsOpen(q)'
  BY DEF OwnNews, StartsKnown, ReadsOpen

(* Before a GameStart there is a roster to read.                           *)
LEMMA Welcomes ==
    ASSUME NEW q, session'.open, ~Closing',
           \A k \in 1..Len(q) : /\ q[k].do = "send" => ~News(q[k].msg)
                                /\ Starting(q[k]) =>
                                    /\ Live(q[k].to)' => Registered(q[k].to)'
                                    /\ \E j \in 1..Len(q) : j < k /\ q[j].do = "announce"
    PROVE  OwnNews(q)' /\ StartsKnown(q)' /\ ReadsOpen(q)'
  BY DEF OwnNews, StartsKnown, ReadsOpen, Informs

LEMMA CreateOwn ==
    ASSUME LobbyInv, LobbyInv', SlotInv, OwnInv, NEW n \in Node, Takes(n), Asks(n, {"create"}), CreateSession(n)
    PROVE  OwnInv'
  <1> DEFINE a == Send(n, Msg("created", 0, {}))
             b == Do("announce", n)
             q == <<a, b>>
  <1>1. /\ todo' = [todo EXCEPT ![n] = q]
        /\ session'.open /\ session'.connections = <<n>>
    BY DEF CreateSession, NoSession
  <1>2. /\ a.do = "send" /\ a.to = n /\ Given(a.msg, 0) /\ ~News(a.msg) /\ a.msg.type # "start"
        /\ \A i : Given(a.msg, i) => i = 0
        /\ b.do = "announce"
        /\ Len(q) = 2 /\ q[1] = a /\ q[2] = b /\ 1 \in 1..2 /\ 2 \in 1..2 /\ \A k \in 1..2 : k = 1 \/ k = 2
    BY DEF Send, Do, Msg, Given, News
  <1>3. phase[n] = "joining"
    BY DEF LobbyInv, Untouched
  <1> HIDE DEF a, b, q
  <1>4. /\ \A m, i : Sends(q, m, i) => m = n
        /\ Sends(q, n, 0) /\ Announces(q) /\ ~\E k \in 1..Len(q) : q[k].do = "drop"
    BY <1>2 DEF Sends, Announces
  <1>5. ~Closing'
    <2>1. \A m \in Node : \A i \in Index : Sends(q, m, i) => m = n
      BY <1>4
    <2>2. Closing' => \E k \in 1..Len(q) : q[k].do = "drop"
      BY <1>1, <2>1, TakenHolds
    <2> QED  BY <1>4, <2>2
  <1>6. OwnNews(q)' /\ StartsKnown(q)' /\ ReadsOpen(q)'
    <2>1. \A k \in 1..Len(q) : ~Starting(q[k]) /\ (q[k].do = "send" => ~News(q[k].msg))
      BY <1>2 DEF Starting
    <2> QED  BY <1>1, <1>5, <2>1, Welcomes
  <1>7. Holds(n, 0)' /\ 0 \in Index
    <2>1. todo'[n] = q /\ phase'[n] = "joining"
      BY <1>1, <1>3 DEF LobbyInv, FlightTypes, Takes, nodeVars
    <2> QED  BY <1>4, <2>1, FirstSlot DEF Holds
  <1>8. \A m \in Node : Registered(m)' => m = n
    BY <1>1 DEF Registered
  <1>9. \A m \in Node : Registered(m)' => m = n /\ Announces(q) /\ \E i \in Index : Holds(m, i)'
    BY <1>4, <1>7, <1>8
  <1> QED  BY <1>1, <1>6, <1>9, HandledOwn

LEMMA AdmitOwn ==
    ASSUME LobbyInv, LobbyInv', SlotInv, OwnInv, NEW n \in Node, Takes(n),
           NEW rejoin \in Index \cup {NoIndex}, Asks(n, {"join"}), ~Refused(rejoin), JoinSession(n, rejoin)
    PROVE  OwnInv'
  <1>0. SUFFICES ASSUME NEW i, i = Slot(rejoin) PROVE OwnInv'
    OBVIOUS
  <1> DEFINE a == Send(n, Msg("joined", i, {}))
             b == Do("announce", n)
             c == Do("resume", n)
             q == <<a, b, c>>
             l == IF Live(n) THEN Append(session.connections, n) ELSE session.connections
             es == {x \in session.entries : x.index # i} \cup {[index |-> i, at |-> n, host |-> FALSE]}
             rs == session.reserved \ {i}
  <1>1. session \in Record /\ session.connections \in Seq(Node)
    BY DEF LobbyInv, FlightTypes, Record
  <1>2. /\ session' = [session EXCEPT !.entries = es, !.reserved = rs, !.connections = l]
        /\ todo' = [todo EXCEPT ![n] = q] /\ session.open
    BY <1>0 DEF JoinSession, Welcome, StillReserved, Refused
  <1>3. /\ a.do = "send" /\ a.to = n /\ Given(a.msg, i) /\ ~News(a.msg) /\ a.msg.type # "start"
        /\ b.do = "announce" /\ c.do = "resume" /\ c.to = n
        /\ Len(q) = 3 /\ q[1] = a /\ q[2] = b /\ q[3] = c /\ 1 \in 1..3 /\ 2 \in 1..3 /\ 2 < 3
        /\ \A k \in 1..3 : k = 1 \/ k = 2 \/ k = 3
    BY DEF Send, Do, Msg, Given, News
  <1>4. i \in Index
    BY <1>0, <1>1, SlotIs
  <1> HIDE DEF a, b, c, q, es, rs
  <1>5. session'.open /\ session'.connections = l
    <2> HIDE DEF l
    <2> QED  BY <1>1, <1>2 DEF Record
  <1>6. /\ Live(n) => Registered(n)'
        /\ \A m \in Node : Registered(m)' => Registered(m) \/ (m = n /\ Live(n))
    <2> DEFINE w == session.connections
    <2>1. w \in Seq(Node) /\ \A m \in Node : Registered(m) <=> \E k \in 1..Len(w) : w[k] = m
      BY <1>1 DEF Registered
    <2>2. session'.connections = IF Live(n) THEN Append(w, n) ELSE w
      BY <1>5
    <2> HIDE DEF w
    <2>3. session'.connections \in Seq(Node)
      BY <2>1, <2>2
    <2>4. \A m \in Node : Registered(m)' <=> \E k \in 1..Len(session'.connections) : session'.connections[k] = m
      BY <2>3 DEF Registered
    <2>5. /\ Len(Append(w, n)) = Len(w) + 1 /\ Len(w) \in Nat
          /\ \A k \in 1..Len(w) : Append(w, n)[k] = w[k]
          /\ Append(w, n)[Len(w) + 1] = n
      BY <2>1, Appended
    <2>6. /\ \A k \in 1..Len(Append(w, n)) : k \in 1..Len(w) \/ k = Len(w) + 1
          /\ Len(w) + 1 \in 1..Len(Append(w, n))
      BY <2>5
    <2>7. CASE Live(n)
      BY <2>1, <2>2, <2>4, <2>5, <2>6, <2>7
    <2>8. CASE ~Live(n)
      BY <2>1, <2>2, <2>4, <2>8
    <2> QED  BY <2>7, <2>8
  <1>7. /\ \A m, j : Sends(q, m, j) => m = n
        /\ Sends(q, n, i) /\ Announces(q) /\ ~\E k \in 1..Len(q) : q[k].do = "drop"
    BY <1>3 DEF Sends, Announces
  <1>8. ~Closing'
    <2>1. \A m \in Node : \A j \in Index : Sends(q, m, j) => m = n
      BY <1>7
    <2>2. Closing' => \E k \in 1..Len(q) : q[k].do = "drop"
      BY <1>2, <2>1, TakenHolds
    <2> QED  BY <1>7, <2>2
  <1>9. phase' = phase /\ todo'[n] = q
    BY <1>2 DEF LobbyInv, FlightTypes, Takes, nodeVars
  <1>10. OwnNews(q)' /\ StartsKnown(q)' /\ ReadsOpen(q)'
    <2>1. Live(n)' => Registered(n)'
      BY <1>6, <1>9 DEF Live
    <2>2. \A k \in 1..Len(q) : /\ q[k].do = "send" => ~News(q[k].msg)
                               /\ Starting(q[k]) => k = 3
      BY <1>3 DEF Starting
    <2>3. \A k \in 1..Len(q) : Starting(q[k]) =>
                /\ Live(q[k].to)' => Registered(q[k].to)'
                /\ \E j \in 1..Len(q) : j < k /\ q[j].do = "announce"
      BY <1>3, <2>1, <2>2
    <2> QED  BY <1>5, <1>8, <2>2, <2>3, Welcomes
  <1>11. Live(n) => Holds(n, i)'
    <2>1. Live(n) => phase[n] = "joining"
      BY DEF SlotInv, Unassigned, UnassignedAt, Live
    <2> QED  BY <1>7, <1>9, <2>1 DEF Holds
  <1> QED  BY <1>2, <1>4, <1>6, <1>7, <1>10, <1>11, HandledOwn

LEMMA RecreateOwn ==
    ASSUME LobbyInv, LobbyInv', SlotInv, OwnInv, NEW n \in Node, Takes(n), NEW i, NEW reserved,
           Asks(n, {"recreate"}), RecreateSession(n, i, reserved)
    PROVE  OwnInv'
  <1> DEFINE a == Send(n, Msg("created", 0, {}))
             q == <<a>>
  <1>1. todo' = [todo EXCEPT ![n] = q] /\ session'.connections = <<n>>
    BY DEF RecreateSession
  <1>2. /\ a.do = "send" /\ ~News(a.msg) /\ a.msg.type # "start"
        /\ Len(q) = 1 /\ q[1] = a /\ \A k \in 1..1 : k = 1
    BY DEF Send, Msg, News
  <1> HIDE DEF a, q
  <1>3. OwnNews(q)' /\ StartsKnown(q)' /\ ReadsOpen(q)'
    <2>1. \A k \in 1..Len(q) : ~Starting(q[k]) /\ q[k].do # "announce" /\ (q[k].do = "send" => ~News(q[k].msg))
      BY <1>2 DEF Starting
    <2> QED  BY <2>1, Idles
  <1>4. phase[n] = "playing"
    BY DEF LobbyInv, ConnectedOnce
  <1>5. Own(n, roster[n])
    BY <1>4 DEF OwnInv, OwnRosters
  <1>6. index'[n] \in Index /\ Holds(n, index[n])'
    BY <1>4 DEF LobbyInv, Indexed, Holds, Takes, nodeVars
  <1>7. \A m \in Node : Registered(m)' => m = n
    BY <1>1 DEF Registered
  <1>8. \E j \in Index : Holds(n, j)'
    BY <1>6
  <1> QED  BY <1>1, <1>3, <1>5, <1>7, <1>8, HandledOwn

(* A player leaves: if it is not the host, the others are told.            *)
LEMMA LeaveOwn ==
    ASSUME LobbyInv, LobbyInv', SlotInv, OwnInv, NEW n \in Node, Takes(n), session.open,
           NEW i, LeaveSession(n, i)
    PROVE  OwnInv'
  <1> DEFINE leaving == {e \in session.entries : e.index = i}
             closed == Msg("closed", NoIndex, {})
  <1>1. session \in Record
    BY DEF LobbyInv, FlightTypes
  <1>2. SUFFICES ASSUME NEW q, q = Farewell(n, leaving)
                 PROVE  OwnInv'
    OBVIOUS
  <1>3. /\ session' = [session EXCEPT !.entries = session.entries \ leaving]
        /\ todo' = [todo EXCEPT ![n] = q]
    BY <1>2 DEF LeaveSession
  <1>4. session'.open = session.open /\ session'.connections = session.connections
    <2> HIDE DEF leaving
    <2> QED  BY <1>1, <1>3 DEF Record
  <1>5. \A m \in Node : Registered(m)' => Registered(m)
    BY <1>4 DEF Registered
  <1>6. CASE \E e \in leaving : e.host
    <2>1. SUFFICES ASSUME NEW p, p = ToAll(closed) PROVE OwnInv'
      OBVIOUS
    <2> DEFINE d == Do("drop", n)
    <2>2. q = p \o <<d>>
      BY <1>2, <1>6, <2>1 DEF Farewell
    <2>3. /\ d.do = "drop" /\ d \in Pending /\ closed \in Sendable
          /\ ~News(closed) /\ closed.type # "start"
      BY DoIs, MsgIs, NotRoster DEF Do, Msg
    <2>4. /\ Len(p) \in Nat /\ \A k \in 1..Len(p) : p[k].do = "send" /\ p[k].msg = closed
      BY <1>1, <2>1, ToAllTasks
    <2>5. p \in Seq(Pending)
      BY <1>1, <2>1, <2>3, ToAllIs
    <2>6. q = Append(p, d)
      BY <2>2, <2>3, <2>5
    <2> HIDE DEF d, closed
    <2>7. /\ Len(q) = Len(p) + 1 /\ q[Len(p) + 1] = d
          /\ \A k \in 1..Len(p) : q[k] = p[k]
      <3>1. /\ Len(Append(p, d)) = Len(p) + 1 /\ Append(p, d)[Len(p) + 1] = d
            /\ \A k \in 1..Len(p) : Append(p, d)[k] = p[k]
        BY <2>3, <2>5, Appended
      <3> QED  BY <2>6, <3>1
    <2>8. /\ \A k \in 1..Len(q) : k \in 1..Len(p) \/ k = Len(p) + 1
          /\ Len(p) + 1 \in 1..Len(q)
      BY <2>4, <2>7
    <2>9. \A k \in 1..Len(q) : ~Starting(q[k]) /\ q[k].do # "announce" /\ (q[k].do = "send" => ~News(q[k].msg))
      BY <2>3, <2>4, <2>7, <2>8 DEF Starting
    <2>10. Announces(q)
      BY <2>3, <2>7, <2>8 DEF Announces
    <2>11. OwnNews(q)' /\ StartsKnown(q)' /\ ReadsOpen(q)'
      BY <2>9, Idles
    <2> QED  BY <1>3, <1>5, <2>10, <2>11, HandledOwn
  <1>7. CASE ~\E e \in leaving : e.host
    <2> DEFINE b == Do("announce", n)
    <2>1. /\ q = <<b>> /\ b.do = "announce" /\ Len(<<b>>) = 1 /\ <<b>>[1] = b
          /\ 1 \in 1..1 /\ \A k \in 1..1 : k = 1
      BY <1>2, <1>7 DEF Farewell, Do
    <2> HIDE DEF b
    <2>2. /\ \A k \in 1..Len(q) : q[k].do = "announce" /\ ~Starting(q[k])
          /\ Announces(q) /\ ~\E k \in 1..Len(q) : q[k].do = "drop"
      BY <2>1 DEF Starting, Announces
    <2>3. ~Closing'
      <3>1. \A m \in Node : \A j \in Index : Sends(q, m, j) => m = n
        BY <2>2 DEF Sends
      <3>2. Closing' => \E k \in 1..Len(q) : q[k].do = "drop"
        BY <1>3, <3>1, TakenHolds
      <3> QED  BY <2>2, <3>2
    <2>4. OwnNews(q)' /\ StartsKnown(q)' /\ ReadsOpen(q)'
      BY <1>4, <2>2, <2>3, Welcomes
    <2> QED  BY <1>3, <1>5, <2>2, <2>4, HandledOwn
  <1> QED  BY <1>6, <1>7

(* A request after which nobody is registered that was not.                *)
LEMMA AnswersOwn ==
    ASSUME LobbyInv, LobbyInv', SlotInv, OwnInv, NEW n \in Node, Takes(n),
           NEW q, todo' = [todo EXCEPT ![n] = q],
           session'.connections = session.connections,
           \A k \in 1..Len(q) : ~Starting(q[k]) /\ q[k].do # "announce" /\ (q[k].do = "send" => ~News(q[k].msg))
    PROVE  OwnInv'
  <1>1. \A m \in Node : Registered(m)' => Registered(m)
    BY DEF Registered
  <1>2. OwnNews(q)' /\ StartsKnown(q)' /\ ReadsOpen(q)'
    BY Idles
  <1> QED  BY <1>1, <1>2, HandledOwn

(* A run begins: whoever is told shows itself, or has a roster to read.    *)
LEMMA StartOwn ==
    ASSUME LobbyInv, LobbyInv', SlotInv, OwnInv, NEW n \in Node, Takes(n), StartSession(n)
    PROVE  OwnInv'
  <1> DEFINE start == Msg("start", NoIndex, {})
  <1>1. session \in Record /\ session.connections \in Seq(Node)
    BY DEF LobbyInv, FlightTypes, Record
  <1>2. SUFFICES ASSUME NEW q, q = ToAll(start)
                 PROVE  OwnInv'
    OBVIOUS
  <1>3. todo' = [todo EXCEPT ![n] = q] /\ session' = [session EXCEPT !.active = session.open]
    BY <1>2 DEF StartSession
  <1>4. session'.connections = session.connections
    BY <1>1, <1>3 DEF Record
  <1>5. /\ Len(q) = Len(session.connections)
        /\ \A k \in 1..Len(q) : q[k].do = "send" /\ q[k].msg = start /\ q[k].to = session.connections[k]
    BY <1>1, <1>2, ToAllTasks
  <1>6. \A k \in 1..Len(q) : q[k].to \in Node /\ Registered(q[k].to)
    BY <1>1, <1>5 DEF Registered
  <1>7. \A m \in Node : Registered(m)' <=> Registered(m)
    BY <1>4 DEF Registered
  <1>8. UNCHANGED <<phase, index, roster, inbox>> /\ \A m \in Node : todo[m] = <<>>
    BY DEF Takes, nodeVars
  <1>9. \A m \in Node : Registered(m) => Live(m) /\ Shown(m)
    BY <1>8, Empty DEF LobbyInv, ConnectedOnce, OwnInv, SelfAware, Untold
  <1>10. ASSUME NEW m \in Node, Live(m)
         PROVE  Shown(m) => Shown(m)'
    <2>1. \A i : ~Requests(requests[m], "leave", i)
      BY <1>10 DEF SlotInv, Unassigned, UnassignedAt, Asks, Requests, Live
    <2>2. \A i : Holds(m, i) => Holds(m, i)'
      BY <1>8, <2>1, Nothing DEF Holds
    <2> QED  BY <1>8, <2>2, OwnKept
  <1>11. \A k \in 1..Len(q) : Registered(q[k].to)' /\ Shown(q[k].to)'
    BY <1>6, <1>7, <1>9, <1>10
  <1>12. ~News(start)
    BY NotRoster
  <1> HIDE DEF start
  <1>13. OwnNews(q)' /\ StartsKnown(q)' /\ ReadsOpen(q)'
    <2>1. StartsKnown(q)'
      BY <1>11 DEF StartsKnown
    <2>2. OwnNews(q)' /\ ReadsOpen(q)'
      BY <1>5, <1>12 DEF OwnNews, ReadsOpen
    <2> QED  BY <2>1, <2>2
  <1> QED  BY <1>3, <1>7, <1>13, HandledOwn

LEMMA HandleOwn ==
    ASSUME MaxSuspended = 0, LobbyInv, LobbyInv', RosterInv, SlotInv, OwnInv, NEW n \in Node, Handle(n)
    PROVE  OwnInv'
  <1> DEFINE r == Head(requests[n])
  <1>1. Takes(n)
    <2>1. \A m \in Node : todo[m] = <<>>
      BY AtRest DEF Handle, RosterInv
    <2> QED  BY <2>1 DEF Handle, Takes
  <1>2. (\A types : r.type \in types => Asks(n, types)) /\ r \in Sound
    BY <1>1, Taken
  <1>3. session \in Record
    BY DEF LobbyInv, FlightTypes
  <1>4. CASE r.type = "create" /\ CreateSession(n)
    <2>1. Asks(n, {"create"})
      BY <1>2, <1>4
    <2> QED  BY <1>1, <1>4, <2>1, CreateOwn
  <1>5. CASE r.type = "join" /\ JoinSession(n, r.index)
    <2>1. Asks(n, {"join"})
      BY <1>2, <1>5
    <2>2. CASE Refused(r.index)
      <3> DEFINE a == Send(n, Msg("rejected", NoIndex, {}))
                 q == <<a>>
      <3>1. todo' = [todo EXCEPT ![n] = q] /\ session' = session
        BY <1>5, <2>2 DEF JoinSession
      <3>2. /\ a.do = "send" /\ ~News(a.msg) /\ a.msg.type # "start"
            /\ Len(q) = 1 /\ q[1] = a /\ \A k \in 1..1 : k = 1
        BY DEF Send, Msg, News
      <3> HIDE DEF a, q
      <3>3. \A k \in 1..Len(q) : ~Starting(q[k]) /\ q[k].do # "announce" /\ (q[k].do = "send" => ~News(q[k].msg))
        BY <3>2 DEF Starting
      <3>4. session'.connections = session.connections
        BY <3>1
      <3> QED  BY <1>1, <3>1, <3>3, <3>4, AnswersOwn
    <2>3. CASE ~Refused(r.index)
      <3>1. r.index \in Index \cup {NoIndex}
        BY <1>2 DEF Sound, Request
      <3> QED  BY <1>1, <1>5, <2>1, <2>3, <3>1, AdmitOwn
    <2> QED  BY <2>2, <2>3
  <1>6. CASE r.type = "recreate" /\ RecreateSession(n, r.index, r.reserved)
    <2>1. Asks(n, {"recreate"})
      BY <1>2, <1>6
    <2>2. ASSUME NEW i, NEW reserved, RecreateSession(n, i, reserved)
          PROVE  OwnInv'
      BY <1>1, <2>1, <2>2, RecreateOwn
    <2> QED  BY <1>6, <2>2
  <1>7. CASE r.type = "leave" /\ LeaveSession(n, r.index)
    <2>1. CASE session.open
      <3>1. ASSUME NEW i, LeaveSession(n, i)
            PROVE  OwnInv'
        BY <1>1, <2>1, <3>1, LeaveOwn
      <3> QED  BY <1>7, <3>1
    <2>2. CASE ~session.open
      <3> DEFINE q == <<>>
      <3>1. session' = session /\ todo' = todo
        BY <1>7, <2>2, <1>3 DEF LeaveSession
      <3>2. todo' = [todo EXCEPT ![n] = q]
        BY <1>1, <3>1 DEF LobbyInv, FlightTypes, Takes
      <3>3. \A k \in 1..Len(q) : FALSE
        OBVIOUS
      <3>4. \A k \in 1..Len(q) : ~Starting(q[k]) /\ q[k].do # "announce" /\ (q[k].do = "send" => ~News(q[k].msg))
        BY <3>3
      <3>5. session'.connections = session.connections
        BY <3>1
      <3> HIDE DEF q
      <3> QED  BY <1>1, <3>2, <3>4, <3>5, AnswersOwn
    <2> QED  BY <2>1, <2>2
  <1>8. CASE r.type = "start" /\ StartSession(n)
    BY <1>1, <1>8, StartOwn
  <1> QED  BY <1>4, <1>5, <1>6, <1>7, <1>8 DEF Handle

(* A connection is resumed by its own handler.                             *)
Resumes == \A n \in Node : \A k \in 1..Len(todo[n]) : todo[n][k].do = "resume" => todo[n][k].to = n

(* A handler at work.                                                      *)
LEMMA AwaitedOwn ==
    ASSUME LobbyInv, LobbyInv', OwnInv, NEW n \in Node, UNCHANGED <<nodeVars, requests>>,
           NEW q, todo'[n] = q, \A m \in Node : m # n => todo'[m] = <<>>,
           \A m \in Node : Live(m) => \A i : Holds(m, i) => Holds(m, i)',
           \A m \in Node : Registered(m)' => Registered(m),
           OwnNews(q)', StartsKnown(q)', ReadsOpen(q)',
           \A m \in Node : OwnBox(m)',
           \A m \in Node : ~Failing(m)',
           \A m \in Node : Registered(m)' /\ ~Announces(q) /\ ~Carries(q, m) => Shown(m)'
    PROVE  OwnInv'
  <1>1. UNCHANGED <<phase, index, roster>>
    BY DEF nodeVars
  <1>2. \A m \in Node : Registered(m) => Live(m)
    BY DEF LobbyInv, ConnectedOnce
  <1>3. Answered'
    BY <1>2 DEF OwnInv, Answered
  <1>4. ServiceTells'
    <2>1. \A k \in 1..Len(<<>>) : FALSE
      OBVIOUS
    <2>2. OwnNews(<<>>)' /\ StartsKnown(<<>>)' /\ ReadsOpen(<<>>)'
      BY <2>1 DEF OwnNews, StartsKnown, ReadsOpen
    <2> QED  BY <2>2 DEF ServiceTells
  <1>5. OwnRosters'
    <2>1. \A m \in Node : Live(m) => (Own(m, roster[m]) => Own(m, roster[m])')
      BY <1>1 DEF Own
    <2> QED  BY <1>1, <2>1 DEF OwnInv, OwnRosters, Live
  <1>6. SelfAware'
    <2>1. \A m \in Node : Untold(m)' => ~Announces(q) /\ ~Carries(q, m)
      BY DEF Untold
    <2> QED  BY <2>1 DEF SelfAware
  <1> QED  BY <1>3, <1>4, <1>5, <1>6 DEF OwnInv

(* What a node has been given stays with it.                               *)
LEMMA StillHeld ==
    ASSUME LobbyInv, NEW n \in Node, UNCHANGED <<nodeVars, requests>>,
           NEW q, todo'[n] = q, \A m \in Node : m # n => todo[m] = <<>>,
           \A m \in Node : Live(m) => \A i :
                /\ Sends(todo[n], m, i) => Sends(q, m, i) \/ Offers(inbox'[m], i)
                /\ Offers(inbox[m], i) => Offers(inbox'[m], i)
    PROVE  \A m \in Node : Live(m) =>
             /\ \A i : Holds(m, i) => Holds(m, i)'
             /\ \A players : Own(m, players) => \E e \in players : e.at = m /\ Holds(m, e.index)'
             /\ Own(m, roster[m]) => Own(m, roster[m])'
  <1>1. UNCHANGED <<phase, index, roster, requests>>
    BY DEF nodeVars
  <1>2. ASSUME NEW m \in Node, Live(m), NEW i, Holds(m, i)
        PROVE  Holds(m, i)'
    <2>1. (\E l \in Node : Sends(todo[l], m, i)) => Sends(todo[n], m, i)
      BY Nothing
    <2>2. Sends(todo[n], m, i) \/ Offers(inbox[m], i)
                => (\E l \in Node : Sends(todo'[l], m, i)) \/ Offers(inbox'[m], i)
      BY <1>2
    <2> QED  BY <1>1, <1>2, <2>1, <2>2 DEF Holds
  <1> QED  BY <1>1, <1>2 DEF Own

(* The others find in their inbox what was there.                          *)
LEMMA SameBox ==
    ASSUME NEW m \in Node, inbox'[m] = inbox[m], roster'[m] = roster[m], OwnBox(m),
           \A i : Holds(m, i) => Holds(m, i)'
    PROVE  OwnBox(m)' /\ (Shown(m) => Shown(m)')
  BY OwnKept

(* A message arrives.                                                      *)
LEMMA NextInBox ==
    ASSUME NEW m \in Node, NEW msg \in Sendable, inbox[m] \in Seq(Sendable),
           inbox'[m] = Append(inbox[m], msg), roster'[m] = roster[m], OwnBox(m),
           \A i : Holds(m, i) => Holds(m, i)',
           News(msg) => Own(m, msg.players), msg.type = "start" => Shown(m)
    PROVE  /\ OwnBox(m)' /\ (Shown(m) => Shown(m)') /\ (News(msg) => Shown(m)')
           /\ \A i : Offers(inbox[m], i) \/ Given(msg, i) => Offers(inbox'[m], i)
  <1>1. SUFFICES ASSUME NEW box \in Seq(Sendable), box = inbox[m],
                        NEW new, new = Append(box, msg), new = inbox'[m]
                 PROVE  /\ OwnBox(m)' /\ (Shown(m) => Shown(m)') /\ (News(msg) => Shown(m)')
                        /\ \A i : Offers(inbox[m], i) \/ Given(msg, i) => Offers(inbox'[m], i)
    OBVIOUS
  <1>2. /\ Len(new) = Len(box) + 1 /\ Len(box) \in Nat
        /\ \A k \in 1..Len(box) : new[k] = box[k]
        /\ new[Len(box) + 1] = msg
    BY <1>1, Appended
  <1>3. /\ \A k \in 1..Len(new) : k \in 1..Len(box) \/ k = Len(box) + 1
        /\ \A k \in 1..Len(box) : k \in 1..Len(new) /\ k < Len(box) + 1
        /\ Len(box) + 1 \in 1..Len(new)
    BY <1>2
  <1>4. /\ \A players : Own(m, players) => \E e \in players : e.at = m /\ Holds(m, e.index)'
        /\ Own(m, roster[m]) => Own(m, roster[m])'
    BY DEF Own
  <1>5. NewsIn(box) \/ News(msg) => NewsIn(new)
    BY <1>2, <1>3 DEF NewsIn
  <1>6. (Shown(m) => Shown(m)') /\ (News(msg) => Shown(m)')
    BY <1>1, <1>4, <1>5 DEF Shown
  <1>7. \A i : Offers(inbox[m], i) \/ Given(msg, i) => Offers(inbox'[m], i)
    BY <1>1, MoreToRead
  <1>8. ASSUME NEW k \in 1..Len(new)
        PROVE  /\ News(new[k]) => \E e \in new[k].players : e.at = m /\ Holds(m, e.index)'
               /\ new[k].type = "start" =>
                    \/ Own(m, roster[m])'
                    \/ \E j \in 1..Len(new) : j < k /\ News(new[j])
    <2>1. CASE k \in 1..Len(box)
      <3>1. /\ News(box[k]) => Own(m, box[k].players)
            /\ box[k].type = "start" =>
                    Own(m, roster[m]) \/ \E j \in 1..Len(box) : j < k /\ News(box[j])
        BY <1>1, <2>1 DEF OwnBox
      <3> QED  BY <1>2, <1>3, <1>4, <2>1, <3>1
    <2>2. CASE k = Len(box) + 1
      <3>1. msg.type = "start" => Own(m, roster[m]) \/ \E j \in 1..Len(box) : News(box[j])
        BY <1>1 DEF Shown, NewsIn
      <3> QED  BY <1>2, <1>3, <1>4, <2>2, <3>1
    <2> QED  BY <1>3, <2>1, <2>2
  <1>9. OwnBox(m)'
    <2>1. \A k \in 1..Len(new) : News(new[k]) => Own(m, new[k].players)'
      BY <1>8 DEF Own
    <2> QED  BY <1>1, <1>8, <2>1 DEF OwnBox
  <1> QED  BY <1>6, <1>7, <1>9

LEMMA ContinueOwn ==
    ASSUME LobbyInv, LobbyInv', RosterInv, SlotInv, OwnInv, Resumes, NEW n \in Node, Continue(n)
    PROVE  OwnInv'
  <1>1. todo[n] # <<>> /\ UNCHANGED <<nodeVars, requests>>
        /\ UNCHANGED <<phase, role, index, held, cached, roster>>
    BY DEF Continue, nodeVars
  <1>2. \A m \in Node : m # n => todo[m] = <<>>
    BY <1>1 DEF RosterInv, OneAtWork
  <1>3. /\ session \in Record /\ todo \in [Node -> Seq(Pending)] /\ todo[n] \in Seq(Pending)
        /\ inbox \in [Node -> Seq(Sendable)]
    BY DEF LobbyInv, FlightTypes
  <1>4. SUFFICES ASSUME NEW old, old = todo[n], NEW t, t = Head(old), NEW rest, rest = Tail(old)
                 PROVE  OwnInv'
    OBVIOUS
  <1>5. /\ t \in Pending /\ t = old[1] /\ Len(old) \in Nat /\ Len(old) > 0
        /\ rest \in Seq(Pending) /\ Len(rest) = Len(old) - 1 /\ Len(rest) \in Nat
        /\ \A k \in 1..Len(rest) : rest[k] = old[k + 1]
    BY <1>1, <1>3, <1>4, Tailed
  <1>6. /\ 1 \in 1..Len(old) /\ \A k \in 1..Len(rest) : k + 1 \in 1..Len(old)
        /\ \A k \in 1..Len(old) : k = 1 \/ (k - 1 \in 1..Len(rest) /\ old[k] = rest[k - 1])
    BY <1>5
  <1>7. /\ \/ t.do = "send" /\ todo' = [todo EXCEPT ![n] = rest] /\ session' = session
              /\ inbox' = [inbox EXCEPT ![t.to] = IF Live(t.to) THEN Append(@, t.msg) ELSE @]
           \/ Answer(t) /\ ~Live(n) /\ todo' = [todo EXCEPT ![n] = <<>>]
              /\ UNCHANGED <<session, inbox>>
           \/ t.do = "fail" /\ todo' = [todo EXCEPT ![n] = rest] /\ UNCHANGED <<session, inbox>>
           \/ t.do = "announce" /\ session.open /\ UNCHANGED <<session, inbox>>
              /\ todo' = [todo EXCEPT ![n] = ToAll(Msg("roster", NoIndex, session.entries)) \o rest]
           \/ t.do = "announce" /\ ~session.open
           \/ t.do = "resume" /\ UNCHANGED <<session, inbox>>
              /\ todo' = [todo EXCEPT ![n] = IF session.active
                            THEN <<Send(n, Msg("start", NoIndex, {}))>> \o rest ELSE rest]
           \/ t.do = "drop" /\ session' = NoSession /\ todo' = [todo EXCEPT ![n] = rest]
              /\ UNCHANGED inbox
    BY <1>4 DEF Continue
  <1>8. /\ OwnNews(old) /\ StartsKnown(old) /\ ReadsOpen(old)
        /\ \A m \in Node : OwnBox(m)
        /\ \A m \in Node : Registered(m) /\ ~Announces(old) /\ ~Carries(old, m) => Shown(m)
        /\ \A m \in Node : Registered(m) /\ Failing(n) => Shown(m)
    BY <1>2, <1>4, Empty DEF OwnInv, ServiceTells, OwnRosters, SelfAware, Untold
  <1>23. \A m \in Node : ~Failing(m)'
    BY NothingFails
  <1>24. Answer(t) => t.do = "send"
    BY DEF Answer
  <1>9. /\ Announces(old) <=> t.do \in {"announce", "drop"} \/ Announces(rest)
        /\ \A m : Carries(old, m) <=> NewsTo(t, m) \/ Carries(rest, m)
    BY <1>5, <1>6 DEF Announces, Carries
  <1>10. \A m, i : Sends(old, m, i) <=>
                \/ t.do = "send" /\ t.to = m /\ Given(t.msg, i)
                \/ Sends(rest, m, i)
    BY <1>5, <1>6 DEF Sends
  <1>11. /\ \A m \in Node : Live(m)' <=> Live(m)
         /\ session' = session => \A m \in Node : Registered(m)' <=> Registered(m)
         /\ \A m \in Node : Registered(m) => Live(m)
    BY <1>1 DEF Live, Registered, LobbyInv, ConnectedOnce
  <1>12. /\ t.to \in Node /\ t.msg \in Sendable
         /\ \A k \in 1..Len(old) : old[k].to \in Node
         /\ \A k \in 1..Len(rest) : rest[k].to \in Node
    <2>1. \A x \in Pending : x.to \in Node /\ x.msg \in Sendable
      BY DEF Pending, Task
    <2>2. (\A k \in 1..Len(old) : old[k] \in Pending) /\ (\A k \in 1..Len(rest) : rest[k] \in Pending)
      BY <1>3, <1>4, <1>5
    <2> QED  BY <1>5, <2>1, <2>2
  <1>13. \A m \in Node : ~Live(m) => inbox[m] = <<>>
    BY DEF Live, SlotInv, Unassigned, UnassignedAt
  (* What is left to do.                                                   *)
  <1>14. ASSUME \A m \in Node : Live(m) =>
                   /\ \A players : Own(m, players) => \E e \in players : e.at = m /\ Holds(m, e.index)'
                   /\ Shown(m) => Shown(m)',
                session' = session
         PROVE  /\ OwnNews(rest)'
                /\ \A k \in 1..Len(rest) : Starting(rest[k]) /\ Live(rest[k].to)' =>
                    /\ Registered(rest[k].to) /\ Registered(rest[k].to)'
                    /\ \/ Shown(rest[k].to)' \/ Informs(t, rest[k].to)
                       \/ \E j \in 1..Len(rest) : j < k /\ Informs(rest[j], rest[k].to)
    <2>1. OwnNews(rest)'
      <3>1. SUFFICES ASSUME NEW k \in 1..Len(rest), rest[k].do = "send", News(rest[k].msg), Live(rest[k].to)'
                     PROVE  Own(rest[k].to, rest[k].msg.players)'
        BY DEF OwnNews
      <3>2. Live(rest[k].to)
        BY <1>11, <1>12, <3>1
      <3>3. Own(rest[k].to, rest[k].msg.players)
        BY <1>5, <1>6, <1>8, <3>1, <3>2 DEF OwnNews
      <3> QED  BY <1>12, <1>14, <3>2, <3>3 DEF Own
    <2>2. ASSUME NEW k \in 1..Len(rest), Starting(rest[k]), Live(rest[k].to)'
          PROVE  /\ Registered(rest[k].to) /\ Registered(rest[k].to)'
                 /\ \/ Shown(rest[k].to)' \/ Informs(t, rest[k].to)
                    \/ \E j \in 1..Len(rest) : j < k /\ Informs(rest[j], rest[k].to)
      <3>1. Live(rest[k].to) /\ rest[k].to \in Node
        BY <1>11, <1>12, <2>2
      <3>2. /\ Registered(rest[k].to)
            /\ Shown(rest[k].to) \/ \E j \in 1..Len(old) : j < k + 1 /\ Informs(old[j], rest[k].to)
        BY <1>5, <1>6, <1>8, <2>2, <3>1 DEF StartsKnown
      <3>3. \A j \in 1..Len(old) : j < k + 1 => j = 1 \/ (j - 1 \in 1..Len(rest) /\ j - 1 < k /\ old[j] = rest[j - 1])
        BY <1>5, <1>6
      <3> QED  BY <1>5, <1>11, <1>14, <3>1, <3>2, <3>3
    <2> QED  BY <2>1, <2>2
  (* No more is closed than was to be.                                     *)
  <1>15. ASSUME NEW q, todo' = [todo EXCEPT ![n] = q], session' = session,
                \A k \in 1..Len(q) : q[k].do \in {"announce", "drop"} =>
                        \E j \in 1..Len(old) : old[j].do = q[k].do
         PROVE  ReadsOpen(q)' /\ todo'[n] = q /\ \A m \in Node : m # n => todo'[m] = <<>>
    <2>1. todo'[n] = q /\ \A m \in Node : m # n => todo'[m] = <<>>
      BY <1>2, <1>3, <1>15
    <2>2. \A k \in 1..Len(<<>>) : FALSE
      OBVIOUS
    <2>3. Closing' => Closing
      BY <1>4, <1>15, <2>1, <2>2 DEF Closing
    <2>4. \A k \in 1..Len(q) : q[k].do = "announce" => session'.open /\ ~Closing'
      BY <1>8, <1>15, <2>3 DEF ReadsOpen
    <2> QED  BY <2>1, <2>4 DEF ReadsOpen
  <1>16. CASE /\ t.do = "send" /\ todo' = [todo EXCEPT ![n] = rest] /\ session' = session
              /\ inbox' = [inbox EXCEPT ![t.to] = IF Live(t.to) THEN Append(@, t.msg) ELSE @]
    <2>1. /\ todo' = [todo EXCEPT ![n] = rest] /\ session' = session
          /\ inbox' = [inbox EXCEPT ![t.to] = IF Live(t.to) THEN Append(@, t.msg) ELSE @]
      BY <1>16
    <2>2. \A m \in Node : \/ inbox'[m] = inbox[m] /\ (m = t.to => ~Live(m))
                          \/ m = t.to /\ Live(m) /\ inbox'[m] = Append(inbox[m], t.msg)
      BY <1>3, <2>1
    <2>3. ReadsOpen(rest)' /\ todo'[n] = rest /\ \A m \in Node : m # n => todo'[m] = <<>>
      <3>1. \A k \in 1..Len(rest) : \E j \in 1..Len(old) : old[j].do = rest[k].do
        BY <1>5, <1>6
      <3> QED  BY <1>15, <2>1, <3>1
    <2>4. \A m \in Node : Live(m) => \A i :
                /\ Sends(todo[n], m, i) => Sends(rest, m, i) \/ Offers(inbox'[m], i)
                /\ Offers(inbox[m], i) => Offers(inbox'[m], i)
      <3>1. SUFFICES ASSUME NEW m \in Node, Live(m), NEW i
                     PROVE  /\ Sends(old, m, i) => Sends(rest, m, i) \/ Offers(inbox'[m], i)
                            /\ Offers(inbox[m], i) => Offers(inbox'[m], i)
        BY <1>4
      <3>2. \A box \in Seq(Sendable) : Offers(Append(box, t.msg), i) <=> Offers(box, i) \/ Given(t.msg, i)
        BY <1>12, MoreToRead
      <3> QED  BY <1>3, <1>10, <2>2, <3>1, <3>2
    <2>5. \A m \in Node : Live(m) =>
             /\ \A i : Holds(m, i) => Holds(m, i)'
             /\ \A players : Own(m, players) => \E e \in players : e.at = m /\ Holds(m, e.index)'
      BY <1>1, <1>2, <2>3, <2>4, StillHeld
    <2>6. /\ News(t.msg) /\ Live(t.to) => Own(t.to, t.msg.players)
          /\ t.msg.type = "start" /\ Live(t.to) => Shown(t.to)
      <3>1. \A j \in 1..Len(old) : ~(j < 1)
        BY <1>5
      <3> QED  BY <1>5, <1>6, <1>8, <1>16, <3>1 DEF OwnNews, StartsKnown, Starting
    <2>7. ASSUME NEW m \in Node, Live(m)
          PROVE  OwnBox(m)' /\ (Shown(m) => Shown(m)') /\ (NewsTo(t, m) => Shown(m)')
      <3>1. \A i : Holds(m, i) => Holds(m, i)'
        BY <2>5, <2>7
      <3>2. roster'[m] = roster[m] /\ OwnBox(m) /\ inbox[m] \in Seq(Sendable)
        BY <1>1, <1>3, <1>8
      <3>3. CASE inbox'[m] = inbox[m] /\ m # t.to
        <4>1. OwnBox(m)' /\ (Shown(m) => Shown(m)')
          BY <3>1, <3>2, <3>3, SameBox
        <4> QED  BY <3>3, <4>1 DEF NewsTo
      <3>4. CASE m = t.to /\ inbox'[m] = Append(inbox[m], t.msg)
        <4>1. (News(t.msg) => Own(m, t.msg.players)) /\ (t.msg.type = "start" => Shown(m))
          BY <2>6, <2>7, <3>4
        <4>2. OwnBox(m)' /\ (Shown(m) => Shown(m)') /\ (News(t.msg) => Shown(m)')
          BY <1>12, <3>1, <3>2, <3>4, <4>1, NextInBox
        <4> QED  BY <4>2 DEF NewsTo
      <3> QED  BY <2>2, <2>7, <3>3, <3>4
    <2>8. \A m \in Node : OwnBox(m)'
      <3>1. \A k \in 1..Len(<<>>) : FALSE
        OBVIOUS
      <3>2. \A m \in Node : ~Live(m) => inbox'[m] = <<>>
        BY <1>13, <2>2
      <3>3. \A m \in Node : ~Live(m) => OwnBox(m)'
        BY <3>1, <3>2 DEF OwnBox
      <3> QED  BY <2>7, <3>3
    <2>9. OwnNews(rest)' /\ StartsKnown(rest)'
      <3>1. /\ OwnNews(rest)'
            /\ \A k \in 1..Len(rest) : Starting(rest[k]) /\ Live(rest[k].to)' =>
                    /\ Registered(rest[k].to) /\ Registered(rest[k].to)'
                    /\ \/ Shown(rest[k].to)' \/ Informs(t, rest[k].to)
                       \/ \E j \in 1..Len(rest) : j < k /\ Informs(rest[j], rest[k].to)
        BY <1>14, <2>1, <2>5, <2>7
      <3>2. \A m \in Node : Live(m) /\ Informs(t, m) => Shown(m)'
        BY <1>16, <2>7 DEF Informs
      <3>3. \A k \in 1..Len(rest) : Live(rest[k].to)' => Live(rest[k].to)
        BY <1>11, <1>12
      <3> QED  BY <1>12, <3>1, <3>2, <3>3 DEF StartsKnown
    <2>10. ASSUME NEW m \in Node, Registered(m)', ~Announces(rest), ~Carries(rest, m)
           PROVE  Shown(m)'
      <3>1. Registered(m) /\ Live(m)
        BY <1>11, <2>1, <2>10
      <3>2. ~Announces(old) /\ (Carries(old, m) => NewsTo(t, m))
        BY <1>9, <1>16, <2>10
      <3> QED  BY <1>8, <2>7, <3>1, <3>2
    <2>11. \A m \in Node : Registered(m)' => Registered(m)
      BY <1>11, <2>1
    <2> QED  BY <1>1, <1>23, <2>3, <2>5, <2>8, <2>9, <2>10, <2>11, AwaitedOwn
  (* The other awaits change no inbox.                                     *)
  <1>17. ASSUME NEW q, todo' = [todo EXCEPT ![n] = q], UNCHANGED inbox,
                \A m \in Node : Live(m) => \A i : Sends(old, m, i) => Sends(q, m, i)
         PROVE  /\ \A m \in Node : Live(m) =>
                    /\ \A i : Holds(m, i) => Holds(m, i)'
                    /\ \A players : Own(m, players) => \E e \in players : e.at = m /\ Holds(m, e.index)'
                    /\ Shown(m) => Shown(m)'
                /\ \A m \in Node : OwnBox(m)'
                /\ todo'[n] = q /\ \A m \in Node : m # n => todo'[m] = <<>>
    <2>1. todo'[n] = q /\ \A m \in Node : m # n => todo'[m] = <<>>
      BY <1>2, <1>3, <1>17
    <2>2. \A m \in Node : Live(m) => \A i :
                /\ Sends(todo[n], m, i) => Sends(q, m, i) \/ Offers(inbox'[m], i)
                /\ Offers(inbox[m], i) => Offers(inbox'[m], i)
      BY <1>4, <1>17
    <2>3. \A m \in Node : Live(m) =>
             /\ \A i : Holds(m, i) => Holds(m, i)'
             /\ \A players : Own(m, players) => \E e \in players : e.at = m /\ Holds(m, e.index)'
      BY <1>1, <1>2, <2>1, <2>2, StillHeld
    <2>4. \A m \in Node : inbox'[m] = inbox[m] /\ roster'[m] = roster[m]
      BY <1>1, <1>17
    <2>5. \A m \in Node : Live(m) => OwnBox(m)' /\ (Shown(m) => Shown(m)')
      BY <1>8, <2>3, <2>4, SameBox
    <2>6. \A m \in Node : ~Live(m) => OwnBox(m)'
      <3>1. \A k \in 1..Len(<<>>) : FALSE
        OBVIOUS
      <3>2. \A m \in Node : ~Live(m) => inbox'[m] = <<>>
        BY <1>13, <2>4
      <3> QED  BY <3>1, <3>2 DEF OwnBox
    <2> QED  BY <2>1, <2>3, <2>5, <2>6
  (* They leave the session as it is, or close it.                         *)
  <1>18. ASSUME NEW q, todo' = [todo EXCEPT ![n] = q], UNCHANGED <<session, inbox>>,
                \A m \in Node : Live(m) => \A i : Sends(old, m, i) => Sends(q, m, i),
                \A k \in 1..Len(q) : q[k].do \in {"announce", "drop"} =>
                        \E j \in 1..Len(old) : old[j].do = q[k].do,
                OwnNews(q)', StartsKnown(q)',
                \A m \in Node : Registered(m) /\ ~Announces(q) /\ ~Carries(q, m) =>
                        (~Announces(old) /\ ~Carries(old, m)) \/ Failing(n)
         PROVE  OwnInv'
    <2>1. /\ \A m \in Node : Live(m) =>
                    /\ \A i : Holds(m, i) => Holds(m, i)'
                    /\ Shown(m) => Shown(m)'
          /\ \A m \in Node : OwnBox(m)'
      BY <1>17, <1>18
    <2>2. ReadsOpen(q)' /\ todo'[n] = q /\ \A m \in Node : m # n => todo'[m] = <<>>
      BY <1>15, <1>18
    <2>3. \A m \in Node : Registered(m)' => Registered(m)
      BY <1>11, <1>18
    <2>4. \A m \in Node : Registered(m)' /\ ~Announces(q) /\ ~Carries(q, m) => Shown(m)'
      BY <1>8, <1>11, <1>18, <2>1, <2>3
    <2>5. OwnNews(q)' /\ StartsKnown(q)'
      BY <1>18
    <2> QED  BY <1>1, <1>23, <2>1, <2>2, <2>3, <2>4, <2>5, AwaitedOwn
  <1>19. CASE t.do = "fail"
    <2>1. todo' = [todo EXCEPT ![n] = rest] /\ UNCHANGED <<session, inbox>>
      BY <1>7, <1>24, <1>19
    <2>2. \A m, i : Sends(old, m, i) => Sends(rest, m, i)
      BY <1>10, <1>19
    <2>3. /\ OwnNews(rest)'
          /\ \A k \in 1..Len(rest) : Starting(rest[k]) /\ Live(rest[k].to)' =>
                    /\ Registered(rest[k].to) /\ Registered(rest[k].to)'
                    /\ \/ Shown(rest[k].to)' \/ Informs(t, rest[k].to)
                       \/ \E j \in 1..Len(rest) : j < k /\ Informs(rest[j], rest[k].to)
      BY <1>14, <1>17, <2>1, <2>2
    <2>4. StartsKnown(rest)'
      BY <1>19, <2>3 DEF StartsKnown, Informs, NewsTo
    <2>5. \A k \in 1..Len(rest) : \E j \in 1..Len(old) : old[j].do = rest[k].do
      BY <1>5, <1>6
    <2>6. \A m \in Node : Registered(m) /\ ~Announces(rest) /\ ~Carries(rest, m) =>
                        ~Announces(old) /\ ~Carries(old, m)
      BY <1>9, <1>19 DEF NewsTo
    <2> QED  BY <1>18, <2>1, <2>2, <2>3, <2>4, <2>5, <2>6
  <1>20. CASE t.do = "announce"
    <2>1. session.open /\ ~Closing
      BY <1>5, <1>6, <1>8, <1>20 DEF ReadsOpen
    <2> DEFINE es == session.entries
    <2>2. SUFFICES ASSUME NEW msg, msg = Msg("roster", NoIndex, es), NEW p, p = ToAll(msg), NEW q, q = p \o rest
                   PROVE  OwnInv'
      OBVIOUS
    <2>3. todo' = [todo EXCEPT ![n] = q] /\ UNCHANGED <<session, inbox>>
      BY <1>7, <1>24, <1>20, <2>1, <2>2
    <2>4. msg \in Sendable /\ News(msg) /\ msg.players = es /\ msg.type = "roster" /\ \A i : ~Given(msg, i)
      <3>1. msg \in Sendable
        BY <1>3, <2>2, MsgIs DEF Record
      <3> QED  BY <2>2, <3>1 DEF News, Msg, Given
    <2>5. /\ Len(p) = Len(session.connections) /\ Len(p) \in Nat
          /\ \A k \in 1..Len(p) : p[k].do = "send" /\ p[k].msg = msg /\ p[k].to = session.connections[k]
          /\ \A m \in Node : Registered(m) => \E k \in 1..Len(p) : p[k].to = m
      BY <1>3, <2>2, ToAllTasks
    <2>6. p \in Seq(Pending)
      BY <1>3, <2>2, <2>4, ToAllIs
    <2>7. \A k \in 1..Len(p) : p[k].to \in Node /\ Registered(p[k].to)
      <3>1. session.connections \in Seq(Node)
        BY <1>3 DEF Record
      <3> QED  BY <2>5, <3>1 DEF Registered
    <2>8. /\ Len(q) = Len(p) + Len(rest)
          /\ \A k \in 1..Len(p) + Len(rest) : q[k] = IF k <= Len(p) THEN p[k] ELSE rest[k - Len(p)]
      <3>1. rest \in Seq(Pending)
        BY <1>5
      <3>2. /\ Len(p \o rest) = Len(p) + Len(rest)
            /\ \A k \in 1..Len(p) + Len(rest) : (p \o rest)[k] = IF k <= Len(p) THEN p[k] ELSE rest[k - Len(p)]
        BY ONLY <2>6, <3>1, ConcatProperties
      <3>3. q = p \o rest
        BY <2>2
      <3> QED  BY <3>2, <3>3
    <2> HIDE DEF es
    <2>9. \A k \in 1..Len(p) : k \in 1..Len(q) /\ q[k] = p[k]
      BY <1>5, <2>5, <2>8
    <2>10. \A k \in 1..Len(q) : \/ k \in 1..Len(p) /\ q[k] = p[k]
                                \/ k - Len(p) \in 1..Len(rest) /\ q[k] = rest[k - Len(p)]
      BY <1>5, <2>5, <2>8
    <2>11. \A k \in 1..Len(rest) : k + Len(p) \in 1..Len(q) /\ q[k + Len(p)] = rest[k]
      <3>1. SUFFICES ASSUME NEW k \in 1..Len(rest)
                     PROVE  k + Len(p) \in 1..Len(q) /\ q[k + Len(p)] = rest[k]
        OBVIOUS
      <3>2. /\ k + Len(p) \in 1..Len(p) + Len(rest) /\ ~(k + Len(p) <= Len(p))
            /\ (k + Len(p)) - Len(p) = k
        BY <1>5, <2>5
      <3> QED  BY <2>8, <3>2
    <2>12. \A m, i : Sends(old, m, i) => Sends(q, m, i)
      <3>1. \A m, i : Sends(rest, m, i) => Sends(q, m, i)
        BY <2>11 DEF Sends
      <3> QED  BY <1>10, <1>20, <3>1
    <2>13. \A k \in 1..Len(q) : q[k].do \in {"announce", "drop"} => \E j \in 1..Len(old) : old[j].do = q[k].do
      <3>1. SUFFICES ASSUME NEW k \in 1..Len(q), q[k].do \in {"announce", "drop"}
                     PROVE  \E j \in 1..Len(old) : old[j].do = q[k].do
        OBVIOUS
      <3>2. k - Len(p) \in 1..Len(rest) /\ q[k] = rest[k - Len(p)]
        BY <2>5, <2>10, <3>1
      <3>3. PICK l \in 1..Len(rest) : q[k] = rest[l]
        BY <3>2
      <3> QED  BY <1>5, <1>6, <3>3
    <2>14. /\ \A m \in Node : Live(m) =>
                   /\ \A players : Own(m, players) => \E e \in players : e.at = m /\ Holds(m, e.index)'
                   /\ Shown(m) => Shown(m)'
      BY <1>17, <2>3, <2>12
    <2>15. /\ OwnNews(rest)'
           /\ \A k \in 1..Len(rest) : Starting(rest[k]) /\ Live(rest[k].to)' =>
                    /\ Registered(rest[k].to) /\ Registered(rest[k].to)'
                    /\ \/ Shown(rest[k].to)' \/ Informs(t, rest[k].to)
                       \/ \E j \in 1..Len(rest) : j < k /\ Informs(rest[j], rest[k].to)
      BY <1>14, <2>3, <2>14
    <2>16. ASSUME NEW m \in Node, Registered(m)
           PROVE  Own(m, es)
      <3>1. PICK i \in Index : Holds(m, i)
        BY <2>16 DEF OwnInv, Answered
      <3>2. \E e \in session.entries : e.at = m /\ e.index = i
        BY <2>1, <2>16, <3>1 DEF SlotInv, Secured
      <3> QED  BY <3>1, <3>2 DEF Own, es
    <2>17. \A m \in Node : Registered(m) => \E e \in es : e.at = m /\ Holds(m, e.index)'
      BY <1>11, <2>14, <2>16
    <2>18. OwnNews(q)'
      <3>1. SUFFICES ASSUME NEW k \in 1..Len(q), q[k].do = "send", News(q[k].msg), Live(q[k].to)'
                     PROVE  Own(q[k].to, q[k].msg.players)'
        BY DEF OwnNews
      <3>2. CASE k \in 1..Len(p) /\ q[k] = p[k]
        <4>1. \E e \in q[k].msg.players : e.at = q[k].to /\ Holds(q[k].to, e.index)'
          BY <2>4, <2>5, <2>7, <2>17, <3>2
        <4> QED  BY <4>1 DEF Own
      <3>3. CASE k - Len(p) \in 1..Len(rest) /\ q[k] = rest[k - Len(p)]
        <4>1. PICK l \in 1..Len(rest) : q[k] = rest[l]
          BY <3>3
        <4> QED  BY <2>15, <3>1, <4>1 DEF OwnNews
      <3> QED  BY <2>10, <3>2, <3>3
    <2>19. StartsKnown(q)'
      <3>1. SUFFICES ASSUME NEW k \in 1..Len(q), Starting(q[k]), Live(q[k].to)'
                     PROVE  /\ Registered(q[k].to)'
                            /\ Shown(q[k].to)' \/ \E j \in 1..Len(q) : j < k /\ Informs(q[j], q[k].to)
        BY DEF StartsKnown
      <3>2. ~(k \in 1..Len(p) /\ q[k] = p[k])
        BY <2>4, <2>5, <3>1 DEF Starting
      <3>3. k - Len(p) \in 1..Len(rest) /\ q[k] = rest[k - Len(p)]
        BY <2>10, <3>2
      <3>4. Registered(q[k].to) /\ Registered(q[k].to)' /\ q[k].to \in Node
        BY <1>12, <2>15, <3>1, <3>3
      <3>5. PICK j \in 1..Len(p) : p[j].to = q[k].to
        BY <2>5, <3>4
      <3>6. j \in 1..Len(q) /\ q[j] = p[j] /\ j < k
        BY <1>5, <2>5, <2>9, <3>3, <3>5
      <3>7. Informs(q[j], q[k].to)
        BY <2>4, <2>5, <3>5, <3>6 DEF Informs, NewsTo
      <3> QED  BY <3>4, <3>6, <3>7
    <2>20. \A m \in Node : Registered(m) => Carries(q, m)
      <3>1. \A m \in Node : Registered(m) => \E k \in 1..Len(q) : NewsTo(q[k], m)
        BY <2>4, <2>5, <2>9 DEF NewsTo
      <3> QED  BY <3>1 DEF Carries
    <2> QED  BY <1>18, <2>3, <2>12, <2>13, <2>18, <2>19, <2>20
  <1>21. CASE t.do = "resume"
    <2>1. SUFFICES ASSUME NEW a, a = Send(n, Msg("start", NoIndex, {})),
                          NEW q, q = IF session.active THEN <<a>> \o rest ELSE rest
                   PROVE  OwnInv'
      OBVIOUS
    <2>2. todo' = [todo EXCEPT ![n] = q] /\ UNCHANGED <<session, inbox>>
      BY <1>7, <1>24, <1>21, <2>1
    <2>3. /\ a.do = "send" /\ a.to = n /\ ~News(a.msg) /\ a \in Pending
      BY <2>1, NotRoster, MsgIs, SendIs DEF Send
    <2>4. Live(n) => Registered(n) /\ Shown(n)
      <3>1. t.to = n /\ \A j \in 1..Len(old) : ~(j < 1)
        BY <1>4, <1>5, <1>6, <1>21 DEF Resumes
      <3> QED  BY <1>5, <1>6, <1>8, <1>21, <3>1 DEF StartsKnown, Starting
    <2>5. /\ \A k \in 1..Len(q) : (k = 1 /\ q[k] = a) \/ \E l \in 1..Len(rest) : q[k] = rest[l]
                                        /\ \A j \in 1..Len(rest) : j < l =>
                                              \E i \in 1..Len(q) : i < k /\ q[i] = rest[j]
          /\ \A l \in 1..Len(rest) : \E k \in 1..Len(q) : q[k] = rest[l]
      <3>1. CASE ~session.active
        <4>1. q = rest
          BY <2>1, <3>1
        <4> QED  BY <1>5, <4>1
      <3>2. CASE session.active
        <4>1. SUFFICES ASSUME NEW w, w = <<a>>, q = w \o rest
                       PROVE  /\ \A k \in 1..Len(q) : (k = 1 /\ q[k] = a) \/ \E l \in 1..Len(rest) : q[k] = rest[l]
                                        /\ \A j \in 1..Len(rest) : j < l =>
                                              \E i \in 1..Len(q) : i < k /\ q[i] = rest[j]
                              /\ \A l \in 1..Len(rest) : \E k \in 1..Len(q) : q[k] = rest[l]
          BY <2>1, <3>2
        <4>2. Len(w) = 1 /\ w[1] = a /\ w \in Seq(Pending)
          BY <2>3, <4>1
        <4>3. /\ Len(w \o rest) = Len(w) + Len(rest)
              /\ \A k \in 1..Len(w) + Len(rest) :
                    (w \o rest)[k] = IF k <= Len(w) THEN w[k] ELSE rest[k - Len(w)]
          <5>1. rest \in Seq(Pending)
            BY <1>5
          <5> QED  BY ONLY <4>2, <5>1, ConcatProperties
        <4>4. /\ Len(q) = 1 + Len(rest)
              /\ \A k \in 1..1 + Len(rest) : q[k] = IF k <= 1 THEN a ELSE rest[k - 1]
          <5>1. \A k \in 1..1 + Len(rest) : k <= 1 => k = 1
            BY <1>5
          <5> QED  BY <4>1, <4>2, <4>3, <5>1
        <4>5. \A k \in 1..Len(q) : (k = 1 /\ q[k] = a) \/ (k - 1 \in 1..Len(rest) /\ q[k] = rest[k - 1])
          BY <1>5, <4>4
        <4>6. \A l \in 1..Len(rest) : l + 1 \in 1..Len(q) /\ q[l + 1] = rest[l]
          BY <1>5, <4>4
        <4>7. ASSUME NEW k \in 1..Len(q), ~(k = 1 /\ q[k] = a)
              PROVE  \E l \in 1..Len(rest) : q[k] = rest[l]
                        /\ \A j \in 1..Len(rest) : j < l => \E i \in 1..Len(q) : i < k /\ q[i] = rest[j]
          <5>1. k - 1 \in 1..Len(rest) /\ q[k] = rest[k - 1]
            BY <4>5, <4>7
          <5>2. \A j \in 1..Len(rest) : j < k - 1 => j + 1 \in 1..Len(q) /\ j + 1 < k /\ q[j + 1] = rest[j]
            BY <1>5, <4>6
          <5> QED  BY <5>1, <5>2
        <4> QED  BY <4>6, <4>7
      <3> QED  BY <3>1, <3>2
    <2>6. \A m, i : Sends(old, m, i) => Sends(q, m, i)
      <3>1. \A m, i : Sends(rest, m, i) => Sends(q, m, i)
        <4>1. \A l \in 1..Len(rest) : \E k \in 1..Len(q) : q[k] = rest[l]
          BY <2>5
        <4> QED  BY <4>1 DEF Sends
      <3> QED  BY <1>10, <1>21, <3>1
    <2>7. \A k \in 1..Len(q) : q[k].do \in {"announce", "drop"} => \E j \in 1..Len(old) : old[j].do = q[k].do
      <3>1. \A k \in 1..Len(rest) : \E j \in 1..Len(old) : old[j].do = rest[k].do
        BY <1>5, <1>6
      <3>2. \A k \in 1..Len(q) : q[k].do = "send" \/ \E l \in 1..Len(rest) : q[k] = rest[l]
        BY <2>3, <2>5
      <3> QED  BY <3>1, <3>2
    <2>8. /\ \A m \in Node : Live(m) =>
                   /\ \A players : Own(m, players) => \E e \in players : e.at = m /\ Holds(m, e.index)'
                   /\ Shown(m) => Shown(m)'
      BY <1>17, <2>2, <2>6
    <2>9. /\ OwnNews(rest)'
          /\ \A k \in 1..Len(rest) : Starting(rest[k]) /\ Live(rest[k].to)' =>
                    /\ Registered(rest[k].to) /\ Registered(rest[k].to)'
                    /\ \/ Shown(rest[k].to)' \/ Informs(t, rest[k].to)
                       \/ \E j \in 1..Len(rest) : j < k /\ Informs(rest[j], rest[k].to)
      BY <1>14, <2>2, <2>8
    <2>10. OwnNews(q)'
      <3>1. SUFFICES ASSUME NEW k \in 1..Len(q), q[k].do = "send", News(q[k].msg), Live(q[k].to)'
                     PROVE  Own(q[k].to, q[k].msg.players)'
        BY DEF OwnNews
      <3>2. \E l \in 1..Len(rest) : q[k] = rest[l]
        BY <2>3, <2>5, <3>1
      <3> QED  BY <2>9, <3>1, <3>2 DEF OwnNews
    <2>11. StartsKnown(q)'
      <3>1. SUFFICES ASSUME NEW k \in 1..Len(q), Starting(q[k]), Live(q[k].to)'
                     PROVE  /\ Registered(q[k].to)'
                            /\ Shown(q[k].to)' \/ \E j \in 1..Len(q) : j < k /\ Informs(q[j], q[k].to)
        BY DEF StartsKnown
      <3>2. CASE q[k] = a
        BY <1>11, <2>2, <2>3, <2>4, <2>8, <3>1, <3>2
      <3>3. CASE q[k] # a
        <4>1. PICK l \in 1..Len(rest) : q[k] = rest[l]
                    /\ \A j \in 1..Len(rest) : j < l => \E i \in 1..Len(q) : i < k /\ q[i] = rest[j]
          BY <2>5, <3>3
        <4>2. ~Informs(t, q[k].to)
          BY <1>21 DEF Informs, NewsTo
        <4>3. /\ Registered(q[k].to)'
              /\ Shown(q[k].to)' \/ \E j \in 1..Len(rest) : j < l /\ Informs(rest[j], q[k].to)
          BY <2>9, <3>1, <4>1, <4>2
        <4> QED  BY <4>1, <4>3
      <3> QED  BY <3>2, <3>3
    <2>12. \A m \in Node : Registered(m) /\ ~Announces(q) /\ ~Carries(q, m) =>
                        ~Announces(old) /\ ~Carries(old, m)
      <3>1. (Announces(rest) => Announces(q)) /\ \A m : Carries(rest, m) => Carries(q, m)
        BY <2>5 DEF Announces, Carries
      <3> QED  BY <1>9, <1>21, <3>1 DEF NewsTo
    <2> QED  BY <1>18, <2>2, <2>6, <2>7, <2>10, <2>11, <2>12
  <1>22. CASE t.do = "drop"
    <2>1. todo' = [todo EXCEPT ![n] = rest] /\ UNCHANGED inbox /\ session' = NoSession
      BY <1>7, <1>24, <1>22
    <2>2. \A m \in Node : ~Registered(m)'
      <3>1. DOMAIN session'.connections = {}
        BY <2>1 DEF NoSession
      <3> QED  BY <3>1 DEF Registered
    <2>3. \A k \in 1..Len(rest) : FALSE
      <3>1. Len(old) = 1
        BY <1>4, <1>5, <1>6, <1>22 DEF RosterInv, OneAtWork, DropsLast
      <3> QED  BY <1>5, <3>1
    <2>4. OwnNews(rest)' /\ StartsKnown(rest)' /\ ReadsOpen(rest)'
      BY <2>3 DEF OwnNews, StartsKnown, ReadsOpen
    <2>5. \A m, i : Sends(old, m, i) => Sends(rest, m, i)
      BY <1>10, <1>22
    <2>6. /\ \A m \in Node : Live(m) => \A i : Holds(m, i) => Holds(m, i)'
          /\ \A m \in Node : OwnBox(m)'
          /\ todo'[n] = rest /\ \A m \in Node : m # n => todo'[m] = <<>>
      BY <1>17, <2>1, <2>5
    <2> QED  BY <1>1, <1>23, <2>2, <2>4, <2>6, AwaitedOwn
  (* The handler whose answer failed ends.                                 *)
  <1>25. CASE Answer(t) /\ ~Live(n) /\ todo' = [todo EXCEPT ![n] = <<>>] /\ UNCHANGED <<session, inbox>>
    <2>1. SUFFICES ASSUME NEW q, q = <<>> PROVE OwnInv'
      OBVIOUS
    <2>2. todo' = [todo EXCEPT ![n] = q] /\ \A k \in 1..Len(q) : FALSE
      <3>1. \A k \in 1..Len(<<>>) : FALSE
        OBVIOUS
      <3> QED  BY <1>25, <2>1, <3>1
    <2>3. OwnNews(q)' /\ StartsKnown(q)'
      BY <2>2 DEF OwnNews, StartsKnown
    <2>4. Failing(n)
      BY <1>1, <1>4, <1>25 DEF Failing
    <2>5. ASSUME NEW m \in Node, Live(m), NEW i
          PROVE  ~Sends(old, m, i)
      <3>1. AnswersFirst(old, n)
        BY <1>4 DEF RosterInv, OneAtWork
      <3>2. \A k \in 1..Len(old) : k = 1 \/ old[k].do \in {"announce", "resume"}
        BY <1>5, <1>6, <1>25, <3>1 DEF AnswersFirst
      <3>3. t.to = n
        BY <1>5, <1>6, <1>25, <3>1 DEF AnswersFirst
      <3> QED  BY <1>5, <1>25, <2>5, <3>2, <3>3 DEF Sends
    <2> QED  BY <1>18, <1>25, <2>2, <2>3, <2>4, <2>5
  <1> QED  BY <1>7, <1>16, <1>19, <1>20, <1>21, <1>22, <1>25

(* What is sent before the rest resumes nobody.                            *)
LEMMA SendsResumeNobody ==
    ASSUME NEW n, NEW p \in Seq(Pending), NEW rest \in Seq(Pending),
           \A j \in 1..Len(p) : p[j].do = "send",
           \A k \in 1..Len(rest) : rest[k].do = "resume" => rest[k].to = n
    PROVE  \A k \in 1..Len(p \o rest) : (p \o rest)[k].do = "resume" => (p \o rest)[k].to = n
  <1>1. SUFFICES ASSUME NEW q, q = p \o rest, NEW k \in 1..Len(q), q[k].do = "resume"
                 PROVE  q[k].to = n
    OBVIOUS
  <1>2. Len(rest) \in Nat /\ Len(p) \in Nat
    OBVIOUS
  <1>3. p \in Seq(Pending) /\ rest \in Seq(Pending)
    OBVIOUS
  <1>4. /\ Len(p \o rest) = Len(p) + Len(rest)
        /\ \A j \in 1..Len(p) + Len(rest) : (p \o rest)[j] = IF j <= Len(p) THEN p[j] ELSE rest[j - Len(p)]
    BY ONLY <1>3, ConcatProperties
  <1>5. (k \in 1..Len(p) /\ q[k] = p[k]) \/ (k - Len(p) \in 1..Len(rest) /\ q[k] = rest[k - Len(p)])
    BY <1>1, <1>2, <1>4
  <1> QED  BY <1>1, <1>5

LEMMA ResumesStep ==
    ASSUME LobbyInv, Resumes, [Next]_vars
    PROVE  Resumes'
  <1>1. FlightTypes /\ todo \in [Node -> Seq(Pending)] /\ session \in Record
    BY DEF LobbyInv, FlightTypes
  <1>2. \A k \in 1..Len(<<>>) : FALSE
    OBVIOUS
  <1>3. ASSUME todo' = todo
        PROVE  Resumes'
    BY <1>3 DEF Resumes
  <1>4. ASSUME NEW n \in Node, todo' = Unsent(n)
        PROVE  Resumes'
    <2>1. SUFFICES ASSUME NEW m \in Node, NEW k \in 1..Len(todo'[m]), todo'[m][k].do = "resume"
                   PROVE  todo'[m][k].to = m
      BY DEF Resumes
    <2>2. Unsent(n)[m] \in Seq(Pending)
      BY <1>1, UnsentIs
    <2>3. k \in DOMAIN Unsent(n)[m]
      BY <1>4, <2>1, <2>2
    <2>4. k \in DOMAIN todo[m] /\ Unsent(n)[m][k] \in {Do("fail", n), todo[m][k]}
      BY <2>3 DEF Unsent
    <2>5. k \in 1..Len(todo[m])
      BY <1>1, <2>4
    <2>6. Do("fail", n).do = "fail"
      BY DEF Do
    <2> QED  BY <1>4, <2>1, <2>4, <2>5, <2>6 DEF Resumes
  <1>5. ASSUME \A m \in Node : todo'[m] = <<>>
        PROVE  Resumes'
    BY <1>2, <1>5 DEF Resumes
  <1>6. ASSUME NEW n \in Node, NEW q, todo' = [todo EXCEPT ![n] = q],
               \A k \in 1..Len(q) : q[k].do = "resume" => q[k].to = n
        PROVE  Resumes'
    BY <1>1, <1>6 DEF Resumes
  <1>7. ASSUME NEW n \in Node, Handle(n)
        PROVE  Resumes'
    <2>1. CASE UNCHANGED todo
      BY <1>3, <2>1
    <2>2. ASSUME CreateSession(n)
          PROVE  Resumes'
      <3> DEFINE a == Send(n, Msg("created", 0, {}))
                 b == Do("announce", n)
                 q == <<a, b>>
      <3>1. todo' = [todo EXCEPT ![n] = q] /\ a.do = "send" /\ b.do = "announce"
        BY <2>2 DEF CreateSession, Send, Do
      <3>2. Len(q) = 2 /\ q[1] = a /\ q[2] = b /\ \A k \in 1..2 : k = 1 \/ k = 2
        OBVIOUS
      <3> HIDE DEF a, b, q
      <3> QED  BY <1>6, <3>1, <3>2
    <2>3. ASSUME NEW rejoin, JoinSession(n, rejoin)
          PROVE  Resumes'
      <3>1. CASE Refused(rejoin)
        <4> DEFINE a == Send(n, Msg("rejected", NoIndex, {}))
                   q == <<a>>
        <4>1. todo' = [todo EXCEPT ![n] = q] /\ a.do = "send"
          BY <2>3, <3>1 DEF JoinSession, Send
        <4>2. Len(q) = 1 /\ q[1] = a /\ \A k \in 1..1 : k = 1
          OBVIOUS
        <4> HIDE DEF a, q
        <4> QED  BY <1>6, <4>1, <4>2
      <3>2. CASE ~Refused(rejoin)
        <4>1. SUFFICES ASSUME NEW i, i = Slot(rejoin) PROVE Resumes'
          OBVIOUS
        <4> DEFINE a == Send(n, Msg("joined", i, {}))
                   b == Do("announce", n)
                   c == Do("resume", n)
                   q == <<a, b, c>>
        <4>2. todo' = [todo EXCEPT ![n] = q] /\ a.do = "send" /\ b.do = "announce" /\ c.to = n
          BY <2>3, <3>2, <4>1 DEF JoinSession, Welcome, Send, Do
        <4>3. Len(q) = 3 /\ q[1] = a /\ q[2] = b /\ q[3] = c /\ \A k \in 1..3 : k = 1 \/ k = 2 \/ k = 3
          OBVIOUS
        <4> HIDE DEF a, b, c, q
        <4> QED  BY <1>6, <4>2, <4>3
      <3> QED  BY <3>1, <3>2
    <2>4. ASSUME NEW i, NEW reserved, RecreateSession(n, i, reserved)
          PROVE  Resumes'
      <3> DEFINE a == Send(n, Msg("created", 0, {}))
                 q == <<a>>
      <3>1. todo' = [todo EXCEPT ![n] = q] /\ a.do = "send"
        BY <2>4 DEF RecreateSession, Send
      <3>2. Len(q) = 1 /\ q[1] = a /\ \A k \in 1..1 : k = 1
        OBVIOUS
      <3> HIDE DEF a, q
      <3> QED  BY <1>6, <3>1, <3>2
    <2>5. ASSUME NEW i, LeaveSession(n, i), session.open
          PROVE  Resumes'
      <3> DEFINE leaving == {e \in session.entries : e.index = i}
                 closed == Msg("closed", NoIndex, {})
                 d == Do("drop", n)
                 b == Do("announce", n)
      <3>1. closed \in Sendable /\ d \in Pending /\ d.do = "drop" /\ b.do = "announce"
        BY MsgIs, DoIs DEF Do
      <3>2. todo' = [todo EXCEPT ![n] = Farewell(n, leaving)]
        BY <2>5 DEF LeaveSession
      <3>3. Farewell(n, leaving) \in {ToAll(closed) \o <<d>>, <<b>>}
        BY DEF Farewell
      <3> HIDE DEF leaving, closed, d, b
      <3>4. CASE Farewell(n, leaving) = <<b>>
        <4> DEFINE q == <<b>>
        <4>1. Len(q) = 1 /\ q[1] = b /\ (\A k \in 1..1 : k = 1) /\ todo' = [todo EXCEPT ![n] = q]
          BY <3>2, <3>4
        <4> HIDE DEF q
        <4> QED  BY <1>6, <3>1, <4>1
      <3>5. CASE Farewell(n, leaving) = ToAll(closed) \o <<d>>
        <4>1. SUFFICES ASSUME NEW rest, rest = <<d>>, NEW p, p = ToAll(closed), NEW q, q = p \o rest PROVE Resumes'
          OBVIOUS
        <4>2. rest \in Seq(Pending) /\ Len(rest) = 1 /\ rest[1] = d /\ \A k \in 1..1 : k = 1
          BY <3>1, <4>1
        <4>3. \A k \in 1..Len(rest) : rest[k].do = "resume" => rest[k].to = n
          BY <3>1, <4>2
        <4>4. todo' = [todo EXCEPT ![n] = q]
          BY <3>2, <3>5, <4>1
        <4>5. \A k \in 1..Len(q) : q[k].do = "resume" => q[k].to = n
          <5>1. p \in Seq(Pending) /\ \A j \in 1..Len(p) : p[j].do = "send"
            BY <1>1, <3>1, <4>1, ToAllIs, ToAllTasks
          <5>2. \A k \in 1..Len(p \o rest) : (p \o rest)[k].do = "resume" => (p \o rest)[k].to = n
            <6>1. rest \in Seq(Pending)
              BY <4>2
            <6> QED  BY <4>3, <5>1, <6>1, SendsResumeNobody
          <5> QED  BY <4>1, <5>2
        <4> QED  BY <1>6, <4>4, <4>5
      <3> QED  BY <3>3, <3>4, <3>5
    <2>6. ASSUME StartSession(n)
          PROVE  Resumes'
      <3>1. SUFFICES ASSUME NEW q, q = ToAll(Msg("start", NoIndex, {})) PROVE Resumes'
        OBVIOUS
      <3>2. todo' = [todo EXCEPT ![n] = q]
        BY <2>6, <3>1 DEF StartSession
      <3>3. \A k \in 1..Len(q) : q[k].do = "send"
        BY <1>1, <3>1, ToAllTasks
      <3> QED  BY <1>6, <3>2, <3>3
    <2>7. \A i : LeaveSession(n, i) => session.open \/ UNCHANGED todo
      BY DEF LeaveSession
    <2> QED  BY <1>7, <2>1, <2>2, <2>3, <2>4, <2>5, <2>6, <2>7 DEF Handle
  <1>8. ASSUME NEW n \in Node, Continue(n)
        PROVE  Resumes'
    <2>1. SUFFICES ASSUME NEW old, old = todo[n], NEW t, t = Head(old), NEW rest, rest = Tail(old)
                   PROVE  Resumes'
      OBVIOUS
    <2>2. /\ Len(old) \in Nat /\ rest \in Seq(Pending) /\ Len(rest) = Len(old) - 1 /\ Len(rest) \in Nat
          /\ \A k \in 1..Len(rest) : rest[k] = old[k + 1]
      BY <1>1, <1>8, <2>1, Tailed DEF Continue
    <2>3. \A k \in 1..Len(rest) : k + 1 \in 1..Len(old)
      BY <2>2
    <2>4. \A k \in 1..Len(rest) : rest[k].do = "resume" => rest[k].to = n
      BY <2>1, <2>2, <2>3 DEF Resumes
    <2>5. CASE todo' = [todo EXCEPT ![n] = rest]
      BY <1>6, <2>4, <2>5
    <2>6. CASE todo' = [todo EXCEPT ![n] = <<>>]
      BY <1>2, <1>6, <2>6
    <2>7. CASE todo' = [todo EXCEPT ![n] = ToAll(Msg("roster", NoIndex, session.entries)) \o rest]
      <3>1. SUFFICES ASSUME NEW msg, msg = Msg("roster", NoIndex, session.entries),
                            NEW p, p = ToAll(msg), NEW q, q = p \o rest
                     PROVE  Resumes'
        OBVIOUS
      <3>2. todo' = [todo EXCEPT ![n] = q]
        BY <2>7, <3>1
      <3>3. msg \in Sendable
        BY <1>1, <3>1, MsgIs DEF Record
      <3>4. \A k \in 1..Len(q) : q[k].do = "resume" => q[k].to = n
        <4>1. p \in Seq(Pending) /\ \A j \in 1..Len(p) : p[j].do = "send"
          BY <1>1, <3>1, <3>3, ToAllIs, ToAllTasks
        <4>2. rest \in Seq(Pending)
          BY <2>2
        <4>3. \A k \in 1..Len(p \o rest) : (p \o rest)[k].do = "resume" => (p \o rest)[k].to = n
          BY <2>4, <4>1, <4>2, SendsResumeNobody
        <4> QED  BY <3>1, <4>3
      <3> QED  BY <1>6, <3>2, <3>4
    <2>8. CASE todo' = [todo EXCEPT ![n] = <<Send(n, Msg("start", NoIndex, {}))>> \o rest]
      <3>1. SUFFICES ASSUME NEW a, a = Send(n, Msg("start", NoIndex, {})), NEW w, w = <<a>>, NEW q, q = w \o rest
                     PROVE  Resumes'
        OBVIOUS
      <3>2. todo' = [todo EXCEPT ![n] = q]
        BY <2>8, <3>1
      <3>3. a \in Pending /\ a.do = "send"
        BY <3>1, MsgIs, SendIs DEF Send
      <3>4. Len(w) = 1 /\ w[1] = a /\ w \in Seq(Pending)
        BY <3>1, <3>3
      <3>5. \A j \in 1..Len(w) : w[j].do = "send"
        <4>1. \A j \in 1..1 : j = 1
          OBVIOUS
        <4> QED  BY <3>3, <3>4, <4>1
      <3>6. \A k \in 1..Len(w \o rest) : (w \o rest)[k].do = "resume" => (w \o rest)[k].to = n
        <4>1. rest \in Seq(Pending)
          BY <2>2
        <4>2. w \in Seq(Pending)
          BY <3>4
        <4> QED  BY <2>4, <3>5, <4>1, <4>2, SendsResumeNobody
      <3>7. \A k \in 1..Len(q) : q[k].do = "resume" => q[k].to = n
        BY <3>1, <3>6
      <3> QED  BY <1>6, <3>2, <3>7
    <2> QED  BY <1>8, <2>1, <2>5, <2>6, <2>7, <2>8 DEF Continue
  <1>9. ASSUME NEW n \in Node, NodeStep(n)
         PROVE  Resumes'
    <2>1. CASE Teardown(n)
      BY <1>4, <2>1 DEF Teardown
    <2>2. CASE Crash(n)
      <3>1. CASE CrashClient(n)
        BY <1>4, <3>1 DEF CrashClient
      <3>2. CASE CrashHost(n)
        <4>1. \A m \in Node : todo'[m] = <<>>
          BY <3>2 DEF CrashHost
        <4> QED  BY <1>5, <4>1
      <3> QED  BY <2>2, <3>1, <3>2 DEF Crash
    <2>3. CASE Join(n) \/ Recover(n)
      BY <1>3, <2>3 DEF Join, Recover, Enter
    <2>4. CASE JoinTimeout(n) \/ LeaveLobby(n)
      BY <2>1, <2>4 DEF JoinTimeout, LeaveLobby
    <2>5. CASE PressStart(n) \/ EndDrain(n) \/ MergeRoster(n) \/ Evict(n) \/ EndRun(n) \/ Promote(n)
      BY <1>3, <2>5 DEF PressStart, EndDrain, MergeRoster, Evict, EndRun, Promote
    <2>6. CASE Read(n)
      BY <1>3, <2>1, <2>6 DEF Read, Handshake, WaitForStart, ReadInGame
    <2> QED  BY <1>9, <2>2, <2>3, <2>4, <2>5, <2>6 DEF NodeStep
  <1>10. CASE UNCHANGED vars
    BY <1>3, <1>10 DEF vars
  <1> QED  BY <1>7, <1>8, <1>9, <1>10 DEF Next

LEMMA OwnInit == Init => OwnInv /\ Resumes
  <1> SUFFICES ASSUME Init PROVE OwnInv /\ Resumes
    OBVIOUS
  <1>1. \A n \in Node : todo[n] = <<>> /\ inbox[n] = <<>> /\ phase[n] \in {"joining", "out"}
    BY DEF Init
  <1>2. \A n \in Node : ~Registered(n)
    <2>1. DOMAIN session.connections = {}
      BY DEF Init, NoSession
    <2> QED  BY <2>1 DEF Registered
  <1>3. \A k \in 1..Len(<<>>) : FALSE
    OBVIOUS
  <1>4. ServiceTells /\ OwnRosters /\ Resumes
    BY <1>1, <1>3 DEF ServiceTells, OwnNews, StartsKnown, ReadsOpen, OwnRosters, OwnBox, Resumes
  <1> QED  BY <1>2, <1>4 DEF OwnInv, Answered, SelfAware

LEMMA OwnStep ==
    ASSUME MaxSuspended = 0, LobbyInv, LobbyInv', RosterInv, SlotInv, SlotInv', OwnInv, Resumes,
           [Next]_vars
    PROVE  OwnInv'
  <1>1. CASE Next
    BY <1>1, HandleOwn, ContinueOwn, NodeStepOwn DEF Next
  <1>2. CASE UNCHANGED vars
    <2>1. UNCHANGED <<phase, index, roster, session, requests, todo, inbox>>
      BY <1>2 DEF vars, nodeVars
    <2>2. /\ \A m \in Node : \A i : Holds(m, i)' <=> Holds(m, i)
          /\ \A m \in Node : Registered(m)' <=> Registered(m)
          /\ \A m \in Node : Live(m)' <=> Live(m)
          /\ Closing' <=> Closing
      BY <2>1 DEF Holds, Registered, Live, Closing
    <2>3. Answered'
      BY <2>2 DEF OwnInv, Answered
    <2>4. \A m \in Node : Own(m, roster[m])' <=> Own(m, roster[m])
      BY <2>1, <2>2 DEF Own
    <2>5. \A m \in Node : Shown(m)' <=> Shown(m)
      BY <2>1, <2>4 DEF Shown
    <2>6. SelfAware'
      BY <2>1, <2>2, <2>5 DEF OwnInv, SelfAware, Untold, Failing
    <2>7. ASSUME NEW m \in Node
          PROVE  OwnNews(todo[m])' /\ StartsKnown(todo[m])' /\ ReadsOpen(todo[m])'
      <3>1. SUFFICES ASSUME NEW q, q = todo[m], q = todo'[m]
                     PROVE  OwnNews(q)' /\ StartsKnown(q)' /\ ReadsOpen(q)'
        BY <2>1
      <3>2. OwnNews(q) /\ StartsKnown(q) /\ ReadsOpen(q)
        BY <3>1 DEF OwnInv, ServiceTells
      <3>3. \A k \in 1..Len(q) : q[k].to \in Node
        <4>1. q \in Seq(Pending)
          BY <3>1 DEF LobbyInv, FlightTypes
        <4> QED  BY <4>1 DEF Pending, Task
      <3>4. OwnNews(q)'
        <4>1. \A k \in 1..Len(q) : Own(q[k].to, q[k].msg.players) => Own(q[k].to, q[k].msg.players)'
          BY <2>2, <3>3 DEF Own
        <4> QED  BY <2>2, <3>2, <3>3, <4>1 DEF OwnNews
      <3>5. StartsKnown(q)'
        BY <2>2, <2>5, <3>2, <3>3 DEF StartsKnown
      <3>6. ReadsOpen(q)'
        BY <2>1, <2>2, <3>2 DEF ReadsOpen
      <3> QED  BY <3>4, <3>5, <3>6
    <2>8. ASSUME NEW m \in Node
          PROVE  OwnBox(m)'
      <3>1. \A k \in 1..Len(inbox[m]) : Own(m, inbox[m][k].players) => Own(m, inbox[m][k].players)'
        BY <2>1, <2>2 DEF Own
      <3>2. OwnBox(m)
        BY DEF OwnInv, OwnRosters
      <3> QED  BY <2>1, <2>4, <3>1, <3>2 DEF OwnBox
    <2>9. OwnRosters' /\ ServiceTells'
      BY <2>1, <2>4, <2>7, <2>8 DEF OwnInv, OwnRosters, ServiceTells
    <2> QED  BY <2>3, <2>6, <2>9 DEF OwnInv
  <1> QED  BY <1>1, <1>2

(* With nothing in flight the host shows who is in its session.            *)
LEMMA HostShows ==
    ASSUME LobbyInv, RosterInv, used.untold = 0 => SlotInv /\ OwnInv
    PROVE  HostKnowsPlayers
  <1>1. SUFFICES ASSUME Quiet, SlotInv, OwnInv, NEW h \in Hosts, NEW n \in Node,
                        phase[h] = "playing", phase[n] = "playing", Registered(n)
                 PROVE  \E e \in roster[h] : e.at = n /\ e.index = index[n]
    BY DEF HostKnowsPlayers
  <1>2. h \in Node /\ Live(h) /\ Live(n)
    BY <1>1 DEF Hosts, Live
  <1>3. session.open
    <2>1. SUFFICES ASSUME ~session.open PROVE FALSE
      OBVIOUS
    <2>2. session = NoSession
      BY <2>1 DEF RosterInv, Settled
    <2>3. DOMAIN session.connections = {}
      BY <2>2 DEF NoSession
    <2> QED  BY <1>1, <2>3 DEF Registered
  <1>4. (\A m \in Node : ~Announces(todo[m]) /\ ~Carries(todo[m], h)) /\ ~NewsIn(inbox[h]) /\ ~Closing
    <2>1. \A k \in 1..Len(<<>>) : FALSE
      OBVIOUS
    <2> QED  BY <1>1, <1>2, <2>1, Empty DEF Quiet, NewsIn, Closing
  <1>5. Registered(h) /\ Knows(h)
    BY <1>1, <1>3, <1>4 DEF SlotInv, OneHost, Aware, AwareAt, Untold
  <1>6. index[n] \in Index /\ index[h] \in Index
    BY <1>1, <1>2 DEF LobbyInv, Indexed
  <1>7. Holds(n, index[n]) /\ Holds(h, index[h])
    BY DEF Holds
  <1>8. PICK e \in session.entries : e.at = n /\ e.index = index[n]
    BY <1>1, <1>3, <1>4, <1>6, <1>7 DEF SlotInv, Secured
  <1>9. CASE n # h
    BY <1>1, <1>2, <1>5, <1>7, <1>8, <1>9 DEF Knows
  <1>10. CASE n = h
    <2>1. PICK f \in roster[h] : f.at = h /\ Holds(h, f.index)
      BY <1>1, <1>2 DEF OwnInv, OwnRosters, Own
    <2>2. f.index \in Index
      BY <1>2, <2>1 DEF LobbyInv, NodeTypes, Entry
    <2>3. f.index = index[h]
      BY <1>1, <1>2, <1>6, <1>7, <2>1, <2>2 DEF SlotInv, Distinct
    <2> QED  BY <1>10, <2>1, <2>3
  <1> QED  BY <1>9, <1>10

(* Until a host crashes before the others know its players, and once       *)
(* nothing is in flight, a host in game has every client that the service  *)
(* has put in the game under its join index, itself included               *)
(* (_wait_for_game_start, _check_for_rejoining_players): whoever is        *)
(* admitted before or during a run is in a roster that the host has read.  *)
THEOREM HostKnows ==
    ASSUME MaxSuspended = 0, MaxCrashes <= 1
    PROVE  LobbySpec => []HostKnowsPlayers
  <1> DEFINE Inv == /\ LobbyInv /\ RosterInv
                    /\ used.untold = 0 => SlotInv /\ LeavesLast /\ OwnInv /\ Resumes
  <1>1. Init => Inv
    BY InitKeeps, RosterInit, SlotInit, OwnInit
  <1>2. Inv /\ [Next]_vars => Inv'
    <2>1. SUFFICES ASSUME Inv, [Next]_vars PROVE Inv'
      OBVIOUS
    <2>2. LobbyInv'
      BY <2>1, StepKeeps
    <2>3. RosterInv'
      BY <2>1, RosterStep
    <2>4. ASSUME used'.untold = 0 PROVE (SlotInv /\ LeavesLast /\ OwnInv /\ Resumes)'
      <3>1. SlotInv /\ LeavesLast /\ OwnInv /\ Resumes
        BY <2>1, <2>4, OnceUntold
      <3>2. SlotInv'
        BY <2>1, <2>2, <2>3, <2>4, <3>1, SlotStep
      <3>3. LeavesLast' /\ Resumes'
        BY <2>1, <3>1, LeavesLastStep, ResumesStep
      <3>4. OwnInv'
        BY <2>1, <2>2, <3>1, <3>2, OwnStep
      <3> QED  BY <3>2, <3>3, <3>4
    <2> QED  BY <2>2, <2>3, <2>4
  <1>3. Inv => HostKnowsPlayers
    BY HostShows
  <1> QED  BY <1>1, <1>2, <1>3, PTL DEF LobbySpec
=============================================================================
