---------------------------- MODULE GameEventServer ----------------------------
(***************************************************************************)
(* The game-event server (network/game_events/server.py): the endpoint of  *)
(* each connection, the broadcasts and the heartbeat that walk the list of *)
(* connections, and the two brokers that give it the events of the host:   *)
(* GameEventBroker in the same process, and HttpGameEventBroker, which     *)
(* posts to a container (network/game_events/broker.py).                   *)
(*                                                                         *)
(* Everything of the server runs on one event loop and gives way only at   *)
(* an await.  A walk is an iteration over the live list _connections: it   *)
(* keeps an index, and what is removed in front of it shifts the rest.     *)
(* Events are numbered as the host sends them; their content is left out.  *)
(***************************************************************************)
EXTENDS Naturals, Sequences, FiniteSets, SequencesExt

CONSTANTS
    MaxConnections,     \* connections made to the server
    Named,              \* those that were opened with a player_id
    MaxEvents,          \* events the host sends
    MaxDrops            \* peers that go

ASSUME NamedAssumption == Named \subseteq 1..MaxConnections
ASSUME BoundAssumption == {MaxConnections, MaxEvents, MaxDrops} \subseteq Nat

Connection == 1..MaxConnections
Event == 1..MaxEvents
Ping == 0
None == 0

VARIABLES
    broker,         \* "process" or "http"
    outbox,         \* HttpGameEventBroker._queue
    posting,        \* the event whose POST has not returned, or None
    sent,           \* the number of events the host has sent
    connections,    \* _connections
    alive,          \* connections whose peer is there
    closed,         \* connections that the server's protocol has seen close
    signalled,      \* connections whose disconnect event is set
    reports,        \* what went into _disconnect_queue
    walks,          \* of each connection the walks that wait on it, in order
    inbox,          \* of each connection the events written to it
    audience,       \* of each event the connections listed when its walk began
    removed         \* of each event the removals during its walk

supply == <<broker, outbox, posting, sent>>
peers  == <<alive, closed>>
ends   == <<signalled, reports>>
record == <<audience, removed>>
vars == <<supply, connections, peers, ends, walks, inbox, record>>

(* next counts the connections it has fetched from the list; the last of   *)
(* them is the one it waits on.                                            *)
Walk == [event : Event \cup {Ping}, next : 1..MaxConnections, dead : SUBSET Connection]

Init ==
    /\ broker \in {"process", "http"}
    /\ outbox = <<>> /\ posting = None /\ sent = 0
    /\ connections = <<>> /\ alive = {} /\ closed = {}
    /\ signalled = {} /\ reports = {}
    /\ walks = [c \in Connection |-> <<>>]
    /\ inbox = [c \in Connection |-> <<>>]
    /\ audience = [e \in Event |-> {}]
    /\ removed = [e \in Event |-> 0]

-----------------------------------------------------------------------------
Walking(e) == \E c \in Connection : \E w \in Range(walks[c]) : w.event = e
Listed == Range(connections)

(* A close wakes at once all that wait on the connection, in the order     *)
(* they wrote; nothing else of the server runs before them.                *)
Idle == \A c \in closed : walks[c] = <<>>

(* What WsHandler._receive_loop puts into the inbox of the client: a ping  *)
(* is no message of the serializer, and a peer that is gone reads nothing. *)
Written(c, e) ==
    IF e = Ping \/ c \notin alive THEN inbox
    ELSE [inbox EXCEPT ![c] = Append(@, e)]

(* Mutant: a new connection is put in front of the list.                   *)
JoinedBug(c) == <<c>> \o connections
Joined(c) == Append(connections, c)

(* game_event_endpoint, up to its wait.                                    *)
Connect ==
    LET c == Cardinality(alive \cup closed \cup Listed) + 1 IN
    /\ c \in Connection /\ Idle
    /\ connections' = Joined(c)
    /\ alive' = alive \cup {c}
    /\ UNCHANGED <<supply, closed, ends, walks, inbox, record>>

(* The other end goes: the node dies, or closes its WsHandler.             *)
Drop(c) ==
    /\ c \in alive
    /\ Cardinality((Listed \cup closed) \ alive) < MaxDrops
    /\ alive' = alive \ {c}
    /\ UNCHANGED <<supply, connections, closed, ends, walks, inbox, record>>

(* The protocol of the server sees that it went: from now on sends raise.  *)
Notice(c) ==
    /\ c \notin alive /\ c \in Listed \ closed /\ Idle
    /\ closed' = closed \cup {c}
    /\ UNCHANGED <<supply, connections, alive, ends, walks, inbox, record>>

-----------------------------------------------------------------------------
(* A walk over the list.  A send may give way after it has written, and    *)
(* those that wait on one connection go on in the order they wrote.        *)

(* for ws in _connections: await ws.send_text(...).                        *)
Begin(e) ==
    IF connections = <<>> THEN UNCHANGED <<walks, inbox>>
    ELSE LET ws == Head(connections) IN
         /\ walks' = [walks EXCEPT ![ws] = Append(@, [event |-> e, next |-> 1, dead |-> {}])]
         /\ inbox' = Written(ws, e)

Goes(c) == walks[c] # <<>> /\ (Idle \/ c \in closed)

(* The send to c that the walk awaits is over: it raises if the protocol   *)
(* has seen c close.                                                       *)
Dead(c) == Head(walks[c]).dead \cup ({c} \cap closed)

(* Mutant: the first send that raises ends the walk.                       *)
OverBug(c) == c \in closed \/ Head(walks[c]).next >= Len(connections)
Over(c) == Head(walks[c]).next >= Len(connections)

Step(c) ==
    LET w    == Head(walks[c])
        ws   == connections[w.next + 1]
        rest == [walks EXCEPT ![c] = Tail(@)] IN
    /\ Goes(c) /\ ~Over(c)
    /\ walks' = [rest EXCEPT ![ws] = Append(@, [w EXCEPT !.next = @ + 1, !.dead = Dead(c)])]
    /\ inbox' = Written(ws, w.event)
    /\ UNCHANGED <<supply, connections, peers, ends, record>>

(* for ws in dead: event.set(), where its endpoint still waits.            *)
(* Mutant: a heartbeat signals nobody.                                     *)
SignalledBug(e, dead) == IF e = Ping THEN {} ELSE dead \cap Listed
Signalled(e, dead) == dead \cap Listed

End(c) ==
    LET w == Head(walks[c]) IN
    /\ Goes(c) /\ Over(c)
    /\ signalled' = signalled \cup Signalled(w.event, Dead(c))
    /\ walks' = [walks EXCEPT ![c] = Tail(@)]
    /\ posting' = IF w.event = posting THEN None ELSE posting
    /\ UNCHANGED <<broker, outbox, sent, connections, peers, reports, inbox, record>>

(* _heartbeat_loop: one at a time.                                         *)
Heartbeat ==
    /\ Idle /\ ~Walking(Ping) /\ Begin(Ping)
    /\ UNCHANGED <<supply, connections, peers, ends, record>>

-----------------------------------------------------------------------------
(* The events of the host.                                                 *)

(* The walk of an event begins.                                            *)
Broadcast(e) ==
    /\ Idle /\ Begin(e)
    /\ audience' = [audience EXCEPT ![e] = Listed]
    /\ UNCHANGED <<connections, peers, ends, removed>>

(* GameEventBroker.send: the host waits for nothing.                       *)
SendInProcess ==
    /\ broker = "process" /\ sent < MaxEvents
    /\ sent' = sent + 1
    /\ Broadcast(sent + 1)
    /\ UNCHANGED <<broker, outbox, posting>>

(* HttpGameEventBroker.send.                                               *)
SendToWorker ==
    /\ broker = "http" /\ sent < MaxEvents
    /\ sent' = sent + 1
    /\ outbox' = Append(outbox, sent + 1)
    /\ UNCHANGED <<broker, posting, connections, peers, ends, walks, inbox, record>>

(* Its worker posts one event at a time, and the answer comes when the     *)
(* walk is over.                                                           *)
Post ==
    /\ posting = None /\ outbox # <<>>
    /\ outbox' = Tail(outbox)
    /\ posting' = IF connections = <<>> THEN None ELSE Head(outbox)
    /\ Broadcast(Head(outbox))
    /\ UNCHANGED <<broker, sent>>

(* The container is not there: the event is dropped.                       *)
PostRefused ==
    /\ posting = None /\ outbox # <<>>
    /\ outbox' = Tail(outbox)
    /\ UNCHANGED <<broker, posting, sent, connections, peers, ends, walks, inbox, record>>

(* No answer within a second: the worker goes on, and so does the walk.    *)
PostTimeout ==
    /\ posting # None
    /\ posting' = None
    /\ UNCHANGED <<broker, outbox, sent, connections, peers, ends, walks, inbox, record>>

-----------------------------------------------------------------------------
(* The endpoint wakes up and leaves the list.                              *)

Finish(c) ==
    /\ c \in signalled \cap Listed /\ Idle
    /\ connections' = RemoveFirst(connections, c)
    /\ reports' = reports \cup ({c} \cap Named)
    /\ removed' = [e \in Event |-> IF Walking(e) THEN removed[e] + 1 ELSE removed[e]]
    /\ UNCHANGED <<supply, peers, signalled, walks, inbox, audience>>

Next ==
    \/ Connect \/ Heartbeat
    \/ SendInProcess \/ SendToWorker \/ Post \/ PostRefused \/ PostTimeout
    \/ \E c \in Connection : Drop(c) \/ Notice(c) \/ Finish(c) \/ Step(c) \/ End(c)

Spec == Init /\ [][Next]_vars

(* The event loop serves the tasks that are ready, the heartbeat comes     *)
(* again and again, and keepalive or TCP notices a peer that is gone.      *)
FairSpec ==
    /\ Spec
    /\ WF_vars(Heartbeat)
    /\ WF_vars(\E c \in Connection : Step(c) \/ End(c))
    /\ SF_vars(\E c \in Connection : Notice(c))
    /\ SF_vars(\E c \in Connection : Finish(c))

-----------------------------------------------------------------------------
(* No event is written twice to a client, and none behind a later one      *)
(* unless a connection has left the list during its walk, though walks     *)
(* wait on slow clients and connections come and go under them.            *)
InOrder ==
    \A c \in Connection : \A i, j \in DOMAIN inbox[c] :
        i < j => \/ inbox[c][i] < inbox[c][j]
                 \/ inbox[c][i] > inbox[c][j] /\ removed[inbox[c][j]] > 0

(* Without that exception: a connection that leaves in front of two walks  *)
(* takes the later one past the client that the earlier one waits on.      *)
NoneOvertaken ==
    \A c \in Connection : \A i, j \in DOMAIN inbox[c] : i < j => inbox[c][i] < inbox[c][j]

(* _broadcast over the live list: a client that was there when the walk    *)
(* began and still is gets the event, but for one client to each removal   *)
(* of another connection during that walk.                                 *)
MissesBounded ==
    \A e \in Event : ~Walking(e) =>
        Cardinality({c \in audience[e] \cap alive : e \notin Range(inbox[c])}) <= removed[e]

(* A peer that is gone leaves the list by the heartbeat alone, events or   *)
(* no events, and if it has a name the host is to be told.                 *)
DeadLeave ==
    \A c \in Connection :
        c \in Listed \ alive ~> c \notin Listed /\ (c \in Named => c \in reports)
=============================================================================
