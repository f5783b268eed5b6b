-------------------------------- MODULE Lobby --------------------------------
(***************************************************************************)
(* The lobby: the WebSocket service that keeps the session                 *)
(* (network/lobby/service.py) and the lobby phases of the nodes that       *)
(* connect to it (application/lobby/coordinator.py), from the creation of  *)
(* the session through joins, leaves, starts, replays and crashes to its   *)
(* re-registration by the next host (election/mixin.py).                   *)
(*                                                                         *)
(* The service is one asyncio loop: a handler runs alone up to an await.   *)
(* What it has still to send is `todo`, a list per connection.  A send to  *)
(* a full socket suspends its handler and lets others run: MaxSuspended    *)
(* handlers at a time, the rest run to their end.                          *)
(***************************************************************************)
EXTENDS Naturals, Sequences, FiniteSets, SequencesExt

CONSTANTS
    Node,         \* processes, each on a machine of its own
    Creator,      \* the one that creates the session
    MaxPlayers,   \* MAX_PLAYERS
    NoIndex,      \* no join index: None of Python
    MaxJoins,     \* bound: SESSION_JOINs sent
    MaxRuns,      \* bound: runs started
    MaxCrashes,   \* bound: nodes that crash or quit in game
    MaxSuspended  \* bound: handlers suspended in a send at the same time

ASSUME LobbyAssumption ==
    /\ Creator \in Node
    /\ {MaxPlayers, MaxJoins, MaxRuns, MaxCrashes, MaxSuspended} \subseteq Nat
    /\ MaxPlayers > 0 /\ NoIndex \notin Nat

VARIABLES
    phase,    \* where the main thread of the node is
    role,     \* NodeController.role
    index,    \* join_index
    roster,   \* NodeController.roster
    held,     \* the indices of rejoin_states, at a client
    cached,   \* the session metadata on disk: join index and peers
    over,     \* nodes whose run is won and whose overlay is still shown
    session,  \* the _SessionRecord of the service
    requests, \* messages each node has sent and the service has not read
    todo,     \* what the handler of each connection has still to do
    inbox,    \* WsHandler.inbox of each node
    used      \* joins, runs and crashes so far, and the crashes of a host
              \* that had not told the others of all its players

nodeVars == <<phase, role, index, roster, held, cached, over>>
vars == <<nodeVars, session, requests, todo, inbox, used>>

Index  == 0 .. MaxPlayers - 1
Entry  == [index: Index, at: Node, host: BOOLEAN]
Phases == {"out", "joining", "waiting", "starting", "draining", "playing",
           "electing", "stranded"}
Message == [type: {"created", "joined", "rejected", "roster", "start", "closed"},
            index: Index \cup {NoIndex}, players: SUBSET Entry]
Request == [type: {"create", "join", "recreate", "leave", "start"},
            index: Index \cup {NoIndex}, reserved: SUBSET Index]
Task == [do: {"send", "fail", "announce", "resume", "drop"}, to: Node, msg: Message]
Record == [open: BOOLEAN, entries: SUBSET Entry, connections: Seq(Node),
           active: BOOLEAN, reserved: SUBSET Index]

LobbyTypeOK ==
    /\ phase \in [Node -> Phases]
    /\ role \in [Node -> {"host", "client"}]
    /\ index \in [Node -> Index \cup {NoIndex}]
    /\ roster \in [Node -> SUBSET Entry]
    /\ held \in [Node -> SUBSET Index]
    /\ cached \in [Node -> [index: Index \cup {NoIndex}, peers: SUBSET Node]]
    /\ over \subseteq Node
    /\ session \in Record
    /\ requests \in [Node -> Seq(Request)]
    /\ todo \in [Node -> Seq(Task)]
    /\ inbox \in [Node -> Seq(Message)]
    /\ used \in [joins: Nat, runs: Nat, crashes: Nat, untold: Nat]

-----------------------------------------------------------------------------
Live(n) == phase[n] # "out"
Hosts   == {n \in Node : Live(n) /\ role[n] = "host"}

(* Nothing is in flight.                                                   *)
Quiet == \A n \in Node : requests[n] = <<>> /\ todo[n] = <<>> /\ inbox[n] = <<>>

Indices(entries) == {e.index : e \in entries}

NoMetadata == [index |-> NoIndex, peers |-> {}]

NoSession == [open |-> FALSE, entries |-> {}, connections |-> <<>>,
              active |-> FALSE, reserved |-> {}]

Msg(type, i, players)  == [type |-> type, index |-> i, players |-> players]
Req(type, i, reserved) == [type |-> type, index |-> i, reserved |-> reserved]
Send(n, msg) == [do |-> "send", to |-> n, msg |-> msg]
Do(what, n)  == [do |-> what, to |-> n, msg |-> Msg("roster", NoIndex, {})]

(* broadcast: to the connections there are when it begins, one by one.     *)
ToAll(msg) == [k \in DOMAIN session.connections |->
                    Send(session.connections[k], msg)]

Registered(n) == \E k \in DOMAIN session.connections : session.connections[k] = n

(* What a handler sends to its own socket: the answer to a request.        *)
Answers == {"created", "joined", "rejected"}
Answer(t) == t.do = "send" /\ t.msg.type \in Answers

(* A socket is closed: its connection is removed (each process has one),  *)
(* and what is still broadcast to it goes nowhere.                         *)
Drop(n, s) == [s EXCEPT !.connections = RemoveFirst(@, n)]
Unsent(n) == [m \in Node |-> [k \in DOMAIN todo[m] |->
                LET t == todo[m][k] IN
                IF t.do = "send" /\ t.to = n /\ ~Answer(t) THEN Do("fail", n) ELSE t]]

Init ==
    /\ phase = [n \in Node |-> IF n = Creator THEN "joining" ELSE "out"]
    /\ role = [n \in Node |-> IF n = Creator THEN "host" ELSE "client"]
    /\ index = [n \in Node |-> NoIndex]
    /\ roster = [n \in Node |-> {}]
    /\ held = [n \in Node |-> {}]
    /\ cached = [n \in Node |-> NoMetadata]
    /\ over = {}
    /\ session = NoSession
    /\ requests = [n \in Node |-> IF n = Creator
                                  THEN <<Req("create", NoIndex, {})>> ELSE <<>>]
    /\ todo = [n \in Node |-> <<>>]
    /\ inbox = [n \in Node |-> <<>>]
    /\ used = [joins |-> 0, runs |-> 0, crashes |-> 0, untold |-> 0]

-----------------------------------------------------------------------------
(* The service.                                                            *)

CreateSession(n) ==
    /\ session' = [NoSession EXCEPT !.open = TRUE, !.connections = <<n>>,
                        !.entries = {[index |-> 0, at |-> n, host |-> TRUE]}]
    /\ todo' = [todo EXCEPT ![n] = <<Send(n, Msg("created", 0, {})),
                                     Do("announce", n)>>]

(* is_full and join_session in one step: no await between them.  A player  *)
(* id is made from its join index, so an entry never has another's id: a   *)
(* rejoin succeeds when, and only when, its slot is reserved.              *)
Occupied == Indices(session.entries) \cup session.reserved
Refused(rejoin) ==
    \/ ~session.open
    \/ rejoin # NoIndex /\ rejoin \notin session.reserved
    \/ rejoin = NoIndex /\ Cardinality(Occupied) >= MaxPlayers
SlotBug(rejoin) == IF rejoin # NoIndex THEN rejoin ELSE Cardinality(Occupied) + 1
Slot(rejoin) ==
    IF rejoin # NoIndex THEN rejoin
    ELSE CHOOSE i \in Index \ Occupied : \A j \in Index \ Occupied : i <= j

StillReserved(i) == session.reserved \ {i}

(* What is awaited after an admission: the roster is read when its turn    *)
(* comes, and a session already active sends the GameStart at once.        *)
WelcomeUnstarted(n, i) == <<Send(n, Msg("joined", i, {})), Do("announce", n)>>
Welcome(n, i) ==
    <<Send(n, Msg("joined", i, {})), Do("announce", n), Do("resume", n)>>

JoinSession(n, rejoin) ==
    \/ /\ Refused(rejoin)
       /\ todo' = [todo EXCEPT ![n] = <<Send(n, Msg("rejected", NoIndex, {}))>>]
       /\ UNCHANGED session
    \/ /\ ~Refused(rejoin)
       /\ LET i == Slot(rejoin) IN
          /\ session' = [session EXCEPT
                !.entries = {e \in @ : e.index # i}
                                \cup {[index |-> i, at |-> n, host |-> FALSE]},
                !.reserved = StillReserved(i),
                !.connections = IF Live(n) THEN Append(@, n) ELSE @]
          /\ todo' = [todo EXCEPT ![n] = Welcome(n, i)]

(* SESSION_RECREATE: the host alone, every other slot reserved, no roster  *)
(* sent to anybody.                                                        *)
RecreateSession(n, i, reserved) ==
    /\ session' = [open |-> TRUE, active |-> TRUE, reserved |-> reserved,
                   entries |-> {[index |-> i, at |-> n, host |-> TRUE]},
                   connections |-> <<n>>]
    /\ todo' = [todo EXCEPT ![n] = <<Send(n, Msg("created", 0, {}))>>]

(* _handle_leave: the departure of the host closes the room, that of       *)
(* another player is announced to all, the leaver included.                *)
FarewellSilent(n, leaving) ==
    IF \E e \in leaving : e.host
    THEN ToAll(Msg("closed", NoIndex, {})) \o <<Do("drop", n)>>
    ELSE <<>>
Farewell(n, leaving) ==
    IF \E e \in leaving : e.host
    THEN ToAll(Msg("closed", NoIndex, {})) \o <<Do("drop", n)>>
    ELSE <<Do("announce", n)>>

LeaveSession(n, i) ==
    LET leaving == {e \in session.entries : e.index = i} IN
    \/ /\ session.open
       /\ session' = [session EXCEPT !.entries = @ \ leaving]
       /\ todo' = [todo EXCEPT ![n] = Farewell(n, leaving)]
    \/ /\ ~session.open
       /\ UNCHANGED <<session, todo>>

(* mark_active and broadcast; without the session the handler dies.        *)
StartSession(n) ==
    /\ session' = [session EXCEPT !.active = session.open]
    /\ todo' = [todo EXCEPT ![n] = ToAll(Msg("start", NoIndex, {}))]

(* A handler that is not suspended is over before anything else happens.   *)
Undisturbed == Cardinality({n \in Node : todo[n] # <<>>}) <= MaxSuspended

Handle(n) ==
    /\ Undisturbed
    /\ requests[n] # <<>> /\ todo[n] = <<>>
    /\ requests' = [requests EXCEPT ![n] = Tail(@)]
    /\ LET r == Head(requests[n]) IN
       \/ r.type = "create" /\ CreateSession(n)
       \/ r.type = "join" /\ JoinSession(n, r.index)
       \/ r.type = "recreate" /\ RecreateSession(n, r.index, r.reserved)
       \/ r.type = "leave" /\ LeaveSession(n, r.index)
       \/ r.type = "start" /\ StartSession(n)
    /\ UNCHANGED <<nodeVars, inbox, used>>

(* The next await of the handler of n.  A broadcast swallows the error of  *)
(* a closed socket.  A handler whose answer fails ends, and what it had    *)
(* still to announce is lost; a socket may also take the answer before it  *)
(* knows that the other end is closed.                                     *)
Continue(n) ==
    /\ todo[n] # <<>>
    /\ LET t == Head(todo[n])
           rest == Tail(todo[n])
       IN
       \/ /\ t.do = "send"
          /\ inbox' = [inbox EXCEPT ![t.to] = IF Live(t.to) THEN Append(@, t.msg) ELSE @]
          /\ todo' = [todo EXCEPT ![n] = rest]
          /\ UNCHANGED session
       \/ /\ Answer(t) /\ ~Live(n)
          /\ todo' = [todo EXCEPT ![n] = <<>>]
          /\ UNCHANGED <<session, inbox>>
       \/ /\ t.do = "fail"
          /\ todo' = [todo EXCEPT ![n] = rest]
          /\ UNCHANGED <<session, inbox>>
       \/ /\ t.do = "announce" /\ session.open
          /\ todo' = [todo EXCEPT ![n] =
                        ToAll(Msg("roster", NoIndex, session.entries)) \o rest]
          /\ UNCHANGED <<session, inbox>>
       \/ /\ t.do = "announce" /\ ~session.open    \* KeyError in get_roster
          /\ todo' = [todo EXCEPT ![n] = <<>>]
          /\ UNCHANGED <<session, inbox>>
       \/ /\ t.do = "resume"
          /\ todo' = [todo EXCEPT ![n] =
                IF session.active
                THEN <<Send(n, Msg("start", NoIndex, {}))>> \o rest ELSE rest]
          /\ UNCHANGED <<session, inbox>>
       \/ /\ t.do = "drop"
          /\ session' = NoSession
          /\ todo' = [todo EXCEPT ![n] = rest]
          /\ UNCHANGED inbox
    /\ UNCHANGED <<nodeVars, requests, used>>

-----------------------------------------------------------------------------
(* The nodes.                                                              *)

(* The end of a process, or of its controller.                             *)
Forget(n) ==
    /\ role' = [role EXCEPT ![n] = "client"]
    /\ index' = [index EXCEPT ![n] = NoIndex]
    /\ roster' = [roster EXCEPT ![n] = {}]
    /\ held' = [held EXCEPT ![n] = {}]
    /\ over' = over \ {n}

(* _LobbyRunner.teardown with leave_lobby: a node that is not registered   *)
(* with the service may find its socket closed.                            *)
Teardown(n) ==
    /\ Forget(n)
    /\ phase' = [phase EXCEPT ![n] = "out"]
    /\ inbox' = [inbox EXCEPT ![n] = <<>>]
    /\ cached' = [cached EXCEPT ![n] = NoMetadata]
    /\ session' = Drop(n, session)
    /\ todo' = Unsent(n)
    /\ \/ /\ index[n] # NoIndex /\ phase[n] # "stranded"
          /\ requests' = [requests EXCEPT ![n] =
                            Append(@, Req("leave", index[n], {}))]
       \/ /\ index[n] = NoIndex \/ ~Registered(n)
          /\ UNCHANGED requests

(* A new process enters the lobby.  The handler of its former connection   *)
(* has finished.                                                           *)
Enter(n, rejoin) ==
    /\ Undisturbed
    /\ phase[n] = "out" /\ session.open
    /\ requests[n] = <<>> /\ todo[n] = <<>> /\ used.joins < MaxJoins
    /\ requests' = [requests EXCEPT ![n] = <<Req("join", rejoin, {})>>]
    /\ phase' = [phase EXCEPT ![n] = "joining"]
    /\ used' = [used EXCEPT !.joins = @ + 1]
    /\ UNCHANGED <<role, index, roster, held, cached, over, session, todo, inbox>>

(* A fresh join from the menu; from the command line the session id picks  *)
(* up the cached index, whoever plays.                                     *)
Join(n) == \E rejoin \in {NoIndex, cached[n].index} : Enter(n, rejoin)

(* _try_recover_session, of a process started without a role: it probes    *)
(* the cached peers for a host in game, who alone answers, and joins with  *)
(* its cached index; with no answer in time it deletes the metadata.       *)
HostsFound(n) == {h \in cached[n].peers : h \in Hosts /\ phase[h] = "playing"}
Recover(n) ==
    /\ cached[n] # NoMetadata
    /\ \/ HostsFound(n) # {} /\ Enter(n, cached[n].index)
       \/ /\ Undisturbed /\ phase[n] = "out"
          /\ cached' = [cached EXCEPT ![n] = NoMetadata]
          /\ UNCHANGED <<phase, role, index, roster, held, over, session,
                         requests, todo, inbox, used>>

(* LOBBY_TIMEOUT: nothing is told to the service.                          *)
JoinTimeout(n) ==
    /\ Undisturbed
    /\ phase[n] = "joining" /\ role[n] = "client"
    /\ Teardown(n)
    /\ UNCHANGED used

(* The player closes the lobby screen, which is all there is to do when    *)
(* the service is gone.                                                    *)
LeaveLobby(n) ==
    /\ Undisturbed
    /\ phase[n] \in {"waiting", "stranded"}
    /\ role[n] = "host" => over = {}
    /\ Teardown(n)
    /\ UNCHANGED used

(* The host presses Start, in a replay once the others are in the lobby.   *)
PressStart(n) ==
    /\ Undisturbed
    /\ phase[n] = "waiting" /\ role[n] = "host" /\ roster[n] # {}
    /\ over = {} /\ used.runs < MaxRuns
    /\ phase' = [phase EXCEPT ![n] = "starting"]
    /\ requests' = [requests EXCEPT ![n] = Append(@, Req("start", NoIndex, {}))]
    /\ used' = [used EXCEPT !.runs = @ + 1]
    /\ UNCHANGED <<role, index, roster, held, cached, over, session, todo, inbox>>

(* _poll_lobby of the handshake.                                           *)
Handshake(n, msg) ==
    /\ phase[n] = "joining"
    /\ \/ /\ msg.type = "rejected"
          /\ Teardown(n)
       \/ /\ msg.type # "rejected"
          /\ inbox' = [inbox EXCEPT ![n] = Tail(@)]
          /\ roster' = [roster EXCEPT ![n] =
                            IF msg.type = "roster" THEN msg.players ELSE @]
          /\ IF msg.type \in {"created", "joined"}
             THEN /\ phase' = [phase EXCEPT ![n] = "waiting"]
                  /\ index' = [index EXCEPT ![n] = msg.index]
             ELSE UNCHANGED <<phase, index>>
          /\ UNCHANGED <<role, held, cached, over, session, requests, todo>>

(* _write_session_metadata.                                                *)
Saved(n) == [index |-> index[n], peers |-> {e.at : e \in roster[n]} \ {n}]

(* _wait_for_game_start, and the waits of the host for its player and for  *)
(* the echo of its GameStart.                                              *)
Starts(n, msg) ==
    msg.type = "start" /\ phase[n] = (IF role[n] = "host" THEN "starting" ELSE "waiting")
WaitForStart(n, msg) ==
    /\ phase[n] \in {"waiting", "starting", "draining"}
    /\ \/ /\ msg.type = "closed" /\ role[n] = "client"
          /\ Teardown(n)
       \/ /\ ~(msg.type = "closed" /\ role[n] = "client")
          /\ inbox' = [inbox EXCEPT ![n] = Tail(@)]
          /\ roster' = [roster EXCEPT ![n] =
                            IF msg.type = "roster" THEN msg.players ELSE @]
          /\ IF Starts(n, msg)
             THEN /\ phase' = [phase EXCEPT ![n] =
                            IF role[n] = "host" THEN "draining" ELSE "playing"]
                  /\ cached' = [cached EXCEPT ![n] = Saved(n)]
             ELSE UNCHANGED <<phase, cached>>
          /\ UNCHANGED <<role, index, held, over, session, requests, todo>>

(* _broadcast_game_start listens 0.1 s more for concurrent roster updates. *)
EndDrain(n) ==
    /\ Undisturbed
    /\ phase[n] = "draining"
    /\ phase' = [phase EXCEPT ![n] = "playing"]
    /\ UNCHANGED <<role, index, roster, held, cached, over, session, requests,
                   todo, inbox, used>>

(* In game the host admits who is new (_check_for_rejoining_players), a    *)
(* client reads and forgets (_drain_lobby_messages).                       *)
AdmittedBug(n, players) == roster[n]
Admitted(n, players) ==
    LET others == {e \in players : e.index # index[n]} IN
    {e \in roster[n] : e.index \notin Indices(others)} \cup others

ReadInGame(n, msg) ==
    /\ phase[n] = "playing"
    /\ inbox' = [inbox EXCEPT ![n] = Tail(@)]
    /\ roster' = [roster EXCEPT ![n] =
                    IF role[n] = "host" /\ msg.type = "roster"
                    THEN Admitted(n, msg.players) ELSE @]
    /\ UNCHANGED <<phase, role, index, held, cached, over, session, requests, todo>>

Read(n) ==
    /\ Undisturbed
    /\ inbox[n] # <<>>
    /\ LET msg == Head(inbox[n]) IN
       \/ Handshake(n, msg)
       \/ WaitForStart(n, msg)
       \/ ReadInGame(n, msg)
    /\ UNCHANGED used

(* The periodic roster of the host's game events (_merge_roster).          *)
Unknown(n, h) == {e \in roster[h] : e.index \notin Indices(roster[n]) \cup {index[n]}}
MergeRoster(n) ==
    /\ Undisturbed
    /\ phase[n] = "playing" /\ role[n] = "client"
    /\ \E h \in Hosts :
        /\ phase[h] = "playing" /\ Unknown(n, h) # {}
        /\ roster' = [roster EXCEPT ![n] = @ \cup Unknown(n, h)]
    /\ UNCHANGED <<phase, role, index, held, cached, over, session, requests,
                   todo, inbox, used>>

(* _check_player_disconnections, and the PlayerLeft it sends: who plays    *)
(* drops a player whose process has ended (_evict_player).  The state of   *)
(* its character is kept for a rejoin, unless it waits for its respawn.    *)
Ended(e) == phase[e.at] = "out" \/ index[e.at] \notin {NoIndex, e.index}
Evict(h) ==
    /\ Undisturbed
    /\ h \in Hosts /\ phase[h] = "playing"
    /\ \E e \in {x \in roster[h] : Ended(x)}, kept \in BOOLEAN :
        LET Gone(m) == {x \in roster[m] : /\ phase[m] = "playing"
                                          /\ x.index = e.index /\ index[m] # e.index}
        IN
        /\ roster' = [m \in Node |-> roster[m] \ Gone(m)]
        /\ held' = [m \in Node |-> IF kept /\ m \notin Hosts
                                   THEN held[m] \cup Indices(Gone(m)) ELSE held[m]]
    /\ UNCHANGED <<phase, role, index, cached, over, session, requests, todo,
                   inbox, used>>

(* Victory: the host first, the others at the end of their own overlay.  A *)
(* run lasts until its frames have read all that came, and longer than the *)
(* re-registration of a promoted host.                                     *)
EndRun(n) ==
    /\ Undisturbed
    /\ phase[n] = "playing" /\ inbox[n] = <<>>
    /\ requests[n] = <<>> /\ todo[n] = <<>>
    /\ role[n] = "client" => n \in over
    /\ phase' = [phase EXCEPT ![n] = "waiting"]
    /\ over' = IF role[n] = "host"
               THEN {m \in Node \ {n} : phase[m] = "playing"} ELSE over \ {n}
    /\ UNCHANGED <<role, index, roster, held, cached, session, requests, todo,
                   inbox, used>>

(* A crash, or a player that quits in game, who leaves no metadata (Quit). *)
(* The service runs on the machine of the host and dies with it.  Who      *)
(* plays notices, who is in the overlay does not, and who is in the lobby  *)
(* polls a closed socket: a GameStart that came before is of no use, the   *)
(* connection of the game events fails.                                    *)
CrashClient(n) ==
    /\ n \notin Hosts
    /\ phase' = [phase EXCEPT ![n] = "out"]
    /\ session' = Drop(n, session)
    /\ todo' = Unsent(n)
    /\ inbox' = [inbox EXCEPT ![n] = <<>>]
    /\ UNCHANGED requests

Survivors(n) == {m \in Node \ (over \cup {n}) : phase[m] = "playing"}
Stranded(n)  == {m \in Node \ {n} : phase[m] \in {"joining", "waiting"}}
CrashHost(n) ==
    /\ n \in Hosts
    /\ phase' = [m \in Node |-> IF m = n THEN "out"
                                ELSE IF m \in Survivors(n) THEN "electing"
                                ELSE IF m \in Stranded(n) THEN "stranded" ELSE phase[m]]
    /\ inbox' = [m \in Node |-> IF m \in Survivors(n) \cup Stranded(n) \cup {n}
                                THEN <<>> ELSE inbox[m]]
    /\ session' = NoSession
    /\ requests' = [m \in Node |-> <<>>]
    /\ todo' = [m \in Node |-> <<>>]

(* No join is under way when n crashes, and the survivors have learned of  *)
(* all the players of n, from its periodic roster or before the start.     *)
HasTold(n) ==
    \/ n \notin Hosts \/ Survivors(n) = {}
    \/ Quiet /\ \A m \in Survivors(n) : Unknown(m, n) = {}

Quit(n) == cached' = [cached EXCEPT ![n] = NoMetadata]

Crash(n) ==
    /\ Undisturbed
    /\ Live(n) /\ used.crashes < MaxCrashes
    /\ CrashClient(n) \/ CrashHost(n)
    /\ Forget(n)
    /\ UNCHANGED cached \/ Quit(n)
    /\ used' = [used EXCEPT !.crashes = used.crashes + 1,
                  !.untold = IF HasTold(n) THEN used.untold ELSE used.untold + 1]

(* The survivors elect the lowest join index (see HostMigration): it       *)
(* re-registers the session, the others open a connection to it and send   *)
(* nothing.                                                                *)
ReservedBug(n, entries, states) == states
Reserved(n, entries, states) == (Indices(entries) \ {index[n]}) \cup states

Promote(n) ==
    LET survivors == {m \in Node : phase[m] = "electing"} IN
    /\ Undisturbed /\ n \in survivors
    /\ \A m \in survivors : index[n] <= index[m]
    /\ role' = [role EXCEPT ![n] = "host"]
    /\ phase' = [m \in Node |-> IF m \in survivors THEN "playing" ELSE phase[m]]
    /\ \E kept \in BOOLEAN :
        LET Crashed(m) == {e \in roster[m] : m \in survivors /\ e.host}
            Left(m) == roster[m] \ Crashed(m)
            States(m) == held[m] \cup (IF kept THEN Indices(Crashed(m)) ELSE {})
        IN
        /\ roster' = [m \in Node |-> {[e EXCEPT !.host = IF m \in survivors
                                        THEN e.index = index[n] ELSE @] : e \in Left(m)}]
        /\ held' = [m \in Node |-> States(m)]
        /\ requests' = [requests EXCEPT ![n] =
                <<Req("recreate", index[n], Reserved(n, Left(n), States(n)))>>]
    /\ UNCHANGED <<index, cached, over, session, todo, inbox, used>>

-----------------------------------------------------------------------------
NodeStep(n) ==
    \/ Join(n) \/ Recover(n) \/ JoinTimeout(n) \/ LeaveLobby(n) \/ PressStart(n)
    \/ Read(n) \/ EndDrain(n) \/ MergeRoster(n) \/ Evict(n) \/ EndRun(n)
    \/ Crash(n) \/ Promote(n)

Next == \E n \in Node : Handle(n) \/ Continue(n) \/ NodeStep(n)

LobbySpec == Init /\ [][Next]_vars

(* The service reads what it is sent and ends its sends; every wait of a   *)
(* node polls its inbox.  No player is bound to press a key.               *)
LobbyFairness ==
    \A n \in Node : /\ WF_vars(Continue(n))
                    /\ WF_vars(Handle(n))
                    /\ WF_vars(Read(n))
                    /\ WF_vars(EndDrain(n))

FairLobbySpec == LobbySpec /\ LobbyFairness

(* All but the creator are alike (SYMMETRY of a run for safety).           *)
Alike == Permutations(Node \ {Creator})

-----------------------------------------------------------------------------
(* Properties.                                                             *)

(* Two players of the session never hold the same join index, across       *)
(* leaves, crashes, rejoins and the re-registration of the session by a    *)
(* promoted host, and the service reserves no slot that is taken: the      *)
(* election relies on the order of the indices (join_session,              *)
(* register_active_session).  Who is in the victory overlay counts while   *)
(* it is connected: if its host crashes there, it is in no session.        *)
InSession(n) == \/ phase[n] \in {"draining", "playing", "electing"} /\ n \notin over
                \/ Registered(n) /\ index[n] # NoIndex
SlotsDiffer ==
    /\ \A m, n \in Node :
        m # n /\ InSession(m) /\ InSession(n) => index[m] # index[n]
    /\ session.reserved \cap Indices(session.entries) = {}
    /\ Cardinality(Indices(session.entries)) = Cardinality(session.entries)

(* It is so as long as no host has crashed between a join and the roster   *)
(* broadcast that tells the others of it (_maybe_broadcast_roster).        *)
UniqueSlots == used.untold = 0 => SlotsDiffer

(* As long as no host has crashed so, and once nothing is in flight, the   *)
(* host in game knows every client that the service has put in the game,   *)
(* at the moment of the start included.                                    *)
HostKnowsPlayers ==
    used.untold = 0 /\ Quiet => \A h \in Hosts, n \in Node :
        phase[h] = "playing" /\ phase[n] = "playing" /\ Registered(n) =>
            \E e \in roster[h] : e.at = n /\ e.index = index[n]

(* Once nothing is in flight a node in its first lobby shows everybody who *)
(* is connected to the service, and nobody who has left: no update is      *)
(* lost or overtaken by an older one.  A player whose process ended before *)
(* its join was answered may take up a slot that is not shown.             *)
RosterAgrees ==
    Quiet => \A n \in Node :
        phase[n] = "waiting" /\ Registered(n) /\ cached[n] = NoMetadata =>
            /\ \A e \in session.entries : Registered(e.at) => e \in roster[n]
            /\ Indices(roster[n]) \subseteq Indices(session.entries)

Waits(n) == phase[n] = "waiting" /\ role[n] = "client"
HostPlays == \E h \in Hosts : phase[h] = "playing"

(* A client of the room does not wait for ever while the host plays,       *)
(* whether it joined before, during or after the start.                    *)
StartEndsWait ==
    \A n \in Node : Waits(n) /\ Registered(n) /\ HostPlays
                        ~> ~(Waits(n) /\ Registered(n) /\ HostPlays)

(* Once the host leaves its lobby, no client waits there for ever.         *)
HostLeaves ==
    \E m \in Node : \E k \in DOMAIN requests[m] :
        /\ requests[m][k].type = "leave"
        /\ \E e \in session.entries : e.host /\ e.index = requests[m][k].index
ClosedEndsWait ==
    \A n \in Node : Waits(n) /\ HostLeaves ~> ~Waits(n)

(* A process that comes back with its cached index gets its slot back when *)
(* the service kept it for it.                                             *)
RejoinAdmitted ==
    [][\A n \in Node :
        LET r == Head(requests[n]) IN
        /\ todo[n] = <<>> /\ todo'[n] # <<>>
        /\ r.type = "join" /\ r.index # NoIndex
        /\ \/ r.index \in session.reserved
           \/ \E e \in session.entries : e.at = n /\ e.index = r.index
        => Head(todo'[n]).msg.type = "joined"]_vars
=============================================================================
