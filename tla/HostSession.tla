---------------------------- MODULE HostSession ----------------------------
(***************************************************************************)
(* The host of a running game and the players it keeps: _process_host_frame*)
(* (application/gameplay/host.py) with the evictions of events.py and the  *)
(* deaths and respawns of domain/game_engine.py, the clients that send it  *)
(* input and follow its roster, and the lobby's word that a player is back.*)
(*                                                                         *)
(* A player is its join index, from which its player id is made.  An       *)
(* address is a process: 1 was there when the host began, 2 entered later  *)
(* through the lobby, on a port of its own.                                *)
(* Time passes in units of half an input timeout; frames, input packets    *)
(* and heartbeats of the event server are faster than a unit.              *)
(***************************************************************************)
EXTENDS Integers, Sequences

CONSTANTS
    Self,           \* the join index of the host itself
    Player,         \* the join indices of the other players
    Present,        \* the players in the game when this host begins
    Dying,          \* who waits for a respawn in the snapshot it begins from
    QuickRejoin,    \* may a player be back before the host has dropped it?
    MaxSeq,         \* input numbers from MaxSeq on are not told apart
    MaxStalls,      \* units in a row in which a player may send nothing
    MaxCrashes, MaxJoins, MaxDeaths

Nobody  == -1
Never   == -1
Absent  == 0
Timeout == 2        \* UDP_INPUT_TIMEOUT, in units

ASSUME PlayerAssumption ==
    Player \subseteq Nat /\ Self \in Nat \ Player /\ Present \subseteq Player
ASSUME BoundAssumption ==
    /\ QuickRejoin \in BOOLEAN
    /\ MaxSeq \in Nat \ {0}
    /\ {MaxCrashes, MaxJoins, MaxDeaths, MaxStalls} \subseteq Nat

Seat    == Player \cup {Self}
ASSUME DyingAssumption == Dying \subseteq Seat

Index   == Seat \cup {0}
Address == {1, 2}
Roster  == [Player -> Address \cup {Absent}]

VARIABLES
    host,       \* what the process of the host keeps
    up,         \* the players whose process runs
    address,    \* the last process of a player
    seq,        \* its input_sequence_number
    packet,     \* its input packet on the way to the host
    silent,     \* running processes that have sent no input in this unit
    stalled,    \* units in a row without input, of each player
    sockets,    \* the named sockets of the event server: player, address
    gone,       \* the disconnect queue of the event server
    lobby,      \* the roster of the lobby service
    updates,    \* RosterUpdates of the lobby that the host has not polled
    view,       \* the roster of each client
    events,     \* game events that each client has not read
    published,  \* the host has broadcast its roster in this unit
    used        \* what is used of the bounds

players == <<up, address, seq, silent, stalled>>
service == <<lobby, sockets>>
vars == <<host, players, packet, service, gone, updates, view, events, published, used>>

HostState ==
    [roster: Roster,                            \* roster
     chars:  [Seat -> Index \cup {Nobody}],     \* characters, their join_index
     timers: SUBSET Seat,                       \* respawn_timers
     slots:  [Seat -> Index \cup {Nobody}],     \* _respawn_join_index
     saved:  SUBSET Player,                     \* rejoin_states
     heard:  [Player -> Never..MaxSeq],         \* last_remote_input_sequence
     age:    [Player -> Never..Timeout + 1]]    \* last_input_time

Event == [type: {"left"}, who: SUBSET Player] \cup [type: {"roster"}, entries: Roster]

(* A type invariant: every variable of the session keeps its type.         *)
SessionTypeOK ==
    /\ host \in HostState
    /\ up \subseteq Player /\ silent \subseteq Player /\ gone \subseteq Player
    /\ address \in Roster /\ lobby \in Roster
    /\ seq \in [Player -> 0..MaxSeq] /\ packet \in [Player -> 0..MaxSeq]
    /\ stalled \in [Player -> 0..MaxStalls]
    /\ sockets \subseteq Player \X Address
    /\ updates \in Seq(Roster)
    /\ view \in [Player -> Roster]
    /\ events \in [Player -> Seq(Event)]
    /\ published \in BOOLEAN
    /\ used \in [crashes: Nat, joins: Nat, deaths: Nat]

-----------------------------------------------------------------------------
Members(entries) == {p \in Player : entries[p] # Absent}
Alive(h) == {p \in Seat : h.chars[p] # Nobody}

(* f with the values of g where g has one.                                 *)
Change(f, g) == [x \in DOMAIN f |-> IF x \in DOMAIN g THEN g[x] ELSE f[x]]

Entered == [p \in Player |-> IF p \in Present THEN 1 ELSE Absent]

(* The original host: the lobby knows everybody and their sockets are      *)
(* named.  A promoted one: its lobby knows nobody else, the sockets are    *)
(* anonymous, and respawn timers may come with the snapshot it restored.   *)
Init ==
    /\ host = [roster |-> Entered,
               chars  |-> [p \in Seat |-> IF p \in (Present \cup {Self}) \ Dying
                                          THEN p ELSE Nobody],
               timers |-> Dying,
               slots  |-> [p \in Seat |-> Nobody],
               saved  |-> {},
               heard  |-> [p \in Player |-> Never],
               age    |-> [p \in Player |-> IF p \in Present THEN 0 ELSE Never]]
    /\ up = Present /\ silent = Present
    /\ address = Entered
    /\ seq = [p \in Player |-> 0] /\ packet = [p \in Player |-> 0]
    /\ stalled = [p \in Player |-> 0]
    /\ gone = {} /\ updates = <<>> /\ published = FALSE
    /\ \/ Dying = {} /\ lobby = Entered /\ sockets = Present \X {1}
       \/ lobby = [p \in Player |-> Absent] /\ sockets = {}
    /\ view = [p \in Player |-> Entered]
    /\ events = [p \in Player |-> <<>>]
    /\ used = [crashes |-> 0, joins |-> 0, deaths |-> 0]

-----------------------------------------------------------------------------
(* The stages of a host frame, in their order.                             *)

(* _check_for_rejoining_players: an entry that is known at this address,   *)
(* with no state to restore, is skipped.  A player in the roster keeps the *)
(* character it has; one that is not gets its saved one or a new one.      *)
Back(h, entries) ==
    {p \in Members(entries) : h.roster[p] # entries[p] \/ p \in h.saved}
(* Mutant: only a saved character is given back.                           *)
BodiesBug(h, entries) == Back(h, entries) \cap h.saved
Bodies(h, entries) ==
    {p \in Back(h, entries) : h.roster[p] = Absent \/ p \in h.saved}
(* Mutant: the clock of who is back is not started.                        *)
ReadmitBug(h, entries) ==
    [h EXCEPT !.roster = Change(@, [p \in Back(h, entries) |-> entries[p]]),
              !.chars  = Change(@, [p \in Bodies(h, entries) |-> p]),
              !.saved  = @ \ Back(h, entries)]
Readmit(h, entries) ==
    [h EXCEPT !.roster = Change(@, [p \in Back(h, entries) |-> entries[p]]),
              !.chars  = Change(@, [p \in Bodies(h, entries) |-> p]),
              !.saved  = @ \ Back(h, entries),
              !.age    = Change(@, [p \in Back(h, entries) |-> 0])]

(* _evict_player.  The respawn timers stay.                                *)
Evict(h, S) ==
    [h EXCEPT !.saved  = @ \cup (S \cap Members(h.roster) \cap Alive(h)),
              !.chars  = Change(@, [p \in S |-> Nobody]),
              !.roster = Change(@, [p \in S |-> Absent]),
              !.heard  = Change(@, [p \in S |-> Never]),
              !.age    = Change(@, [p \in S |-> Never])]

(* Mutant: a unit late.                                                    *)
LostBug(h) == gone \cup {p \in Player : h.age[p] > Timeout + 1}

(* _check_player_disconnections: those the event server reports, and those *)
(* not heard of for more than the timeout.                                 *)
Lost(h) == gone \cup {p \in Player : h.age[p] > Timeout}

(* _drain_remote_input_packets: a packet counts when its number is new,    *)
(* whether or not its sender is in the roster.                             *)
Fresh(h) == {p \in Player : /\ packet[p] # 0
                            /\ packet[p] > h.heard[p] \/ packet[p] = MaxSeq}
(* Mutant: a packet does not count as a sign of life.                      *)
HearBug(h) == [h EXCEPT !.heard = Change(@, [p \in Fresh(h) |-> packet[p]])]
Hear(h) == [h EXCEPT !.heard = Change(@, [p \in Fresh(h) |-> packet[p]]),
                     !.age   = Change(@, [p \in Fresh(h) |-> 0])]

(* Mutant: the join index of the dead is not kept.                         *)
DieBug(h, D) == [h EXCEPT !.chars  = Change(@, [p \in D |-> Nobody]),
                          !.timers = @ \cup D]

(* _queue_player_death and _process_respawns.                              *)
Die(h, D) == [h EXCEPT !.slots  = Change(@, [p \in D |-> h.chars[p]]),
                       !.chars  = Change(@, [p \in D |-> Nobody]),
                       !.timers = @ \cup D]
Slot(h, p) == IF h.slots[p] = Nobody THEN 0 ELSE h.slots[p]
Respawn(h, R) == [h EXCEPT !.chars  = Change(@, [p \in R |-> Slot(h, p)]),
                           !.slots  = Change(@, [p \in R |-> Nobody]),
                           !.timers = @ \ R]

(* Mutant: nobody is told who left.                                        *)
ToldBug(lost, entries, broadcast) ==
    IF broadcast THEN <<[type |-> "roster", entries |-> entries]>> ELSE <<>>

(* The events of a frame: the PlayerLefts, then the roster if it is time.  *)
Told(lost, entries, broadcast) ==
    (IF lost = {} THEN <<>> ELSE <<[type |-> "left", who |-> lost]>>) \o
    (IF broadcast THEN <<[type |-> "roster", entries |-> entries]>> ELSE <<>>)

(* _process_host_frame, in which D die, R are due to respawn, and the      *)
(* roster is broadcast or not (at most once in a unit, a bound).           *)
Frame(D, R, broadcast) ==
    LET entered == IF updates = <<>> THEN host ELSE Readmit(host, Head(updates))
        lost    == Lost(entered)
        played  == Hear(Evict(entered, lost))
        ticked  == Respawn(Die(played, D), R)
    IN  /\ broadcast => ~published
        /\ D = {} \/ used.deaths < MaxDeaths
        /\ D \subseteq Alive(played) /\ D \cap R = {}
        /\ host' = ticked
        /\ updates' = IF updates = <<>> THEN <<>> ELSE Tail(updates)
        /\ gone' = {}
        /\ packet' = [p \in Player |-> 0]
        /\ events' = [p \in Player |-> IF p \in up
                        THEN events[p] \o Told(lost, ticked.roster, broadcast)
                        ELSE <<>>]
        /\ published' = (published \/ broadcast)
        /\ used' = IF D = {} THEN used ELSE [used EXCEPT !.deaths = @ + 1]
        /\ UNCHANGED <<players, service, view>>

-----------------------------------------------------------------------------
(* The other processes and the servers.                                    *)

(* _send_input_packet: what a process sends in a unit, as one packet.      *)
Input(p) ==
    /\ p \in up \cap silent
    /\ LET n == IF seq[p] < MaxSeq THEN seq[p] + 1 ELSE MaxSeq
       IN  seq' = [seq EXCEPT ![p] = n] /\ packet' = [packet EXCEPT ![p] = n]
    /\ silent' = silent \ {p} /\ stalled' = [stalled EXCEPT ![p] = 0]
    /\ UNCHANGED <<host, up, address, service, gone, updates, view, events,
                   published, used>>

(* A process, or its link, that does nothing for a unit.                   *)
Stall(p) ==
    /\ p \in up \cap silent
    /\ stalled[p] < MaxStalls
    /\ silent' = silent \ {p} /\ stalled' = [stalled EXCEPT ![p] = @ + 1]
    /\ UNCHANGED <<host, up, address, seq, packet, service, gone, updates, view,
                   events, published, used>>

(* _merge_roster adds the players it does not know, nothing else.          *)
Unknown(p, entries) == Members(entries) \ (Members(view[p]) \cup {p})

(* _drain_game_events: what is about the roster.                           *)
Read(p) ==
    /\ p \in up /\ events[p] # <<>>
    /\ LET msg == Head(events[p])
       IN  view' = [view EXCEPT ![p] =
              IF msg.type = "left"
              THEN Change(@, [q \in msg.who \ {p} |-> Absent])
              ELSE Change(@, [q \in Unknown(p, msg.entries) |-> msg.entries[q]])]
    /\ events' = [events EXCEPT ![p] = Tail(@)]
    /\ UNCHANGED <<host, players, packet, service, gone, updates, published, used>>

Crash(p) ==
    /\ p \in up
    /\ used.crashes < MaxCrashes
    /\ up' = up \ {p} /\ silent' = silent \ {p}
    /\ events' = [events EXCEPT ![p] = <<>>]
    /\ used' = [used EXCEPT !.crashes = @ + 1]
    /\ UNCHANGED <<host, address, seq, stalled, packet, service, gone, updates, view,
                   published>>

(* _heartbeat_loop: a socket whose process is gone is noticed.             *)
Running == {<<p, address[p]>> : p \in up}
Notice(socket) ==
    /\ socket \in sockets \ Running
    /\ sockets' = sockets \ {socket}
    /\ gone' = gone \cup {socket[1]}
    /\ UNCHANGED <<host, players, packet, lobby, updates, view, events, published, used>>

(* The host has dropped the player, and so has the event server.           *)
Forgotten(p) ==
    /\ host.roster[p] = Absent /\ host.age[p] = Never
    /\ p \notin gone /\ \A s \in sockets : s[1] # p

(* A process enters the running session with a slot the lobby has free or  *)
(* reserved for it; the lobby tells the host.                              *)
Join(p) ==
    /\ p \notin up /\ lobby[p] = Absent
    /\ used.joins < MaxJoins
    /\ QuickRejoin \/ Forgotten(p)
    /\ up' = up \cup {p} /\ silent' = silent \cup {p}
    /\ address' = [address EXCEPT ![p] = 2]
    /\ seq' = [seq EXCEPT ![p] = 0] /\ packet' = [packet EXCEPT ![p] = 0]
    /\ stalled' = [stalled EXCEPT ![p] = 0]
    /\ lobby' = [lobby EXCEPT ![p] = 2]
    /\ sockets' = sockets \cup {<<p, 2>>}
    /\ updates' = Append(updates, lobby')
    /\ view' = [view EXCEPT ![p] = lobby']
    /\ events' = [events EXCEPT ![p] = <<>>]
    /\ used' = [used EXCEPT !.joins = @ + 1]
    /\ UNCHANGED <<host, gone, published>>

(* A unit of time passes: everything faster than a unit has happened.      *)
Tick ==
    /\ up \cap silent = {} /\ packet = [p \in Player |-> 0]
    /\ updates = <<>> /\ gone = {} /\ published
    /\ sockets \subseteq Running
    /\ \A p \in up : events[p] = <<>>
    /\ host' = [host EXCEPT !.age = [p \in Player |-> IF @[p] = Never THEN Never
                                                      ELSE @[p] + 1]]
    /\ silent' = up /\ published' = FALSE
    /\ UNCHANGED <<up, address, seq, stalled, packet, service, gone, updates, view, events,
                   used>>

Next ==
    \/ \E D \in SUBSET Seat, R \in SUBSET host.timers, broadcast \in BOOLEAN :
          Frame(D, R, broadcast)
    \/ \E p \in Player : Input(p) \/ Stall(p) \/ Read(p) \/ Crash(p) \/ Join(p)
    \/ \E socket \in sockets : Notice(socket)
    \/ Tick

Spec == Init /\ [][Next]_vars

(* What the running programs do by themselves.  Each step uses up what     *)
(* enables it until the next Tick, so fairness to their union is enough.   *)
(* The frame is the one whose tick finds every respawn due.                *)
Progress ==
    \/ \E p \in Player : Input(p) \/ Read(p)
    \/ \E socket \in sockets : Notice(socket)
    \/ Tick
    \/ Frame({}, host.timers, ~published)

FairSpec == Spec /\ WF_vars(Progress)

-----------------------------------------------------------------------------
(* Every player of the roster can be found silent: last_input_time has it. *)
Watched == \A p \in Members(host.roster) : host.age[p] # Never

(* A player of the roster has a character or waits for one, through        *)
(* deaths, evictions and rejoins in any order.                             *)
HasBody == Members(host.roster) \subseteq Alive(host) \cup host.timers

(* A character has the join index of its player: it respawns at its own    *)
(* spawn point and wins power-ups as itself.                               *)
KeepsSlot == \A p \in Alive(host) : host.chars[p] = p

(* A running process that is in the roster and sends input, a stall        *)
(* shorter than the timeout apart, is not evicted.                         *)
SparesTheLiving ==
    [][\A p \in up : host.roster[p] = address[p] => host'.roster[p] # Absent]_vars

(* Whatever crashes, comes back and is lost on the way: the roster of the  *)
(* host comes down to processes that run, and theirs to the host's, with   *)
(* the addresses to which the next election will send its claims.          *)
RostersMeet ==
    []<>(\A p \in Members(host.roster) : p \in up /\ view[p] = host.roster)

(* _evict_player cleans up the associated state: no character is left of a *)
(* player that is no longer in the roster.                                 *)
NoGhosts == Alive(host) \subseteq Members(host.roster) \cup {Self}
=============================================================================
