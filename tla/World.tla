-------------------------------- MODULE World --------------------------------
(***************************************************************************)
(* The shared level and its copies: blocks, power-ups, enemies, gates and  *)
(* victory in the engine of every node (domain/game_engine.py), the game   *)
(* events and snapshots that carry them from the host to the clients       *)
(* (application/gameplay), their restoration at a migration and their      *)
(* reset for a new run.                                                    *)
(*                                                                         *)
(* Positions are left out: who touches what in a tick is a choice, so      *)
(* every path of the players is among the behaviours.  The game-event      *)
(* server keeps the order of what the host posts, one connection at a      *)
(* time; the InitialStateSync of a rejoin goes over the lobby connection,  *)
(* in no order with the game events; of the snapshots on their way to a    *)
(* client only the latest may still arrive, the others are lost.           *)
(***************************************************************************)
EXTENDS Integers, Sequences, FiniteSets, SequencesExt

CONSTANTS
    Node,           \* the players' processes
    FirstHost,      \* the one that created the session
    Block,          \* destructible_blocks of the level
    PowerUp,        \* power_ups
    Coin,           \* those whose powerup_id begins with coin-
    Enemy,          \* enemies
    Gate,           \* cooperative_gates
    Final,          \* the gates with is_final
    Needs,          \* for each gate its coins, blocks and enemies_required
    Nothing,        \* no snapshot
    MaxChanges,     \* the new runs and the rejoins of a session
    MaxTogether     \* a new run is played by no more nodes than this

ASSUME NodeAssumption == FirstHost \in Node
ASSUME LevelAssumption ==
    /\ Final \subseteq Gate /\ Coin \subseteq PowerUp
    /\ Needs \in [Gate -> [coins : Nat, blocks : Nat, enemies : Nat]]
    /\ IsFiniteSet(Block) /\ IsFiniteSet(PowerUp) /\ IsFiniteSet(Enemy) /\ IsFiniteSet(Gate)
ASSUME BoundAssumption == {MaxChanges, MaxTogether} \subseteq Nat

Client == Node \ {FirstHost}
(* What an engine holds of the level: destroyed blocks, collected          *)
(* power-ups, enemies alive, open gates.                                   *)
Level == [destroyed : SUBSET Block, collected : SUBSET PowerUp,
          enemies : SUBSET Enemy, open : SUBSET Gate, victory : BOOLEAN]

ASSUME NothingAssumption == Nothing \notin Level

(* load_level. *)
Fresh == [destroyed |-> {}, collected |-> {}, enemies |-> Enemy, open |-> {},
          victory |-> FALSE]

VARIABLES
    world,      \* of each node engine.world_state
    host,       \* the node whose engine is authoritative
    phase,      \* of each node: it plays, waits for a replay, or has crashed
    unsent,     \* the host's engine.events hold a LevelResetEvent
    inbox,      \* of each node the game events it is still to apply
    synced,     \* of each node the InitialStateSyncs on its lobby connection
    snapshot,   \* of each client the snapshot on its way to it
    buffered,   \* of each client its env_state_buffer
    following,  \* of each client the host it is a client of
    connected,  \* of each client whether its game_event_handler is connected
    started,    \* of each client a GameStart on its lobby connection
    runs,       \* the runs begun
    rejoined    \* the players that rejoined

net == <<inbox, snapshot, synced>>
links == <<following, connected>>
vars == <<world, host, phase, unsent, net, buffered, links, started, runs, rejoined>>

-----------------------------------------------------------------------------
(* The engine. *)

(* Counting the enemies that are left. *)
MetBug(level, g) ==
    /\ Cardinality(level.collected \intersect Coin) >= Needs[g].coins
    /\ Cardinality(level.destroyed) >= Needs[g].blocks
    /\ Cardinality(level.enemies) >= Needs[g].enemies

(* _sync_objective_progress_from_environment and the requirements of a     *)
(* gate: the counters are recounted from the level in every tick.          *)
Met(level, g) ==
    /\ Cardinality(level.collected \intersect Coin) >= Needs[g].coins
    /\ Cardinality(level.destroyed) >= Needs[g].blocks
    /\ Cardinality(Enemy \ level.enemies) >= Needs[g].enemies

(* Who may be touched, wherever the players go: a block that still stands, *)
(* a power-up that is still there, an enemy that is alive.                 *)
Bumpable(level)  == SUBSET (Block \ level.destroyed)
Touchable(level) == SUBSET (PowerUp \ level.collected)
Beatable(level)  == SUBSET level.enemies

HitBlocks(level, bumped) == [level EXCEPT !.destroyed = @ \union bumped]
Collect(level, touched)  == [level EXCEPT !.collected = @ \union touched]
Beat(level, beaten)      == [level EXCEPT !.enemies = @ \ beaten]
UpdateGates(level)       == [level EXCEPT !.open = {g \in Gate : Met(level, g)}]
Win(level, reached)      == [level EXCEPT !.victory = level.open \intersect reached # {}]

(* tick of the authoritative engine.  A won game stands still. *)
Ticked(level, bumped, touched, beaten, reached) ==
    IF level.victory THEN level
    ELSE Win(UpdateGates(Beat(Collect(HitBlocks(level, bumped), touched), beaten)), reached)

(* tick of another engine: blocks and gates only. *)
Predicted(level, bumped) ==
    IF level.victory THEN level ELSE UpdateGates(HitBlocks(level, bumped))

(* The events of a tick, in the order of the tick. *)
Events(before, after) ==
    LET Of(type, ids) ==
            SetToSeq({[type |-> type, id |-> i] : i \in ids})
    IN     Of("block", after.destroyed \ before.destroyed)
        \o Of("power_up", after.collected \ before.collected)
        \o Of("opened", after.open \ before.open)
        \o Of("closed", before.open \ after.open)

LevelReset == [type |-> "reset"]

(* With the queue of the reset behind the one of the tick. *)
QueuedBug(before, after) ==
    Events(before, after) \o (IF unsent THEN <<LevelReset>> ELSE <<>>)

(* engine.events after the tick of a host frame. *)
Queued(before, after) ==
    (IF unsent THEN <<LevelReset>> ELSE <<>>) \o Events(before, after)

(* _drain_game_events, one message. *)
Applied(level, e) ==
    CASE e.type = "block"    -> [level EXCEPT !.destroyed = @ \union {e.id}]
      [] e.type = "power_up" -> [level EXCEPT !.collected = @ \union {e.id}]
      [] e.type = "opened"   -> [level EXCEPT !.open = @ \union {e.id}]
      [] e.type = "closed"   -> [level EXCEPT !.open = @ \ {e.id}]
      [] e.type = "reset"    -> Fresh

(* The whole environment is kept. *)
ReconciledBug(level, shot) ==
    [shot EXCEPT !.destroyed = level.destroyed, !.collected = level.collected,
                 !.open = level.open, !.enemies = level.enemies]

(* reconcile before the replay: the snapshot, with the environment of this *)
(* client except for the enemies.                                          *)
Reconciled(level, shot) ==
    [shot EXCEPT !.destroyed = level.destroyed, !.collected = level.collected,
                 !.open = level.open]

-----------------------------------------------------------------------------
Init ==
    /\ world = [n \in Node |-> Fresh]
    /\ host = FirstHost
    /\ phase = [n \in Node |-> "playing"]
    /\ unsent = FALSE
    /\ inbox = [n \in Node |-> <<>>]
    /\ synced = [n \in Node |-> <<>>]
    /\ snapshot = [n \in Node |-> Nothing]
    /\ buffered = [n \in Node |-> Nothing]
    /\ following = [n \in Node |-> FirstHost]
    /\ connected = [n \in Node |-> TRUE]
    /\ started = [n \in Node |-> FALSE]
    /\ runs = 1
    /\ rejoined = 0

Alive == {n \in Node : phase[n] # "crashed"}
Follows(n) == n \in Alive \ {host} /\ following[n] = host
Listening(n) == Follows(n) /\ connected[n]

(* The game-event server gives a message to every connection that a client *)
(* still reads.                                                            *)
Broadcast(messages) ==
    inbox' = [n \in Node |-> IF Listening(n) THEN inbox[n] \o messages ELSE inbox[n]]

(* A host frame: tick, publish the events, send the snapshot to the roster.*)
HostFrame ==
    /\ phase[host] = "playing"
    /\ \E bumped \in Bumpable(world[host]),
          touched \in Touchable(world[host]),
          beaten \in Beatable(world[host]),
          reached \in SUBSET Final :      \* the final gates that players touch
         LET after == Ticked(world[host], bumped, touched, beaten, reached)
         IN  /\ world' = [world EXCEPT ![host] = after]
             /\ Broadcast(Queued(world[host], after))
             /\ snapshot' = [n \in Node |-> IF n \in Alive \ {host} THEN after ELSE snapshot[n]]
    /\ unsent' = FALSE
    /\ UNCHANGED <<host, phase, synced, buffered, links, started, runs, rejoined>>

(* Somebody rejoins: the lobby service broadcasts the InitialStateSync of  *)
(* the host to every client.  The copy of the rejoiner is not followed.    *)
HostSync ==
    /\ phase[host] = "playing"
    /\ Alive # Node
    /\ runs + rejoined <= MaxChanges
    /\ rejoined' = rejoined + 1
    /\ synced' = [n \in Node |->
                    IF Follows(n)
                    THEN Append(synced[n], [world |-> world[host], sent |-> snapshot[n]])
                    ELSE synced[n]]
    /\ UNCHANGED <<world, host, phase, unsent, inbox, snapshot, buffered, links, started, runs>>

-----------------------------------------------------------------------------
(* A client frame: predicted ticks, snapshots, events.  Any of them may    *)
(* find nothing to do, so they are actions of their own.                   *)

PredictTick(n) ==
    /\ n # host /\ phase[n] = "playing"
    /\ \E bumped \in Bumpable(world[n]) :
         world' = [world EXCEPT ![n] = Predicted(@, bumped)]
    /\ UNCHANGED <<host, phase, unsent, net, buffered, links, started, runs, rejoined>>

(* _drain_lobby_messages: the sync replaces the world, and a snapshot that *)
(* was sent before it is refused from now on.                              *)
ReceiveSync(n) ==
    /\ n # host /\ phase[n] = "playing"
    /\ synced[n] # <<>>
    /\ LET sync == Head(synced[n])
       IN  /\ world' = [world EXCEPT ![n] = sync.world]
           /\ snapshot' = [snapshot EXCEPT ![n] = IF @ = sync.sent THEN Nothing ELSE @]
    /\ synced' = [synced EXCEPT ![n] = Tail(@)]
    /\ UNCHANGED <<host, phase, unsent, inbox, buffered, links, started, runs, rejoined>>

(* A snapshot is reconciled, and the pending inputs are replayed on it.    *)
ReceiveSnapshot(n) ==
    /\ n # host /\ phase[n] = "playing"
    /\ snapshot[n] # Nothing
    /\ LET base == Reconciled(world[n], snapshot[n])
       IN  \/ world' = [world EXCEPT ![n] = base]
           \/ \E bumped \in Bumpable(base) :
                world' = [world EXCEPT ![n] = Predicted(base, bumped)]
    /\ buffered' = [buffered EXCEPT ![n] = snapshot[n]]
    /\ snapshot' = [snapshot EXCEPT ![n] = Nothing]
    /\ UNCHANGED <<host, phase, unsent, inbox, synced, links, started, runs, rejoined>>

ReceiveEvent(n) ==
    /\ n # host /\ phase[n] = "playing"
    /\ inbox[n] # <<>>
    /\ world' = [world EXCEPT ![n] = Applied(@, Head(inbox[n]))]
    /\ inbox' = [inbox EXCEPT ![n] = Tail(@)]
    /\ UNCHANGED <<host, phase, unsent, snapshot, synced, buffered, links, started, runs, rejoined>>

-----------------------------------------------------------------------------
(* The next run. *)

(* The victory overlay ends.  A client leaves it only while the host is in *)
(* the same victory: one that is later drops the GameStart.                *)
LeaveOverlay(n) ==
    /\ phase[n] = "playing"
    /\ world[n].victory /\ world[host].victory
    /\ host \in Alive
    /\ runs + rejoined <= MaxChanges /\ Cardinality(Alive) <= MaxTogether
    /\ phase' = [phase EXCEPT ![n] = "waiting"]
    /\ UNCHANGED <<world, host, unsent, net, buffered, links, started, runs, rejoined>>

(* replay_lobby_phase at the host: GameStart and reset_for_new_run.  A     *)
(* client that is still in its overlay drops the GameStart and plays on;   *)
(* one that waits has dropped the syncs before it.                         *)
HostRestart ==
    /\ phase[host] = "waiting"
    /\ phase' = [phase EXCEPT ![host] = "playing"]
    /\ started' = [n \in Node |-> Follows(n) /\ phase[n] = "waiting"]
    /\ synced' = [n \in Node |-> IF phase[n] = "waiting" THEN <<>> ELSE synced[n]]
    /\ world' = [world EXCEPT ![host] = Fresh]
    /\ unsent' = TRUE
    /\ runs' = runs + 1
    /\ UNCHANGED <<host, inbox, snapshot, buffered, links, rejoined>>

(* replay_lobby_phase at a client.  _rebuild_world_from_roster replaces    *)
(* its game_event_handler, which only the first lobby connects.            *)
ClientRestart(n) ==
    /\ phase[n] = "waiting" /\ started[n]
    /\ phase' = [phase EXCEPT ![n] = "playing"]
    /\ started' = [started EXCEPT ![n] = FALSE]
    /\ world' = [world EXCEPT ![n] = Fresh]
    /\ connected' = [connected EXCEPT ![n] = FALSE]
    /\ inbox' = [inbox EXCEPT ![n] = <<>>]
    /\ UNCHANGED <<host, unsent, snapshot, synced, buffered, following, runs, rejoined>>

-----------------------------------------------------------------------------
(* Migration. *)

(* The first host crashes while nobody waits for a replay; what was still  *)
(* on its way through its game-event server and its lobby is lost.         *)
Crash ==
    /\ host = FirstHost /\ host \in Alive
    /\ \A n \in Node : phase[n] # "waiting"
    /\ phase' = [phase EXCEPT ![host] = "crashed"]
    /\ LET arrived == UNION {Prefixes(inbox[n]) : n \in Node}
       IN  inbox' \in {q \in [Node -> arrived] : \A n \in Node : IsPrefix(q[n], inbox[n])}
    /\ LET arrived == UNION {Prefixes(synced[n]) : n \in Node}
       IN  synced' \in {q \in [Node -> arrived] : \A n \in Node : IsPrefix(q[n], synced[n])}
    /\ unsent' = FALSE
    /\ UNCHANGED <<world, host, snapshot, buffered, links, started, runs, rejoined>>

(* A client quits or crashes.  What a dead process held is nobody's.       *)
Quit(n) ==
    /\ n \in Client \ {host} /\ phase[n] = "playing"
    /\ phase' = [phase EXCEPT ![n] = "crashed"]
    /\ world' = [world EXCEPT ![n] = Fresh]
    /\ inbox' = [inbox EXCEPT ![n] = <<>>]
    /\ synced' = [synced EXCEPT ![n] = <<>>]
    /\ snapshot' = [snapshot EXCEPT ![n] = Nothing]
    /\ buffered' = [buffered EXCEPT ![n] = Nothing]
    /\ following' = [following EXCEPT ![n] = FirstHost]
    /\ connected' = [connected EXCEPT ![n] = FALSE]
    /\ UNCHANGED <<host, unsent, started, runs, rejoined>>

(* The environment of the client is kept, as by a snapshot. *)
PromoteKeepsBug(n) ==
    /\ host \notin Alive
    /\ n \in Alive /\ buffered[n] # Nothing
    /\ inbox[n] = <<>> /\ synced[n] = <<>>
    /\ world' = [world EXCEPT ![n] = Reconciled(@, buffered[n]), ![host] = Fresh]
    /\ host' = n
    /\ following' = [following EXCEPT ![n] = n]
    /\ snapshot' = [snapshot EXCEPT ![n] = Nothing]
    /\ buffered' = [buffered EXCEPT ![n] = Nothing]
    /\ UNCHANGED <<phase, unsent, inbox, synced, connected, started, runs, rejoined>>

(* Without a look at the buffer. *)
PromoteEmptyBug(n) ==
    /\ host \notin Alive
    /\ n \in Alive
    /\ inbox[n] = <<>> /\ synced[n] = <<>>
    /\ world' = [world EXCEPT ![n] = buffered[n], ![host] = Fresh]
    /\ host' = n
    /\ following' = [following EXCEPT ![n] = n]
    /\ snapshot' = [snapshot EXCEPT ![n] = Nothing]
    /\ buffered' = [buffered EXCEPT ![n] = Nothing]
    /\ UNCHANGED <<phase, unsent, inbox, synced, connected, started, runs, rejoined>>

(* _promote_to_host of a survivor, which has had a snapshot: without one   *)
(* its timeout watcher never fires.  In the seconds before it fired the    *)
(* frames have applied all that came from the old host.                    *)
Promote(n) ==
    /\ host \notin Alive
    /\ n \in Alive /\ buffered[n] # Nothing
    /\ inbox[n] = <<>> /\ synced[n] = <<>>
    /\ world' = [world EXCEPT ![n] = buffered[n], ![host] = Fresh]
    /\ host' = n
    /\ following' = [following EXCEPT ![n] = n]
    /\ snapshot' = [snapshot EXCEPT ![n] = Nothing]
    /\ buffered' = [buffered EXCEPT ![n] = Nothing]
    /\ UNCHANGED <<phase, unsent, inbox, synced, connected, started, runs, rejoined>>

(* _on_reconnection_ack of another survivor, in a client frame: it has new *)
(* connections, the messages of the old host are dropped, and its own      *)
(* buffer is put over the environment.                                     *)
Reconnect(n) ==
    /\ {n, host} \subseteq Alive /\ phase[n] = "playing"
    /\ following[n] # host
    /\ following' = [following EXCEPT ![n] = host]
    /\ connected' = [connected EXCEPT ![n] = TRUE]
    /\ inbox' = [inbox EXCEPT ![n] = <<>>]
    /\ synced' = [synced EXCEPT ![n] = <<>>]
    /\ IF buffered[n] = Nothing THEN UNCHANGED world
       ELSE world' = [world EXCEPT ![n] = [buffered[n] EXCEPT !.enemies = world[n].enemies,
                                                              !.victory = world[n].victory]]
    /\ UNCHANGED <<host, phase, unsent, snapshot, buffered, started, runs, rejoined>>

ClientStep(n) ==
    \/ PredictTick(n)
    \/ ReceiveSync(n)
    \/ ReceiveSnapshot(n)
    \/ ReceiveEvent(n)
    \/ ClientRestart(n)

Next ==
    \/ HostFrame
    \/ HostSync
    \/ HostRestart
    \/ Crash
    \/ \E n \in Node :
         \/ ClientStep(n)
         \/ LeaveOverlay(n)
         \/ Quit(n)
         \/ Promote(n)
         \/ Reconnect(n)

Spec == Init /\ [][Next]_vars

(* The frame loops of the living processes go on. *)
FairSpec ==
    /\ Spec
    /\ WF_vars(HostFrame)
    /\ \A n \in Client :
         /\ WF_vars(PredictTick(n))
         /\ WF_vars(ReceiveSync(n))
         /\ WF_vars(ReceiveSnapshot(n))
         /\ WF_vars(ReceiveEvent(n))
         /\ WF_vars(ClientRestart(n))
         /\ WF_vars(Reconnect(n))

-----------------------------------------------------------------------------
Message ==
    [type : {"block"}, id : Block] \union [type : {"power_up"}, id : PowerUp]
        \union [type : {"opened", "closed"}, id : Gate]
        \union {LevelReset}
Sync == [world : Level, sent : Level \union {Nothing}]

(* The types of the level, its copies and what travels between them. *)
WorldTypeOK ==
    /\ world \in [Node -> Level]
    /\ host \in Node
    /\ phase \in [Node -> {"playing", "waiting", "crashed"}]
    /\ unsent \in BOOLEAN
    /\ inbox \in [Node -> Seq(Message)]
    /\ synced \in [Node -> Seq(Sync)]
    /\ {snapshot, buffered} \subseteq [Node -> Level \union {Nothing}]
    /\ following \in [Node -> Node]
    /\ {connected, started} \subseteq [Node -> BOOLEAN]
    /\ runs \in Nat /\ rejoined \in 0..MaxChanges

(* What a client in the game holds of the level of the first host, once    *)
(* no event is on its way to it.                                           *)
Idle(n) == /\ host = FirstHost /\ host \in Alive /\ ~unsent
           /\ Follows(n) /\ phase[n] = "playing" /\ inbox[n] = <<>>
InStep(n) == /\ world[n].collected = world[host].collected
             /\ world[host].destroyed \subseteq world[n].destroyed

(* Under the first host, a client whose event connection is the one of the *)
(* first lobby and that has applied every game event has exactly the       *)
(* power-ups of the host collected and at least its blocks destroyed,      *)
(* whatever it predicted and through a reset that it plays on in, as long  *)
(* as nobody rejoined: the events of _send_game_event and the order of     *)
(* _drain_game_events.                                                     *)
CaughtUp == \A n \in Node : Idle(n) /\ connected[n] /\ rejoined = 0 => InStep(n)

(* The same of a client that has also applied every InitialStateSync.  It  *)
(* fails: the sync of the lobby connection is applied after a later event  *)
(* of the event connection (_drain_lobby_messages).                        *)
SyncedUp == \A n \in Node : Idle(n) /\ connected[n] /\ synced[n] = <<>> => InStep(n)

(* The same of a client after a replay.  It fails: the game_event_handler  *)
(* that replay_lobby_phase makes is never connected.                       *)
ReplayedUp == \A n \in Node : Idle(n) /\ rejoined = 0 => InStep(n)

(* Within a run an open gate never closes again at the host, although      *)
(* handle_gate_collisions recomputes it in every tick: not even in the     *)
(* first ticks of a new host, on counters it did not count itself.         *)
GateStaysOpen ==
    [][host' = host /\ runs' = runs => world[host].open \subseteq world'[host].open]_vars

(* A promotion in the first run resumes from a level that the old host had *)
(* been through: nothing that the promoted client only predicted becomes   *)
(* authoritative (bootstrap_from_snapshot).                                *)
NoFalseProgress ==
    [][host' # host /\ runs = 1 =>
         LET new == world'[host']
             old == world[host]
         IN  /\ new.destroyed \subseteq old.destroyed
             /\ new.collected \subseteq old.collected
             /\ old.enemies \subseteq new.enemies
             /\ new.open \subseteq old.open]_vars

(* A gate that a client had closed again before the victory stays closed   *)
(* in its frozen world.                                                    *)
Agrees(n) ==
    /\ world[n].enemies = world[host].enemies
    /\ world[n].victory = world[host].victory
    /\ host = FirstHost /\ connected[n] /\ rejoined = 0 =>
         /\ InStep(n)
         /\ world[host].victory \/ world[host].open \subseteq world[n].open

(* While both play, each client settles on the enemies and the victory of  *)
(* its host and, as long as nobody migrated or rejoined and it has the     *)
(* event connection of the first lobby, on its power-ups, blocks and       *)
(* gates: local ticks that close a gate again, snapshots older than the    *)
(* events and a victory of the last run are all overcome.                  *)
Settles ==
    \A n \in Client :
        <>[](phase[host] = "playing" /\ n # host /\ phase[n] = "playing" => Agrees(n))

(* client.py:240, of a client that follows a new host: "Realign blocks,    *)
(* power-ups and gates with the rest of the survivors."                    *)
SurvivorsAgree ==
    \A n \in Node :
        host \in Alive \ {FirstHost} /\ rejoined = 0 /\ Listening(n) /\ ~unsent
          /\ phase[n] = "playing" /\ inbox[n] = <<>> =>
            world[n].collected = world[host].collected
=============================================================================
