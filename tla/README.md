# Distributed SMB: a TLA+ model

The repository is a peer-to-peer cooperative platform game: one player's node
is the authoritative host, the others predict locally and follow its
snapshots, and when the host dies the survivors elect a new one and go on.
This directory models the parts of it whose correctness depends on the order
in which nodes, threads, timers and messages happen to act, checks them with
TLC on small instances and proves the main invariants with TLAPS.

## 1. Inventory

| part (under `src/src/distributed_smb/`) | state it keeps | operations | hard because |
|---|---|---|---|
| failure detector and election: `application/election/`, `application/gameplay/client.py` | watcher, verify deadline, coordinator state, pending acks, followed candidate, `reconnected`, `_promotion_done` | suspect, verify, claim, ack, claim deadline, promote, reconnect, fallback probe | distributed, timers, lossy UDP, crashes at any point |
| host frame: `application/gameplay/host.py`, `events.py` | roster, last input times and sequences, cached inputs, rejoin states | drain inputs, evict, readmit, snapshot, roster broadcast | stale sequence numbers, evictions racing rejoins |
| lobby service and lobby phases: `network/lobby/service.py`, `application/lobby/coordinator.py` | sessions, connections, active set; roster, role | create, join, leave, recreate, disconnect, start, replay | broadcasts that await in the middle of a list, sessions that change host |
| prediction: `application/reconciliation/` | history of pending inputs, last snapshot sequence | predict, reconcile, replay | acknowledged sequences that go backwards after a migration |
| agents: `application/agent_integration.py`, `agents/` | two bounded queues, the last decision of each enemy and its age, who controls whom | publish perceptions, drain and age actions, stop an enemy without a decision; see, pursue | game thread and agent thread, stale and dropped messages; exact geometry |
| game events: `network/game_events/` | connections, disconnect queue | connect, broadcast, heartbeat | a list walked across awaits |
| domain engine: `domain/` | world, timers, objective | tick, deaths, respawns, gates, power-ups, victory, reset | long sequences of legal steps |
| shadow copies: `domain/shadow_copy.py` | last two snapshots of a remote player | update, interpolate | reordered snapshots |
| recovery and start-up: `application/recovery/`, `shared/session_metadata.py`, `main.py` | metadata file | write, load, probe, delete | a restart with an old file, a probe nobody answers |
| transport: `network/transport/`, `network/discovery.py` | sockets, latency heap, reconnect threads | send, receive, reconnect | threads, lossy links |
| presentation: `presentation/` | menus, camera | draw, menus | no protocol state |

What makes each part correct, in one line each:

- **host migration**: one host at a time, elected on a full quorum; no survivor
  waits for ever; nobody evicts itself or a live third party; a second crash is
  survived like the first;
- **host frame**: nobody alive is evicted, nobody in the roster is without a
  character, a character keeps its join index, the rosters come down to the
  living and agree;
- **lobby**: a join index belongs to one player, across leaves, crashes and
  migrations; a joiner is told of the start exactly when the host plays; no
  wait of a client outlives its host;
- **prediction**: an input is replayed once and only until it is acknowledged,
  the replay is bounded, and a client comes back to the states of the live host
  whatever the snapshot numbers do;
- **agents**: a decision drives an enemy only while it is recent and never after
  a newer one, no enemy starves, and an agent sees what it would see;
- **game events**: a client gets the events in order, misses none but by a
  removal, and a peer that is gone is reported to the host;
- **domain engine**: the copies of the level come to agree, an open gate stays
  open, and a promotion makes nothing true that was only predicted.

Parts interact through: UDP packets (snapshots, inputs, election, probes), one
WebSocket per node to the lobby service, one per client to the game-event
server of the host, a thread-safe disconnect queue from that server to the
host's frame, two queues between the frame and the agent thread, and direct
calls inside the 60 Hz frame of a node (`process_frame`), which is where all
state of the game changes.

## 2. Modules

| module | models | extends / uses |
|---|---|---|
| `HostMigration` | failure detection, election, promotion, reconnection | - |
| `HostSuccession` | the abstract promise of a migration | - |
| `MCHostMigration` | instances, and `HostSuccession` under the refinement mapping | `HostMigration`, `HostSuccession` |
| `HostMigrationProofs` | TLAPS proofs, for any faults and of the election under its timing, and of the refinement | `MCHostMigration` |
| `Lobby` | lobby service and lobby phases, evictions, recovery at start-up | - |
| `MCLobbySlots` | one long schedule of `Lobby` | `Lobby` |
| `LobbyProofs` | TLAPS proofs | `Lobby` |
| `HostSession` | host frame, evictions, rejoins, deaths, roster at the clients | - |
| `HostSessionProofs` | TLAPS proofs | `HostSession` |
| `Prediction` | input history, reconciliation, prediction lead, shadow copies | - |
| `PredictionProofs` | TLAPS proofs | `Prediction` |
| `World`, `MCWorld` | the level and its copies: events, snapshots, migration, new run | - |
| `WorldProofs` | TLAPS proofs | `World` |
| `AgentBridge` | queues and ages between the tick and an agent | - |
| `AgentBridgeProofs` | TLAPS proofs | `AgentBridge` |
| `EnemySight`, `MCEnemySight` | line of sight and pursuit | - |
| `EnemySightProofs` | TLAPS proofs | `EnemySight` |
| `GameEventServer` | endpoints, walks, heartbeat and brokers of the game events | - |
| `GameEventServerProofs` | TLAPS proofs | `GameEventServer` |

The modules meet at the messages and the guarantees they name. `HostMigration`
says who is host and when a client repoints; `Lobby`, `HostSession`, `World` and
`Prediction` take that as one step (`Promote`, `Reconnect`). `Lobby` admits a
slot once, which `HostSession` assumes. `GameEventServer` shows what the FIFO of
game events of the others rests on, and where it is weaker: at a removal an
event may be missed, or overtaken by a later one.

### HostMigration

A node is its join index. One variable per field of `NodeController` that the
election reads or writes (the comment at each VARIABLE gives its name), one
action per handler or timer: `EnsureElectionComponents`, `ReceiveSnapshot`,
`SuspectHost`, `HostVerifyAnswered`, `HostVerifyCancelled`, `ConfirmHostDeath`,
`ElectionTimerFires`, `ClaimDeadline`, `ReconnectionFallback`, `ReceiveUdp`
(with `OnNewHostClaim`, `OnElectionAck`, `OnReconnectionAck`),
`ReceiveGameEvent` (the same, and `OnPlayerLeft`, `MergeRoster`), `HostEvicts`,
`BroadcastRoster`; and `Crash`, `Stall`, `Resume`, `Lose` for the environment.
`PromoteToHost` and `Reconnect` are `_promote_to_host` with `_finish_promotion`,
and what `_on_reconnection_ack` does once it accepts.

Abstractions:

- one node per machine, so a node and its IP are the same;
- UDP is a set of packets that loses members; a packet is consumed when read.
  Packets for a host or a crashed node are not kept: no frame reads them;
- the game events of a client are one FIFO, bounded by `MaxInbox` (what does
  not fit is dropped), closed when the client repoints. A promotion does not
  close it: the frame that promotes a node goes on to read what is queued there
  (`InPromotionFrame`), so a host may still merge the roster of the one it
  replaced;
- a timer is an action that may fire when what it waits for has not come.
  `InTurn` and `Prompt` restrict the runs to timings the constants of
  `shared/config.py` are chosen for: all survivors detect a crash within one
  step of the stagger and a claim arrives before the next candidate's turn
  (`InTurn`); packets are faster than the 2 s claim deadline and the input
  timeout (`Prompt`). The invariants of `migration_faults` need neither;
- snapshot numbers, `session_id` (election messages do not carry one) and the
  re-registration of the lobby are not in this module; a fallback probe in the
  very frame of a promotion only clears `following` and is left out.

### HostSuccession

What a migration promises without messages and timers: a new host is elected
only when the old one is gone, nobody is elected twice, and as long as somebody
is left there is a host again. `MCHostMigration` instantiates it with `live`,
`hosts` and `elected` computed from `status` and `role`, and
`ImplementsSuccession` is checked as a property, liveness included;
its safety part, `SSafety`, is proved.

### Lobby

The service is a single asyncio loop, so a handler is atomic up to an `await`;
`todo` holds, per connection, the sends its handler still has to make, and
`Continue` makes the next one. `Handle` is the synchronous part of
`CREATE`, `JOIN`, `RECREATE`, `LEAVE` and `START`. A node is in one of the
phases `out`, `joining`, `waiting`, `starting`, `draining`, `playing`,
`electing`, which are the loops of `application/lobby/coordinator.py` and the
game itself, and `stranded`, which is one of these loops on a socket whose
service is gone; `Handshake`, `WaitForStart` and `ReadInGame` are what the loops
do with a message. A broadcast swallows the error of a closed socket and goes on
(`Continue` of a `fail`). The answer to a request is sent outside of it
(`Answer`): when that fails the handler ends, and what it had still to announce
is lost.

`Evict` is what the host's frame does about a player that is gone, at the host
and, by `PlayerLeft`, at the clients. A client then keeps the join index of that
player in `rejoin_states` (`held`), unless its character was dead at that moment,
in which case `_evict_player` has nothing to keep. A promoted host reserves the
indices of its roster and of `held` (`Reserved`). The `rejoin_states` of a host
are not in `held`: a host is never promoted again.

Abstractions:

- at most `MaxSuspended` handlers are suspended in a send at a time; 0 means that
  a handler runs to its end before a node acts (nodes act only when `Undisturbed`);
- one session and one service, which dies with the machine of its host;
- an entry is its join index, the node and the host flag. Player ids are made
  from join indices, so the second conjunct of `is_full` is always true;
- a crash of the host goes straight to a promotion of the lowest join index:
  `HostMigration` is about how. The host may crash at any time. If it does in
  the middle of a join, or before its roster broadcast has told the others of
  all its players (`HasTold`), `used.untold` counts it: from then on the promoted
  host may reserve too little, and `UniqueSlots` and `HostKnowsPlayers` promise
  nothing (section 6);
- a process joins again only when the handler of its former one has finished;
  a run outlasts the re-registration of a promoted host; the host acts in the
  lobby of a replay when the victory overlays of the others have ended;
- the relay of `INITIAL_STATE_SYNC` is left out here: it carries no roster, and
  what it does to the level is in `World`.

`cached` is the metadata file: the join index and the nodes of the roster at the
start. `Recover` is `_try_recover_session`: it probes those nodes, joins the one
that is a host in game with the cached index, and deletes the file when none
answers in time, which may also be a host that is too slow. `Join` is the menu
(no index) or the command line (the cached one), `Teardown` and `Quit` delete
the file, a crash leaves it.

### HostSession

`host` is a record of what `NodeController` and `GameEngine` keep of each player
on the host: roster, characters with their join index, respawn timers,
`_respawn_join_index`, rejoin states, last input number, time since the last
input. A `Frame` is the whole of `_process_host_frame`, as a composition of
operators on that record in the order of the code: `Readmit`, `Evict` of `Lost`,
`Hear`, `Die`, `Respawn`; its game events go to the clients in one batch.
`Input`, `Stall`, `Read`, `Crash`, `Join` are the other processes, `Notice` the
heartbeat of the game-event server, `Tick` a unit of time.

Abstractions:

- a unit of time is half of `UDP_INPUT_TIMEOUT`; frames, inputs, heartbeats and
  roster broadcasts are faster (60 Hz, 5 s against 10 s), hence the guard of
  `Tick`; a process that skips a unit does so by `Stall`, any number of times,
  and at most `MaxStalls` units in a row (`stalled`);
- all inputs of a process in a unit are one packet; numbers from `MaxSeq` on are
  not told apart and count as new;
- who dies in a frame and who is due to respawn is arbitrary;
- an address is 1 for a process that was there at the start, 2 for one that came
  through the lobby; the lobby admits a slot once, as `Lobby` has it;
- the host begins as the original host or as a promoted one, to whose server the
  survivors connect without a player id, so that their sockets report nothing;
- `QuickRejoin = FALSE`: a player is back only after the host has dropped it.
  Without that assumption `SparesTheLiving` and `RostersMeet` fail (section 6);
- positions, the content of inputs, snapshots and `InitialStateSync` are left out.

### Prediction

One client and the two hosts it has in turn. `StartFrame` and `EndFrame` are
`_process_client_frame` before and after its packets: `_run_predicted_ticks`
(no tick, one or two, as `pending_tick_adjustment` says), after the newest
`InitialStateSync` of `_drain_lobby_messages`, and `_adjust_prediction_lead`;
`Receive` is a snapshot in `_drain_snapshot_packets` with `reconcile`, and
`Reconnect` the reset of `last_snapshot_sequence` and of the lead.

Abstractions: an input is the number it was predicted for and a world state the
host and the number it comes from, so that "replayed at another tick" and
"state of the old host" can be said. UDP is the set of all numbers ever sent.
The smoothed baseline is kept in `Grain`-ths of a tick, rounded down. With the
constants of the code (a history of 60, 120 frames of calibration, a factor of
0.01, a tolerance of 3) the baseline stays within 3.6 ticks and `LeadBounded`
says that at most 7 inputs are pending, so the history never drops one that is
still to be replayed; the instance is smaller and keeps the bound below its
capacity.

### World

Each node has a `Level`: destroyed blocks, collected power-ups, enemies alive,
open gates, victory. `HostFrame` is a tick of the authoritative engine with the
events and the snapshot it sends, `PredictTick` the same engine code at a client
(`Ticked` with other inputs), `ReceiveEvent` is `_drain_game_events`,
`ReceiveSnapshot` the environment rules of `reconcile`, `HostSync` and
`ReceiveSync` the `InitialStateSync` of a rejoin, `Promote` and `Reconnect` the
two restorations from the buffered snapshot, `HostRestart`, `LeaveOverlay` and
`ClientRestart` the second run.

A client has two connections. The events come in order on the one (`inbox`), the
syncs on the other, that of the lobby (`synced`), in no order with the events, so
a sync may set a client back behind an event that it has applied. And
`replay_lobby_phase` replaces the handler of the event connection, which
`main.py` connects in the first lobby only: from the second run on a client hears
no events (`connected`), until a migration connects it again. `CaughtUp` and the
environment part of `Settles` therefore speak of connected clients and of
sessions in which nobody has rejoined; section 6 has the runs that show why.

Abstractions: who touches what in a tick is a choice (a player hits any block
that stands, and so on), so every path is included; a client predicts its own
touches only. Of the snapshots on their way to a client only the
latest one may still arrive. Gates count the collected power-ups whose id begins
with `coin-` (`Coin`). A node is promoted when it has applied all that came from
the old host: its watcher needs seconds, its frames sixty times a second. The missed event of `GameEventServer` and the two updates of
roster are not here.

### AgentBridge

`Tick` is `AgentGameIntegration.tick`: drain the requests, publish every
`Interval` ticks, drive each controlled enemy. `Poll` and `Submit` are an agent
on its own thread, which holds up to `Behaviours` perceptions and answers them
in any order. A perception is its age; ages over `MaxAge` are one value
`Expired`, which is also "no decision". Nothing in the repository connects
`SpadeRuntime` to these queues, so the agent is any user of the bridge.

### EnemySight

Integer geometry: `HasClearLine` is the parametric clipping of
`_segment_rectangle_intersection` (fractions are compared by
cross-multiplication), `VisiblePlayers` and `VisibleObstacles` are `observe`,
`Toward` is `PursuitController.decide`, `Tick` moves the enemy between its
bounds; a STOP leaves its velocity as it is, so an enemy that stands looks the
way it last walked.

Players stand on a grid. As in the game (50, 34 and a deadband of 4), a
player is wider than an enemy by more than twice the deadband, so that an enemy
may turn away from it. The contact of player and enemy is left out.

### GameEventServer

One event loop; a step is what runs between two awaits. A walk of `_broadcast`
keeps the index it has reached in the live list `_connections`, so a removal in
front of it (`Finish`) makes it skip one: `Over`, `Step`, `End`. `walks` has, for
each connection, the walks that wait on it in the order they wrote. `Heartbeat`
starts a walk of pings, `SendInProcess`, `SendToWorker`, `Post`, `PostRefused`
and `PostTimeout` are the two brokers. `Drop` is a peer that goes, `Notice` the
server seeing it, which wakes all that wait on it at once.

Abstractions: an event is its number; a dropped TCP connection delivers nothing
more; `sent` is the only thing the host does. Two facts the module shows that
the code does not say: an event whose POST is refused is not sent again, and
with the container `get_disconnected_player` is always None, since that broker
has no queue.

## 3. Runs

| run | instance | shows |
|---|---|---|
| `migration_timely` | 4 nodes, 1 crash, 2 lost announcements, designed timing, fair | `UniqueHost`, `QuorumFollows`, `ReconnectionHeeded`, `FollowEnds`, `AllRejoined`, and that the election implements `HostSuccession` |
| `migration_faults` | 3 nodes, 2 crashes, 1 stall, 1 loss of anything, echoing relay, any timing | `TypeOK`, `SelfInRoster`, `HostEntryIsRemote`, `RemoteIsHost` |
| `split_brain` (violation) | 3 nodes, 1 crash, claims out of turn | a node that gave way to a lower claimer still promotes itself at its own deadline |
| `lobby_slots` | 3 nodes, 3 joins, 2 runs, 2 crashes of anyone at any moment | `LobbyTypeOK`, `UniqueSlots`, `HostKnowsPlayers`, `RosterAgrees` |
| `lobby_waits` | 2 nodes, 2 joins, 2 runs, 1 crash, one suspended handler, fair | `StartEndsWait` |
| `host_session` | 1 player in the game, 1 more slot, 2 joins, a crash, a death, any number of stalls of one unit, fair | `Watched`, `HasBody`, `KeepsSlot`, `SparesTheLiving`, `RostersMeet` |
| `prediction` | one client, two hosts, 6 numbers, one rejoin of another player, fair | `EachInputOnce`, `LeadBounded`, `FollowsLive`, `DrawsLive` |
| `world` | 3 nodes; a block, a power-up, an enemy and a final gate that needs all three; one rejoin or one new run, a crash, departures, fair | `CaughtUp`, `GateStaysOpen`, `NoFalseProgress`, `Settles` |
| `env_diverges` (violation) | the same | after a migration the survivors' power-ups need not agree |
| `agents` | 2 enemies, queues of 2, two perceptions considered at once, fair | `NeverBackward`, `KeepsDriving`, queues within their capacity |
| `sight` | 2 players wider than the enemy, on 12 places, 2 blocks, 2 platforms, fair | `LineOfSight`, `Pursues` |
| `game_events` | 4 connections, 1 of them named, 2 events, 1 peer that goes, either broker, fair | `InOrder`, `MissesBounded`, `DeadLeave` |

Why the bounds are enough. Four nodes are the smallest session with two
survivors that both wait for the same candidate, and `MAX_PLAYERS`; three
suffice for what involves a claimer, a rival and an old host. One crash per
election is what a quorum is about, two give a crash of the candidate and a
second migration. Two lost announcements leave every follower to its fallback
probe. In the lobby three joins fill the room, refuse a player, bring one back
after a crash and let one take a freed slot; two runs give a replay; two crashes
let a player go before its host does. With three nodes and a third crash (one
run, four joins) `UniqueSlots` still holds (7,080,757 states); with four nodes
it does not, and as the search for that is long, `SlotTwice.cfg` follows a
schedule. In the host session one player can be evicted, be back, die and be
evicted again while a second one comes through the lobby; `MaxSeq = 2` tells a
number that is new from one that is not. In `prediction` six numbers hold a lead
at its bound, a migration to a lower number, and snapshots of both hosts in
either order; the hosts stop at `MaxSeq`, so what must hold in the end is judged
there. In `world` one thing of each kind is enough, since nothing in the code
relates two blocks or two power-ups but the counters of the gate. In
`game_events` four connections and one removal let a walk skip a client, wait on
a slow one with another walk behind it, and start on a list that a third has
shortened; a connection is one over the life of the server, a reconnection being
another. What they do not reach is a later walk that overtakes an earlier one,
which takes five connections in the list and one removal in front of both walks;
`InOrder` allows for it, `Overtaken.cfg` shows it (section 6), and the theorem
is for any number. In `sight` the grid puts players beside, above, behind and in
line with edges and corners of the obstacles, at distances at which the enemy
sees a player on one side and is sent to the other. In `agents` a capacity of 2
overflows, and the agent answers within one tick when it is prompt.

CHECK_DEADLOCK FALSE is said where the budgets of faults and of player actions
may be used up with nothing left to do: a session that ended is such a state.
In `host_session` time always goes on, in `sight` and `game_events` the ticks
and the heartbeat do, and deadlock is checked.

## 4. Fairness

- `HostMigration`: weak fairness of each action of a node. The frame loop runs
  at 60 Hz and drains both queues in every frame, so a timer that stays due
  fires and a packet that stays is read. None for faults, for the evictions and
  for the roster broadcasts. Liveness starts from clients that have had a
  snapshot (`WarmStart`): before the first one the watcher does not time out at
  all, which is listed as a hazard.
- `Lobby`: weak fairness of the service and of the loops that poll. None for
  what a player does (`Join`, `PressStart`, `LeaveLobby`) nor for crashes.
- `Prediction`: weak fairness of the frames and of the promotion; strong fairness
  of the reconnection, which the fallback probe repeats until it succeeds, and of
  the newest snapshot of the live host, of which there are sixty in a second.
- `World`: weak fairness of the frame of the host and of what a client's frame
  does. None for the players (who may touch nothing for ever), the crash, the
  departures and the start of a new run.
- `AgentBridge`: weak fairness of the tick and of an agent that polls and
  answers; that it answers in time is the assumption `prompt` of `KeepsDriving`.
- `EnemySight`: weak fairness of the tick.
- `GameEventServer`: weak fairness of the heartbeat, which is a loop with a
  sleep, and of the walks; strong fairness of `Notice` and `Finish`, because an
  event loop serves every task that is ready, though walks that are woken at
  once run before them. None for events.
- `HostSession`: weak fairness of the union of the steps the programs make by
  themselves (`Progress`). Each of them uses up what enables it until the next
  `Tick`, and `Tick` waits for all of them, so fairness to the union gives each
  its turn; the union is used because it keeps the check small.

## 5. Proofs

Every invariant below is proved for every value of the constants that its
module's ASSUME allows (join indices and bounds are naturals, the sets of
players nest as said, sizes are positive), and for every fault and timing unless
a further assumption is named. An invariant is seldom inductive as it stands:
each module states the strengthening it needs and has one lemma per action, or
group of handlers, that keeps it.

**`HostMigrationProofs`**: `TypeOK`, `SelfInRoster`, `HostEntryIsRemote`
and `RemoteIsHost`, for any timing and either transport. That a client never
evicts itself needs that its host flag is on its remote host. That a merged roster
keeps it so needs that every roster event it has queued comes from that host
(`InboxOK`, which is why `ClosedInbox` matters). A host, which merges what is left
of its queue in the frame of its promotion, may come to flag the host it replaced
besides itself, and no one else. That a client repoints only to a host needs that
only promoted nodes announce themselves (`NetOK`). `IInv` is the conjunction.

Its second part proves `UniqueHost`, `QuorumFollows`, `ReconnectionHeeded` and
the safety part of `ImplementsSuccession`, for any set of nodes, under `Timely`:
at most one crash, no stall, no loss but of announcements, no echoing relay, and
the timings of `InTurn`, `Prompt` and `WarmStart`. These are the assumptions of
`migration_timely`, and each of them matters: `split_brain` drops `InTurn`,
`SecondCrash.cfg` has two crashes. `ElectionInv` says where an election is. Before the
crash all clients are calm; then some have noticed; then the heir, the lowest
join index left, has claimed, and each other client still waits with the claim
on its way, or follows the heir, its ack on its way as long as the heir counts
it as pending; then the heir is host and everybody follows it or has repointed.
Nobody but the heir ever claims. For the refinement only the step to the last
phase changes the abstract state, apart from the crash.

**`LobbyProofs`**: `LobbyTypeOK`, for any number of nodes, joins, runs, crashes
and suspended handlers. What is hard in it is that a promoted host registers
under a join index it really has and that a process is in the list of
connections at most once, so that removing it takes it off. `LobbyInv` adds that
whoever is past the handshake has an index (`Indexed`), for which every admission
on its way must name one (`Sendable`, `Pending`, `Sound`); that what opens a
connection is the first request of a process that is alive and not connected yet
(`ConnectedOnce`); and that before the session is created nothing else happens
(`Untouched`). `RostersAgree` assumes `MaxSuspended = 0`: a handler of the
service runs to its end before the next one starts, as in `lobby_slots`. With
two at work, each of them sending the roster to one client after the other, the
older roster may be the last to arrive. A process that dies while its join is
answered leaves an entry that nobody is told of, so what a node shows need not be
the session: it is a roster that fits it (`Fitting`), with everybody who is
connected and nobody who has left. `RosterInv` follows an update on its way: what
is being sent is the session as it is (`Current`), the last roster in an inbox
fits, and whoever has no roster to read and none to come shows one that fits
(`Informed`), also when the handler that would announce the next one is about to
fail (`Failing`, `Silenced`).

`SlotsUnique` and `HostKnows` prove `UniqueSlots` and `HostKnowsPlayers`, for any
number of nodes, joins and runs, with `MaxSuspended = 0` and `MaxCrashes <= 1`;
both speak of sessions in which no host has crashed before its players were told
(`used.untold = 0`), and `CrashTold` is where that is used.
The invariant `SlotInv` says who holds a slot (`Holds`): from when the service
gives it, be the admission still on its way, to when the service has read that
its holder leaves. No slot has two holders (`Distinct`), the service knows each of
them, as an entry or as reserved for somebody not connected (`Secured`), and
nobody asks for a reserved slot that is held (`Rejoinable`). The hard part is the
promotion: what the promoted host reserves is what it knows from its own roster
and from the states it keeps, so the host must know all that the service had
given out when it crashes (`Aware`), and a survivor all that the host knew, which
is what it has been told (`ElectingInv`, `RecreateInv`), while nothing else is in flight (`Interregnum`).
The one crash is needed: a second host knows less than the first service did, and
from four nodes and three crashes on the property is false (`SlotTwice.cfg`).
For `HostKnows`, `OwnInv` says what a node knows of itself: whoever is connected
has a slot (`Answered`), every roster on its way names the node it is sent to
(`ServiceTells`), and a GameStart reaches a node only behind such a roster, so
that whoever plays has itself in its roster (`OwnRosters`, `SelfAware`).

**`HostSessionProofs`**: `SessionTypeOK`, `Watched`, `HasBody`, `KeepsSlot` and
`SparesTheLiving`. One lemma per stage of the frame (`ReadmitSound`,
`EvictSound`, `HearSound`, `DieSound`, `RespawnSound`) shows that the stage, as
an operator on the state of the host, keeps it `Sound`; `FrameKeeps` composes
them. For the type of the clocks the invariant adds that after the broadcasting
frame of a unit no clock is past the timeout: this is the eviction itself, and a
frame that evicted late would break it. `SlotsKept` assumes `Dying = {}`, nobody
dead in the snapshot the host began from, and needs that the stored index of
everyone who waits for a respawn is its own. `LivingSpared` assumes
`~QuickRejoin` and `MaxStalls < Timeout`: a process that is silent for longer is
evicted by design, and a quick rejoin is the divergence of section 6. Its
`LivingInv` says that a packet not yet drained is newer than what the host heard
(`Numbered`), that no event about a former process of a player is left once the
player runs again (`Unreported`), and that the clock of a live player counts the
units in which it has stalled (`Heeded`).

**`PredictionProofs`**: `PredictionTypeOK`, `LeadBounded` and `EachInputOnce`.
The bound is not inductive: a history at its bound could grow in the next frame.
The invariant adds that the baseline has moved by at most a tolerance in each
frame of the calibration so far (`BaselineBounded`), and that between two frames
the lead with the tick that is owed is within the tolerance of the baseline, or
the next frame predicts nothing (`OwedTick`): a frame adds one tick to that, a
snapshot only takes inputs away. That the baseline never falls below zero, though
a quotient rounded down is added to it, needs that a deviation is never below
minus the baseline (`Quotient`). `InputsOnce` rests on that bound: it assumes
`HistoryFits`, that the history holds the bounded lead, since a history that
overflows drops inputs that are not acknowledged. With the constants of
`shared/config.py` the lead is at most 7.6 ticks and the history holds 60. Like
the property, it is about one host and no rejoin (`OnceInv`); `StaleReplay.cfg`
shows what a rejoin does.

**`WorldProofs`**: `WorldTypeOK`, `CaughtUp`, `GateStaysOpen` and `NoFalseProgress`,
for any level and any number of nodes, runs and rejoins. `CaughtUp` speaks of a
client that has its event connection and has read all its events, as long as
nobody rejoined, so that no sync is on its way (`SyncInv`). Its invariant
(`CaughtInv`) speaks of one that has events to read: what they will make of the
client's level (`Reaches`: it is held or added, and no reset behind that clears
it) is for power-ups exactly what the host holds and for blocks at least that. `GateInv`
says that open gates have their requirements met, at the host and in every
snapshot that a new host may resume from; `ProgressInv` that in the first run no
snapshot is ahead of the host it came from.

**`AgentBridgeProofs`**: `BridgeTypeOK`, with the capacity of both queues, and
`NeverBackward`. It needs that the decision kept for an enemy is never staler
than the newest that has driven it (`LatestIsNewest`); that the answer taken from
a batch is the least stale one is `AcceptedIsBest`.

**`GameEventServerProofs`**: `MissesBounded`, for any number of connections and
events. A walk that is under way has so many clients behind it that did not get
the event (`Behind`), and those are no more than the removals since it began: a
removal in front of the walk moves one client past it, and a client that comes
is appended where the walk will still come. It needs that a connection is listed
once (`PeersInv`) and that an event is never walked twice (`SupplyInv`).
`EventsInOrder` proves `InOrder` for any number of connections, removals and
events. As long as no connection is removed during the walk of an event, that walk
stands where its index says (`Places`) and every later one is behind it, or waits
in its turn on the same connection (`NoneOvertakes`), so whom it has still to
reach has got nothing later (`EarlierAhead`); what is not yet walked is later than
all that is (`LaterWaits`). After a removal a later walk may pass, which the
property allows; that nobody is written an event twice holds all the same, since
no walk comes back to a connection and an event is walked once (`WalkedOnce`).

**`EnemySightProofs`**: `LineOfSight`, for any level of integer places, blocks and
platforms (`LevelAssumption`) and any number of players. The code clips the
parameters of the segment to the strips that the rectangle makes of x and of y,
one border after the other, and looks whether any are left
(`_segment_rectangle_intersection`). The property compares coordinates, and on
which sides of the line of the segment the corners of the rectangle are.
`CrossedStrip` and `AlongStrip` settle a segment along an axis, `CornerSide` and
`SlantedSight` one that is slanted: the four corners are on one side of its line,
or it ends before it comes to the strip of the obstacle. The products of
variables are kept in lemmas of two or three facts each (`Scaled`, `Divided`,
`Signed`), and `SightIsGeometry` puts the cases together.

Every invariant and action property that a run checks is stated by a theorem,
under the assumptions named above. Only model-checked:

- every liveness property (`FollowEnds`, `AllRejoined`, the fair part of
  `ImplementsSuccession`, `StartEndsWait`, `RostersMeet`, `FollowsLive`,
  `DrawsLive`, `Settles`, `KeepsDriving`, `Pursues`, `DeadLeave`): liveness under
  fairness and ENABLED are out of the prover's reach;
- `UniqueSlots` and `HostKnowsPlayers` with two crashes (`lobby_slots`): the
  theorems assume one at most.

No module has RECURSIVE operators.

## 6. Findings

Each violation run states what a comment, a docstring or a test of the
repository says, and its trace is the way the code departs from it; PROJECT.json
quotes both.

- `split_brain`: a candidate that gave way to a lower claimer keeps its own
  claim pending and may still become host.
- `env_diverges`: `_resync_environment_from_buffer` is to realign a survivor with
  the rest, but copies its own buffered snapshot; two survivors whose last
  snapshots differ keep different power-ups.

Twelve more configurations are kept to be run by hand; each finds a
counterexample of one property within a few minutes:

| configuration | module | property | the trace shows |
|---|---|---|---|
| `SecondCrash.cfg` | `MCHostMigration` | `ReconnectionHeeded` | `reconnected` is never cleared: the announcement of the second new host is ignored |
| `RejoinRefused.cfg` | `Lobby` | `RejoinAdmitted` | while its host lives, a crashed client cannot reclaim its slot |
| `ClosedRoom.cfg` | `Lobby` | `ClosedEndsWait` | after a migration the followers are unknown to the new service and wait for ever when it closes |
| `SlotTwice.cfg` | `MCLobbySlots` | `UniqueSlots` | with four nodes and three crashes two players of a session have the same join index (below) |
| `LeftBehind.cfg` | `HostSession` | `NoGhosts` | a respawn timer outlives the eviction: a character without an owner |
| `UntoldCrash.cfg` | `Lobby` | `SlotsDiffer` | a host crashes before it tells the others of a player that joined its game: the promoted one does not reserve the slot, and it is given twice |
| `TwoFlags.cfg` | `MCHostMigration` | `HostFlagsItself` | in the frame of its promotion a node merges a queued roster of the old host, and flags it as a host besides itself for good |
| `SyncSetsBack.cfg` | `MCWorld` | `SyncedUp` | an `InitialStateSync` is applied after a later game event and takes back what the event did |
| `ReplayDeaf.cfg` | `MCWorld` | `ReplayedUp` | after a replay a client gets no game events: its event connection is not made again |
| `Overtaken.cfg` | `GameEventServer` | `NoneOvertaken` | with five connections a removal takes a later walk past an earlier one: a client gets two events in the wrong order |
| `TurnedAway.cfg` | `MCEnemySight` | `Reaches` | beside a player that is wider than it an enemy sees its center on one side and is sent to its left edge on the other, turns its back, loses it and stands still short of it |
| `StaleReplay.cfg` | `Prediction` | `ReplaysSameNumbers` | after an `InitialStateSync` the numbers of the history have a gap for good, so inputs are replayed at other ticks than their own |

Changes of a constant that show a limit, also by hand:

- `MaxCrashes = 2` and three nodes in `MigrationTimely.cfg`: `FollowEnds` fails,
  a follower of a candidate that dies before its promotion follows it for ever;
- `Dying = {1}` in `HostSession.cfg`: `KeepsSlot` fails, a player that was dead at
  the migration respawns with join index 0;
- `QuickRejoin = TRUE` there: `RostersMeet` fails, and with `MaxSeq = 3` or more
  `SparesTheLiving` too; a
  reconnection within the timeout is also reported as a disconnection, since the
  old socket is found dead later than the new one opened;
- `Capacity = 3`, `Delay = 2` in `AgentBridge.cfg`: `KeepsDriving` fails, two
  enemies can starve one another when more is published while an agent
  considers its answer than the queue holds;
- `MaxSuspended = 1` in `LobbySlots.cfg`: `RosterAgrees` fails, of two rosters on
  their way the older one arrives last.

`Pursues` is what is left of `Reaches`: an enemy that has seen a player ends up as
near to one as the deadband or half the difference of the widths, whichever is
more, unless its bound stops it or something hides the player.

In `SlotTwice.cfg` a character that is dead when its player is evicted leaves no
`rejoin_states` entry (`events.py:43`), so the promoted host does not reserve its
slot and a newcomer gets it. After one more migration the newcomer plays on
without an entry in the new service, its slot is reserved for whoever asks for it
by its index, and its former holder does. `election/mixin.py:86` drops a claim
with the own index because "join_index is unique per session".

`MissesBounded` is what holds of the events a live client misses; that it
misses none is false with a single removal.

## 7. Not modelled

Left out for good: rendering, menus, level files, JSON encoding, the sockets and
threads of the transport (their guarantees are assumed), Docker containers,
floating-point physics and interpolation, and the SPADE runtime, whose queues
nothing in the game is connected to.

Smaller things: `HostGameplayMixin` defines `_check_for_rejoining_players`
twice; the first (lines 96-123) is shadowed by the second, which is the one
modelled. `_relaunch_lobby_for_rejoin` runs in a thread and replaces
`ws_handler` under the frame loop: an update read from the old handler in that
moment is lost, which `Lobby` does not show since the old service is dead by
then. A client whose game-event connection is refused at a reconnection gets no
second try: the thread that was to connect in the background
(`node_controller.py:430`) ends with the refusal; `World` takes the connection
as made. `attempt_recovery` is called by tests only. Keyboard toggles of the
simulated latency and packet loss, frame statistics and logs change nothing that
a property is about.

## 8. Plan

The components with protocol state are modelled. What could be added:

1. the missed or overtaken event of `GameEventServer` in `World` (a client that keeps a block
   until the next new run) and the relay of `INITIAL_STATE_SYNC` in `Lobby`;
2. a composition of `Lobby` and `HostSession`, to discharge the assumption that
   the lobby admits a slot once;
3. `migration_timely` with a second crash, once `reconnected` is cleared.

What the proofs could gain: `UniqueSlots` for two crashes, where the second host
knows the slots of the first only as far as they were reserved.
