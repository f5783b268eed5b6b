---------------------------- MODULE HostMigration ----------------------------
(***************************************************************************)
(* Host failure detection, leader election and promotion: what the client  *)
(* frames (gameplay/client.py, election/mixin.py, election/coordinator.py) *)
(* and the host frames (gameplay/host.py, gameplay/events.py) of the nodes *)
(* of one session do to each other when the host stops answering.          *)
(*                                                                         *)
(* A node is its join index, on a machine (an IP) of its own.  UDP packets *)
(* are a set that may lose a member; game events travel over one FIFO      *)
(* WebSocket per client, `ws`.  A timer is an action that may fire once    *)
(* what it waits for has not come; the constants InTurn and Prompt say     *)
(* that the timers also keep the order their durations are chosen for.     *)
(***************************************************************************)
EXTENDS Naturals, Sequences, FiniteSets

CONSTANTS
    Node,        \* join indices of the session's players
    FirstHost,   \* the node that created the session
    NoNode,      \* None of Python
    MaxCrashes,  \* bound: nodes that may crash (fail-stop)
    MaxStalls,   \* bound: times a node may freeze past every timeout
    MaxLost,     \* bound: UDP packets lost
    Losable,     \* the types of packet the network may lose
    MaxInbox,    \* bound: game events queued at one client
    Relay,       \* a game-event server outlives its host's process (Docker)
    InTurn,      \* all detect the crash, and claim, in the staggered order
    Prompt,      \* packets are faster than the claim and input timeouts
    WarmStart    \* every client has had a snapshot before the first fault

MsgTypes == {"claim", "ack", "reconnection"}

ASSUME NodeAssumption == /\ Node \subseteq Nat
                         /\ FirstHost \in Node
                         /\ NoNode \notin Node
ASSUME BoundAssumption == /\ {MaxCrashes, MaxStalls, MaxLost, MaxInbox} \subseteq Nat
                          /\ Losable \subseteq MsgTypes
                          /\ {Relay, InTurn, Prompt, WarmStart} \subseteq BOOLEAN

VARIABLES
    status,      \* "up", "stalled" or "crashed"
    role,        \* NodeController.role
    roster,      \* NodeController.roster: the join indices it holds
    flagged,     \* ... those whose entry has is_host
    remote,      \* remote_host: where inputs and host probes go
    watcher,     \* HostTimeoutWatcher: never reset, reset lately, timed out
    verifying,   \* _host_verify_deadline # 0
    triggered,   \* election_triggered
    coord,       \* ElectionCoordinator.state, "absent" when it is None
    pending,     \* _pending_election_acks
    following,   \* _following_host_ip
    reconnected, \* reconnected
    promoted,    \* _promotion_done
    net,         \* UDP election packets in flight
    ws,          \* game events queued at each client
    faults       \* crashes, stalls and losses so far

nodeVars   == <<role, roster, flagged, remote, promoted>>
detectVars == <<watcher, verifying, triggered>>
voteVars   == <<coord, pending, following, reconnected>>
vars == <<status, nodeVars, detectVars, voteVars, net, ws, faults>>

Packet  == [type: MsgTypes, from: Node, to: Node]
WsEvent == [type: MsgTypes \cup {"left", "roster"}, from: Node,
            players: SUBSET Node]

TypeOK ==
    /\ status \in [Node -> {"up", "stalled", "crashed"}]
    /\ role \in [Node -> {"host", "client"}]
    /\ roster \in [Node -> SUBSET Node]
    /\ flagged \in [Node -> SUBSET Node]
    /\ remote \in [Node -> Node]
    /\ watcher \in [Node -> {"unarmed", "fresh", "expired"}]
    /\ verifying \in [Node -> BOOLEAN]
    /\ triggered \in [Node -> BOOLEAN]
    /\ coord \in [Node -> {"absent", "idle", "pending", "claimed", "follower"}]
    /\ pending \in [Node -> SUBSET Node]
    /\ following \in [Node -> Node \cup {NoNode}]
    /\ reconnected \in [Node -> BOOLEAN]
    /\ promoted \in [Node -> BOOLEAN]
    /\ net \subseteq Packet
    /\ ws \in [Node -> Seq(WsEvent)]
    /\ faults \in [crashes: Nat, stalls: Nat, lost: Nat]

-----------------------------------------------------------------------------
Up(n)         == status[n] = "up"
LiveHost(n)   == Up(n) /\ role[n] = "host"
LiveClient(n) == Up(n) /\ role[n] = "client"
Hosts         == {n \in Node : LiveHost(n)}

(* A host sends its snapshots to every node of its roster.                 *)
Feeds(h, n) == LiveHost(h) /\ n \in roster[h] \ {h}

(* Only a node in the role of host answers a HostDiscoveryProbe (of this   *)
(* session), whoever asks.                                                 *)
AnswersBug(h) == Up(h)
Answers(h) == LiveHost(h)

(* _known_client_peers: the survivors, as this node sees them.             *)
KnownClientPeersBug(n) == {m \in roster[n] \ flagged[n] : m < n}
KnownClientPeers(n) == roster[n] \ (flagged[n] \cup {n})

(* Election packets count only where a client frame will read them.        *)
Packets(type, from, dests) ==
    {[type |-> type, from |-> from, to |-> m] :
        m \in {d \in dests : role[d] = "client" /\ status[d] # "crashed"}}

(* A node promoted while it read its packets or game events goes on with   *)
(* the queued events: the same frame still drains them, as a host now.     *)
InPromotionFrame(n) == role[n] = "host" /\ ws[n] # <<>>

(* A game event reaches every client connected to the server of h; one    *)
(* more than MaxInbox is dropped with the connection.                      *)
EventBug(type, from, players) ==
    [type |-> type, from |-> NoNode, players |-> players]
Event(type, from, players) ==
    [type |-> type, from |-> from, players |-> players]
Audience(h) ==
    {n \in Node : /\ role[n] = "client" \/ InPromotionFrame(n)
                  /\ status[n] # "crashed"
                  /\ remote[n] = h}
Broadcast(q, h, event) ==
    [n \in Node |-> IF n \in Audience(h) /\ Len(q[n]) < MaxInbox
                    THEN Append(q[n], event) ELSE q[n]]

(* An election message is also posted to the game-event server the node is *)
(* connected to, which echoes it to every client, the sender included.     *)
Relayed(q, type, n) ==
    IF Relay THEN Broadcast(q, remote[n], Event(type, n, {})) ELSE q

-----------------------------------------------------------------------------
Init ==
    /\ status = [n \in Node |-> "up"]
    /\ role = [n \in Node |-> IF n = FirstHost THEN "host" ELSE "client"]
    /\ roster = [n \in Node |-> Node]
    /\ flagged = [n \in Node |-> {FirstHost}]
    /\ remote = [n \in Node |-> FirstHost]
    /\ watcher = [n \in Node |->
                    IF WarmStart /\ n # FirstHost THEN "fresh" ELSE "unarmed"]
    /\ verifying = [n \in Node |-> FALSE]
    /\ triggered = [n \in Node |-> FALSE]
    /\ coord = [n \in Node |->
                    IF WarmStart /\ n # FirstHost THEN "idle" ELSE "absent"]
    /\ pending = [n \in Node |-> {}]
    /\ following = [n \in Node |-> NoNode]
    /\ reconnected = [n \in Node |-> FALSE]
    /\ promoted = [n \in Node |-> FALSE]
    /\ net = {}
    /\ ws = [n \in Node |-> <<>>]
    /\ faults = [crashes |-> 0, stalls |-> 0, lost |-> 0]

-----------------------------------------------------------------------------
(* The failure detector.                                                   *)

EnsureElectionComponents(n) ==
    /\ LiveClient(n) /\ coord[n] = "absent"
    /\ coord' = [coord EXCEPT ![n] = "idle"]
    /\ watcher' = [watcher EXCEPT ![n] = "unarmed"]
    /\ UNCHANGED <<status, nodeVars, verifying, triggered, pending, following,
                   reconnected, net, ws, faults>>

(* A fresh snapshot is taken from any host: its sender is not looked at.   *)
ReceiveSnapshot(n) ==
    /\ LiveClient(n) /\ watcher[n] # "fresh"
    /\ \E h \in Node : Feeds(h, n)
    /\ watcher' = [watcher EXCEPT ![n] = "fresh"]
    /\ UNCHANGED <<status, nodeVars, verifying, triggered, voteVars, net, ws,
                   faults>>

(* HOST_TIMEOUT_S without a snapshot: probe the host before electing.      *)
SuspectHost(n) ==
    /\ LiveClient(n) /\ coord[n] # "absent"
    /\ ~verifying[n] /\ ~triggered[n]
    /\ watcher[n] = "fresh" /\ ~\E h \in Node : Feeds(h, n)
    /\ watcher' = [watcher EXCEPT ![n] = "expired"]
    /\ verifying' = [verifying EXCEPT ![n] = TRUE]
    /\ UNCHANGED <<status, nodeVars, triggered, voteVars, net, ws, faults>>

(* The probe was answered, even by a host that has evicted this node.      *)
HostVerifyAnswered(n) ==
    /\ LiveClient(n) /\ verifying[n] /\ Answers(remote[n])
    /\ verifying' = [verifying EXCEPT ![n] = FALSE]
    /\ watcher' = [watcher EXCEPT ![n] = "fresh"]
    /\ UNCHANGED <<status, nodeVars, triggered, voteVars, net, ws, faults>>

HostVerifyCancelled(n) ==
    /\ LiveClient(n) /\ coord[n] # "absent"
    /\ verifying[n] /\ watcher[n] # "expired"
    /\ verifying' = [verifying EXCEPT ![n] = FALSE]
    /\ UNCHANGED <<status, nodeVars, watcher, triggered, voteVars, net, ws,
                   faults>>

(* HOST_VERIFY_TIMEOUT_S of unanswered probes: start_election, whatever    *)
(* the coordinator's state was.                                            *)
ConfirmHostDeath(n) ==
    /\ LiveClient(n) /\ coord[n] # "absent"
    /\ verifying[n] /\ watcher[n] = "expired" /\ ~Answers(remote[n])
    /\ verifying' = [verifying EXCEPT ![n] = FALSE]
    /\ triggered' = [triggered EXCEPT ![n] = TRUE]
    /\ coord' = [coord EXCEPT ![n] = "pending"]
    /\ UNCHANGED <<status, nodeVars, watcher, pending, following, reconnected,
                   net, ws, faults>>

-----------------------------------------------------------------------------
(* Promotion and reconnection, as the handlers below call them: `players`  *)
(* is the roster, `udp` and `q` the packets and events, left to the node.  *)

(* _promote_to_host with _finish_promotion.  The event connection stays;   *)
(* the node ignores the echo of its own announcement (_promotion_done).    *)
PromoteToHost(n, players, udp, q) ==
    LET survivors == players \ (flagged[n] \cup {n}) IN
    /\ promoted' = [promoted EXCEPT ![n] = TRUE]
    /\ role' = [role EXCEPT ![n] = "host"]
    /\ roster' = [roster EXCEPT ![n] = players \ flagged[n]]
    /\ flagged' = [flagged EXCEPT ![n] = {n}]
    /\ net' = {p \in udp : p.to # n} \cup Packets("reconnection", n, survivors)
    /\ ws' = IF survivors = {} THEN q
             ELSE [Relayed(q, "reconnection", n) EXCEPT ![n] = q[n]]
    /\ UNCHANGED <<remote>>

(* The timers run after the frame's drain, and no host frame reads game    *)
(* events: what came since stays unread.                                   *)
PromoteByTimer(n, players) ==
    PromoteToHost(n, players, net, [ws EXCEPT ![n] = <<>>])

(* The event connection to the old host is closed, with what it held.      *)
ClosedInboxBug(n) == ws
ClosedInbox(n) == [ws EXCEPT ![n] = <<>>]

(* _on_reconnection_ack: follow the promoted host h, start afresh.         *)
Reconnect(n, h, udp) ==
    /\ reconnected' = [reconnected EXCEPT ![n] = TRUE]
    /\ remote' = [remote EXCEPT ![n] = h]
    /\ roster' = [roster EXCEPT ![n] = @ \ flagged[n]]
    /\ flagged' = [flagged EXCEPT ![n] = {h} \cap (roster[n] \ flagged[n])]
    /\ triggered' = [triggered EXCEPT ![n] = FALSE]
    /\ pending' = [pending EXCEPT ![n] = {}]
    /\ coord' = [coord EXCEPT ![n] = "absent"]
    /\ watcher' = [watcher EXCEPT ![n] = "unarmed"]
    /\ verifying' = [verifying EXCEPT ![n] = FALSE]
    /\ ws' = ClosedInbox(n)
    /\ net' = udp
    /\ UNCHANGED <<role, promoted>>

-----------------------------------------------------------------------------
(* The election.                                                           *)

(* InTurn, for the staggered timer: everyone has detected the crash, the   *)
(* lower join indices have had their turn and their claims have arrived.   *)
ElectionTimerInTurn(n) ==
    /\ \A m \in Node \ {n} : LiveClient(m) /\ remote[m] = remote[n] =>
            triggered[m] /\ (m < n => coord[m] # "pending")
    /\ \A p \in net : ~(p.type = "claim" /\ p.to = n)

ElectionTimerFires(n) ==
    LET peers == KnownClientPeers(n) IN
    /\ LiveClient(n) /\ triggered[n] /\ coord[n] = "pending"
    /\ InTurn => ElectionTimerInTurn(n)
    /\ coord' = [coord EXCEPT ![n] = "claimed"]
    /\ \/ /\ peers = {}
          /\ PromoteByTimer(n, roster[n])
          /\ UNCHANGED pending
       \/ /\ peers # {}
          /\ net' = net \cup Packets("claim", n, peers)
          /\ ws' = Relayed(ws, "claim", n)
          /\ pending' = [pending EXCEPT ![n] = peers]
          /\ UNCHANGED nodeVars
    /\ UNCHANGED <<status, detectVars, following, reconnected, faults>>

OutranksBug(claimer, n) == claimer > n
Outranks(claimer, n) == claimer < n

(* A claim from a lower join index wins, in any state of the coordinator.  *)
OnNewHostClaim(n, claimer, udp, q) ==
    \/ /\ Outranks(claimer, n) /\ coord[n] # "absent"
       /\ coord' = [coord EXCEPT ![n] = "follower"]
       /\ following' = [following EXCEPT ![n] = claimer]
       /\ net' = udp \cup Packets("ack", n, {claimer} \cap roster[n])
       /\ ws' = Relayed(q, "ack", n)
       /\ UNCHANGED <<nodeVars, detectVars, pending, reconnected>>
    \/ /\ ~(Outranks(claimer, n) /\ coord[n] # "absent")
       /\ net' = udp /\ ws' = q
       /\ UNCHANGED <<nodeVars, detectVars, voteVars>>

LastAckBug(n, peer) == peer \in pending[n]
LastAck(n, peer) == pending[n] = {peer}

OnElectionAck(n, peer, udp, q) ==
    \/ /\ ~promoted[n] /\ peer \in pending[n]
       /\ pending' = [pending EXCEPT ![n] = @ \ {peer}]
       /\ \/ /\ LastAck(n, peer)
             /\ PromoteToHost(n, roster[n], udp, q)
          \/ /\ ~LastAck(n, peer)
             /\ net' = udp /\ ws' = q
             /\ UNCHANGED nodeVars
       /\ UNCHANGED <<detectVars, coord, following, reconnected>>
    \/ /\ promoted[n] \/ peer \notin pending[n]
       /\ net' = udp /\ ws' = q
       /\ UNCHANGED <<nodeVars, detectVars, voteVars>>

MayReconnectBug(n) == ~reconnected[n] /\ ~triggered[n]
MayReconnect(n) == ~reconnected[n] /\ ~promoted[n]

OnReconnectionAck(n, h, udp, q) ==
    \/ /\ MayReconnect(n)
       /\ Reconnect(n, h, udp)
       /\ UNCHANGED following
    \/ /\ ~MayReconnect(n)
       /\ net' = udp /\ ws' = q
       /\ UNCHANGED <<nodeVars, detectVars, voteVars>>

(* Prompt, for ELECTION_CLAIM_TIMEOUT_S: the packets of this claim arrived.*)
NoReplyToCome(n) ==
    \A p \in net : /\ ~(p.type = "claim" /\ p.from = n)
                   /\ ~(p.type \in {"ack", "reconnection"} /\ p.to = n)

ClaimDeadline(n) ==
    /\ LiveClient(n) /\ triggered[n] /\ coord[n] # "absent"
    /\ ~promoted[n] /\ pending[n] # {}
    /\ Prompt => NoReplyToCome(n)
    /\ pending' = [pending EXCEPT ![n] = {}]
    /\ PromoteByTimer(n, roster[n] \ (pending[n] \ {n}))
    /\ UNCHANGED <<status, detectVars, coord, following, reconnected, faults>>

FallbackDueBug(n) == ~reconnected[n] /\ following[n] # NoNode /\ ~triggered[n]
FallbackDue(n) == ~reconnected[n] /\ following[n] # NoNode

(* The direct probe of the followed node; unanswered, it is just retried.  *)
ReconnectionFallback(n) ==
    /\ LiveClient(n) /\ triggered[n] /\ coord[n] # "absent"
    /\ FallbackDue(n) /\ Answers(following[n])
    /\ following' = [following EXCEPT ![n] = NoNode]
    /\ Reconnect(n, following[n], net)
    /\ UNCHANGED <<status, faults>>

ReceiveUdp(n) ==
    /\ LiveClient(n)
    /\ \E p \in net :
        /\ p.to = n
        /\ \/ p.type = "claim" /\ OnNewHostClaim(n, p.from, net \ {p}, ws)
           \/ p.type = "ack" /\ OnElectionAck(n, p.from, net \ {p}, ws)
           \/ p.type = "reconnection" /\ OnReconnectionAck(n, p.from, net \ {p}, ws)
    /\ UNCHANGED <<status, faults>>

-----------------------------------------------------------------------------
(* The host's bookkeeping, and its game events at the clients.             *)

(* _check_player_disconnections: no input for UDP_INPUT_TIMEOUT, longer    *)
(* than the reconnection fallback takes, or a closed WebSocket.            *)
HostEvicts(h, n) ==
    /\ LiveHost(h) /\ ~InPromotionFrame(h) /\ n \in roster[h] \ {h}
    /\ ~(LiveClient(n) /\ remote[n] = h)
    /\ Prompt => ~(LiveClient(n) /\ following[n] = h)
    /\ \A m \in Audience(h) : Len(ws[m]) < MaxInbox
    /\ roster' = [roster EXCEPT ![h] = @ \ {n}]
    /\ ws' = Broadcast(ws, h, Event("left", h, {n}))
    /\ UNCHANGED <<status, role, flagged, remote, promoted, detectVars,
                   voteVars, net, faults>>

(* Every HOST_ROSTER_BROADCAST_INTERVAL snapshots.                         *)
BroadcastRoster(h) ==
    /\ LiveHost(h) /\ ~InPromotionFrame(h) /\ Audience(h) # {}
    /\ \A m \in Audience(h) : Len(ws[m]) < MaxInbox
    /\ ws' = Broadcast(ws, h, Event("roster", h, roster[h]))
    /\ UNCHANGED <<status, nodeVars, detectVars, voteVars, net, faults>>

(* A client ignores its own eviction.                                      *)
GoneBug(n, event) == event.players
Gone(n, event) == event.players \ {n}

OnPlayerLeft(n, event, q) ==
    LET gone == Gone(n, event) IN
    /\ roster' = [roster EXCEPT ![n] = @ \ gone]
    /\ flagged' = [flagged EXCEPT ![n] = @ \ gone]
    /\ ws' = q
    /\ UNCHANGED <<role, remote, promoted, detectVars, voteVars, net>>

(* _merge_roster adds the unknown entries, host flag included.             *)
MergeRoster(n, event, q) ==
    LET new == event.players \ (roster[n] \cup {n}) IN
    /\ roster' = [roster EXCEPT ![n] = @ \cup new]
    /\ flagged' = [flagged EXCEPT ![n] = @ \cup (new \cap {event.from})]
    /\ ws' = q
    /\ UNCHANGED <<role, remote, promoted, detectVars, voteVars, net>>

ReceiveGameEvent(n) ==
    /\ LiveClient(n) \/ (LiveHost(n) /\ InPromotionFrame(n))
    /\ ws[n] # <<>>
    /\ LET event == Head(ws[n])
           q == [ws EXCEPT ![n] = Tail(@)]
       IN  \/ event.type = "claim" /\ OnNewHostClaim(n, event.from, net, q)
           \/ event.type = "ack" /\ OnElectionAck(n, event.from, net, q)
           \/ event.type = "reconnection" /\ OnReconnectionAck(n, event.from, net, q)
           \/ event.type = "left" /\ OnPlayerLeft(n, event, q)
           \/ event.type = "roster" /\ MergeRoster(n, event, q)
    /\ UNCHANGED <<status, faults>>

-----------------------------------------------------------------------------
(* The environment.                                                        *)

Crash(n) ==
    /\ status[n] # "crashed" /\ faults.crashes < MaxCrashes
    /\ status' = [status EXCEPT ![n] = "crashed"]
    /\ net' = {p \in net : p.to # n}
    /\ ws' = [ws EXCEPT ![n] = <<>>]
    /\ faults' = [faults EXCEPT !.crashes = @ + 1]
    /\ UNCHANGED <<nodeVars, detectVars, voteVars>>

(* Frozen for longer than every timeout of the others, then back.          *)
Stall(n) ==
    /\ Up(n) /\ faults.stalls < MaxStalls
    /\ status' = [status EXCEPT ![n] = "stalled"]
    /\ faults' = [faults EXCEPT !.stalls = @ + 1]
    /\ UNCHANGED <<nodeVars, detectVars, voteVars, net, ws>>

Resume(n) ==
    /\ status[n] = "stalled"
    /\ status' = [status EXCEPT ![n] = "up"]
    /\ UNCHANGED <<nodeVars, detectVars, voteVars, net, ws, faults>>

Lose(p) ==
    /\ p \in net /\ p.type \in Losable /\ faults.lost < MaxLost
    /\ net' = net \ {p}
    /\ faults' = [faults EXCEPT !.lost = @ + 1]
    /\ UNCHANGED <<status, nodeVars, detectVars, voteVars, ws>>

-----------------------------------------------------------------------------
ClientStep(n) ==
    \/ EnsureElectionComponents(n)
    \/ ReceiveSnapshot(n)
    \/ SuspectHost(n)
    \/ HostVerifyAnswered(n)
    \/ HostVerifyCancelled(n)
    \/ ConfirmHostDeath(n)
    \/ ElectionTimerFires(n)
    \/ ClaimDeadline(n)
    \/ ReconnectionFallback(n)
    \/ ReceiveUdp(n)
    \/ ReceiveGameEvent(n)

HostStep(h) == BroadcastRoster(h) \/ \E n \in Node : HostEvicts(h, n)

FaultStep ==
    \/ \E n \in Node : Crash(n) \/ Stall(n) \/ Resume(n)
    \/ \E p \in net : Lose(p)

Next == (\E n \in Node : ClientStep(n) \/ HostStep(n)) \/ FaultStep

Spec == Init /\ [][Next]_vars

(* Every node runs its frame loop at 60 Hz and drains both its queues in   *)
(* each frame, so a timer that stays due fires and a packet that was not   *)
(* lost is read.                                                           *)
Fairness ==
    \A n \in Node :
        /\ WF_vars(EnsureElectionComponents(n))
        /\ WF_vars(ReceiveSnapshot(n))
        /\ WF_vars(SuspectHost(n))
        /\ WF_vars(HostVerifyAnswered(n))
        /\ WF_vars(HostVerifyCancelled(n))
        /\ WF_vars(ConfirmHostDeath(n))
        /\ WF_vars(ElectionTimerFires(n))
        /\ WF_vars(ClaimDeadline(n))
        /\ WF_vars(ReconnectionFallback(n))
        /\ WF_vars(ReceiveUdp(n))
        /\ WF_vars(ReceiveGameEvent(n))

FairSpec == Spec /\ Fairness

-----------------------------------------------------------------------------
(* Properties.                                                             *)

(* Two survivors never both believe they are the host: what the staggered  *)
(* timer and the rule that the lower join index wins are for.              *)
UniqueHost == Cardinality(Hosts) <= 1

(* Nor does a node that gave way to a lower claimer end up as host beside  *)
(* it: a claim wins "even against a node that already claimed".            *)
NoHostFollowsAnother ==
    \A m, n \in Hosts : m # n => ~(coord[n] = "follower" /\ following[n] = m)

(* No node evicts itself, whatever the evictions, stray PlayerLeft events  *)
(* and roster merges it applies (the guard in _drain_game_events).         *)
SelfInRoster == \A n \in Node : n \in roster[n]

(* No roster flags a third party: the entry a client would evict as the    *)
(* crashed host is the very node it sends its inputs and probes to, so a   *)
(* migration never evicts a live survivor as "the old host" (get_host in   *)
(* _promote_to_host and _repoint_roster_at); a promoted host may at worst  *)
(* keep the flag of the host it replaced.                                  *)
HostEntryIsRemote ==
    \A n \in Node :
        flagged[n] \subseteq
            {remote[n]} \cup (IF role[n] = "host" THEN {n} ELSE {})

(* A host flags only itself: not so when a RosterUpdate of the resumed old *)
(* host is drained in the promotion frame (TwoFlags.cfg).                  *)
HostFlagsItself == \A n \in Node : role[n] = "host" => flagged[n] = {n}

(* A client only ever sends its inputs to a node that did take the role of *)
(* host (_on_reconnection_ack, by announcement or by probe).               *)
RemoteIsHost == \A n \in Node : role[remote[n]] = "host"

(* A node becomes host on a full quorum: every live client it keeps in its *)
(* roster is following it (_on_election_ack, _tick_claim_deadline).        *)
QuorumFollows ==
    [][\A n \in Node : role[n] = "client" /\ role'[n] = "host" =>
            \A m \in roster'[n] \ {n} :
                LiveClient(m) => coord[m] = "follower" /\ following[m] = n]_vars

(* A follower that reads the ReconnectionAck of the node it follows        *)
(* repoints to it (_on_reconnection_ack).                                  *)
ReconnectionHeeded ==
    [][\A p \in net \ net' :
            LET n == p.to IN
            /\ p.type = "reconnection" /\ LiveClient(n) /\ Up(n)'
            /\ coord[n] = "follower" /\ following[n] = p.from
            /\ faults' = faults /\ role'[n] = "client"
            => remote'[n] = p.from]_vars

(* A node in an election does not stay a follower forever: the announcement *)
(* or, when that is lost, the fallback probe gets it to the new host.      *)
Stuck(n) == LiveClient(n) /\ triggered[n] /\ coord[n] = "follower"
FollowEnds == \A n \in Node : Stuck(n) ~> ~Stuck(n)

(* The survivors all end up playing on one live host that knows them.      *)
AllRejoined ==
    []<>(\/ Hosts = {} /\ \A n \in Node : ~Up(n)
         \/ \E h \in Hosts : \A n \in Node :
                LiveClient(n) => remote[n] = h /\ Feeds(h, n))
=============================================================================
