------------------------- MODULE HostMigrationProofs -------------------------
(***************************************************************************)
(* The invariants of HostMigration, for any set of nodes, any number of    *)
(* faults, any timing and either transport of the election messages; and,  *)
(* under the timing of the election, that it elects one host and is a      *)
(* HostSuccession.                                                         *)
(*                                                                         *)
(* A client evicts whoever its roster flags as host.  That this is never   *)
(* the client itself rests on what may reach it: the connection it reads   *)
(* game events from is the one to its remote host (InboxOK), and only a    *)
(* node that was promoted announces itself (NetOK).                        *)
(***************************************************************************)
EXTENDS MCHostMigration, NaturalsInduction, FiniteSetTheorems, TLAPS

EventFor(n) == {e \in WsEvent :
                    /\ e.type \in {"left", "roster"} => e.from = remote[n]
                    /\ e.type = "reconnection" => role[e.from] = "host"}
Inboxes(q) ==
    /\ q \in [Node -> Seq(WsEvent)]
    /\ \A m \in Node : q[m] \in Seq(EventFor(m))
    /\ \A m \in Node : role[m] = "host" /\ ~promoted[m] => q[m] = <<>>
Announced(udp) ==
    udp \subseteq Packet /\ \A p \in udp : p.type = "reconnection" => role[p.from] = "host"

NetOK == Announced(net)
InboxOK == Inboxes(ws)

-----------------------------------------------------------------------------
(* Helpers.                                                                *)

LEMMA SeqOfSubset ==
    ASSUME NEW S, NEW T, S \subseteq T, NEW s \in Seq(S)
    PROVE  s \in Seq(T)
  OBVIOUS

LEMMA BroadcastKeeps ==
    ASSUME NEW q \in [Node -> Seq(WsEvent)], NEW h, NEW e \in WsEvent,
           NEW S \in [Node -> SUBSET WsEvent],
           \A m \in Node : q[m] \in Seq(S[m]),
           \A m \in Audience(h) : e \in S[m]
    PROVE  /\ Broadcast(q, h, e) \in [Node -> Seq(WsEvent)]
           /\ \A m \in Node : Broadcast(q, h, e)[m] \in Seq(S[m])
  <1> DEFINE b == Broadcast(q, h, e)
  <1>1. b \in [Node -> Seq(WsEvent)]
    BY DEF Broadcast
  <1>2. ASSUME NEW m \in Node PROVE b[m] \in Seq(S[m])
    <2>1. CASE m \in Audience(h) /\ Len(q[m]) < MaxInbox
      <3>1. b[m] = Append(q[m], e) BY <2>1 DEF Broadcast
      <3>2. e \in S[m] /\ q[m] \in Seq(S[m]) BY <2>1
      <3> HIDE DEF b
      <3>3. QED BY <3>1, <3>2
    <2>2. CASE ~(m \in Audience(h) /\ Len(q[m]) < MaxInbox)
      BY <2>2 DEF Broadcast
    <2>3. QED BY <2>1, <2>2
  <1>3. QED BY <1>1, <1>2

(* The echo of a claim or an ack, and the host's own events.               *)
LEMMA EventsKeep ==
    ASSUME NEW q, Inboxes(q), NEW h \in Node, NEW e \in WsEvent,
           e.type # "reconnection", e.type \in {"left", "roster"} => e.from = h,
           InboxOK
    PROVE  Inboxes(Broadcast(q, h, e))
  <1> DEFINE S == [m \in Node |-> EventFor(m)]
  <1>1. S \in [Node -> SUBSET WsEvent] BY DEF EventFor
  <1>2. \A m \in Audience(h) : e \in S[m] BY DEF Audience, EventFor
  <1>3. \A m \in Node : role[m] = "host" /\ ~promoted[m] => Broadcast(q, h, e)[m] = <<>>
    BY DEF Inboxes, InboxOK, Broadcast, Audience, InPromotionFrame
  <1>4. /\ Broadcast(q, h, e) \in [Node -> Seq(WsEvent)]
        /\ \A m \in Node : Broadcast(q, h, e)[m] \in Seq(S[m])
    BY <1>1, <1>2, BroadcastKeeps DEF Inboxes
  <1>5. QED BY <1>3, <1>4 DEF Inboxes

LEMMA RelayKeeps ==
    ASSUME NEW q, Inboxes(q), NEW type \in {"claim", "ack"}, NEW n \in Node,
           remote[n] \in Node, InboxOK
    PROVE  Inboxes(Relayed(q, type, n))
  <1>1. Event(type, n, {}) \in WsEvent BY DEF Event, WsEvent, MsgTypes
  <1>2. Event(type, n, {}).type = type BY DEF Event
  <1>3. QED BY <1>1, <1>2, EventsKeep DEF Relayed

(* What a step that changes no role and no remote keeps.                   *)
LEMMA SameRolesKeep ==
    ASSUME UNCHANGED <<role, remote, promoted>>, NEW q, Inboxes(q), NEW udp, Announced(udp),
           ws' = q, net' = udp
    PROVE  InboxOK' /\ NetOK'
  BY DEF InboxOK, NetOK, Inboxes, Announced, EventFor

LEMMA PacketsTyped ==
    ASSUME NEW type \in MsgTypes, NEW n \in Node, NEW dests \in SUBSET Node
    PROVE  /\ Packets(type, n, dests) \subseteq Packet
           /\ \A p \in Packets(type, n, dests) : p.type = type /\ p.from = n
  BY DEF Packets, Packet

-----------------------------------------------------------------------------
(* What the steps on the nodes' roles and rosters keep.                    *)

NodeTypeOK ==
    /\ role \in [Node -> {"host", "client"}]
    /\ roster \in [Node -> SUBSET Node]
    /\ flagged \in [Node -> SUBSET Node]
    /\ remote \in [Node -> Node]
    /\ promoted \in [Node -> BOOLEAN]
    /\ net \subseteq Packet
    /\ ws \in [Node -> Seq(WsEvent)]

NodeInv == /\ NodeTypeOK
           /\ SelfInRoster /\ HostEntryIsRemote /\ RemoteIsHost
           /\ NetOK /\ InboxOK

LEMMA ClientKeepsItself ==
    ASSUME NodeInv, NEW n \in Node, role[n] = "client"
    PROVE  n \notin flagged[n] /\ n \in roster[n] /\ remote[n] # n
  BY DEF NodeInv, NodeTypeOK, SelfInRoster, HostEntryIsRemote, RemoteIsHost

LEMMA PromoteKeeps ==
    ASSUME NodeInv, NEW n \in Node, role[n] = "client",
           NEW players \in SUBSET Node, n \in players,
           NEW udp, Announced(udp), NEW q, Inboxes(q),
           PromoteToHost(n, players, udp, q)
    PROVE  NodeInv'
  <1> DEFINE survivors == players \ (flagged[n] \cup {n})
             e == Event("reconnection", n, {})
             S == [m \in Node |-> EventFor(m)']
  <1> USE DEF NodeInv, NodeTypeOK
  <1>1. n \notin flagged[n] BY ClientKeepsItself
  <1>2. role' = [role EXCEPT ![n] = "host"] /\ remote' = remote
    BY DEF PromoteToHost
  <1>3. SelfInRoster' /\ HostEntryIsRemote' /\ RemoteIsHost'
    BY <1>1, <1>2 DEF PromoteToHost, SelfInRoster, HostEntryIsRemote, RemoteIsHost
  <1>4. NetOK'
    <2>1. net' = {p \in udp : p.to # n} \cup Packets("reconnection", n, survivors)
      BY DEF PromoteToHost
    <2>2. /\ Packets("reconnection", n, survivors) \subseteq Packet
          /\ \A p \in Packets("reconnection", n, survivors) : p.from = n
      <3>1. survivors \in SUBSET Node /\ "reconnection" \in MsgTypes BY DEF MsgTypes
      <3> HIDE DEF survivors
      <3>2. QED BY <3>1, PacketsTyped
    <2>3. \A p \in udp : p \in Packet BY DEF Announced
    <2>4. QED BY <1>2, <2>1, <2>2, <2>3 DEF NetOK, Announced, Packet
  <1>5. /\ Relayed(q, "reconnection", n) \in [Node -> Seq(WsEvent)]
        /\ \A m \in Node : Relayed(q, "reconnection", n)[m] \in Seq(S[m])
    <2>1. \A m \in Node : EventFor(m) \subseteq S[m]
      BY <1>2 DEF EventFor, WsEvent
    <2>2. \A m \in Node : q[m] \in Seq(S[m])
      BY <2>1, SeqOfSubset DEF Inboxes
    <2>3. S \in [Node -> SUBSET WsEvent] BY DEF EventFor
    <2>4. e \in WsEvent BY DEF Event, WsEvent, MsgTypes
    <2>5. \A m \in Audience(remote[n]) : e \in S[m]
      BY <1>2, <2>4 DEF EventFor, Event, Audience
    <2>6. QED BY <2>2, <2>3, <2>4, <2>5, BroadcastKeeps DEF Relayed, Inboxes
  <1>6. InboxOK'
    <2>1. \A m \in Node : q[m] \in Seq(S[m])
      <3>1. \A m \in Node : EventFor(m) \subseteq S[m]
        BY <1>2 DEF EventFor, WsEvent
      <3>2. QED BY <3>1, SeqOfSubset DEF Inboxes
    <2>2. q \in [Node -> Seq(WsEvent)] BY DEF Inboxes
    <2>3. ws' \in {q, [Relayed(q, "reconnection", n) EXCEPT ![n] = q[n]]}
      BY DEF PromoteToHost
    <2>4. \A m \in Node : ws'[m] \in Seq(S[m]) BY <1>5, <2>1, <2>2, <2>3
    <2>5. ws' \in [Node -> Seq(WsEvent)] BY <1>5, <2>2, <2>3
    <2>6. ASSUME NEW m \in Node, role'[m] = "host", ~promoted'[m]
          PROVE  ws'[m] = <<>>
      <3>1. m # n /\ role[m] = "host" /\ ~promoted[m]
        BY <2>6 DEF PromoteToHost
      <3>2. q[m] = <<>> /\ ws[m] = <<>> BY <3>1 DEF Inboxes, InboxOK
      <3>3. Relayed(q, "reconnection", n)[m] = q[m]
        BY <2>2, <3>1, <3>2 DEF Relayed, Broadcast, Audience, InPromotionFrame
      <3>4. QED BY <1>5, <2>2, <2>3, <3>1, <3>2, <3>3
    <2>7. QED BY <2>4, <2>5, <2>6 DEF InboxOK, Inboxes
  <1>7. NodeTypeOK'
    <2>1. net' \subseteq Packet BY <1>4 DEF NetOK, Announced
    <2>2. ws' \in [Node -> Seq(WsEvent)] BY <1>6 DEF InboxOK, Inboxes
    <2>3. QED BY <2>1, <2>2 DEF PromoteToHost
  <1>8. QED BY <1>3, <1>4, <1>6, <1>7

(* Only a host announces itself, so the node reconnects to a host, and its *)
(* inbox is emptied before the roster flags that host.                     *)
LEMMA ReconnectKeeps ==
    ASSUME NodeInv, NEW n \in Node, role[n] = "client",
           NEW h \in Node, role[h] = "host", NEW udp, Announced(udp),
           Reconnect(n, h, udp)
    PROVE  NodeInv'
  <1> USE DEF NodeInv, NodeTypeOK
  <1>1. n \notin flagged[n] BY ClientKeepsItself
  <1>2. role' = role /\ remote' = [remote EXCEPT ![n] = h] BY DEF Reconnect
  <1>3. SelfInRoster' /\ HostEntryIsRemote' /\ RemoteIsHost'
    BY <1>1, <1>2 DEF Reconnect, SelfInRoster, HostEntryIsRemote, RemoteIsHost
  <1>4. NetOK' BY <1>2 DEF Reconnect, NetOK, Announced
  <1>5. InboxOK'
    <2>1. ws' = [ws EXCEPT ![n] = <<>>] BY DEF Reconnect, ClosedInbox
    <2>2. ASSUME NEW m \in Node PROVE ws'[m] \in Seq(EventFor(m)')
      <3>1. CASE m = n BY <2>1, <3>1
      <3>2. CASE m # n
        <4>1. EventFor(m)' = EventFor(m) BY <1>2, <3>2 DEF EventFor
        <4>2. QED BY <2>1, <3>2, <4>1 DEF InboxOK, Inboxes
      <3>3. QED BY <3>1, <3>2
    <2>3. UNCHANGED promoted BY DEF Reconnect
    <2>4. \A m \in Node : role'[m] = "host" /\ ~promoted'[m] => ws'[m] = <<>>
      BY <1>2, <2>1, <2>3 DEF InboxOK, Inboxes
    <2>5. QED BY <2>1, <2>2, <2>4 DEF InboxOK, Inboxes
  <1>6. NodeTypeOK'
    <2>1. net' \subseteq Packet /\ ws' \in [Node -> Seq(WsEvent)]
      BY <1>4, <1>5 DEF NetOK, Announced, InboxOK, Inboxes
    <2>2. QED BY <1>2, <2>1 DEF Reconnect
  <1>7. QED BY <1>3, <1>4, <1>5, <1>6

-----------------------------------------------------------------------------
(* The inductive invariant.                                                *)

VoteInv ==
    /\ status \in [Node -> {"up", "stalled", "crashed"}]
    /\ watcher \in [Node -> {"unarmed", "fresh", "expired"}]
    /\ verifying \in [Node -> BOOLEAN]
    /\ triggered \in [Node -> BOOLEAN]
    /\ coord \in [Node -> {"absent", "idle", "pending", "claimed", "follower"}]
    /\ pending \in [Node -> SUBSET Node]
    /\ following \in [Node -> Node \cup {NoNode}]
    /\ reconnected \in [Node -> BOOLEAN]
    /\ faults \in [crashes: Nat, stalls: Nat, lost: Nat]

IInv == NodeInv /\ VoteInv

LEMMA InitInv == Init => IInv
  <1> SUFFICES ASSUME Init PROVE IInv OBVIOUS
  <1> USE NodeAssumption
  <1>1. NodeTypeOK BY DEF Init, NodeTypeOK
  <1>2. SelfInRoster /\ HostEntryIsRemote /\ RemoteIsHost
    BY DEF Init, SelfInRoster, HostEntryIsRemote, RemoteIsHost
  <1>3. NetOK /\ InboxOK BY DEF Init, NetOK, Announced, InboxOK, Inboxes
  <1>4. VoteInv BY DEF Init, VoteInv
  <1>5. QED BY <1>1, <1>2, <1>3, <1>4 DEF IInv, NodeInv

(* A step that leaves the nodes' roles and rosters alone.                  *)
LEMMA MessagesKeep ==
    ASSUME NodeInv, UNCHANGED nodeVars, NEW q, Inboxes(q), NEW udp, Announced(udp),
           ws' = q, net' = udp
    PROVE  NodeInv'
  <1>1. InboxOK' /\ NetOK' BY SameRolesKeep DEF nodeVars
  <1>2. NodeTypeOK'
    BY <1>1 DEF NodeInv, NodeTypeOK, nodeVars, InboxOK, Inboxes, NetOK, Announced
  <1>3. QED
    BY <1>1, <1>2 DEF NodeInv, nodeVars, SelfInRoster, HostEntryIsRemote, RemoteIsHost

LEMMA ClaimKeeps ==
    ASSUME IInv, NEW n \in Node, NEW c \in Node, NEW udp, Announced(udp),
           NEW q, Inboxes(q), OnNewHostClaim(n, c, udp, q),
           UNCHANGED <<status, faults>>
    PROVE  IInv'
  <1>1. CASE Outranks(c, n) /\ coord[n] # "absent"
    <2> DEFINE acks == Packets("ack", n, {c} \cap roster[n])
    <2>1. /\ UNCHANGED nodeVars /\ ws' = Relayed(q, "ack", n) /\ net' = udp \cup acks
          /\ coord' = [coord EXCEPT ![n] = "follower"]
          /\ following' = [following EXCEPT ![n] = c]
          /\ UNCHANGED <<detectVars, pending, reconnected>>
      BY <1>1 DEF OnNewHostClaim
    <2>2. Inboxes(Relayed(q, "ack", n)) BY RelayKeeps DEF IInv, NodeInv, NodeTypeOK
    <2>3. Announced(udp \cup acks)
      <3>1. {c} \cap roster[n] \in SUBSET Node BY DEF IInv, NodeInv, NodeTypeOK
      <3>2. acks \subseteq Packet /\ \A p \in acks : p.type = "ack"
        BY <3>1, PacketsTyped DEF MsgTypes
      <3> HIDE DEF acks
      <3>3. QED BY <3>2 DEF Announced
    <2> HIDE DEF acks
    <2>4. NodeInv' BY <2>1, <2>2, <2>3, MessagesKeep DEF IInv
    <2>5. VoteInv' BY <1>1, <2>1, NodeAssumption
                   DEF IInv, VoteInv, Outranks, detectVars
    <2>6. QED BY <2>4, <2>5 DEF IInv
  <1>2. CASE ~(Outranks(c, n) /\ coord[n] # "absent")
    <2>1. UNCHANGED <<nodeVars, detectVars, voteVars>> /\ ws' = q /\ net' = udp
      BY <1>2 DEF OnNewHostClaim
    <2>2. NodeInv' BY <2>1, MessagesKeep DEF IInv
    <2>3. VoteInv' BY <2>1 DEF IInv, VoteInv, detectVars, voteVars
    <2>4. QED BY <2>2, <2>3 DEF IInv
  <1>3. QED BY <1>1, <1>2

LEMMA AckKeeps ==
    ASSUME IInv, NEW n \in Node, role[n] = "client" \/ promoted[n], NEW peer \in Node,
           NEW udp, Announced(udp), NEW q, Inboxes(q),
           OnElectionAck(n, peer, udp, q), UNCHANGED <<status, faults>>
    PROVE  IInv'
  <1>1. VoteInv'
    BY DEF IInv, VoteInv, OnElectionAck, detectVars, voteVars
  <1>2. NodeInv'
    <2>1. CASE ~promoted[n] /\ PromoteToHost(n, roster[n], udp, q)
      <3>1. role[n] = "client" /\ roster[n] \in SUBSET Node /\ n \in roster[n]
        BY <2>1, ClientKeepsItself DEF IInv, NodeInv, NodeTypeOK
      <3>2. QED BY <2>1, <3>1, PromoteKeeps DEF IInv
    <2>2. CASE UNCHANGED nodeVars /\ ws' = q /\ net' = udp
      BY <2>2, MessagesKeep DEF IInv
    <2>3. QED BY <2>1, <2>2 DEF OnElectionAck
  <1>3. QED BY <1>1, <1>2 DEF IInv

LEMMA ReconnectVotes ==
    ASSUME IInv, NEW n \in Node, NEW h \in Node, NEW udp, Reconnect(n, h, udp),
           UNCHANGED <<status, faults>>,
           following' = following \/ following' = [following EXCEPT ![n] = NoNode]
    PROVE  VoteInv'
  BY NodeAssumption DEF IInv, VoteInv, Reconnect

LEMMA ReconnectionKeeps ==
    ASSUME IInv, NEW n \in Node, role[n] = "client" \/ promoted[n], NEW h \in Node,
           role[h] = "host", NEW udp, Announced(udp), NEW q, Inboxes(q),
           OnReconnectionAck(n, h, udp, q), UNCHANGED <<status, faults>>
    PROVE  IInv'
  <1>1. CASE MayReconnect(n)
    <2>1. Reconnect(n, h, udp) /\ UNCHANGED following /\ role[n] = "client"
      BY <1>1 DEF OnReconnectionAck, MayReconnect
    <2>2. QED BY <2>1, ReconnectKeeps, ReconnectVotes DEF IInv
  <1>2. CASE ~MayReconnect(n)
    <2>1. UNCHANGED <<nodeVars, detectVars, voteVars>> /\ ws' = q /\ net' = udp
      BY <1>2 DEF OnReconnectionAck
    <2>2. NodeInv' BY <2>1, MessagesKeep DEF IInv
    <2>3. VoteInv' BY <2>1 DEF IInv, VoteInv, detectVars, voteVars
    <2>4. QED BY <2>2, <2>3 DEF IInv
  <1>3. QED BY <1>1, <1>2

-----------------------------------------------------------------------------
(* The steps, one by one.                                                  *)

(* The failure detector touches neither rosters nor messages.              *)
LEMMA DetectorKeeps ==
    ASSUME IInv, NEW n \in Node,
           \/ EnsureElectionComponents(n) \/ ReceiveSnapshot(n) \/ SuspectHost(n)
           \/ HostVerifyAnswered(n) \/ HostVerifyCancelled(n) \/ ConfirmHostDeath(n)
    PROVE  IInv'
  <1> USE DEF EnsureElectionComponents, ReceiveSnapshot, SuspectHost,
              HostVerifyAnswered, HostVerifyCancelled, ConfirmHostDeath
  <1>1. UNCHANGED <<nodeVars, net, ws>> OBVIOUS
  <1>2. NodeInv' BY <1>1, MessagesKeep DEF IInv, NodeInv, NetOK, InboxOK
  <1>3. VoteInv'
    <2> USE DEF IInv, VoteInv, voteVars
    <2>1. CASE EnsureElectionComponents(n) \/ ReceiveSnapshot(n) BY <2>1
    <2>2. CASE SuspectHost(n) BY <2>2
    <2>3. CASE HostVerifyAnswered(n) BY <2>3
    <2>4. CASE HostVerifyCancelled(n) BY <2>4
    <2>5. CASE ConfirmHostDeath(n) BY <2>5
    <2>6. QED BY <2>1, <2>2, <2>3, <2>4, <2>5
  <1>4. QED BY <1>2, <1>3 DEF IInv

LEMMA TimersKeep ==
    ASSUME IInv, NEW n \in Node, ElectionTimerFires(n) \/ ClaimDeadline(n)
    PROVE  IInv'
  <1> USE DEF IInv, NodeInv, NetOK, InboxOK
  <1>1. role[n] = "client" /\ n \in roster[n] /\ roster[n] \in SUBSET Node
    BY ClientKeepsItself DEF ElectionTimerFires, ClaimDeadline, LiveClient, NodeTypeOK
  <1>2. KnownClientPeers(n) \in SUBSET Node BY <1>1 DEF KnownClientPeers
  <1>3. VoteInv'
    BY <1>2 DEF ElectionTimerFires, ClaimDeadline, VoteInv, detectVars
  <1> DEFINE q == [ws EXCEPT ![n] = <<>>]
  <1>4. Inboxes(q) BY DEF Inboxes
  <1> HIDE DEF q
  <1>5. CASE PromoteToHost(n, roster[n], net, q)
    BY <1>4, <1>1, <1>3, <1>5, PromoteKeeps
  <1>6. CASE PromoteToHost(n, roster[n] \ (pending[n] \ {n}), net, q)
    <2>1. /\ roster[n] \ (pending[n] \ {n}) \in SUBSET Node
          /\ n \in roster[n] \ (pending[n] \ {n})
      BY <1>1
    <2>2. QED BY <1>4, <1>1, <1>3, <1>6, <2>1, PromoteKeeps
  <1>7. CASE /\ net' = net \cup Packets("claim", n, KnownClientPeers(n))
             /\ ws' = Relayed(ws, "claim", n)
             /\ UNCHANGED nodeVars
    <2> DEFINE claims == Packets("claim", n, KnownClientPeers(n))
    <2>1. claims \subseteq Packet /\ \A p \in claims : p.type = "claim"
      BY <1>2, PacketsTyped DEF MsgTypes
    <2>2. net' = net \cup claims BY <1>7
    <2> HIDE DEF claims
    <2>3. Announced(net \cup claims) BY <2>1 DEF Announced
    <2>4. Inboxes(Relayed(ws, "claim", n)) BY RelayKeeps DEF NodeTypeOK
    <2>5. NodeInv' BY <1>7, <2>2, <2>3, <2>4, MessagesKeep
    <2>6. QED BY <1>3, <2>5
  <1>8. QED BY <1>5, <1>6, <1>7 DEF ElectionTimerFires, ClaimDeadline, PromoteByTimer, q

LEMMA FallbackKeeps ==
    ASSUME IInv, NEW n \in Node, ReconnectionFallback(n)
    PROVE  IInv'
  <1>1. following[n] \in Node /\ role[following[n]] = "host" /\ role[n] = "client"
    BY DEF IInv, VoteInv, ReconnectionFallback, FallbackDue, Answers, LiveHost, LiveClient
  <1>2. /\ Reconnect(n, following[n], net) /\ UNCHANGED <<status, faults>>
        /\ following' = [following EXCEPT ![n] = NoNode]
    BY DEF ReconnectionFallback
  <1>3. Announced(net) BY DEF IInv, NodeInv, NetOK
  <1>4. QED BY <1>1, <1>2, <1>3, ReconnectKeeps, ReconnectVotes DEF IInv

LEMMA ReceiveUdpKeeps ==
    ASSUME IInv, NEW n \in Node, ReceiveUdp(n)
    PROVE  IInv'
  <1>1. PICK p \in net :
          \/ p.type = "claim" /\ OnNewHostClaim(n, p.from, net \ {p}, ws)
          \/ p.type = "ack" /\ OnElectionAck(n, p.from, net \ {p}, ws)
          \/ p.type = "reconnection" /\ OnReconnectionAck(n, p.from, net \ {p}, ws)
    BY DEF ReceiveUdp
  <1>2. UNCHANGED <<status, faults>> /\ role[n] = "client"
    BY DEF ReceiveUdp, LiveClient
  <1>3. p.from \in Node BY DEF IInv, NodeInv, NodeTypeOK, Packet
  <1>4. p.type = "reconnection" => role[p.from] = "host"
    BY DEF IInv, NodeInv, NetOK, Announced
  <1>5. Announced(net \ {p}) /\ Inboxes(ws)
    BY DEF IInv, NodeInv, NetOK, InboxOK, Announced
  <1>6. QED BY <1>1, <1>2, <1>3, <1>4, <1>5, ClaimKeeps, AckKeeps, ReconnectionKeeps

(* A client's roster: PlayerLeft spares the client, and the host flag that *)
(* a roster brings in is the one of the host the client is connected to.   *)
LEMMA RosterEventsKeep ==
    ASSUME IInv, NEW n \in Node, NEW e \in EventFor(n),
           NEW q, Inboxes(q), UNCHANGED <<status, faults>>,
           \/ OnPlayerLeft(n, e, q)
           \/ e.type = "roster" /\ MergeRoster(n, e, q)
    PROVE  IInv'
  <1> USE DEF IInv, NodeInv
  <1>1. UNCHANGED <<role, remote, promoted, detectVars, voteVars, net>> /\ ws' = q
    BY DEF OnPlayerLeft, MergeRoster
  <1>2. VoteInv' BY <1>1 DEF VoteInv, detectVars, voteVars
  <1>3. NetOK' /\ InboxOK'
    <2>1. Announced(net) BY DEF NetOK
    <2>2. QED BY <1>1, <2>1, SameRolesKeep
  <1>4. e.players \in SUBSET Node /\ e.from \in Node BY DEF EventFor, WsEvent
  <1>5. NodeTypeOK'
    <2>1. roster' \in [Node -> SUBSET Node] /\ flagged' \in [Node -> SUBSET Node]
      <3>1. CASE OnPlayerLeft(n, e, q)
        BY <3>1 DEF NodeTypeOK, OnPlayerLeft
      <3>2. CASE MergeRoster(n, e, q)
        BY <1>4, <3>2 DEF NodeTypeOK, MergeRoster
      <3>3. QED BY <3>1, <3>2
    <2>2. QED BY <1>1, <1>3, <2>1 DEF NodeTypeOK, InboxOK, Inboxes
  <1>6. SelfInRoster' /\ RemoteIsHost'
    <2>1. RemoteIsHost' BY <1>1 DEF RemoteIsHost
    <2>2. CASE OnPlayerLeft(n, e, q)
      BY <2>1, <2>2 DEF NodeTypeOK, OnPlayerLeft, Gone, SelfInRoster
    <2>3. CASE MergeRoster(n, e, q)
      BY <2>1, <2>3 DEF NodeTypeOK, MergeRoster, SelfInRoster
    <2>4. QED BY <2>1, <2>2, <2>3
  <1>7. HostEntryIsRemote'
    <2>1. CASE OnPlayerLeft(n, e, q)
      BY <1>1, <2>1 DEF NodeTypeOK, OnPlayerLeft, HostEntryIsRemote
    <2>2. CASE e.type = "roster" /\ MergeRoster(n, e, q)
      <3>1. e.from = remote[n] BY <2>2 DEF EventFor
      <3>2. QED BY <1>1, <2>2, <3>1 DEF NodeTypeOK, MergeRoster, HostEntryIsRemote
    <2>3. QED BY <2>1, <2>2
  <1>8. QED BY <1>2, <1>3, <1>5, <1>6, <1>7

LEMMA ReceiveGameEventKeeps ==
    ASSUME IInv, NEW n \in Node, ReceiveGameEvent(n)
    PROVE  IInv'
  <1> DEFINE e == Head(ws[n])
             q == [ws EXCEPT ![n] = Tail(@)]
  <1>1. ws[n] \in Seq(EventFor(n)) /\ ws[n] # <<>>
    BY DEF IInv, NodeInv, InboxOK, Inboxes, ReceiveGameEvent
  <1>2. e \in EventFor(n) /\ Tail(ws[n]) \in Seq(EventFor(n)) BY <1>1
  <1>3. Inboxes(q)
    <2>1. Tail(ws[n]) \in Seq(WsEvent)
      BY <1>2, SeqOfSubset DEF EventFor
    <2>2. \A m \in Node : role[m] = "host" /\ ~promoted[m] => q[m] = <<>>
      BY <1>1 DEF IInv, NodeInv, InboxOK, Inboxes
    <2>3. QED BY <1>2, <2>1, <2>2 DEF IInv, NodeInv, InboxOK, Inboxes
  <1>4. UNCHANGED <<status, faults>> /\ (role[n] = "client" \/ promoted[n])
    BY <1>1 DEF ReceiveGameEvent, LiveClient, IInv, NodeInv, NodeTypeOK, InboxOK, Inboxes
  <1>5. Announced(net) BY DEF IInv, NodeInv, NetOK
  <1>6. e.from \in Node /\ (e.type = "reconnection" => role[e.from] = "host")
    BY <1>2 DEF EventFor, WsEvent
  <1>7. \/ OnNewHostClaim(n, e.from, net, q)
        \/ OnElectionAck(n, e.from, net, q)
        \/ e.type = "reconnection" /\ OnReconnectionAck(n, e.from, net, q)
        \/ OnPlayerLeft(n, e, q)
        \/ e.type = "roster" /\ MergeRoster(n, e, q)
    BY DEF ReceiveGameEvent
  <1> HIDE DEF e, q
  <1>8. QED BY <1>2, <1>3, <1>4, <1>5, <1>6, <1>7,
               ClaimKeeps, AckKeeps, ReconnectionKeeps, RosterEventsKeep

LEMMA HostStepKeeps ==
    ASSUME IInv, NEW h \in Node, NEW n \in Node, BroadcastRoster(h) \/ HostEvicts(h, n)
    PROVE  IInv'
  <1> USE DEF IInv, NodeInv
  <1>1. CASE BroadcastRoster(h)
    <2>1. Event("roster", h, roster[h]) \in WsEvent
      BY DEF NodeTypeOK, Event, WsEvent, MsgTypes
    <2>2. Inboxes(Broadcast(ws, h, Event("roster", h, roster[h])))
      BY <2>1, EventsKeep DEF InboxOK, Event
    <2>3. NodeInv' BY <1>1, <2>2, MessagesKeep DEF BroadcastRoster, NetOK
    <2>4. VoteInv' BY <1>1 DEF BroadcastRoster, VoteInv, detectVars, voteVars
    <2>5. QED BY <2>3, <2>4
  <1>2. CASE HostEvicts(h, n)
    <2>1. Event("left", h, {n}) \in WsEvent BY DEF Event, WsEvent, MsgTypes
    <2>2. Inboxes(Broadcast(ws, h, Event("left", h, {n})))
      BY <2>1, EventsKeep DEF InboxOK, Event
    <2>3. InboxOK' /\ NetOK'
      <3>1. /\ UNCHANGED <<role, remote, promoted>> /\ net' = net
            /\ ws' = Broadcast(ws, h, Event("left", h, {n}))
        BY <1>2 DEF HostEvicts
      <3>2. Announced(net) BY DEF NetOK
      <3>3. QED BY <2>2, <3>1, <3>2, SameRolesKeep
    <2>4. NodeTypeOK' /\ SelfInRoster' /\ RemoteIsHost' /\ HostEntryIsRemote'
      BY <1>2, <2>3 DEF HostEvicts, NodeTypeOK, SelfInRoster, RemoteIsHost,
                        HostEntryIsRemote, InboxOK, Inboxes
    <2>5. VoteInv' BY <1>2 DEF HostEvicts, VoteInv, detectVars, voteVars
    <2>6. QED BY <2>3, <2>4, <2>5
  <1>3. QED BY <1>1, <1>2

LEMMA FaultKeeps ==
    ASSUME IInv, FaultStep
    PROVE  IInv'
  <1> USE DEF IInv, NodeInv
  <1>1. ASSUME NEW n \in Node, Crash(n) PROVE IInv'
    <2>1. Inboxes([ws EXCEPT ![n] = <<>>]) BY DEF InboxOK, Inboxes
    <2>2. Announced({p \in net : p.to # n}) BY DEF NetOK, Announced
    <2>3. NodeInv' BY <1>1, <2>1, <2>2, MessagesKeep DEF Crash
    <2>4. VoteInv' BY <1>1 DEF Crash, VoteInv, detectVars, voteVars
    <2>5. QED BY <2>3, <2>4
  <1>2. ASSUME NEW n \in Node, Stall(n) \/ Resume(n) PROVE IInv'
    <2>1. NodeInv' BY <1>2, MessagesKeep DEF Stall, Resume, NetOK, InboxOK
    <2>2. VoteInv' BY <1>2 DEF Stall, Resume, VoteInv, detectVars, voteVars
    <2>3. QED BY <2>1, <2>2
  <1>3. ASSUME NEW p \in net, Lose(p) PROVE IInv'
    <2>1. Announced(net \ {p}) BY DEF NetOK, Announced
    <2>2. NodeInv' BY <1>3, <2>1, MessagesKeep DEF Lose, InboxOK
    <2>3. VoteInv' BY <1>3 DEF Lose, VoteInv, detectVars, voteVars
    <2>4. QED BY <2>2, <2>3
  <1>4. QED BY <1>1, <1>2, <1>3 DEF FaultStep

THEOREM Inductive == IInv /\ [Next]_vars => IInv'
  <1> SUFFICES ASSUME IInv, [Next]_vars PROVE IInv' OBVIOUS
  <1>1. ASSUME NEW n \in Node, ClientStep(n) PROVE IInv'
    BY <1>1, DetectorKeeps, TimersKeep, FallbackKeeps, ReceiveUdpKeeps,
       ReceiveGameEventKeeps DEF ClientStep
  <1>2. ASSUME NEW h \in Node, HostStep(h) PROVE IInv'
    BY <1>2, HostStepKeeps DEF HostStep
  <1>3. CASE FaultStep BY <1>3, FaultKeeps
  <1>4. CASE UNCHANGED vars
    <2>1. NodeInv' BY <1>4, MessagesKeep DEF IInv, NodeInv, NetOK, InboxOK, vars
    <2>2. VoteInv' BY <1>4 DEF IInv, VoteInv, vars, detectVars, voteVars
    <2>3. QED BY <2>1, <2>2 DEF IInv
  <1>5. QED BY <1>1, <1>2, <1>3, <1>4 DEF Next

THEOREM Invariance == Spec => []IInv
  <1>1. QED BY InitInv, Inductive, PTL DEF Spec

-----------------------------------------------------------------------------
(* Every variable keeps its type.                                          *)
THEOREM TypeCorrect == Spec => []TypeOK
  <1>1. IInv => TypeOK BY DEF IInv, NodeInv, NodeTypeOK, VoteInv, TypeOK
  <1>2. QED BY <1>1, Invariance, PTL

(* No node ever evicts itself (_drain_game_events, _promote_to_host,       *)
(* _repoint_roster_at).                                                    *)
THEOREM NeverEvictsItself == Spec => []SelfInRoster
  <1>1. IInv => SelfInRoster BY DEF IInv, NodeInv
  <1>2. QED BY <1>1, Invariance, PTL

(* The node a client would evict as host is the one it is a client of, and *)
(* a promoted host flags at most the host it replaced besides itself, even *)
(* if it merges a RosterUpdate of that host in its promotion frame         *)
(* (get_host, promote_host, _merge_roster).                                *)
THEOREM HostFlagFollowsRemote == Spec => []HostEntryIsRemote
  <1>1. IInv => HostEntryIsRemote BY DEF IInv, NodeInv
  <1>2. QED BY <1>1, Invariance, PTL

(* Clients only ever repoint to a node that was promoted                   *)
(* (_on_reconnection_ack).                                                 *)
THEOREM ClientsOfHosts == Spec => []RemoteIsHost
  <1>1. IInv => RemoteIsHost BY DEF IInv, NodeInv
  <1>2. QED BY <1>1, Invariance, PTL

-----------------------------------------------------------------------------
(* One host at a time: what the staggered timers and the claim timeout     *)
(* buy, for any set of nodes.  The election is proved for one crash, with  *)
(* the timers in their order and no claim or ack lost (Timely); that it    *)
(* needs these the run split_brain shows.                                  *)

(* The node with the lowest join index but the first host's: the only one  *)
(* that ever claims.                                                       *)
Heir == CHOOSE n \in Node \ {FirstHost} : \A m \in Node \ {FirstHost} : n <= m

Timely ==
    /\ MaxCrashes <= 1 /\ MaxStalls = 0 /\ Losable \subseteq {"reconnection"}
    /\ ~Relay /\ InTurn /\ Prompt /\ WarmStart

Client == Node \ {FirstHost}
Claim(n) == [type |-> "claim", from |-> Heir, to |-> n]
Ack(n)   == [type |-> "ack", from |-> n, to |-> Heir]

-----------------------------------------------------------------------------
(* The invariant.                                                          *)

(* One node crashes at most, and it alone may leave a roster.              *)
Harmless == {e \in WsEvent :
                /\ e.type \in {"left", "roster"}
                /\ e.type = "left" =>
                      /\ e.from = FirstHost => FirstHost \notin e.players
                      /\ \A m \in e.players : status[m] = "crashed"}
FaultInv ==
    /\ \A n \in Node : status[n] \in {"up", "crashed"}
    /\ \A m, n \in Node : status[m] = "crashed" /\ status[n] = "crashed" => m = n
    /\ \A n \in Node : status[n] = "crashed" => faults.crashes >= 1
    /\ \A m, n \in Node : status[m] = "up" => m \in roster[n]
    /\ \A n \in Node : ws[n] \in Seq(Harmless)

RoleInv ==
    /\ role[FirstHost] = "host" /\ ~promoted[FirstHost]
    /\ \A n \in Client :
          /\ promoted[n] <=> role[n] = "host"
          /\ role[n] = "host" => n = Heir /\ status[FirstHost] = "crashed"
          /\ role[n] = "client" /\ remote[n] = FirstHost => FirstHost \in flagged[n]

(* A client before the crash, and one that has not noticed it yet.         *)
Calm(n) ==
    /\ remote[n] = FirstHost /\ coord[n] = "idle" /\ ~triggered[n]
    /\ pending[n] = {} /\ following[n] = NoNode /\ ~reconnected[n]

(* A client that knows of the crash and waits for its turn.                *)
Electing(n) ==
    /\ remote[n] = FirstHost /\ coord[n] = "pending" /\ triggered[n] /\ ~verifying[n]
    /\ pending[n] = {} /\ following[n] = NoNode /\ ~reconnected[n]

(* A client that has acknowledged the heir.                                *)
Follower(n) ==
    /\ remote[n] = FirstHost /\ coord[n] = "follower" /\ triggered[n] /\ ~verifying[n]
    /\ pending[n] = {} /\ following[n] = Heir /\ ~reconnected[n]

(* A client of the new host.                                               *)
Settled(n) ==
    /\ remote[n] = Heir /\ coord[n] \in {"absent", "idle"} /\ ~triggered[n] /\ ~verifying[n]
    /\ pending[n] = {} /\ reconnected[n]

(* The first host lives; it has crashed; the heir has claimed; the heir is *)
(* host.                                                                   *)
BeforeCrash ==
    /\ status[FirstHost] = "up" /\ net = {}
    /\ \A n \in Client : Calm(n) /\ watcher[n] = "fresh" /\ ~verifying[n]
Detecting ==
    /\ status[FirstHost] = "crashed" /\ net = {}
    /\ \A n \in Client : role[n] = "client" /\ (Calm(n) \/ Electing(n))
Claiming ==
    /\ status[FirstHost] = "crashed" /\ Heir \in Client
    /\ role[Heir] = "client" /\ remote[Heir] = FirstHost /\ ~reconnected[Heir]
    /\ coord[Heir] = "claimed" /\ triggered[Heir] /\ ~verifying[Heir] /\ following[Heir] = NoNode
    /\ pending[Heir] # {} /\ pending[Heir] \subseteq Client \ {Heir}
    /\ \A n \in Client \ {Heir} :
          \/ Electing(n) /\ Claim(n) \in net /\ n \in pending[Heir]
          \/ Follower(n) /\ Claim(n) \notin net /\ (n \in pending[Heir] => Ack(n) \in net)
    /\ \A p \in net :
          \E n \in Client \ {Heir} : p = Claim(n) \/ (p = Ack(n) /\ Follower(n))
Succeeded ==
    /\ status[FirstHost] = "crashed" /\ Heir \in Client /\ role[Heir] = "host"
    /\ \A n \in Client \ {Heir} : Follower(n) \/ Settled(n)
    /\ \A p \in net : p.type = "reconnection" /\ p.from = Heir

ElectionInv ==
    /\ FaultInv /\ RoleInv
    /\ BeforeCrash \/ Detecting \/ Claiming \/ Succeeded

-----------------------------------------------------------------------------
(* The heir.                                                               *)

(* A set of naturals has a least one: the one below which there are fewest.*)
LEMMA LeastNatural ==
    ASSUME NEW T, T \subseteq Nat, T # {}
    PROVE  \E i \in T : \A j \in T : i <= j
  <1> PICK top \in T : TRUE
    OBVIOUS
  <1> DEFINE Below(i) == {j \in T : j < i}
             U == {i \in T : i <= top}
             F == {Below(i) : i \in U}
             R == StrictSubsetOrdering(0..top)
  <1>1. IsWellFoundedOn(R, SUBSET (0..top))
    <2>1. IsFiniteSet(0..top)
      BY FS_Interval
    <2>2. FiniteSubsetsOf(0..top) = SUBSET (0..top)
      BY <2>1, FS_FiniteSubsetsOfFinite
    <2> QED  BY <2>2, FS_StrictSubsetOrderingWellFounded
  <1>2. F \subseteq SUBSET (0..top) /\ F # {}
    <2>1. \A i \in U : \A j \in Below(i) : j \in 0..top
      OBVIOUS
    <2>2. top \in U
      OBVIOUS
    <2> QED  BY <2>1, <2>2
  <1>3. PICK x \in F : \A y \in F : <<y, x>> \notin R
    <2> HIDE DEF F, R
    <2> QED  BY <1>1, <1>2, WFMin
  <1>4. PICK i \in U : x = Below(i)
    OBVIOUS
  <1>5. ASSUME NEW j \in T, j < i
        PROVE  FALSE
    <2>1. j \in U /\ Below(j) \in F
      BY <1>5
    <2>2. /\ \A k \in Below(j) : k \in Below(i)
          /\ j \in Below(i) /\ j \notin Below(j)
      BY <1>5
    <2>3. <<Below(j), x>> \in R
      BY <2>1, <2>2, <1>2, <1>4 DEF StrictSubsetOrdering
    <2> QED  BY <2>1, <2>3, <1>3
  <1> QED  BY <1>5

(* There is a lowest join index among those that are not the first host.   *)
LEMMA HeirIsLowest ==
    ASSUME NEW n \in Client
    PROVE  Heir \in Client /\ \A m \in Client : Heir <= m
  <1>1. Client \subseteq Nat
    BY NodeAssumption DEF Client
  <1>2. \E x \in Client : \A y \in Client : x <= y
    BY <1>1, LeastNatural
  <1> QED  BY <1>2 DEF Heir, Client

-----------------------------------------------------------------------------
(* What the invariant says of a node.                                      *)

Phases == BeforeCrash \/ Detecting \/ Claiming \/ Succeeded

(* A node that runs its client frame is up, and no first host.             *)
LEMMA LiveClients ==
    ASSUME IInv, ElectionInv, NEW n \in Node
    PROVE  /\ LiveClient(n) <=> n \in Client /\ status[n] = "up" /\ role[n] = "client"
           /\ n \in Client /\ role[n] # "host" => role[n] = "client"
           /\ n \in Client /\ status[FirstHost] = "crashed" => status[n] = "up"
           /\ n \in Client /\ status[FirstHost] = "up" => role[n] = "client"
  BY NodeAssumption DEF IInv, NodeInv, NodeTypeOK, ElectionInv, FaultInv, RoleInv, LiveClient, Up, Client

(* Who answers a probe, feeds the clients or evicts: the first host until  *)
(* it crashes, and the heir once it is promoted.                           *)
LEMMA LiveHosts ==
    ASSUME IInv, ElectionInv, NEW h \in Node, LiveHost(h)
    PROVE  \/ h = FirstHost /\ status[FirstHost] = "up" /\ BeforeCrash
           \/ h = Heir /\ Succeeded
  <1>1. status[h] = "up" /\ role[h] = "host"
    BY DEF LiveHost, Up
  <1>2. CASE h = FirstHost
    BY <1>1, <1>2 DEF ElectionInv, Detecting, Claiming, Succeeded
  <1>3. CASE h # FirstHost
    <2>1. h = Heir /\ h \in Client /\ status[FirstHost] = "crashed"
      BY <1>1, <1>3 DEF ElectionInv, RoleInv, Client
    <2> QED  BY <1>1, <2>1 DEF ElectionInv, BeforeCrash, Detecting, Claiming
  <1> QED  BY <1>2, <1>3

(* A client of the crashed host holds every other node as a peer, and not  *)
(* the crashed one.                                                        *)
LEMMA PeersOfClient ==
    ASSUME IInv, ElectionInv, status[FirstHost] = "crashed",
           NEW n \in Client, role[n] = "client", remote[n] = FirstHost
    PROVE  /\ KnownClientPeers(n) = Client \ {n}
           /\ flagged[n] = {FirstHost}
           /\ \A m \in Client : m \in roster[n]
  <1>1. n \in Node /\ \A m \in Client : status[m] = "up"
    BY LiveClients DEF Client
  <1>2. flagged[n] = {FirstHost}
    BY <1>1 DEF IInv, NodeInv, HostEntryIsRemote, ElectionInv, RoleInv
  <1>3. \A m \in Client : m \in roster[n]
    BY <1>1 DEF ElectionInv, FaultInv, Client
  <1>4. roster[n] \subseteq Node
    BY <1>1 DEF IInv, NodeInv, NodeTypeOK
  <1> QED  BY <1>2, <1>3, <1>4 DEF KnownClientPeers, Client

(* The phase is in these variables alone.                                  *)
LEMMA PhaseUnchanged ==
    ASSUME Phases, UNCHANGED <<status, role, remote, detectVars, voteVars, net>>
    PROVE  Phases'
  BY DEF Phases, BeforeCrash, Detecting, Claiming, Succeeded, Calm, Electing, Follower,
         Settled, detectVars, voteVars

(* So are the faults and the roles in these.                               *)
LEMMA RolesUnchanged ==
    ASSUME FaultInv, RoleInv, UNCHANGED <<status, nodeVars, ws, faults>>
    PROVE  FaultInv' /\ RoleInv'
  BY DEF FaultInv, RoleInv, Harmless, nodeVars

(* A host's game event of a harmless kind goes into harmless inboxes.      *)
LEMMA HarmlessKept ==
    ASSUME IInv, ElectionInv, NEW h \in Node, NEW e \in Harmless
    PROVE  \A m \in Node : Broadcast(ws, h, e)[m] \in Seq(Harmless)
  <1> DEFINE S == [m \in Node |-> Harmless]
  <1>1. S \in [Node -> SUBSET WsEvent] /\ e \in WsEvent
    BY DEF Harmless
  <1>2. ws \in [Node -> Seq(WsEvent)] /\ \A m \in Node : ws[m] \in Seq(S[m])
    BY DEF IInv, NodeInv, NodeTypeOK, ElectionInv, FaultInv
  <1>3. \A m \in Audience(h) : e \in S[m]
    BY DEF Audience
  <1> HIDE DEF S
  <1>4. \A m \in Node : Broadcast(ws, h, e)[m] \in Seq(S[m])
    BY <1>1, <1>2, <1>3, BroadcastKeeps
  <1> QED  BY <1>4 DEF S

-----------------------------------------------------------------------------
(* The steps, one by one.                                                  *)

LEMMA InitElection ==
    ASSUME Timely, Init
    PROVE  ElectionInv
  <1> USE NodeAssumption DEF Init, Client
  <1>1. FaultInv
    BY DEF FaultInv
  <1>2. RoleInv
    BY DEF RoleInv
  <1>3. BeforeCrash
    BY DEF BeforeCrash, Calm, Timely
  <1> QED  BY <1>1, <1>2, <1>3 DEF ElectionInv

(* A client reads a roster or an eviction.                                 *)
LEMMA GameEventElects ==
    ASSUME Timely, IInv, ElectionInv, NEW n \in Node, ReceiveGameEvent(n)
    PROVE  ElectionInv'
  <1> DEFINE e == Head(ws[n])
             q == [ws EXCEPT ![n] = Tail(@)]
  <1> USE DEF IInv, NodeInv, NodeTypeOK, ElectionInv
  <1>1. ws[n] \in Seq(Harmless) /\ ws[n] # <<>>
    BY DEF FaultInv, ReceiveGameEvent
  <1>2. e \in Harmless /\ Tail(ws[n]) \in Seq(Harmless)
    BY <1>1
  <1>3. UNCHANGED <<role, remote, promoted, detectVars, voteVars, net, status, faults>> /\ ws' = q
    BY <1>2 DEF ReceiveGameEvent, OnPlayerLeft, MergeRoster, Harmless
  <1>4. n \in Client /\ status[n] = "up"
    <2>1. n # FirstHost
      BY <1>1 DEF RoleInv, InboxOK, Inboxes
    <2>2. status[n] = "up"
      BY DEF ReceiveGameEvent, LiveClient, LiveHost, Up
    <2> QED  BY <2>1, <2>2 DEF Client
  <1>5. /\ \A m \in Node \ {n} : roster'[m] = roster[m] /\ flagged'[m] = flagged[m]
        /\ \A k \in roster[n] : status[k] = "up" => k \in roster'[n]
        /\ remote[n] = FirstHost /\ FirstHost \in flagged[n] => FirstHost \in flagged'[n]
    <2>1. CASE e.type = "left"
      <3>1. OnPlayerLeft(n, e, q)
        BY <1>2, <2>1 DEF ReceiveGameEvent, Harmless
      <3>2. /\ remote[n] = FirstHost => FirstHost \notin e.players
            /\ \A m \in e.players : status[m] = "crashed"
        <4>1. e \in EventFor(n) BY <1>1 DEF InboxOK, Inboxes
        <4>2. remote[n] = FirstHost => e.from = FirstHost
          BY <2>1, <4>1 DEF EventFor
        <4> HIDE DEF e
        <4> QED  BY <1>2, <2>1, <4>2 DEF Harmless
      <3> HIDE DEF e, q
      <3>3. /\ roster' = [roster EXCEPT ![n] = @ \ (e.players \ {n})]
            /\ flagged' = [flagged EXCEPT ![n] = @ \ (e.players \ {n})]
        BY <3>1 DEF OnPlayerLeft, Gone
      <3> QED  BY <3>2, <3>3
    <2>2. CASE e.type = "roster"
      <3>1. MergeRoster(n, e, q)
        BY <1>2, <2>2 DEF ReceiveGameEvent, Harmless
      <3> HIDE DEF e, q
      <3> QED  BY <3>1 DEF MergeRoster
    <2> QED  BY <1>2, <2>1, <2>2 DEF Harmless
  <1>6. FaultInv'
    <2>1. \A m \in Node : ws'[m] \in Seq(Harmless)
      BY <1>2, <1>3 DEF FaultInv
    <2>2. Harmless' = Harmless
      BY <1>3 DEF Harmless
    <2>3. \A k, m \in Node : status'[k] = "up" => k \in roster'[m]
      BY <1>3, <1>5 DEF FaultInv
    <2> QED  BY <1>3, <2>1, <2>2, <2>3 DEF FaultInv
  <1>7. RoleInv'
    BY <1>3, <1>4, <1>5 DEF RoleInv, Client
  <1>8. Phases'
    BY <1>3, PhaseUnchanged DEF Phases
  <1> QED  BY <1>6, <1>7, <1>8 DEF Phases

(* Whom a host evicts has crashed: the others still follow it.             *)
LEMMA EvictedIsCrashed ==
    ASSUME Timely, IInv, ElectionInv, NEW h \in Node, NEW n \in Node, HostEvicts(h, n)
    PROVE  n # h /\ status[n] = "crashed"
  <1>1. /\ LiveHost(h) /\ n \in roster[h] \ {h}
        /\ ~(LiveClient(n) /\ remote[n] = h)
        /\ ~(LiveClient(n) /\ following[n] = h)
    BY DEF HostEvicts, Timely
  <1>2. CASE h = FirstHost /\ status[FirstHost] = "up" /\ BeforeCrash
    <2>1. n \in Client /\ ~LiveClient(n)
      BY <1>1, <1>2 DEF BeforeCrash, Calm, Client
    <2> QED  BY <1>2, <2>1, LiveClients DEF ElectionInv, FaultInv, Client
  <1>3. CASE h = Heir /\ Succeeded
    <2>1. CASE n = FirstHost
      BY <1>1, <1>3, <2>1 DEF Succeeded
    <2>2. CASE n # FirstHost
      <3>1. n \in Client \ {Heir}
        BY <1>1, <1>3, <2>2 DEF Client
      <3>2. role[n] = "client" /\ (status[n] # "crashed" => LiveClient(n))
        BY <1>3, <3>1, LiveClients DEF Succeeded, ElectionInv, RoleInv
      <3> QED  BY <1>1, <1>3, <3>1, <3>2 DEF Succeeded, Follower, Settled
    <2> QED  BY <2>1, <2>2
  <1> QED  BY <1>1, <1>2, <1>3, LiveHosts

LEMMA HostStepElects ==
    ASSUME Timely, IInv, ElectionInv, NEW h \in Node, NEW n \in Node,
           BroadcastRoster(h) \/ HostEvicts(h, n)
    PROVE  ElectionInv'
  <1> USE DEF ElectionInv
  <1>1. UNCHANGED <<status, role, flagged, remote, promoted, detectVars, voteVars, net, faults>>
    BY DEF BroadcastRoster, HostEvicts, nodeVars
  <1>2. Phases'
    BY <1>1, PhaseUnchanged DEF Phases
  <1>3. /\ \E e \in Harmless : ws' = Broadcast(ws, h, e)
        /\ \A m \in Node : roster'[m] \subseteq roster[m]
        /\ \A k, m \in Node : status[k] = "up" /\ k \in roster[m] => k \in roster'[m]
    <2> USE DEF IInv, NodeInv, NodeTypeOK
    <2>1. CASE BroadcastRoster(h)
      <3>1. Event("roster", h, roster[h]) \in Harmless
        BY DEF Event, Harmless, WsEvent, MsgTypes
      <3> QED  BY <2>1, <3>1 DEF BroadcastRoster, nodeVars
    <2>2. CASE HostEvicts(h, n)
      <3>1. Event("left", h, {n}) \in Harmless
        BY <2>2, EvictedIsCrashed DEF Event, Harmless, WsEvent, MsgTypes
      <3>2. roster' = [roster EXCEPT ![h] = @ \ {n}] /\ status[n] # "up"
        BY <2>2, EvictedIsCrashed DEF HostEvicts
      <3> QED  BY <2>2, <3>1, <3>2 DEF HostEvicts
    <2> QED  BY <2>1, <2>2
  <1>4. FaultInv'
    <2>1. \A m \in Node : ws'[m] \in Seq(Harmless)
      BY <1>3, HarmlessKept
    <2>2. Harmless' = Harmless
      BY <1>1 DEF Harmless
    <2> QED  BY <1>1, <1>3, <2>1, <2>2 DEF FaultInv
  <1>5. RoleInv'
    BY <1>1, <1>3 DEF RoleInv, Client
  <1> QED  BY <1>2, <1>4, <1>5 DEF Phases

(* The environment: one crash, and the announcements it loses.             *)
LEMMA FaultElects ==
    ASSUME Timely, IInv, ElectionInv, FaultStep
    PROVE  ElectionInv'
  <1> USE DEF ElectionInv, IInv, NodeInv, VoteInv
  <1>1. ASSUME NEW n \in Node, Crash(n)
        PROVE  ElectionInv'
    <2>1. faults.crashes = 0 /\ faults.crashes \in Nat /\ faults'.crashes = 1
      BY <1>1, BoundAssumption DEF Crash, Timely
    <2>2. \A m \in Node : status[m] = "up"
      BY <2>1 DEF FaultInv
    <2>3. BeforeCrash
      BY <2>2, NodeAssumption DEF Detecting, Claiming, Succeeded
    <2>4. /\ UNCHANGED <<nodeVars, detectVars, voteVars>> /\ net' = {}
          /\ status' = [status EXCEPT ![n] = "crashed"]
          /\ ws' = [ws EXCEPT ![n] = <<>>]
      BY <1>1, <2>3 DEF Crash, BeforeCrash
    <2>5. FaultInv'
      <3>1. Harmless \subseteq Harmless'
        BY <2>2, <2>4 DEF Harmless, WsEvent
      <3>2. \A m \in Node : ws'[m] \in Seq(Harmless')
        <4>1. \A m \in Node : ws[m] \in Seq(Harmless')
          BY <3>1, SeqOfSubset DEF FaultInv
        <4> QED  BY <2>4, <4>1 DEF NodeTypeOK
      <3> QED  BY <2>1, <2>2, <2>4, <3>2 DEF FaultInv, nodeVars
    <2>6. \A m \in Client : role[m] = "client"
      BY <2>2, NodeAssumption DEF RoleInv, NodeTypeOK, Client
    <2>7. RoleInv'
      BY <2>4, <2>6 DEF RoleInv, nodeVars
    <2>8. \A m \in Client : Calm(m)' /\ watcher'[m] = "fresh" /\ ~verifying'[m]
      BY <2>3, <2>4 DEF BeforeCrash, Calm, nodeVars, detectVars, voteVars
    <2>9. CASE n = FirstHost
      <3>1. Detecting'
        BY <2>2, <2>4, <2>6, <2>8, <2>9, NodeAssumption DEF Detecting, nodeVars
      <3> QED  BY <2>5, <2>7, <3>1
    <2>10. CASE n # FirstHost
      <3>1. BeforeCrash'
        BY <2>2, <2>4, <2>8, <2>10, NodeAssumption DEF BeforeCrash
      <3> QED  BY <2>5, <2>7, <3>1
    <2> QED  BY <2>9, <2>10
  <1>2. ASSUME NEW n \in Node, Stall(n) \/ Resume(n)
        PROVE  FALSE
    BY <1>2, BoundAssumption DEF Stall, Resume, FaultInv, Timely
  <1>3. ASSUME NEW p \in net, Lose(p)
        PROVE  ElectionInv'
    <2>1. /\ UNCHANGED <<status, nodeVars, detectVars, voteVars, ws>> /\ net' = net \ {p}
          /\ p.type = "reconnection" /\ faults' = [faults EXCEPT !.lost = @ + 1]
      BY <1>3 DEF Lose, Timely
    <2>2. FaultInv' /\ RoleInv'
      <3>1. faults'.crashes = faults.crashes
        BY <2>1
      <3>2. FaultInv'
        BY <2>1, <3>1 DEF FaultInv, Harmless, nodeVars
      <3>3. RoleInv'
        BY <2>1 DEF RoleInv, nodeVars
      <3> QED  BY <3>2, <3>3
    <2>3. Succeeded
      BY <1>3, <2>1 DEF BeforeCrash, Detecting, Claiming, Claim, Ack
    <2>4. Succeeded'
      BY <2>1, <2>3 DEF Succeeded, Follower, Settled, nodeVars, detectVars, voteVars
    <2> QED  BY <2>2, <2>4
  <1> QED  BY <1>1, <1>2, <1>3 DEF FaultStep

(* Nobody feeds the clients of the crashed host; the others are fed.       *)
LEMMA WhoFeeds ==
    ASSUME Timely, IInv, ElectionInv, NEW n \in Node, LiveClient(n)
    PROVE  /\ (Detecting \/ Claiming) => \A h \in Node : ~LiveHost(h)
           /\ (BeforeCrash \/ Succeeded) => \E h \in Node : Feeds(h, n)
  <1> USE DEF ElectionInv
  <1>1. n \in Client /\ status[n] = "up" /\ role[n] = "client"
    BY LiveClients
  <1>2. ASSUME Detecting \/ Claiming, NEW h \in Node, LiveHost(h)
        PROVE  FALSE
    BY <1>2, LiveHosts DEF Detecting, Claiming, BeforeCrash, Succeeded
  <1>3. ASSUME BeforeCrash
        PROVE  Feeds(FirstHost, n)
    BY <1>1, <1>3, NodeAssumption
       DEF Feeds, LiveHost, Up, FaultInv, RoleInv, BeforeCrash, Client
  <1>4. ASSUME Succeeded
        PROVE  Feeds(Heir, n)
    <2>1. status[Heir] = "up" /\ role[Heir] = "host"
      BY <1>4, LiveClients DEF Succeeded, Client
    <2> QED  BY <1>1, <2>1, <1>4 DEF Feeds, LiveHost, Up, FaultInv, Succeeded, Client
  <1> QED  BY <1>2, <1>3, <1>4, NodeAssumption DEF Succeeded, Client

(* Before the crash, and in the claim, the detector has nothing to do; the *)
(* clients of the crashed host come to suspect it, and to know.            *)
LEMMA DetectorElects ==
    ASSUME Timely, IInv, ElectionInv, NEW n \in Node,
           \/ EnsureElectionComponents(n) \/ ReceiveSnapshot(n) \/ SuspectHost(n)
           \/ HostVerifyAnswered(n) \/ HostVerifyCancelled(n) \/ ConfirmHostDeath(n)
    PROVE  ElectionInv'
  <1> USE DEF ElectionInv, EnsureElectionComponents, ReceiveSnapshot, SuspectHost,
              HostVerifyAnswered, HostVerifyCancelled, ConfirmHostDeath
  <1>1. /\ UNCHANGED <<status, nodeVars, ws, faults>> /\ UNCHANGED <<role, remote, net>>
        /\ UNCHANGED <<pending, following, reconnected>>
    BY DEF voteVars, nodeVars
  <1>2. FaultInv' /\ RoleInv'
    BY <1>1, RolesUnchanged
  <1>3. n \in Client /\ status[n] = "up" /\ role[n] = "client" /\ LiveClient(n)
    BY LiveClients
  <1>4. \A m \in Client \ {n} : /\ Calm(m) => Calm(m)'
                                /\ Electing(m) => Electing(m)'
                                /\ Follower(m) => Follower(m)'
                                /\ Settled(m) => Settled(m)'
    <2> USE DEF IInv, VoteInv, Client, Calm, Electing, Follower, Settled, voteVars
    <2>1. CASE EnsureElectionComponents(n)
      BY <1>1, <2>1
    <2>2. CASE ReceiveSnapshot(n)
      BY <1>1, <2>2
    <2>3. CASE SuspectHost(n)
      BY <1>1, <2>3
    <2>4. CASE HostVerifyAnswered(n) \/ HostVerifyCancelled(n)
      BY <1>1, <2>4
    <2>5. CASE ConfirmHostDeath(n)
      BY <1>1, <2>5
    <2> QED  BY <2>1, <2>2, <2>3, <2>4, <2>5
  <1>5. CASE BeforeCrash
    <2>1. \E h \in Node : Feeds(h, n)
      BY <1>3, <1>5, WhoFeeds
    <2>2. Calm(n) /\ watcher[n] = "fresh" /\ ~verifying[n]
      BY <1>3, <1>5 DEF BeforeCrash
    <2> QED  BY <2>1, <2>2 DEF Calm
  <1>6. CASE Detecting
    <2>1. \A h \in Node : ~LiveHost(h) /\ ~Answers(h) /\ ~Feeds(h, n)
      BY <1>3, <1>6, WhoFeeds DEF Feeds, Answers
    <2>2. Calm(n) \/ Electing(n)
      BY <1>3, <1>6 DEF Detecting
    <2>3. Calm(n)' \/ Electing(n)'
      <3> USE DEF IInv, NodeInv, NodeTypeOK, VoteInv, Calm, Electing, voteVars
      <3>1. CASE SuspectHost(n) \/ HostVerifyCancelled(n)
        <4>1. Calm(n) /\ UNCHANGED <<triggered, coord>>
          BY <2>2, <3>1
        <4> QED  BY <1>1, <4>1
      <3>2. CASE ConfirmHostDeath(n)
        <4>1. Calm(n)
          BY <2>2, <3>2
        <4> QED  BY <1>1, <3>2, <4>1
      <3>3. ~EnsureElectionComponents(n)
        BY <2>2
      <3>4. ~ReceiveSnapshot(n) /\ ~HostVerifyAnswered(n)
        BY <2>1
      <3> QED  BY <3>1, <3>2, <3>3, <3>4
    <2>4. Detecting'
      BY <1>1, <1>4, <1>6, <2>3 DEF Detecting
    <2> QED  BY <1>2, <2>4
  <1>7. CASE Claiming
    <2>1. ~\E h \in Node : Feeds(h, n)
      BY <1>3, <1>7, WhoFeeds DEF Feeds
    <2>2. triggered[n] /\ ~verifying[n] /\ coord[n] # "absent"
      BY <1>3, <1>7 DEF Claiming, Electing, Follower
    <2> QED  BY <2>1, <2>2
  <1>8. CASE Succeeded
    <2>1. \E h \in Node : Feeds(h, n)
      BY <1>3, <1>8, WhoFeeds
    <2>2. n # Heir /\ (Follower(n) \/ Settled(n)) /\ ~verifying[n]
      BY <1>3, <1>8 DEF Succeeded, Follower, Settled
    <2>3. Follower(n)' \/ Settled(n)'
      <3>1. CASE EnsureElectionComponents(n)
        <4>1. Settled(n)
          BY <2>2, <3>1 DEF Follower
        <4> QED  BY <1>1, <3>1, <4>1 DEF Settled, IInv, VoteInv
      <3>2. CASE ReceiveSnapshot(n)
        BY <1>1, <2>2, <3>2 DEF Follower, Settled, voteVars
      <3> QED  BY <2>1, <2>2, <3>1, <3>2
    <2>4. Succeeded'
      BY <1>1, <1>4, <1>8, <2>3 DEF Succeeded
    <2> QED  BY <1>2, <2>4
  <1> QED  BY <1>5, <1>6, <1>7, <1>8

(* The heir becomes host when every other client follows it.               *)
LEMMA PromotionElects ==
    ASSUME Timely, IInv, ElectionInv, UNCHANGED <<status, faults, detectVars, following, reconnected>>,
           status[FirstHost] = "crashed", Heir \in Client,
           role[Heir] = "client", remote[Heir] = FirstHost,
           \A m \in Client \ {Heir} : Follower(m) /\ coord'[m] = coord[m] /\ pending'[m] = pending[m],
           NEW udp, \A p \in udp : p.to = Heir,
           NEW q, \A m \in Node : q[m] \in Seq(Harmless), q \in [Node -> Seq(WsEvent)],
           PromoteToHost(Heir, roster[Heir], udp, q)
    PROVE  ElectionInv'
  <1> USE DEF IInv, NodeInv, NodeTypeOK, ElectionInv
  <1> DEFINE survivors == roster[Heir] \ (flagged[Heir] \cup {Heir})
  <1>1. /\ promoted' = [promoted EXCEPT ![Heir] = TRUE]
        /\ role' = [role EXCEPT ![Heir] = "host"]
        /\ roster' = [roster EXCEPT ![Heir] = @ \ flagged[Heir]]
        /\ flagged' = [flagged EXCEPT ![Heir] = {Heir}]
        /\ net' = {p \in udp : p.to # Heir} \cup Packets("reconnection", Heir, survivors)
        /\ ws' = q
        /\ remote' = remote
    BY DEF PromoteToHost, Relayed, Timely
  <1>2. flagged[Heir] = {FirstHost}
    BY PeersOfClient
  <1>3. FaultInv'
    <2>1. Harmless' = Harmless
      BY DEF Harmless
    <2>2. \A m \in Node : ws'[m] \in Seq(Harmless)
      BY <1>1 DEF FaultInv
    <2>3. \A k, m \in Node : status'[k] = "up" => k \in roster'[m]
      BY <1>1, <1>2 DEF FaultInv
    <2> QED  BY <2>1, <2>2, <2>3 DEF FaultInv
  <1>4. RoleInv'
    BY <1>1, <1>2 DEF RoleInv, Client
  <1>5. Succeeded'
    <2>1. \A p \in net' : p.type = "reconnection" /\ p.from = Heir
      <3>1. \A p \in Packets("reconnection", Heir, survivors) : p.type = "reconnection" /\ p.from = Heir
        BY DEF Packets
      <3> QED  BY <1>1, <3>1
    <2>2. \A m \in Client \ {Heir} : Follower(m)'
      BY <1>1 DEF Follower, detectVars
    <2>3. role'[Heir] = "host"
      BY <1>1 DEF Client
    <2> QED  BY <2>1, <2>2, <2>3 DEF Succeeded
  <1> QED  BY <1>3, <1>4, <1>5

(* A follower becomes a client of the heir.                                *)
LEMMA ReconnectElects ==
    ASSUME Timely, IInv, ElectionInv, Succeeded, UNCHANGED <<status, faults>>,
           NEW n \in Client, n # Heir, Follower(n), NEW udp \in SUBSET net,
           Reconnect(n, Heir, udp),
           following' = following \/ following' = [following EXCEPT ![n] = NoNode]
    PROVE  ElectionInv'
  <1> USE DEF IInv, NodeInv, NodeTypeOK, VoteInv, ElectionInv
  <1>1. /\ reconnected' = [reconnected EXCEPT ![n] = TRUE]
        /\ remote' = [remote EXCEPT ![n] = Heir]
        /\ roster' = [roster EXCEPT ![n] = @ \ flagged[n]]
        /\ \A m \in Node \ {n} : flagged'[m] = flagged[m]
        /\ triggered' = [triggered EXCEPT ![n] = FALSE]
        /\ pending' = [pending EXCEPT ![n] = {}]
        /\ coord' = [coord EXCEPT ![n] = "absent"]
        /\ verifying' = [verifying EXCEPT ![n] = FALSE]
        /\ ws' = [ws EXCEPT ![n] = <<>>]
        /\ net' = udp /\ UNCHANGED <<role, promoted>>
    BY DEF Reconnect, ClosedInbox
  <1>2. flagged[n] = {FirstHost} /\ status[FirstHost] = "crashed" /\ role[n] = "client" /\ n \in Node
    <2>1. role[n] = "client" /\ remote[n] = FirstHost
      BY DEF Follower, RoleInv, Client
    <2> QED  BY <2>1, PeersOfClient DEF Succeeded, Client
  <1>3. FaultInv'
    <2>1. Harmless' = Harmless
      BY DEF Harmless
    <2>2. \A m \in Node : ws'[m] \in Seq(Harmless)
      BY <1>1 DEF FaultInv
    <2>3. \A k, m \in Node : status'[k] = "up" => k \in roster'[m]
      BY <1>1, <1>2 DEF FaultInv
    <2> QED  BY <2>1, <2>2, <2>3 DEF FaultInv
  <1>4. RoleInv'
    <2>1. Heir # FirstHost /\ \A m \in Client : m \in Node
      BY DEF Succeeded, Client
    <2> QED  BY <1>1, <1>2, <2>1 DEF RoleInv
  <1>5. Succeeded'
    <2>1. Settled(n)'
      BY <1>1, <1>2 DEF Settled
    <2>2. \A m \in Client \ {Heir, n} : Follower(m)' \/ Settled(m)'
      BY <1>1 DEF Succeeded, Follower, Settled, Client
    <2> QED  BY <1>1, <2>1, <2>2 DEF Succeeded
  <1> QED  BY <1>3, <1>4, <1>5

(* Only the heir's timer ever fires, once everybody knows of the crash.    *)
LEMMA TimerElects ==
    ASSUME Timely, IInv, ElectionInv, NEW n \in Node, ElectionTimerFires(n)
    PROVE  ElectionInv'
  <1> USE DEF ElectionInv
  <1>1. n \in Client /\ status[n] = "up" /\ role[n] = "client" /\ LiveClient(n)
        /\ triggered[n] /\ coord[n] = "pending" /\ ElectionTimerInTurn(n)
    BY LiveClients DEF ElectionTimerFires, Timely
  <1>2. Detecting
    <2>1. ~BeforeCrash
      BY <1>1 DEF BeforeCrash, Calm
    <2>2. ~Succeeded
      BY <1>1 DEF Succeeded, Follower, Settled
    <2>3. ~Claiming
      <3>1. ASSUME Claiming
            PROVE  Electing(n) /\ Claim(n) \in net
        BY <1>1, <3>1 DEF Claiming, Follower
      <3> QED  BY <1>1, <3>1 DEF ElectionTimerInTurn, Claim
    <2> QED  BY <2>1, <2>2, <2>3
  <1>3. \A m \in Client : status[m] = "up" /\ role[m] = "client" /\ LiveClient(m)
                          /\ remote[m] = FirstHost
    BY <1>2, LiveClients DEF Detecting, Client, Calm, Electing
  <1>4. \A m \in Client \ {n} : Electing(m)
    BY <1>1, <1>2, <1>3 DEF ElectionTimerInTurn, Detecting, Calm, Client
  <1>5. n = Heir
    <2>1. Heir \in Client /\ Heir <= n
      BY <1>1, HeirIsLowest
    <2>2. Heir < n => FALSE
      BY <1>1, <1>3, <1>4, <2>1, NodeAssumption DEF ElectionTimerInTurn, Electing, Client
    <2> QED  BY <2>1, <2>2, NodeAssumption DEF Client
  <1>6. KnownClientPeers(n) = Client \ {n} /\ flagged[n] = {FirstHost}
    BY <1>1, <1>2, <1>3, PeersOfClient DEF Detecting
  <1>7. /\ coord' = [coord EXCEPT ![n] = "claimed"]
        /\ UNCHANGED <<status, detectVars, following, reconnected, faults>>
    BY DEF ElectionTimerFires
  <1>8. CASE Client \ {n} = {}
    <2> DEFINE q == [ws EXCEPT ![n] = <<>>]
    <2>1. PromoteToHost(n, roster[n], net, q)
      BY <1>6, <1>8 DEF ElectionTimerFires, PromoteByTimer
    <2>2. q \in [Node -> Seq(WsEvent)] /\ \A m \in Node : q[m] \in Seq(Harmless)
      BY DEF IInv, NodeInv, NodeTypeOK, ElectionInv, FaultInv
    <2> HIDE DEF q
    <2> QED  BY <1>1, <1>2, <1>3, <1>5, <1>7, <1>8, <2>1, <2>2, PromotionElects DEF Detecting
  <1>9. CASE Client \ {n} # {}
    <2>1. /\ net' = Packets("claim", n, Client \ {n}) /\ ws' = ws
          /\ pending' = [pending EXCEPT ![n] = Client \ {n}]
          /\ UNCHANGED nodeVars
      BY <1>2, <1>6, <1>9 DEF ElectionTimerFires, Detecting, Relayed, Timely
    <2>2. FaultInv' /\ RoleInv'
      BY <1>7, <2>1, RolesUnchanged
    <2>3. /\ \A m \in Client \ {Heir} : Claim(m) \in net'
          /\ \A p \in net' : \E m \in Client \ {Heir} : p = Claim(m)
      BY <1>3, <1>5, <2>1 DEF Packets, Claim
    <2>4. \A m \in Client \ {Heir} : Electing(m)'
      BY <1>4, <1>5, <1>7, <2>1 DEF Electing, nodeVars, detectVars, Client, IInv, VoteInv
    <2>5. ~verifying[Heir] /\ following[Heir] = NoNode /\ ~reconnected[Heir]
      BY <1>1, <1>2, <1>5 DEF Detecting, Calm, Electing
    <2>6. Claiming'
      <3>1. /\ pending'[Heir] = Client \ {Heir} /\ coord'[Heir] = "claimed" /\ Heir \in Client
        BY <1>1, <1>5, <1>7, <2>1 DEF IInv, VoteInv, Client
      <3>2. /\ status'[FirstHost] = "crashed" /\ role'[Heir] = "client"
            /\ remote'[Heir] = FirstHost /\ triggered'[Heir] /\ ~verifying'[Heir]
            /\ following'[Heir] = NoNode /\ ~reconnected'[Heir]
        BY <1>1, <1>2, <1>3, <1>5, <1>7, <2>1, <2>5 DEF Detecting, nodeVars, detectVars
      <3> QED  BY <1>5, <1>9, <2>3, <2>4, <3>1, <3>2 DEF Claiming
    <2> QED  BY <2>2, <2>6
  <1> QED  BY <1>8, <1>9

(* The claim timeout never passes: the claim or the answer is on its way.  *)
LEMMA DeadlineElects ==
    ASSUME Timely, IInv, ElectionInv, NEW n \in Node, ClaimDeadline(n)
    PROVE  FALSE
  <1>1. /\ n \in Client /\ role[n] = "client" /\ triggered[n] /\ pending[n] # {}
        /\ NoReplyToCome(n)
    BY LiveClients DEF ClaimDeadline, Timely
  <1>2. Claiming /\ n = Heir
    BY <1>1 DEF ElectionInv, BeforeCrash, Detecting, Claiming, Succeeded,
                Calm, Electing, Follower, Settled
  <1>3. PICK m \in pending[Heir] : Claim(m) \in net \/ Ack(m) \in net
    BY <1>1, <1>2 DEF Claiming
  <1> QED  BY <1>1, <1>2, <1>3 DEF NoReplyToCome, Claim, Ack

LEMMA FallbackElects ==
    ASSUME Timely, IInv, ElectionInv, NEW n \in Node, ReconnectionFallback(n)
    PROVE  ElectionInv'
  <1>1. /\ n \in Client /\ role[n] = "client" /\ triggered[n]
        /\ following[n] # NoNode /\ LiveHost(following[n]) /\ ~reconnected[n]
    BY LiveClients DEF ReconnectionFallback, FallbackDue, Answers
  <1>2. following[n] \in Node
    BY <1>1 DEF IInv, VoteInv, Client
  <1>3. Succeeded /\ n # Heir /\ Follower(n)
    <2>1. ~BeforeCrash /\ ~Detecting
      BY <1>1 DEF BeforeCrash, Detecting, Calm, Electing
    <2>2. Succeeded
      BY <1>1, <1>2, <2>1, LiveHosts
    <2> QED  BY <1>1, <2>2 DEF Succeeded, Settled
  <1>4. following[n] = Heir
    BY <1>3 DEF Follower
  <1>5. /\ Reconnect(n, Heir, net) /\ UNCHANGED <<status, faults>>
        /\ following' = [following EXCEPT ![n] = NoNode]
    BY <1>4 DEF ReconnectionFallback
  <1> QED  BY <1>1, <1>3, <1>5, ReconnectElects

(* A client reads the claim and follows; the heir reads an ack.            *)
LEMMA ClaimRead ==
    ASSUME Timely, IInv, ElectionInv, Claiming, NEW n \in Client \ {Heir},
           Claim(n) \in net, LiveClient(n), UNCHANGED <<status, faults>>,
           OnNewHostClaim(n, Heir, net \ {Claim(n)}, ws)
    PROVE  ElectionInv'
  <1> USE DEF IInv, NodeInv, NodeTypeOK, VoteInv, ElectionInv
  <1>1. Electing(n) /\ n \in pending[Heir]
    BY DEF Claiming
  <1>2. Heir \in Client /\ Heir < n
    <2>1. Heir \in Client /\ Heir <= n
      BY HeirIsLowest
    <2>2. Heir \in Nat /\ n \in Nat /\ n # Heir
      BY <2>1, NodeAssumption DEF Client
    <2> QED  BY <2>1, <2>2
  <1>3. Packets("ack", n, {Heir} \cap roster[n]) = {Ack(n)}
    <2>1. Heir \in roster[n] /\ role[Heir] = "client" /\ status[Heir] # "crashed"
      BY <1>2, LiveClients DEF Claiming, FaultInv, Client
    <2> QED  BY <2>1 DEF Packets, Ack
  <1>4. /\ coord' = [coord EXCEPT ![n] = "follower"]
        /\ following' = [following EXCEPT ![n] = Heir]
        /\ net' = (net \ {Claim(n)}) \cup {Ack(n)} /\ ws' = ws
        /\ UNCHANGED <<nodeVars, detectVars, pending, reconnected>>
    BY <1>1, <1>2, <1>3 DEF OnNewHostClaim, Outranks, Electing, Relayed, Timely
  <1>5. FaultInv' /\ RoleInv'
    BY <1>4, RolesUnchanged
  <1>6. Follower(n)'
    BY <1>1, <1>4 DEF Electing, Follower, nodeVars, detectVars, Client
  <1>7. \A m \in Client \ {Heir, n} : /\ Electing(m) => Electing(m)'
                                      /\ Follower(m) => Follower(m)'
    BY <1>4 DEF Electing, Follower, nodeVars, detectVars, Client
  <1>8. /\ Claim(n) \notin net' /\ Ack(n) \in net'
        /\ \A m \in Client \ {Heir, n} : /\ Claim(m) \in net' <=> Claim(m) \in net
                                         /\ Ack(m) \in net => Ack(m) \in net'
    BY <1>4 DEF Claim, Ack
  <1>9. Claiming'
    <2>1. \A m \in Client \ {Heir} :
             \/ Electing(m)' /\ Claim(m) \in net' /\ m \in pending[Heir]
             \/ Follower(m)' /\ Claim(m) \notin net' /\ (m \in pending[Heir] => Ack(m) \in net')
      BY <1>6, <1>7, <1>8 DEF Claiming
    <2>2. \A p \in net' :
            \E m \in Client \ {Heir} : p = Claim(m) \/ (p = Ack(m) /\ Follower(m)')
      <3>1. ASSUME NEW p \in net'
            PROVE  \E m \in Client \ {Heir} : p = Claim(m) \/ (p = Ack(m) /\ Follower(m)')
        <4>1. CASE p = Ack(n)
          BY <1>6, <4>1
        <4>2. CASE p \in net
          <5>1. PICK m \in Client \ {Heir} : p = Claim(m) \/ (p = Ack(m) /\ Follower(m))
            BY <4>2 DEF Claiming
          <5> QED  BY <5>1, <1>6, <1>7
        <4> QED  BY <4>1, <4>2, <1>4
      <3> QED  BY <3>1
    <2>3. /\ coord'[Heir] = "claimed" /\ following'[Heir] = NoNode
          /\ UNCHANGED <<role, remote, reconnected, pending, triggered, verifying>>
      BY <1>4 DEF Claiming, nodeVars, detectVars, Client
    <2> QED  BY <2>1, <2>2, <2>3 DEF Claiming, Claim, Ack
  <1> QED  BY <1>5, <1>9

LEMMA AckRead ==
    ASSUME Timely, IInv, ElectionInv, Claiming, NEW k \in Client \ {Heir},
           Ack(k) \in net, UNCHANGED <<status, faults>>,
           OnElectionAck(Heir, k, net \ {Ack(k)}, ws)
    PROVE  ElectionInv'
  <1> USE DEF IInv, NodeInv, NodeTypeOK, VoteInv, ElectionInv
  <1>1. Heir \in Client /\ Heir \in Node /\ role[Heir] = "client" /\ ~promoted[Heir]
    BY DEF Claiming, RoleInv, Client
  <1>2. Follower(k)
    <2>1. PICK m \in Client \ {Heir} : Ack(k) = Claim(m) \/ (Ack(k) = Ack(m) /\ Follower(m))
      BY DEF Claiming
    <2> QED  BY <2>1 DEF Ack, Claim
  <1>3. \A p \in net \ {Ack(k)} : \/ \E m \in Client : p = Claim(m)
                                 \/ p.to = Heir
    BY DEF Claiming, Ack
  <1>4. CASE pending[Heir] = {k}
    <2>1. \A m \in Client \ {Heir} : Follower(m) /\ Claim(m) \notin net
      BY <1>2, <1>4 DEF Claiming, Electing, Follower
    <2>2. \A p \in net \ {Ack(k)} : p.to = Heir
      <3>1. \A p \in net : \E m \in Client \ {Heir} : p = Claim(m) \/ p = Ack(m)
        BY DEF Claiming
      <3> QED  BY <2>1, <3>1 DEF Ack
    <2>3. /\ PromoteToHost(Heir, roster[Heir], net \ {Ack(k)}, ws)
          /\ UNCHANGED <<detectVars, coord, following, reconnected>>
          /\ pending' = [pending EXCEPT ![Heir] = @ \ {k}]
      BY <1>1, <1>4 DEF OnElectionAck, LastAck
    <2>4. \A m \in Client \ {Heir} : coord'[m] = coord[m] /\ pending'[m] = pending[m]
      BY <2>3 DEF Client
    <2>5. status[FirstHost] = "crashed" /\ remote[Heir] = FirstHost
      BY DEF Claiming
    <2>6. ws \in [Node -> Seq(WsEvent)] /\ \A m \in Node : ws[m] \in Seq(Harmless)
      BY DEF FaultInv
    <2> QED  BY <1>1, <2>1, <2>2, <2>3, <2>4, <2>5, <2>6, PromotionElects
  <1>5. CASE pending[Heir] # {k}
    <2>1. /\ net' = net \ {Ack(k)} /\ ws' = ws
          /\ UNCHANGED <<nodeVars, detectVars, coord, following, reconnected>>
          /\ pending' = [pending EXCEPT ![Heir] = @ \ {k}]
      <3>1. CASE k \in pending[Heir]
        BY <1>1, <1>5, <3>1 DEF OnElectionAck, LastAck
      <3>2. CASE k \notin pending[Heir]
        <4>1. pending' = pending
          BY <3>2 DEF OnElectionAck, voteVars
        <4>2. pending[Heir] = pending[Heir] \ {k}
          BY <3>2
        <4> QED  BY <3>2, <4>1, <4>2 DEF OnElectionAck, voteVars
      <3> QED  BY <3>1, <3>2
    <2>2. FaultInv' /\ RoleInv'
      BY <2>1, RolesUnchanged
    <2>3. \A m \in Client \ {Heir} : /\ Electing(m) => Electing(m)'
                                     /\ Follower(m) => Follower(m)'
      BY <2>1 DEF Electing, Follower, nodeVars, detectVars, Client
    <2>4. /\ pending'[Heir] = pending[Heir] \ {k} /\ pending'[Heir] # {}
          /\ ~Electing(k)
      BY <1>1, <1>2, <1>5, <2>1 DEF Claiming, Electing, Follower
    <2>5. \A m \in Client \ {Heir} : /\ Claim(m) \in net' <=> Claim(m) \in net
                                     /\ m # k /\ Ack(m) \in net => Ack(m) \in net'
      BY <2>1 DEF Claim, Ack
    <2>6. Claiming'
      <3>1. \A m \in Client \ {Heir} :
               \/ Electing(m)' /\ Claim(m) \in net' /\ m \in pending'[Heir]
               \/ Follower(m)' /\ Claim(m) \notin net' /\ (m \in pending'[Heir] => Ack(m) \in net')
        BY <2>3, <2>4, <2>5 DEF Claiming
      <3>2. \A p \in net' :
              \E m \in Client \ {Heir} : p = Claim(m) \/ (p = Ack(m) /\ Follower(m)')
        BY <2>1, <2>3 DEF Claiming
      <3>3. UNCHANGED <<role, remote, reconnected, coord, following, triggered, verifying>>
        BY <2>1 DEF nodeVars, detectVars
      <3> QED  BY <2>4, <3>1, <3>2, <3>3 DEF Claiming, Claim, Ack
    <2> QED  BY <2>2, <2>6
  <1> QED  BY <1>4, <1>5

LEMMA UdpElects ==
    ASSUME Timely, IInv, ElectionInv, NEW n \in Node, ReceiveUdp(n)
    PROVE  ElectionInv'
  <1>1. PICK p \in net :
          /\ p.to = n
          /\ \/ p.type = "claim" /\ OnNewHostClaim(n, p.from, net \ {p}, ws)
             \/ p.type = "ack" /\ OnElectionAck(n, p.from, net \ {p}, ws)
             \/ p.type = "reconnection" /\ OnReconnectionAck(n, p.from, net \ {p}, ws)
    BY DEF ReceiveUdp
  <1>2. UNCHANGED <<status, faults>> /\ LiveClient(n) /\ n \in Client /\ role[n] = "client"
    BY LiveClients DEF ReceiveUdp
  <1>3. CASE Claiming
    <2>1. PICK m \in Client \ {Heir} : p = Claim(m) \/ p = Ack(m)
      BY <1>3 DEF Claiming
    <2>2. CASE p = Claim(m)
      <3>1. m = n /\ OnNewHostClaim(n, Heir, net \ {Claim(n)}, ws)
        BY <1>1, <2>2 DEF Claim
      <3> QED  BY <1>2, <1>3, <2>1, <2>2, <3>1, ClaimRead
    <2>3. CASE p = Ack(m)
      <3>1. n = Heir /\ OnElectionAck(Heir, m, net \ {Ack(m)}, ws)
        BY <1>1, <2>3 DEF Ack
      <3> QED  BY <1>2, <1>3, <2>1, <2>3, <3>1, AckRead
    <2> QED  BY <2>1, <2>2, <2>3
  <1>4. CASE Succeeded
    <2>1. /\ n # Heir /\ (Follower(n) \/ Settled(n)) /\ ~promoted[n]
          /\ OnReconnectionAck(n, Heir, net \ {p}, ws)
      BY <1>1, <1>2, <1>4 DEF Succeeded, ElectionInv, RoleInv, IInv, NodeInv, NodeTypeOK
    <2>2. CASE Follower(n)
      <3>1. Reconnect(n, Heir, net \ {p}) /\ UNCHANGED following
        BY <2>1, <2>2 DEF OnReconnectionAck, MayReconnect, Follower
      <3> QED  BY <1>2, <1>4, <2>1, <2>2, <3>1, ReconnectElects
    <2>3. CASE Settled(n)
      <3>1. /\ net' = net \ {p} /\ ws' = ws
            /\ UNCHANGED <<nodeVars, detectVars, voteVars>>
        BY <2>1, <2>3 DEF OnReconnectionAck, MayReconnect, Settled
      <3>2. FaultInv' /\ RoleInv'
        BY <1>2, <3>1, RolesUnchanged DEF ElectionInv
      <3>3. Succeeded'
        BY <1>2, <1>4, <3>1 DEF Succeeded, Follower, Settled, nodeVars, detectVars, voteVars
      <3> QED  BY <3>2, <3>3 DEF ElectionInv
    <2> QED  BY <2>1, <2>2, <2>3
  <1> QED  BY <1>3, <1>4 DEF ElectionInv, BeforeCrash, Detecting

-----------------------------------------------------------------------------
(* The theorems.                                                           *)

LEMMA ElectionStep ==
    ASSUME Timely, IInv, ElectionInv, [Next]_vars
    PROVE  ElectionInv'
  <1>1. ASSUME NEW n \in Node, ClientStep(n)
        PROVE  ElectionInv'
    BY <1>1, DetectorElects, TimerElects, DeadlineElects, FallbackElects, UdpElects,
       GameEventElects DEF ClientStep
  <1>2. ASSUME NEW h \in Node, HostStep(h)
        PROVE  ElectionInv'
    BY <1>2, HostStepElects DEF HostStep
  <1>3. CASE FaultStep
    BY <1>3, FaultElects
  <1>4. CASE UNCHANGED vars
    <2>1. UNCHANGED <<status, role, remote, detectVars, voteVars, net, nodeVars, ws, faults>>
      BY <1>4 DEF vars, nodeVars
    <2> QED  BY <2>1, PhaseUnchanged, RolesUnchanged DEF ElectionInv, Phases
  <1> QED  BY <1>1, <1>2, <1>3, <1>4 DEF Next

(* The election with one crash goes through its four phases.               *)
THEOREM ElectionInvariance ==
    ASSUME Timely
    PROVE  Spec => [](IInv /\ ElectionInv)
  <1>1. Init => IInv /\ ElectionInv
    BY InitInv, InitElection
  <1>2. IInv /\ ElectionInv /\ [Next]_vars => (IInv /\ ElectionInv)'
    BY Inductive, ElectionStep
  <1> QED  BY <1>1, <1>2, PTL DEF Spec

(* Two survivors never both believe they are the host                      *)
(* (on_new_host_claim, set_election_timer).                                *)
THEOREM OneHost ==
    ASSUME Timely
    PROVE  Spec => []UniqueHost
  <1>1. ASSUME IInv, ElectionInv
        PROVE  UniqueHost
    <2>1. \A m, n \in Hosts : m = n
      BY <1>1, LiveHosts DEF Hosts, BeforeCrash, Succeeded
    <2>2. \E h : Hosts \subseteq {h}
      BY <2>1
    <2>3. PICK h : Hosts \subseteq {h}
      BY <2>2
    <2>4. Cardinality({h}) = 1 /\ IsFiniteSet({h})
      BY FS_Singleton
    <2>5. Cardinality(Hosts) <= 1
      BY <2>3, <2>4, FS_Subset
    <2> QED  BY <2>5 DEF UniqueHost
  <1> QED  BY <1>1, ElectionInvariance, PTL

-----------------------------------------------------------------------------

(* A role changes only by a promotion, and that leaves the others alone.   *)
LEMMA RoleChange ==
    ASSUME IInv, [Next]_vars, NEW n \in Node, role'[n] # role[n]
    PROVE  /\ role[n] = "client" /\ role' = [role EXCEPT ![n] = "host"]
           /\ UNCHANGED <<status, remote, following>>
           /\ \A m \in Node \ {n} : coord'[m] = coord[m]
  <1> USE DEF IInv, NodeInv, NodeTypeOK, VoteInv, nodeVars, detectVars, voteVars
  <1>1. PICK k \in Node : ClientStep(k)
    BY DEF Next, HostStep, FaultStep, BroadcastRoster, HostEvicts, Crash, Stall, Resume, Lose, vars
  <1>2. UNCHANGED status
    BY <1>1 DEF ClientStep, EnsureElectionComponents, ReceiveSnapshot, SuspectHost,
                HostVerifyAnswered, HostVerifyCancelled, ConfirmHostDeath, ElectionTimerFires,
                ClaimDeadline, ReconnectionFallback, ReceiveUdp, ReceiveGameEvent
  <1>3. /\ role' = [role EXCEPT ![k] = "host"] /\ UNCHANGED <<remote, following>>
        /\ coord' = coord \/ coord' = [coord EXCEPT ![k] = "claimed"]
    <2>1. CASE ElectionTimerFires(k) \/ ClaimDeadline(k)
      BY <2>1 DEF ElectionTimerFires, ClaimDeadline, PromoteByTimer, PromoteToHost
    <2>2. CASE ReceiveUdp(k)
      BY <2>2 DEF ReceiveUdp, OnNewHostClaim, OnElectionAck, OnReconnectionAck,
                  Reconnect, PromoteToHost
    <2>3. CASE ReceiveGameEvent(k)
      BY <2>3 DEF ReceiveGameEvent, OnNewHostClaim, OnElectionAck, OnReconnectionAck,
                  Reconnect, PromoteToHost, OnPlayerLeft, MergeRoster
    <2> QED  BY <1>1, <2>1, <2>2, <2>3
             DEF ClientStep, EnsureElectionComponents, ReceiveSnapshot, SuspectHost,
                 HostVerifyAnswered, HostVerifyCancelled, ConfirmHostDeath,
                 ReconnectionFallback, Reconnect
  <1>4. k = n /\ role[k] = "client"
    BY <1>3
  <1> QED  BY <1>2, <1>3, <1>4

(* Who is promoted: the heir, when all the other clients follow it.        *)
LEMMA PromotionOnQuorum ==
    ASSUME Timely, IInv, ElectionInv, IInv', ElectionInv', [Next]_vars,
           NEW n \in Node, role'[n] # role[n]
    PROVE  /\ n = Heir /\ n \in Client /\ status[FirstHost] = "crashed"
           /\ \A m \in Client : role[m] = "client"
           /\ \A m \in Client \ {n} : coord[m] = "follower" /\ following[m] = n
  <1>1. /\ role[n] = "client" /\ role' = [role EXCEPT ![n] = "host"]
        /\ UNCHANGED <<status, remote, following>>
        /\ \A m \in Node \ {n} : coord'[m] = coord[m]
    BY RoleChange
  <1>2. n \in Client /\ role'[n] = "host"
    BY <1>1 DEF ElectionInv, RoleInv, Client, IInv, NodeInv, NodeTypeOK
  <1>3. n = Heir /\ status[FirstHost] = "crashed"
    BY <1>1, <1>2 DEF ElectionInv, RoleInv
  <1>4. Succeeded'
    BY <1>1, <1>2, <1>3 DEF ElectionInv, BeforeCrash, Detecting, Claiming
  <1>5. \A m \in Client : role[m] = "client"
    BY <1>1, <1>3, LiveClients DEF ElectionInv, RoleInv, Client
  <1>6. ASSUME NEW m \in Client \ {n}
        PROVE  coord[m] = "follower" /\ following[m] = n
    <2>1. remote[m] # n
      BY <1>1, <1>6 DEF IInv, NodeInv, RemoteIsHost, Client
    <2>2. Follower(m)'
      BY <1>1, <1>3, <1>4, <1>6, <2>1 DEF Succeeded, Settled
    <2> QED  BY <1>1, <1>3, <2>2 DEF Follower, Client
  <1> QED  BY <1>2, <1>3, <1>5, <1>6

(* A node becomes host on a full quorum (_on_election_ack,                 *)
(* _tick_claim_deadline).                                                  *)
THEOREM ElectedByAll ==
    ASSUME Timely
    PROVE  Spec => QuorumFollows
  <1> DEFINE Quorum == \A n \in Node : role[n] = "client" /\ role'[n] = "host" =>
                           \A m \in roster'[n] \ {n} :
                               LiveClient(m) => coord[m] = "follower" /\ following[m] = n
  <1>1. ASSUME IInv, ElectionInv, IInv', ElectionInv', [Next]_vars
        PROVE  Quorum
    <2>1. ASSUME NEW n \in Node, role[n] = "client", role'[n] = "host",
                 NEW m \in roster'[n] \ {n}, LiveClient(m)
          PROVE  coord[m] = "follower" /\ following[m] = n
      <3>1. m \in Client
        BY <1>1, <2>1, LiveClients DEF IInv, NodeInv, NodeTypeOK
      <3> QED  BY <1>1, <2>1, <3>1, PromotionOnQuorum
    <2> QED  BY <2>1
  <1>2. IInv /\ ElectionInv /\ (IInv /\ ElectionInv)' /\ [Next]_vars => [Quorum]_vars
    BY <1>1
  <1> QED  BY <1>2, ElectionInvariance, PTL DEF Spec, QuorumFollows

-----------------------------------------------------------------------------

(* Only its reader takes an announcement, or the crash, or the loss.       *)
LEMMA AnnouncementRead ==
    ASSUME Timely, IInv, ElectionInv, Succeeded, [Next]_vars,
           NEW p \in net \ net', faults' = faults
    PROVE  /\ LiveClient(p.to) /\ p.to # Heir
           /\ OnReconnectionAck(p.to, Heir, net \ {p}, ws)
  <1>1. \A k \in Node : ~Crash(k)
    BY DEF Crash, IInv, VoteInv
  <1>2. \A r \in net : ~Lose(r)
    BY DEF Lose, IInv, VoteInv
  <1>3. PICK k \in Node : ClientStep(k)
    BY <1>1, <1>2 DEF Next, HostStep, FaultStep, BroadcastRoster, HostEvicts, Stall, Resume, vars
  <1>4. ~ReceiveGameEvent(k)
    <2>1. ASSUME ReceiveGameEvent(k)
          PROVE  net' = net
      <3>1. ws[k] \in Seq(Harmless) /\ ws[k] # <<>>
        BY <2>1 DEF ElectionInv, FaultInv, ReceiveGameEvent
      <3>2. Head(ws[k]).type \in {"left", "roster"}
        BY <3>1 DEF Harmless
      <3> QED  BY <2>1, <3>2 DEF ReceiveGameEvent, OnPlayerLeft, MergeRoster
    <2> QED  BY <2>1
  <1>5. LiveClient(k) /\ k \in Client /\ role[k] = "client"
    <2>1. LiveClient(k)
      BY <1>3, <1>4
      DEF ClientStep, EnsureElectionComponents, ReceiveSnapshot, SuspectHost,
          HostVerifyAnswered, HostVerifyCancelled, ConfirmHostDeath, ElectionTimerFires,
          ClaimDeadline, ReconnectionFallback, ReceiveUdp
    <2> QED  BY <2>1, LiveClients
  <1>6. k # Heir /\ (Follower(k) \/ Settled(k))
    BY <1>5 DEF Succeeded
  <1>7. ~ElectionTimerFires(k)
    BY <1>6 DEF ElectionTimerFires, Follower, Settled
  <1>8. ReceiveUdp(k)
    BY <1>3, <1>7, <1>4, DeadlineElects
       DEF ClientStep, EnsureElectionComponents, ReceiveSnapshot, SuspectHost,
           HostVerifyAnswered, HostVerifyCancelled, ConfirmHostDeath,
           ReconnectionFallback, Reconnect
  <1>9. PICK r \in net : r.to = k /\ OnReconnectionAck(k, Heir, net \ {r}, ws)
    BY <1>8 DEF ReceiveUdp, Succeeded
  <1>10. net' = net \ {r}
    BY <1>9 DEF OnReconnectionAck, Reconnect
  <1>11. p = r
    BY <1>10
  <1> QED  BY <1>5, <1>6, <1>9, <1>11

(* A follower heeds the announcement of the host it follows                *)
(* (_on_reconnection_ack).                                                 *)
THEOREM AnnouncementHeeded ==
    ASSUME Timely
    PROVE  Spec => ReconnectionHeeded
  <1> DEFINE Heeded == \A p \in net \ net' :
                          LET n == p.to IN
                          /\ p.type = "reconnection" /\ LiveClient(n) /\ Up(n)'
                          /\ coord[n] = "follower" /\ following[n] = p.from
                          /\ faults' = faults /\ role'[n] = "client"
                          => remote'[n] = p.from
  <1>1. ASSUME IInv, ElectionInv, [Next]_vars
        PROVE  Heeded
    <2>1. ASSUME NEW p \in net \ net', p.type = "reconnection", coord[p.to] = "follower",
                 faults' = faults
          PROVE  remote'[p.to] = p.from
      <3>1. Succeeded /\ p.from = Heir
        BY <1>1, <2>1 DEF ElectionInv, BeforeCrash, Detecting, Claiming, Succeeded, Claim, Ack
      <3>2. /\ LiveClient(p.to) /\ p.to # Heir
            /\ OnReconnectionAck(p.to, Heir, net \ {p}, ws)
        BY <1>1, <2>1, <3>1, AnnouncementRead
      <3>3. p.to \in Client /\ role[p.to] = "client"
        BY <1>1, <3>2, LiveClients DEF IInv, NodeInv, NodeTypeOK, Packet
      <3>4. ~reconnected[p.to] /\ ~promoted[p.to]
        BY <1>1, <2>1, <3>1, <3>2, <3>3
           DEF Succeeded, Settled, Follower, ElectionInv, RoleInv
      <3>5. remote' = [remote EXCEPT ![p.to] = Heir]
        BY <3>2, <3>4 DEF OnReconnectionAck, MayReconnect, Reconnect
      <3> QED  BY <1>1, <3>1, <3>3, <3>5 DEF IInv, NodeInv, NodeTypeOK, Client
    <2> QED  BY <2>1
  <1>2. IInv /\ ElectionInv /\ [Next]_vars => [Heeded]_vars
    BY <1>1
  <1> QED  BY <1>2, ElectionInvariance, PTL DEF Spec, ReconnectionHeeded

(* Every step of the election is one of the abstract succession: nothing,  *)
(* a failure, or the election of a node when there is no host.             *)
THEOREM SafelySucceeds ==
    ASSUME Timely
    PROVE  Spec => Succession!SSafety
  <1> DEFINE live    == {n \in Node : status[n] # "crashed"}
             hosts   == {n \in Node : role[n] = "host" /\ status[n] # "crashed"}
             elected == {n \in Node : role[n] = "host"}
  <1>1. Init => Succession!SInit
    BY NodeAssumption DEF Init, Succession!SInit
  <1>2. ASSUME IInv, ElectionInv, IInv', ElectionInv', [Next]_vars
        PROVE  [Succession!SNext]_Succession!svars
    <2> USE <1>2 DEF IInv, NodeInv, NodeTypeOK, VoteInv
    <2>1. ASSUME NEW n \in Node, role'[n] # role[n]
          PROVE  Succession!Elect(n)
      <3>1. /\ role[n] = "client" /\ role' = [role EXCEPT ![n] = "host"] /\ status' = status
        BY <2>1, RoleChange
      <3>2. /\ n = Heir /\ n \in Client /\ status[FirstHost] = "crashed"
            /\ \A m \in Client : role[m] = "client"
        BY <2>1, PromotionOnQuorum
      <3>3. status[n] = "up"
        BY <3>2, LiveClients
      <3>4. hosts = {} /\ n \in live \ elected
        <4>1. \A m \in Node : m = FirstHost \/ role[m] = "client"
          BY <3>2 DEF Client
        <4>2. \A m \in Node : ~(role[m] = "host" /\ status[m] # "crashed")
          BY <3>2, <4>1
        <4> QED  BY <3>1, <3>3, <4>2
      <3>5. hosts' = {n} /\ elected' = elected \cup {n} /\ live' = live
        <4>1. live' = live
          BY <3>1
        <4>2. \A m \in Node : role'[m] = IF m = n THEN "host" ELSE role[m]
          BY <3>1
        <4>3. elected' = elected \cup {n}
          BY <4>2
        <4>4. \A m \in Node : m \in hosts' <=> (m \in hosts \/ m = n)
          BY <3>1, <3>3, <4>2
        <4>5. hosts' \subseteq Node /\ hosts \subseteq Node
          OBVIOUS
        <4> HIDE DEF hosts
        <4> QED  BY <3>4, <4>1, <4>3, <4>4, <4>5
      <3> QED  BY <3>4, <3>5 DEF Succession!Elect
    <2>2. ASSUME NEW n \in Node, Crash(n)
          PROVE  Succession!Fail(n)
      <3>1. /\ status[n] # "crashed" /\ status' = [status EXCEPT ![n] = "crashed"] /\ role' = role
        BY <2>2 DEF Crash, nodeVars
      <3>2. n \in live /\ live' = live \ {n} /\ hosts' = hosts \ {n} /\ elected' = elected
        BY <3>1
      <3> QED  BY <3>2 DEF Succession!Fail
    <2>3. ASSUME role' = role, \A n \in Node : ~Crash(n)
          PROVE  UNCHANGED <<live, hosts, elected>>
      <3>1. ASSUME NEW n \in Node, Stall(n) \/ Resume(n)
            PROVE  UNCHANGED live
        BY <3>1 DEF Stall, Resume, Up
      <3>2. ASSUME \A n \in Node : ~Stall(n) /\ ~Resume(n)
            PROVE  UNCHANGED status
        BY <2>3, <3>2 DEF Next, ClientStep, HostStep, FaultStep, BroadcastRoster, HostEvicts, Lose,
               EnsureElectionComponents, ReceiveSnapshot, SuspectHost, HostVerifyAnswered,
               HostVerifyCancelled, ConfirmHostDeath, ElectionTimerFires, ClaimDeadline,
               ReconnectionFallback, ReceiveUdp, ReceiveGameEvent, vars
      <3>3. live' = live
        BY <3>1, <3>2
      <3>4. \A n \in Node : status'[n] = "crashed" <=> status[n] = "crashed"
        BY <3>3
      <3> QED  BY <2>3, <3>3, <3>4
    <2>4. role' = role \/ \E n \in Node : role'[n] # role[n]
      OBVIOUS
    <2> QED  BY <2>1, <2>2, <2>3, <2>4 DEF Succession!SNext, Succession!svars
  <1>3. IInv /\ ElectionInv /\ (IInv /\ ElectionInv)' /\ [Next]_vars
          => [Succession!SNext]_Succession!svars
    BY <1>2
  <1> QED  BY <1>1, <1>3, ElectionInvariance, PTL DEF Spec, Succession!SSafety
=============================================================================
