----------------------------- MODULE Prediction -----------------------------
(***************************************************************************)
(* Client-side prediction and reconciliation: the input history of         *)
(* application/reconciliation/prediction_engine.py, the client frame of    *)
(* application/gameplay/client.py that fills it, drains the snapshots and  *)
(* corrects the lead, and the shadow copies of the remote players.         *)
(*                                                                         *)
(* A tick is its sequence number, an input is the tick it was predicted    *)
(* for, and a world state is a stamp: which host computed it, and its      *)
(* number.  Host 1 hands the session out; host 2 is the survivor that      *)
(* takes over and resumes from an earlier snapshot.  Snapshots go over     *)
(* UDP: every one that was sent may arrive at any time, again, or never.   *)
(***************************************************************************)
EXTENDS Integers, Sequences

CONSTANTS
    Capacity,       \* INPUT_HISTORY_SIZE
    Tolerance,      \* PREDICTION_LEAD_DRIFT_TOLERANCE, in ticks
    Grain,          \* 1 / PREDICTION_LEAD_EWMA_ALPHA: the baseline is kept in
                    \* Grain-ths of a tick, rounded down
    Calibration,    \* PREDICTION_LEAD_CALIBRATION_FRAMES
    MaxSeq,         \* the hosts stop at this number
    LastCrash,      \* host 1 crashes, and sends a sync, no later than at this
    LastEarly,      \* no host counts past this before the client has read its
                    \* syncs and follows it
    MaxSyncs        \* how many players rejoin under host 1

ASSUME CapacityAssumption == {Capacity, Grain, Tolerance} \subseteq Nat \ {0}
ASSUME BoundAssumption == {Calibration, MaxSeq, LastCrash, LastEarly, MaxSyncs} \subseteq Nat

Host  == {1, 2}
Stamp == [host: Host, seq: Nat]
Start == [host |-> 1, seq |-> 0]        \* the world state of the roster
NoShadow == [host |-> 1, seq |-> -1]    \* last_sequence_number = -1

(* The players on the machines of host 1 and of host 2, as seen by a       *)
(* client on a third one; host 2 evicts the first before it sends.         *)
Remote == Host
Characters(h) == IF h = 1 THEN Remote ELSE {2}

VARIABLES
    live,       \* the host that ticks; 0 between the crash and the promotion
    sent,       \* of each host the numbers of the snapshots it has sent
    syncs,      \* InitialStateSyncs on the lobby connection of the client
    rejoins,    \* how many of them were sent
    following,  \* the host of the remote_host address
    seq,        \* engine.world_state.sequence_number
    adopted,    \* the authoritative state that world_state grew from
    last,       \* last_snapshot_sequence
    buffer,     \* the numbers in the InputHistoryBuffer, oldest first
    adjustment, \* pending_tick_adjustment
    baseline,   \* prediction_lead_baseline
    calibrating,\* prediction_lead_calibration_remaining
    shadow,     \* the target of the shadow copy of each remote player
    draining    \* the frame has ticked and drains its packets

hosts  == <<live, sent>>
lobby  == <<syncs, rejoins>>
engine == <<seq, adopted, last, buffer>>
lead   == <<adjustment, baseline, calibrating>>
vars == <<hosts, lobby, following, engine, lead, shadow, draining>>

SmallerOf(a, b) == IF a < b THEN a ELSE b

-----------------------------------------------------------------------------
(* The input history. *)

(* push: a deque with a maximal length drops its oldest entry. *)
Newest(entries) ==
    SubSeq(entries, Len(entries) - SmallerOf(Len(entries), Capacity) + 1, Len(entries))

(* predict before each tick of the frame, which raises the number by one.  *)
Predicted(entries, from, ticks) == Newest(entries \o [i \in 1..ticks |-> from + i])

(* With a comparison that keeps the acknowledged number. *)
UnacknowledgedBug(entries, number) ==
    LET newer == {i \in 1..Len(entries) : entries[i] >= number}
    IN  IF newer = {} THEN <<>>
        ELSE SubSeq(entries, CHOOSE i \in newer : \A j \in newer : i <= j, Len(entries))

(* acknowledge: pop from the left while the head is not newer. *)
Unacknowledged(entries, number) ==
    LET newer == {i \in 1..Len(entries) : entries[i] > number}
    IN  IF newer = {} THEN <<>>
        ELSE SubSeq(entries, CHOOSE i \in newer : \A j \in newer : i <= j, Len(entries))

(* What reconcile replays on a snapshot with that number: nothing when     *)
(* this client is a whole history ahead of it.                             *)
Pending(number) ==
    IF seq > number + Capacity THEN <<>> ELSE Unacknowledged(buffer, number)

(* Ordered by the number of the client. *)
UpdatedBug(shadows, snapshot) ==
    [r \in Remote |-> IF r \in Characters(snapshot.host) /\ snapshot.seq > seq
                      THEN snapshot ELSE shadows[r]]

(* The shadow copies after a snapshot: each refuses what is not newer than *)
(* what it shows.                                                          *)
Updated(shadows, snapshot) ==
    [r \in Remote |-> IF r \in Characters(snapshot.host) /\ snapshot.seq > shadows[r].seq
                      THEN snapshot ELSE shadows[r]]

(* Where the picture of a remote player comes from. *)
Drawn(r) == IF shadow[r] # NoShadow THEN shadow[r] ELSE adopted

-----------------------------------------------------------------------------
Init ==
    /\ live = 1 /\ following = 1
    /\ sent = [h \in Host |-> 1..0]
    /\ syncs = <<>> /\ rejoins = 0
    /\ seq = 0 /\ last = 0 /\ adopted = Start
    /\ buffer = <<>>
    /\ adjustment = 0 /\ baseline = 0 /\ calibrating = Calibration
    /\ shadow = [r \in Remote |-> NoShadow]
    /\ draining = FALSE

(* The number of a host's world state. *)
Number(h) == IF sent[h] = {} THEN 0 ELSE CHOOSE n \in sent[h] : \A m \in sent[h] : m <= n

(* The host ticks and sends the snapshot. *)
HostFrame ==
    /\ live # 0
    /\ Number(live) < IF following = live /\ syncs = <<>> THEN MaxSeq ELSE LastEarly
    /\ sent' = [sent EXCEPT ![live] = @ \cup {Number(live) + 1}]
    /\ UNCHANGED <<live, lobby, following, engine, lead, shadow, draining>>

(* A player rejoins: host 1 sends its world state through the lobby, which *)
(* broadcasts it to every connection.  The service of host 2 has none of   *)
(* this client.                                                            *)
HostSync ==
    /\ live = 1 /\ rejoins < MaxSyncs /\ Number(1) <= LastCrash
    /\ rejoins' = rejoins + 1
    /\ syncs' = Append(syncs, Number(1))
    /\ UNCHANGED <<hosts, following, engine, lead, shadow, draining>>

Crash ==
    /\ live = 1 /\ sent[1] # {} /\ Number(1) <= LastCrash
    /\ live' = 0
    /\ UNCHANGED <<sent, lobby, following, engine, lead, shadow, draining>>

(* bootstrap_from_snapshot: the survivor resumes from the last snapshot it *)
(* has received, whichever that is, and sends from the next tick on.       *)
Promote(number) ==
    /\ live = 0 /\ number \in sent[1]
    /\ live' = 2
    /\ sent' = [sent EXCEPT ![2] = {number + 1}]
    /\ UNCHANGED <<lobby, following, engine, lead, shadow, draining>>

(* The first half of _process_client_frame: the newest InitialStateSync    *)
(* replaces the world state, then one tick, none or two are predicted.     *)
StartFrame ==
    LET synced == syncs # <<>>
        world  == IF synced THEN syncs[Len(syncs)] ELSE seq
        ticks  == 1 + adjustment
    IN  /\ ~draining /\ draining' = TRUE
        /\ syncs' = <<>>
        /\ adopted' = IF synced THEN [host |-> 1, seq |-> world] ELSE adopted
        /\ last' = IF synced THEN world ELSE last
        /\ buffer' = Predicted(buffer, world, ticks)
        /\ seq' = world + ticks
        /\ adjustment' = 0
        /\ UNCHANGED <<hosts, rejoins, following, baseline, calibrating, shadow>>

(* With a test of the sender against the host of the lobby. *)
ReceiveBug(snapshot) ==
    /\ draining
    /\ snapshot.seq \in sent[snapshot.host] /\ snapshot.seq > last
    /\ snapshot.host = 1
    /\ last' = snapshot.seq
    /\ adopted' = snapshot
    /\ buffer' = Pending(snapshot.seq)
    /\ seq' = snapshot.seq + Len(Pending(snapshot.seq))
    /\ shadow' = Updated(shadow, snapshot)
    /\ UNCHANGED <<hosts, lobby, following, lead, draining>>

(* _drain_snapshot_packets on a snapshot newer than the last one, whoever  *)
(* sent it: reconcile replays what is pending on top of it.  Any other is  *)
(* dropped.                                                                *)
Receive(snapshot) ==
    /\ draining
    /\ snapshot.seq \in sent[snapshot.host] /\ snapshot.seq > last
    /\ last' = snapshot.seq
    /\ adopted' = snapshot
    /\ buffer' = Pending(snapshot.seq)
    /\ seq' = snapshot.seq + Len(Pending(snapshot.seq))
    /\ shadow' = Updated(shadow, snapshot)
    /\ UNCHANGED <<hosts, lobby, following, lead, draining>>

(* _on_reconnection_ack: any number is newer than the last one again, the  *)
(* lobby connection is replaced, the lead is calibrated anew and the       *)
(* player of the crashed host is evicted.                                  *)
Reconnect ==
    /\ draining /\ live = 2 /\ following = 1
    /\ following' = 2
    /\ syncs' = <<>>
    /\ last' = 0
    /\ baseline' = 0 /\ calibrating' = Calibration
    /\ shadow' = [shadow EXCEPT ![1] = NoShadow]
    /\ UNCHANGED <<hosts, rejoins, seq, adopted, buffer, adjustment, draining>>

(* With a baseline that follows the correction. *)
EndFrameChase ==
    LET deviation == Grain * Len(buffer) - baseline
        drift     == Grain * Tolerance
    IN  /\ draining /\ draining' = FALSE
        /\ adjustment' = IF deviation > drift THEN -1 ELSE IF deviation < -drift THEN 1 ELSE 0
        /\ baseline' = IF adjustment' = -1 THEN baseline + Grain
                       ELSE IF adjustment' = 0 /\ calibrating > 0
                       THEN baseline + (deviation \div Grain) ELSE baseline
        /\ calibrating' = IF calibrating > 0 THEN calibrating - 1 ELSE 0
        /\ UNCHANGED <<hosts, lobby, following, engine, shadow>>

(* With a calibration that is counted on below zero. *)
EndFrameCount ==
    LET deviation == Grain * Len(buffer) - baseline
        drift     == Grain * Tolerance
    IN  /\ draining /\ draining' = FALSE
        /\ adjustment' = IF deviation > drift THEN -1 ELSE IF deviation < -drift THEN 1 ELSE 0
        /\ baseline' = IF adjustment' = 0 /\ calibrating > 0
                       THEN baseline + (deviation \div Grain) ELSE baseline
        /\ calibrating' = calibrating - 1
        /\ UNCHANGED <<hosts, lobby, following, engine, shadow>>

(* _adjust_prediction_lead, once the socket is empty: the drift beyond the *)
(* tolerance is corrected by a tick of the next frame, and otherwise the   *)
(* baseline follows the lead while the calibration lasts.                  *)
EndFrame ==
    LET deviation == Grain * Len(buffer) - baseline
        drift     == Grain * Tolerance
    IN  /\ draining /\ draining' = FALSE
        /\ adjustment' = IF deviation > drift THEN -1 ELSE IF deviation < -drift THEN 1 ELSE 0
        /\ baseline' = IF adjustment' = 0 /\ calibrating > 0
                       THEN baseline + (deviation \div Grain) ELSE baseline
        /\ calibrating' = IF calibrating > 0 THEN calibrating - 1 ELSE 0
        /\ UNCHANGED <<hosts, lobby, following, engine, shadow>>

Next ==
    \/ HostFrame \/ HostSync \/ Crash
    \/ \E number \in sent[1] : Promote(number)
    \/ StartFrame \/ EndFrame
    \/ \E h \in Host : \E n \in sent[h] : Receive([host |-> h, seq |-> n])
    \/ Reconnect

Spec == Init /\ [][Next]_vars

(* The newest snapshot of the live host gets through: it sends sixty a     *)
(* second and the network does not lose all of them.                       *)
ReceiveLive == live # 0 /\ Receive([host |-> live, seq |-> Number(live)])

(* Hosts and clients keep running frames, a crash is followed by a         *)
(* promotion, and the announcement of the new host gets through, by relay, *)
(* by UDP or by the fallback probe.                                        *)
FairSpec ==
    /\ Spec
    /\ WF_vars(HostFrame) /\ WF_vars(StartFrame) /\ WF_vars(EndFrame)
    /\ WF_vars(\E number \in sent[1] : Promote(number))
    /\ SF_vars(Reconnect) /\ SF_vars(ReceiveLive)

-----------------------------------------------------------------------------
(* A type invariant: the numbers, the history with its capacity and the    *)
(* lead of the client keep their ranges.                                   *)
PredictionTypeOK ==
    /\ live \in 0..2 /\ following \in Host /\ draining \in BOOLEAN
    /\ sent \in [Host -> SUBSET Nat]
    /\ syncs \in Seq(Nat) /\ rejoins \in 0..MaxSyncs
    /\ seq \in Nat /\ last \in Nat /\ adopted \in Stamp
    /\ buffer \in Seq(Nat) /\ Len(buffer) <= Capacity
    /\ adjustment \in {-1, 0, 1} /\ baseline \in Nat /\ calibrating \in 0..Calibration
    /\ shadow \in [Remote -> Stamp \cup {NoShadow}]

(* While one host counts and nobody rejoins, the history is exactly the    *)
(* ticks that the world state is ahead of the authoritative one: each      *)
(* predicted input is replayed once, at its own number, and none after its *)
(* number was acknowledged, whatever is lost or arrives out of order.      *)
EachInputOnce ==
    following = 1 /\ rejoins = 0 =>
        buffer = [i \in 1..(seq - adopted.seq) |-> adopted.seq + i]

(* The lead of the prediction has a bound for good, however long the host  *)
(* stalls and through a migration: the corrections oppose the drift, and   *)
(* the baseline does not chase the lead (client.py:326-332).               *)
LeadBounded ==
    Grain * Len(buffer) <= Calibration * Tolerance + Grain * (Tolerance + 1)

(* The client ends up on states of the live host, although it resumes from *)
(* lower numbers and late snapshots of the old one are believed.           *)
FollowsLive == <>[](live # 0 => following = live /\ adopted.host = live)

(* And it draws the remote players of that host from its snapshots, though *)
(* the shadow copies keep the numbers of the old one.                      *)
DrawsLive == <>[](live # 0 => \A r \in Characters(live) : Drawn(r).host = live)

(* What a reconciliation replays are the inputs of the ticks that the      *)
(* world state goes through then: "the same sequence numbers" as the       *)
(* host's own ticks (client.py:309-311).                                   *)
ReplaysSameNumbers ==
    [][draining /\ adopted' # adopted =>
         \A i \in DOMAIN buffer' : buffer'[i] = adopted'.seq + i]_vars
=============================================================================
