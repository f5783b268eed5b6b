----------------------------- MODULE AgentBridge -----------------------------
(***************************************************************************)
(* The agents that drive enemies of the host: the queues between the game  *)
(* thread and an external SPADE agent, and the part of the host's tick     *)
(* that fills and drains them (application/agent_integration.py).          *)
(*                                                                         *)
(* An observation is its age, in ticks of the host: the sequence number of *)
(* the world minus its own.  Every age above MaxAge is Expired, which also *)
(* stands for no observation at all: the code tells neither from the other *)
(* when it chooses a command.  What an agent sees and which way it sends   *)
(* its enemy is left out.  SpadeRuntime has queues of its own, which       *)
(* nothing connects to these: the agent here is any user of the bridge.    *)
(***************************************************************************)
EXTENDS Integers, Sequences, FiniteSets, SequencesExt

CONSTANTS
    Enemy,          \* the enemies of the level
    Interval,       \* perception_interval_ticks
    MaxAge,         \* action_max_age_ticks
    Capacity,       \* AGENT_QUEUE_CAPACITY
    Behaviours,     \* an agent considers this many perceptions at once
    Delay           \* a prompt agent answers within this many ticks

ASSUME EnemyAssumption == IsFiniteSet(Enemy)
ASSUME IntervalAssumption == {Interval, Capacity, Behaviours} \subseteq Nat \ {0}
ASSUME AgeAssumption == {MaxAge, Delay} \subseteq Nat

Expired == MaxAge + 1
Age == 0..Expired

(* A perception, and the request that answers it. *)
Observation == [enemy : Enemy, age : Age]

VARIABLES
    playing,        \* the game loop of the host runs
    enabled,        \* agent_integration.enabled
    spade,          \* spade_controlled_enemy_ids
    controllers,    \* the enemies with a synchronous controller
    alive,          \* environment.enemies
    phase,          \* the sequence number modulo Interval
    perceptions,    \* bridge.perceptions
    held,           \* perceptions that the agent considers
    requests,       \* bridge.action_requests
    latest,         \* of each enemy the age of _latest_spade_actions
    driven,         \* of each enemy the age of what drove it in the last tick
    newest,         \* the newest that drove it under the same control
    prompt          \* the agent answers in time

control == <<enabled, spade, controllers>>
queues  == <<perceptions, held, requests>>
effect  == <<driven, newest>>
vars == <<playing, control, alive, phase, queues, latest, effect, prompt>>

-----------------------------------------------------------------------------
Aged(age) == IF age = Expired THEN Expired ELSE age + 1
Older(messages) == [i \in DOMAIN messages |-> [messages[i] EXCEPT !.age = Aged(@)]]

(* The queue is full only above its capacity. *)
PutLatestBug(queue, message) ==
    IF Len(queue) <= Capacity THEN Append(queue, message) ELSE Append(Tail(queue), message)

(* _put_latest: a full queue drops its oldest message. *)
PutLatest(queue, message) ==
    IF Len(queue) < Capacity THEN Append(queue, message) ELSE Append(Tail(queue), message)

(* _publish_perceptions, in the order of the ids: one of each enemy, each   *)
(* put as above, so that the last Capacity of them all are left.           *)
Published(queue, enemies) ==
    LET all  == queue \o [i \in 1..Cardinality(enemies) |->
                             [enemy |-> SetToSeq(enemies)[i], age |-> 0]]
        over == Len(all) - Capacity
    IN  IF over > 0 THEN SubSeq(all, over + 1, Len(all)) ELSE all

(* The last request of the queue counts. *)
AcceptedBug(e) ==
    LET mine == SelectSeq(requests, LAMBDA r : r.enemy = e /\ r.age < Expired)
    IN  IF e \notin spade \/ mine = <<>> THEN latest[e] ELSE Last(mine).age

(* A decision drives one tick and is not kept for the next. *)
AcceptedOnceBug(e) ==
    LET ages == {Expired} \union
                {r.age : r \in {s \in ToSet(requests) : s.enemy = e /\ e \in spade}}
    IN  CHOOSE a \in ages : \A b \in ages : a <= b

(* _drain_spade_actions: of the last action and the requests for an enemy  *)
(* that SPADE controls, the one with the newest observation.               *)
Accepted(e) ==
    LET ages == {latest[e]} \union
                {r.age : r \in {s \in ToSet(requests) : s.enemy = e /\ e \in spade}}
    IN  CHOOSE a \in ages : \A b \in ages : a <= b

-----------------------------------------------------------------------------
Init ==
    /\ playing = TRUE
    /\ enabled = FALSE /\ spade = {} /\ controllers = {}
    /\ alive = Enemy
    /\ phase = 0
    /\ perceptions = <<>> /\ held = {} /\ requests = <<>>
    /\ latest = [e \in Enemy |-> Expired]
    /\ driven = [e \in Enemy |-> Expired]
    /\ newest = [e \in Enemy |-> Expired]
    /\ prompt \in BOOLEAN

(* Nothing is due from a prompt agent before the next tick. *)
InTime ==
    prompt => \A m \in ToSet(perceptions) \union held : m.age < Delay

(* A tick without agents throws away what they said and were told. *)
DisabledTick ==
    /\ playing /\ ~enabled /\ InTime
    /\ perceptions' = <<>> /\ requests' = <<>>
    /\ held' = {[m EXCEPT !.age = Aged(@)] : m \in held}
    /\ latest' = [e \in Enemy |-> Expired]
    /\ driven' = [e \in Enemy |-> Expired]
    /\ newest' = [e \in Enemy |-> Expired]
    /\ phase' = (phase + 1) % Interval
    /\ \E beaten \in SUBSET alive : alive' = alive \ beaten
    /\ UNCHANGED <<playing, control, prompt>>

(* A tick with agents: drain the requests, command the enemies, tick the   *)
(* engine, and publish at the interval.                                    *)
Tick ==
    /\ playing /\ enabled /\ InTime
    /\ \E beaten \in SUBSET alive : alive' = alive \ beaten
    /\ phase' = (phase + 1) % Interval
    /\ driven' = [e \in Enemy |-> IF e \in spade \intersect alive THEN Accepted(e) ELSE Expired]
    /\ newest' = [e \in Enemy |-> IF driven'[e] < Expired THEN Aged(driven'[e]) ELSE Aged(newest[e])]
    /\ latest' = [e \in Enemy |-> Aged(Accepted(e))]
    /\ requests' = <<>>
    /\ perceptions' = Published(Older(perceptions), IF phase' = 0 THEN spade \intersect alive' ELSE {})
    /\ held' = {[m EXCEPT !.age = Aged(@)] : m \in held}
    /\ UNCHANGED <<playing, control, prompt>>

-----------------------------------------------------------------------------
(* The agent, on its own thread: an external program. *)

(* poll_perception. *)
Poll ==
    /\ perceptions # <<>> /\ Cardinality(held) < Behaviours
    /\ held' = held \union {Head(perceptions)}
    /\ perceptions' = Tail(perceptions)
    /\ UNCHANGED <<playing, control, alive, phase, requests, latest, effect, prompt>>

(* submit_action, in whatever order it is done with its perceptions. *)
Submit ==
    /\ \E m \in held :
         /\ held' = held \ {m}
         /\ requests' = PutLatest(requests, m)
    /\ UNCHANGED <<playing, control, alive, phase, perceptions, latest, effect, prompt>>

-----------------------------------------------------------------------------
(* Who controls an enemy: calls between two ticks. *)

ControlWithSpade(e) ==
    /\ e \in alive /\ e \notin controllers
    /\ spade' = spade \union {e}
    /\ UNCHANGED <<playing, enabled, controllers, alive, phase, queues, latest, effect, prompt>>

ControlEnemy(e) ==
    /\ e \in alive
    /\ spade' = spade \ {e}
    /\ controllers' = controllers \union {e}
    /\ newest' = [newest EXCEPT ![e] = Expired]
    /\ UNCHANGED <<playing, enabled, alive, phase, queues, latest, driven, prompt>>

Release(e) ==
    /\ controllers' = controllers \ {e}
    /\ spade' = spade \ {e}
    /\ latest' = [latest EXCEPT ![e] = Expired]
    /\ newest' = [newest EXCEPT ![e] = Expired]
    /\ UNCHANGED <<playing, enabled, alive, phase, queues, driven, prompt>>

Switch ==
    /\ enabled' = ~enabled
    /\ UNCHANGED <<playing, spade, controllers, alive, phase, queues, latest, effect, prompt>>

-----------------------------------------------------------------------------
(* A victory: the host is in its lobby and does not tick; the agent may go *)
(* on polling and answering.                                               *)
EndRun ==
    /\ playing
    /\ playing' = FALSE
    /\ UNCHANGED <<control, alive, phase, queues, latest, effect, prompt>>

(* reset_for_new_run: the enemies are back, and neither the queues nor the *)
(* last actions are cleared.                                               *)
NextRun ==
    /\ ~playing
    /\ playing' = TRUE
    /\ alive' = Enemy
    /\ UNCHANGED <<control, phase, queues, latest, effect, prompt>>

Controlling(e) == ControlWithSpade(e) \/ ControlEnemy(e) \/ Release(e)

Next ==
    \/ DisabledTick
    \/ Tick
    \/ Poll
    \/ Submit
    \/ Switch
    \/ EndRun
    \/ NextRun
    \/ \E e \in Enemy : Controlling(e)

Spec == Init /\ [][Next]_vars

(* The game loop ticks, and the agent goes on polling and answering. *)
FairSpec == Spec /\ WF_vars(Tick \/ DisabledTick) /\ WF_vars(Poll) /\ WF_vars(Submit)

-----------------------------------------------------------------------------
(* The types of the bridge; no queue is longer than its capacity. *)
BridgeTypeOK ==
    /\ {playing, enabled, prompt} \subseteq BOOLEAN
    /\ spade \subseteq Enemy /\ controllers \subseteq Enemy /\ alive \subseteq Enemy
    /\ phase \in 0..Interval - 1
    /\ {perceptions, requests} \subseteq Seq(Observation)
    /\ Len(perceptions) <= Capacity /\ Len(requests) <= Capacity
    /\ held \subseteq Observation
    /\ {latest, driven, newest} \subseteq [Enemy -> Age]

(* Answers that arrive late and out of order never send an enemy back to a *)
(* decision older than one that has already driven it (the comparison of   *)
(* _drain_spade_actions, the expiry of _spade_action_for).                 *)
NeverBackward ==
    [][Tick => \A e \in Enemy : driven'[e] < Expired => driven'[e] <= newest[e]]_vars

(* An enemy that stays under the control of an agent which answers within  *)
(* Delay ticks is, from some tick on, never stopped for want of a decision *)
(* (README: "the last accepted action is reused until it expires").        *)
KeepsDriving ==
    \A e \in Enemy :
        <>[](prompt /\ playing /\ enabled /\ e \in spade \intersect alive)
            => <>[](driven[e] < Expired)
=============================================================================
