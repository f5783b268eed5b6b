---------------------------- MODULE MCLobbySlots ----------------------------
(***************************************************************************)
(* One schedule of the lobby, too long for a search: four nodes, one run,  *)
(* three crashes.  The players act in the order of Schedule; what the      *)
(* programs do by themselves (the service, the reads of a node) is done    *)
(* before the next of them acts.  Every step is a step of Lobby.           *)
(***************************************************************************)
EXTENDS Lobby

CONSTANTS a, b, c, d   \* the nodes, a creates the session

VARIABLE turn          \* the next of Schedule

Fresh(n)   == Enter(n, NoIndex)
Returns(n) == Recover(n) /\ phase'[n] = "joining"
Leaves(n)  == UNCHANGED cached   \* its metadata on disk
NoState    == UNCHANGED held     \* its character was dead

Schedule(i) ==
    \/ i = 1  /\ Fresh(b)
    \/ i = 2  /\ Fresh(c)                \* c holds slot 2
    \/ i = 3  /\ PressStart(a)
    \/ i = 4  /\ Crash(c) /\ Leaves(c)
    \/ i = 5  /\ Evict(a) /\ NoState
    \/ i = 6  /\ Crash(a) /\ Leaves(a)
    \/ i = 7  /\ Promote(b) /\ held' # held  \* reserves the slot of a alone
    \/ i = 8  /\ Fresh(d)                \* gets slot 2
    \/ i = 9  /\ Returns(a)
    \/ i = 10 /\ MergeRoster(d)
    \/ i = 11 /\ Crash(b)
    \/ i = 12 /\ Promote(a)              \* reserves slot 2 for d, who plays
    \/ i = 13 /\ Returns(c)              \* is given slot 2

ByItself == \E n \in Node : Handle(n) \/ Continue(n) \/ Read(n) \/ EndDrain(n)

ScheduledInit == Init /\ turn = 1
ScheduledNext ==
    \/ ByItself /\ UNCHANGED turn
    \/ ~ENABLED ByItself /\ Schedule(turn) /\ turn' = turn + 1
ScheduledSpec == ScheduledInit /\ [][ScheduledNext]_<<vars, turn>>
=============================================================================
