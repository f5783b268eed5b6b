------------------------------ MODULE EnemySight ------------------------------
(***************************************************************************)
(* What an agent sees and where the pursuit controller sends its enemy:    *)
(* EnemyPerceptor (application/agent_integration.py), the nearest visible  *)
(* player (agents/models.py), PursuitController (agents/controller.py) and *)
(* the movement of an enemy between its bounds (domain/game_engine.py).    *)
(*                                                                         *)
(* Lengths are integers and y grows downwards.  At first the enemy patrols *)
(* and players are wherever they like; from the time a controller is set   *)
(* they stand still.  Blocks may be destroyed at any time.  What a contact *)
(* of a player and the enemy does is left out.                             *)
(***************************************************************************)
EXTENDS Integers, FiniteSets

CONSTANTS
    Width, Height,      \* where a player's upper left corner may be
    Step,               \* players stand on multiples of this
    PlayerSize, EnemySize, BlockSize,
    EnemyY,             \* the y of the enemy
    LeftBound, RightBound,
    Platforms,          \* rectangles <<left, top, right, bottom>>
    BlockPlaces,        \* the upper left corners of the destructible blocks
    SightDistance,      \* GOOMBA_SIGHT_DISTANCE
    Deadband            \* horizontal_deadband of the controller

ASSUME LengthAssumption ==
    /\ {Width, Height, SightDistance, Deadband} \subseteq Nat
    /\ {Step, PlayerSize, EnemySize, BlockSize} \subseteq Nat \ {0}
    /\ \A size \in {PlayerSize, EnemySize, BlockSize} : size % 2 = 0
ASSUME BoundsAssumption == LeftBound + EnemySize <= RightBound
ASSUME LevelAssumption ==
    /\ {EnemyY, LeftBound, RightBound} \subseteq Int
    /\ BlockPlaces \subseteq Int \X Int
    /\ Platforms \subseteq Int \X Int \X Int \X Int
    /\ \A o \in Platforms : o[1] <= o[3] /\ o[2] <= o[4]

Player == {1, 2}
Nobody == 0
Place == {p \in (0..Width) \X (0..Height) : p[1] % Step = 0 /\ p[2] % Step = 0}

VARIABLES
    place,      \* of each player its upper left corner
    x,          \* of the enemy
    vx,         \* the sign of its velocity
    standing,   \* the blocks that are not destroyed
    pursuing    \* the enemy has the pursuit controller
vars == <<place, x, vx, standing, pursuing>>

Init ==
    /\ place = [p \in Player |-> <<0, 0>>]
    /\ x = LeftBound /\ vx \in {-1, 1}
    /\ standing = BlockPlaces
    /\ pursuing = FALSE

-----------------------------------------------------------------------------
(* Geometry.                                                               *)
Sq(n) == n * n
Distance2(a, b) == Sq(a[1] - b[1]) + Sq(a[2] - b[2])
Square(corner, size) == <<corner[1], corner[2], corner[1] + size, corner[2] + size>>
CenterOf(corner, size) == <<corner[1] + size \div 2, corner[2] + size \div 2>>

Obstacles == Platforms \cup {Square(b, BlockSize) : b \in standing}
Middle(o) == <<(o[1] + o[3]) \div 2, (o[2] + o[4]) \div 2>>

Larger(a, b)  == IF a > b THEN a ELSE b
Smaller(a, b) == IF a < b THEN a ELSE b
Length(d) == IF d < 0 THEN -d ELSE d

(* The parameters at which a segment enters and leaves a strip, in units   *)
(* of 1/unit, of which the length of the segment on this axis is a divisor.*)
(* A segment along the strip is in it throughout or never.                 *)
Crossing(origin, delta, low, high, unit) ==
    IF delta = 0
    THEN IF low <= origin /\ origin <= high THEN <<0, unit>> ELSE <<unit, 0>>
    ELSE LET scale == unit \div Length(delta)
             sign  == IF delta < 0 THEN -1 ELSE 1
             a == (low - origin) * sign * scale
             b == (high - origin) * sign * scale IN
         <<Larger(0, Smaller(a, b)), Smaller(unit, Larger(a, b))>>

(* _segment_rectangle_intersection, the strips of both axes.               *)
Unit(start, end) ==
    Larger(1, Length(end[1] - start[1])) * Larger(1, Length(end[2] - start[2]))
Crossings(o, start, end) ==
    {Crossing(start[i], end[i] - start[i], o[i], o[i + 2], Unit(start, end)) : i \in {1, 2}}

(* What _has_clear_line makes of it: the segment enters every strip before *)
(* it leaves one; a touch at either end hides nothing.                     *)
(* Mutant: it hides.                                                       *)
BlocksBug(o, start, end) ==
    \A a, b \in Crossings(o, start, end) : a[1] <= b[2]
Blocks(o, start, end) ==
    \A a, b \in Crossings(o, start, end) :
        a[1] <= b[2] /\ a[1] < Unit(start, end) /\ b[2] > 0

HasClearLine(start, end, obstacles) == ~\E o \in obstacles : Blocks(o, start, end)

-----------------------------------------------------------------------------
(* The perception.                                                         *)
Origin == CenterOf(<<x, EnemyY>>, EnemySize)
Target(p) == CenterOf(place[p], PlayerSize)

(* Mutant: the wrong way round.                                            *)
LooksLeftBug == vx > 0
LooksLeft == vx < 0

IsInSight(target) ==
    /\ IF LooksLeft THEN target[1] <= Origin[1] ELSE target[1] >= Origin[1]
    /\ Distance2(Origin, target) <= Sq(SightDistance)

VisiblePlayers ==
    {p \in Player : IsInSight(Target(p)) /\ HasClearLine(Origin, Target(p), Obstacles)}

VisibleObstacles ==
    {o \in Obstacles : IsInSight(Middle(o)) /\ HasClearLine(Origin, Middle(o), Obstacles \ {o})}

(* The nearest by the upper left corners; of two, the one with the smaller *)
(* player id.                                                              *)
Nearest[seen \in SUBSET Player] ==
    LET away(p) == Distance2(place[p], <<x, EnemyY>>) IN
    IF seen = {} THEN Nobody
    ELSE CHOOSE p \in seen : \A q \in seen \ {p} :
            away(p) < away(q) \/ (away(p) = away(q) /\ p < q)

TargetPlayer == Nearest[VisiblePlayers]

(* The direction that PursuitController.decide commands towards a player;  *)
(* 0 is STOP.                                                              *)
Toward[p \in Player \cup {Nobody}] ==
    IF p = Nobody THEN 0
    ELSE LET delta == place[p][1] - x IN
         CASE delta > Deadband -> 1 [] delta < -Deadband -> -1 [] OTHER -> 0

-----------------------------------------------------------------------------
(* _update_enemies: an enemy that is stopped keeps its velocity, and looks *)
(* on the way it last went; at a bound it turns.                           *)
Tick ==
    \E velocity \in {IF pursuing THEN Toward[TargetPlayer] ELSE vx} \ {0} :
    LET to   == x + velocity
        last == RightBound - EnemySize IN
    /\ x' = Larger(LeftBound, Smaller(last, to))
    /\ vx' = IF to \in LeftBound..last THEN velocity ELSE -velocity
    /\ UNCHANGED <<place, standing, pursuing>>

(* The players move between two looks of the enemy.                        *)
Move(p) ==
    /\ ~pursuing
    /\ \E to \in Place :
        /\ Length(to[1] - place[p][1]) + Length(to[2] - place[p][2]) <= Step
        /\ place' = [place EXCEPT ![p] = to]
    /\ UNCHANGED <<x, vx, standing, pursuing>>

(* Some player destroys a block.                                           *)
Destroy(b) ==
    /\ b \in standing
    /\ standing' = standing \ {b}
    /\ UNCHANGED <<place, x, vx, pursuing>>

(* control_enemy.                                                          *)
ControlEnemy ==
    /\ pursuing' = TRUE
    /\ UNCHANGED <<place, x, vx, standing>>

Next ==
    \/ Tick \/ ControlEnemy
    \/ \E p \in Player : Move(p)
    \/ \E b \in BlockPlaces : Destroy(b)

Spec == Init /\ [][Next]_vars
(* The game loop ticks.                                                    *)
FairSpec == Spec /\ WF_vars(Tick)

-----------------------------------------------------------------------------
(* The line of sight, defined without parameters of a segment: the part of *)
(* the line strictly between two points meets a rectangle when it does in  *)
(* each coordinate and the corners are not all on one side of the line.    *)
Overlap(a, b, low, high) ==
    IF a = b THEN low <= a /\ a <= high
    ELSE Smaller(a, b) < high /\ low < Larger(a, b)

Side(a, b, c) == (b[1] - a[1]) * (c[2] - a[2]) - (b[2] - a[2]) * (c[1] - a[1])

InTheWay(o, a, b) ==
    LET sides == {Side(a, b, <<o[i], o[j]>>) : i \in {1, 3}, j \in {2, 4}} IN
    /\ Overlap(a[1], b[1], o[1], o[3])
    /\ Overlap(a[2], b[2], o[2], o[4])
    /\ ~\A s \in sides : s > 0
    /\ ~\A s \in sides : s < 0

(* An agent is told of exactly the players that are before its enemy, near *)
(* enough, and hidden by no block that stands; and of a block that is near *)
(* the same, though the block itself is in the way.                        *)
LineOfSight ==
    LET hidden(c, others) == \E o \in others : InTheWay(o, Origin, c)
        near(c) == Distance2(Origin, c) <= Sq(SightDistance)
        ahead(c) == (c[1] - Origin[1]) * vx >= 0 IN
    /\ \A p \in Player : p \in VisiblePlayers
        <=> ahead(Target(p)) /\ near(Target(p)) /\ ~hidden(Target(p), Obstacles)
    /\ \A o \in Obstacles : o \in VisibleObstacles
        <=> ahead(Middle(o)) /\ near(Middle(o)) /\ ~hidden(Middle(o), Obstacles \ {o})

(* The pursuit of players at rest.  The perceptor measures from the        *)
(* centers and the controller from the left edges, so an enemy may turn    *)
(* away from a player that is wider than it, and then stands and does not  *)
(* see it any more: that far apart, at most, are the two in the end.       *)
Beside(p, distance) == Length(place[p][1] - x) <= distance
AtBound == x \in {LeftBound, RightBound - EnemySize}
Offset == Length(PlayerSize - EnemySize) \div 2

(* Once the enemy has seen a player it comes to stand before a player as   *)
(* near as that, unless its bound stops it or something is between.        *)
Pursues ==
    \A p \in Player :
        pursuing /\ TargetPlayer = p ~>
            \/ \E q \in Player : Beside(q, Larger(Deadband, Offset))
            \/ AtBound
            \/ ~HasClearLine(Origin, Target(p), Obstacles)

(* As near as the deadband, where the controller means to stop.            *)
Reaches ==
    \A p \in Player :
        pursuing /\ TargetPlayer = p ~>
            \/ \E q \in Player : Beside(q, Deadband)
            \/ AtBound
            \/ ~HasClearLine(Origin, Target(p), Obstacles)
=============================================================================
