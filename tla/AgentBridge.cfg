SPECIFICATION FairSpec
CONSTANTS
    Enemy = {goomba, other}
    Interval = 2
    MaxAge = 3
    Capacity = 2
    Behaviours = 2
    Delay = 1
INVARIANT BridgeTypeOK
PROPERTIES NeverBackward KeepsDriving
CHECK_DEADLOCK FALSE
