SPECIFICATION FairSpec
CONSTANTS
    Width = 18
    Height = 12
    Step = 6
    PlayerSize = 14
    EnemySize = 8
    BlockSize = 4
    EnemyY = 6
    LeftBound = 0
    RightBound = 28
    Platforms <- Ledge
    BlockPlaces <- Blocks2
    SightDistance = 20
    Deadband = 1
INVARIANT LineOfSight
PROPERTY Pursues
