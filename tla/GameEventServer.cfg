SPECIFICATION FairSpec
CONSTANTS
    MaxConnections = 4
    Named = {1}
    MaxEvents = 2
    MaxDrops = 1
INVARIANTS InOrder MissesBounded
PROPERTY DeadLeave
