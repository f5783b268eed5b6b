SPECIFICATION FairSpec
CONSTANTS
    Node <- Four
    FirstHost = 0
    NoNode = None
    MaxCrashes = 1
    MaxStalls = 0
    MaxLost = 2
    Losable <- Announcements
    MaxInbox = 1
    Relay = FALSE
    InTurn = TRUE
    Prompt = TRUE
    WarmStart = TRUE
INVARIANTS
    UniqueHost
PROPERTIES
    QuorumFollows
    ReconnectionHeeded
    FollowEnds
    AllRejoined
    ImplementsSuccession
CHECK_DEADLOCK FALSE
