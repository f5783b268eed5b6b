SPECIFICATION Spec
CONSTANTS
    Node <- Three
    FirstHost = 0
    NoNode = None
    MaxCrashes = 2
    MaxStalls = 1
    MaxLost = 1
    Losable <- MsgTypes
    MaxInbox = 2
    Relay = TRUE
    InTurn = FALSE
    Prompt = FALSE
    WarmStart = FALSE
INVARIANTS
    TypeOK
    SelfInRoster
    
    RemoteIsHost
CHECK_DEADLOCK FALSE
