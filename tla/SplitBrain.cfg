SPECIFICATION Spec
CONSTANTS
    Node <- Three
    FirstHost = 0
    NoNode = None
    MaxCrashes = 1
    MaxStalls = 0
    MaxLost = 1
    Losable <- Announcements
    MaxInbox = 1
    Relay = FALSE
    InTurn = FALSE
    Prompt = TRUE
    WarmStart = TRUE
INVARIANTS
    NoHostFollowsAnother
CHECK_DEADLOCK FALSE
