SPECIFICATION FairLobbySpec
CONSTANTS
    Node = {a, b}
    Creator = a
    MaxPlayers = 3
    NoIndex = None
    MaxJoins = 2
    MaxRuns = 2
    MaxCrashes = 1
    MaxSuspended = 1
PROPERTIES
    StartEndsWait
CHECK_DEADLOCK FALSE
