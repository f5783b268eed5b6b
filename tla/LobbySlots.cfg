SPECIFICATION LobbySpec
CONSTANTS
    Node = {a, b, c}
    Creator = a
    MaxPlayers = 3
    NoIndex = None
    MaxJoins = 3
    MaxRuns = 2
    MaxCrashes = 2
    MaxSuspended = 0
SYMMETRY Alike
INVARIANTS
    LobbyTypeOK
    UniqueSlots
    HostKnowsPlayers
    RosterAgrees
CHECK_DEADLOCK FALSE
