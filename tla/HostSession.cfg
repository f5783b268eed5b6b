SPECIFICATION FairSpec
CONSTANTS
    Self = 0
    Player = {1, 2}
    Present = {1}
    Dying = {}
    QuickRejoin = FALSE
    MaxSeq = 2
    MaxCrashes = 1
    MaxJoins = 2
    MaxDeaths = 1
    MaxStalls = 1
INVARIANTS SessionTypeOK Watched HasBody KeepsSlot
PROPERTIES SparesTheLiving RostersMeet
