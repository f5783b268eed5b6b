SPECIFICATION FairSpec
CONSTANTS
    Node = {h, a, b}
    FirstHost = h
    Block = {block}
    PowerUp = {coin}
    Coin = {coin}
    Enemy = {goomba}
    Gate = {gate}
    Final = {gate}
    Needs <- LevelNeeds
    Nothing = Nothing
    MaxChanges = 1
    MaxTogether = 2
INVARIANTS WorldTypeOK CaughtUp
PROPERTIES GateStaysOpen NoFalseProgress Settles
CHECK_DEADLOCK FALSE
