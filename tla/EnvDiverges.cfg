SPECIFICATION Spec
CONSTANTS
    Node = {h, a, b}
    FirstHost = h
    Block = {block}
    PowerUp = {coin}
    Coin = {coin}
    Enemy = {goomba}
    Gate = {gate}
    Final = {gate}
    Needs <- LevelNeeds
    Nothing = Nothing
    MaxChanges = 1
    MaxTogether = 2
INVARIANT SurvivorsAgree
CHECK_DEADLOCK FALSE
