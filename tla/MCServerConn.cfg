CONSTANTS
    a = a
    b = b
    c = c
    Server = {a, b, c}
    Reliable = {b}
    Lists <- MCLists
    Delay = 2
    Warn = 2
    StonedTimeout = 4
    GoodDelay = 2
SPECIFICATION FairSpec
INVARIANTS
    WalkEnds
PROPERTIES
    BlamesItsOwn
    JumpIsHonoured
    Reconnects
CHECK_DEADLOCK FALSE
