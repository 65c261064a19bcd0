\* cfg.getnick has its default; a nick is asked for every other second.
CONSTANTS
    a = a
    b = b
    g = g
    Names <- MCNames
    Generated <- MCGenerated
    Lists <- MCLists
    GetNick = {1}
    Interval = 2
    Release = 1
    MaxLines = 2
SPECIFICATION Spec
INVARIANTS
    PlaceOnList
    GotTheFirst
PROPERTIES
    WantedInTheEnd
    Registers
