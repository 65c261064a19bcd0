\* Two bounces, a client, and a descriptor more than they need.
CONSTANTS
    Slots = 2
    Fds = {1, 2, 3, 4, 5}
    MaxOthers = 1
    Timeout = 0
    MaxAge = 1
SPECIFICATION DccSpec
INVARIANTS
    Owned
PROPERTIES
    Decided
