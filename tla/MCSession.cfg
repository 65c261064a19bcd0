\* At most two clients in the table and one that registers, timeouts of two
\* and three seconds.
CONSTANTS
    Fds = {1, 2, 3}
    MaxSettings = {1, 2}
    NewTimeout = 2
    ClientTimeout = 3
    ListenDelay = 2
SPECIFICATION Spec
INVARIANTS
    OwnDescriptor
    OwnHandshake
    Places
PROPERTIES
    SilentIsDropped
    DeadIsDropped
    ListensAgain
