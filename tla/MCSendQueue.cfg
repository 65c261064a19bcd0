\* Two burst sizes that a REHASH switches between; two seconds per line.
CONSTANTS
    Text = {t1}
    FloodTimer = 2
    BurstSizes = {2, 3}
    MaxBurst = 3
    MaxDelay = 3
    MaxQueue = 4
SPECIFICATION FairSpec
INVARIANTS
    NothingLeftOver
PROPERTIES
    ImplementsOutbox
    QueueMoves
    NoStarvation
