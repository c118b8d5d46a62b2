SPECIFICATION FairSpec
CONSTANTS
    MaxUpdates = 2
    MaxAttempts = 2
    MaxBusy = 1
    MaxDrops = 1
INVARIANTS
    TypeOK
    StateEventsSeen
    ReplayInOrder
    FinalProgressKept
PROPERTIES
    StreamEnds
\* A finished job and a finished stream really stop.
CHECK_DEADLOCK FALSE
