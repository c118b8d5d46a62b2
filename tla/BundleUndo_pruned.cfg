SPECIFICATION UndoSpec
CONSTANTS
    NFiles = 3
    Manifests <- Bundles
INVARIANT UndoneIsAll
\* An Undo that is over and not asked for again stops.
CHECK_DEADLOCK FALSE
