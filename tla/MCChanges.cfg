SPECIFICATION FairSpec
CONSTANTS
    \* Apply, rollback, Undo and one more replacement of a file
    MaxOps = 4
    MaxForeign = 3
    MaxCrashes = 3
    MaxFaults = 1
    FinalizeMayFail = FALSE
    \* an Undo of three files
    NFiles = 3
    Manifests <- AppliedManifests
    \* two pictures, two files and two reviews that propose covers
    Art = {b1, b2}
    Tracks = {t1, t2}
    Reviews = {r1, r2}
    None = None
    MaxWrites = 3
    \* two of three tracks are renamed
    AllTracks = {1, 2, 3}
    Batch = {1, 2}
    Names = {"a", "b", "c"}
    Spellings = {"lower", "upper"}
    MaxEdits = 1
INVARIANTS
    TypesOK
    NothingLost
    OutcomeTold
    UndoneIsTrue
    RetryIsSafe
    BytesKept
    MovesAreSafe
PROPERTIES
    UndoSettles
\* What has settled and is not asked for again stops.
CHECK_DEADLOCK FALSE
