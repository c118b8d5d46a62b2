SPECIFICATION LibrarySpec
CONSTANTS
    NFiles = 3
    Manifests <- ThreeFiles
    \* an Apply and two more after a rollback
    MaxRuns = 3
    MaxForeign = 1
    MaxAborts = 1
    \* two files and two rows
    Paths = {"p1", "p2"}
    TrackIds = {1, 2}
    Batch = 2
    MaxVersion = 2
    \* three tracks, two of them in a directory that is imported alone
    Tracks = {1, 2, 3}
    Profiles <- ThreeProfiles
    Releases = {"r1", "r2"}
    Near <- TwoSpellings
    Directory = {1, 2}
    \* group jobs of two workers
    Cascades = {1, 2}
    MaxEdits = 2
    FileIds = {1, 2, 3}
    Recordings = {d1, d2}
    Scores = {60, 95}
    Length <- ThreeLengths
    Losable = {3}
SYMMETRY RecordingsAlike
INVARIANTS
    TypesOK
    CatalogIsTrue
    WriteAhead
    OutcomeIsTrue
PROPERTIES
    DecisionsStay
    RestoresInReverse
\* Tracks that are all lost stop, and so does a run that is settled and not
\* asked for again.
CHECK_DEADLOCK FALSE
