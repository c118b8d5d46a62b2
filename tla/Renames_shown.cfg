SPECIFICATION RenamesSpec
CONSTANTS
    AllTracks = {1, 2, 3}
    Batch = {1, 2}
    Names = {"a", "b", "c"}
    Spellings = {"lower", "upper"}
    MaxEdits = 1
INVARIANT ConflictsAreShown
CHECK_DEADLOCK FALSE
