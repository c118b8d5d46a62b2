SPECIFICATION BlobsSpec
CONSTANTS
    Art = {b1, b2}
    Tracks = {t1, t2}
    Reviews = {r1, r2}
    None = None
    MaxWrites = 3
INVARIANT ReviewKeepsArt

CHECK_DEADLOCK FALSE
