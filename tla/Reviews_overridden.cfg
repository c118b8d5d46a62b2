SPECIFICATION Spec
CONSTANTS
    b1 = b1
    r1 = r1
    r2 = r2
    Bundles = {b1}
    Requests = {r1, r2}
    Sections = {"edit", "extra"}
    Tasks = {b1}
    May <- Free
    MaxRevision <- Three
PROPERTIES RejectionStands
CHECK_DEADLOCK FALSE
