SPECIFICATION DeskSpec
CONSTANTS
    Unknown = Unknown
    Bundles = {"b1", "b2"}
    Requests = {"r1", "r2"}
    May <- RequestsMay
    Tasks = {"b1"}
    Sections = {"edit", "extra"}
    MaxRevision <- Revisions2
    Priority <- TwoProviders
    TrackWeights <- ThreeWeights
    Gap = 30
    Penalty = 50
    Strong <- TwoThresholds
    Reject = 450
    Albums <- AskedAlbums
    Singletons <- AskedSingletons
    SearchPage = 2
    Searches = {"r1"}
    Candidates = {"a", "b", "c"}
    Rejected = {"c"}
    Urls = {"release", "track", "other", "ftp"}
    Malformed = {"ftp"}
    Unsupported = {"other"}
    TrackUrls = {"track"}
    Leads <- UrlLeads
    MaxRevisions = 3
    Reviewed = {1, 2}
    Sectioned = {2}
    Sessions = {"request"}
    PageSize = 1
    Edited = {2}
    MaxTries = 1
    Sources = {1, 2}
    Limit = 1
    MaxTime = 2
INVARIANTS
    TypesOK
    OneWriter
    MatchesAreTrue
    ListsAreComplete
PROPERTIES
    DiscardStands
    EditKept
    ManualKept
\* A review that is applied, and a matching that is chosen from, stop.
CHECK_DEADLOCK FALSE
