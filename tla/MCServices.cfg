SPECIFICATION ServicesSpec
CONSTANTS
    mb = mb
    dz = dz
    None = None
    \* a request, a reset with a key of either kind, two jobs
    Clients = {"c1"}
    Outside = {}
    Resets = {"s1"}
    Keys = {"k1", "k2"}
    Factory = {"k2"}
    Jobs = {"j1", "j2"}
    \* a session that a second job may continue, or drive at the same time
    ImportJobs = {1, 2}
    Tracks = {"t1"}
    Groups = {g1, g2}
    MaxStops = 2
    Providers = {mb, dz}
    Ids = {1, 2}
    Answers <- TwoAnswers
    HydrateLimit = 2
    Keepable <- OneKept
    \* one caller of each operation of the cache
    Callers = {"c1"}
    Items = {"r1", "r2"}
    CoverProviders = {"caa", "deezer"}
    MaxJobs = 3
    \* a request, a health check, two references and three sets of clients
    Readers = {"q1"}
    Probes = {"h1"}
    MaxRef = 2
    MaxSet = 3
    \* thresholds of four values
    MaxValue = 3
SYMMETRY GroupsAlike
INVARIANTS
    TypesOK
    MaintenanceIsSafe
    WorkIsSettled
    FailuresAreTold
    SettingsAreKept
PROPERTIES
    OutcomesStand
\* A retrieval, a cancelled import, or a series of jobs at its bound, stops.
CHECK_DEADLOCK FALSE
