SPECIFICATION FairSpec
CONSTANTS
    p1 = p1
    p2 = p2
    w1 = w1
    w2 = w2
    None = None
    Procs <- TwoProcs
    Workers <- TwoWorkers
    ProcOf <- OneEach
    Jobs <- OneJob
    Kind <- OneTask
    Priority <- OnePriority
    MaxFaults = 1
    MaxMaintenance = 1
INVARIANTS
    OneExecution
    ExecutionOwnsRow
    TasksSettled
PROPERTIES
    CancelNotLost
    EveryJobFinishes
\* The queue is idle when no job is pending: it really stops.
CHECK_DEADLOCK FALSE
