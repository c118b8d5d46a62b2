SPECIFICATION Spec
CONSTANTS
    p1 = p1
    p2 = p2
    w1 = w1
    w2 = w2
    None = None
    Procs <- TwoProcs
    Workers <- OneWorker
    ProcOf <- FirstOnly
    Jobs <- TwoJobs
    Kind <- UnknownAndFile
    Priority <- FileFirst
    MaxFaults = 2
    MaxMaintenance = 0
INVARIANTS
    IInv
    CommittedWins
PROPERTIES
    PromiseKept
\* The queue is idle when no job is pending: it really stops.
CHECK_DEADLOCK FALSE
