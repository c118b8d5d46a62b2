---------------------------- MODULE Maintenance ----------------------------
(***************************************************************************)
(* Reset of the application (services/reset.py, api/routers/settings.py):  *)
(* the gate of mutating requests, the persistent maintenance lock, the     *)
(* worker pool that is stopped and started again, the two phases of the    *)
(* cleanup, their retry under the same key and their recovery at startup.  *)
(*                                                                         *)
(* A job stands for the rows a reset deletes.  A process outside the       *)
(* server that enqueues without passing the gate is in Outside.            *)
(***************************************************************************)
EXTENDS Naturals, FiniteSets

CONSTANTS
    Clients,   \* mutating requests of the API, and callers outside
    Outside,   \* those of them that do not pass the gate
    Resets,    \* requests for a reset
    Keys,      \* idempotency keys
    Factory,   \* those of a factory reset
    Jobs       \* bound: jobs that may be enqueued

\* The column of the lock is NULL while nobody has it.
ASSUME KeysAreNames == "free" \notin Keys

VARIABLES
    up,         \* the server runs
    lock,       \* the key of the reset that owns maintenance, or "free"
    phase,      \* AdminOperation of each key; "refused": state failed
    resetting,  \* MutationGate._resetting
    mutation,   \* where each client is
    reset,      \* where each request for a reset is, and its key
    pool,       \* the worker pool of the server
    leasing,    \* a worker has found maintenance off and will lease
    work        \* the state of each job, "none" where there is no row

vars == <<up, lock, phase, resetting, mutation, reset, pool, leasing, work>>

Running == {"prepared", "database_cleaned", "storage_cleaned"}
Cleaned == {"database_cleaned", "storage_cleaned"}
Active  == {"pending", "running", "cancelling"}
NoReset == [at |-> "idle", key |-> "none"]

Quiet == \A j \in Jobs : work[j] \notin Active

-----------------------------------------------------------------------------
(* Mutating requests.                                                       *)

\* mutation_gate_middleware reads the lock, then passes the gate.
Admit(c) ==
    /\ up /\ mutation[c] = "idle" /\ lock = "free"
    /\ mutation' = [mutation EXCEPT ![c] = IF c \in Outside THEN "inside" ELSE "admitted"]
    /\ UNCHANGED <<up, lock, phase, resetting, reset, pool, leasing, work>>

Enter(c) ==
    /\ mutation[c] = "admitted"
    /\ mutation' = [mutation EXCEPT ![c] = IF resetting THEN "idle" ELSE "inside"]
    /\ UNCHANGED <<up, lock, phase, resetting, reset, pool, leasing, work>>

\* queue.enqueue tests the lock in a statement of its own.
Enqueue(c) ==
    /\ mutation[c] = "inside" /\ lock = "free"
    /\ mutation' = [mutation EXCEPT ![c] = "enqueuing"]
    /\ UNCHANGED <<up, lock, phase, resetting, reset, pool, leasing, work>>

Insert(c) ==
    /\ mutation[c] = "enqueuing"
    /\ \E j \in Jobs :
           /\ work[j] = "none"
           /\ work' = [work EXCEPT ![j] = "pending"]
    /\ mutation' = [mutation EXCEPT ![c] = "inside"]
    /\ UNCHANGED <<up, lock, phase, resetting, reset, pool, leasing>>

Leave(c) ==
    /\ mutation[c] \in {"inside", "enqueuing"}
    /\ mutation' = [mutation EXCEPT ![c] = "idle"]
    /\ UNCHANGED <<up, lock, phase, resetting, reset, pool, leasing, work>>

-----------------------------------------------------------------------------
(* Workers.                                                                 *)

\* lease_next reads the lock and claims in a later statement, by compare and swap.
LeaseReads ==
    /\ up /\ pool = "running" /\ ~leasing /\ lock = "free"
    /\ leasing' = TRUE
    /\ UNCHANGED <<up, lock, phase, resetting, mutation, reset, pool, work>>

LeaseClaims ==
    /\ leasing
    /\ leasing' = FALSE
    /\ \/ \E j \in Jobs : work[j] = "pending" /\ work' = [work EXCEPT ![j] = "running"]
       \/ UNCHANGED work
    /\ UNCHANGED <<up, lock, phase, resetting, mutation, reset, pool>>

\* The retention loop of the pool enqueues; run_retention_loop awaits nothing
\* between the test and the insert.
RetentionEnqueues ==
    /\ up /\ pool # "stopped" /\ lock = "free"
    /\ \E j \in Jobs :
           /\ work[j] = "none"
           /\ work' = [work EXCEPT ![j] = "pending"]
    /\ UNCHANGED <<up, lock, phase, resetting, mutation, reset, pool, leasing>>

\* A job ends, or the lease of a dead worker expires.
WorkEnds(j) ==
    /\ work[j] \in {"running", "cancelling"}
    /\ work' = [work EXCEPT ![j] = "ended"]
    /\ UNCHANGED <<up, lock, phase, resetting, mutation, reset, pool, leasing>>

\* run_forever ends its loop after the job it holds.
PoolStops ==
    /\ pool = "stopping" /\ ~leasing
    /\ \A j \in Jobs : work[j] \notin {"running", "cancelling"}
    /\ pool' = "stopped"
    /\ UNCHANGED <<up, lock, phase, resetting, mutation, reset, leasing, work>>

-----------------------------------------------------------------------------
(* A reset.                                                                 *)

Goes(r, at) == reset' = [reset EXCEPT ![r].at = at]

\* The request ends, whatever its answer, and leaves the gate.
Ends(r) == reset' = [reset EXCEPT ![r] = NoReset] /\ resetting' = FALSE

\* WorkerPoolController.start
PoolStarts == pool' = "running"

Ask(r) ==
    /\ up /\ reset[r] = NoReset /\ ~resetting
    /\ resetting' = TRUE
    /\ \E k \in Keys : reset' = [reset EXCEPT ![r] = [at |-> "draining", key |-> k]]
    /\ UNCHANGED <<up, lock, phase, mutation, pool, leasing, work>>

\* Mutant: the gate is closed to new mutations only.
InsideNever == {}

Inside == {c \in Clients \ Outside : mutation[c] \in {"inside", "enqueuing"}}

Drained(r) ==
    /\ reset[r].at = "draining" /\ Inside = {}
    /\ Goes(r, "held")
    /\ UNCHANGED <<up, lock, phase, resetting, mutation, pool, leasing, work>>

\* request_worker_quiesce: what waits is cancelled, what runs is asked to stop.
Cancelled == [j \in Jobs |->
    CASE work[j] = "pending" -> "ended"
      [] work[j] = "running" -> "cancelling"
      [] OTHER               -> work[j]]

\* prepare_reset for a key that is new.
Prepare(r) ==
    LET k == reset[r].key IN
    /\ reset[r].at = "held" /\ phase[k] = "absent"
    /\ IF lock # "free"
       THEN Ends(r) /\ UNCHANGED <<lock, phase, work>>
       ELSE /\ lock' = k
            /\ phase' = [phase EXCEPT ![k] = "prepared"]
            /\ work' = Cancelled
            /\ Goes(r, "quiescing") /\ UNCHANGED resetting
    /\ UNCHANGED <<up, mutation, pool, leasing>>

\* A known key: what succeeded is answered again, anything else is executed.
Replay(r) ==
    LET k == reset[r].key IN
    /\ reset[r].at = "held" /\ phase[k] # "absent"
    /\ IF phase[k] = "completed"
       THEN Ends(r) /\ UNCHANGED work
       ELSE work' = Cancelled /\ Goes(r, "quiescing") /\ UNCHANGED resetting
    /\ UNCHANGED <<up, lock, phase, mutation, pool, leasing>>

Quiesce(r) ==
    /\ reset[r].at = "quiescing"
    /\ pool' = IF pool = "running" THEN "stopping" ELSE pool
    /\ Goes(r, "waiting")
    /\ UNCHANGED <<up, lock, phase, resetting, mutation, leasing, work>>

\* The pool has stopped, and no other process holds a job.
Quiesced(r) ==
    /\ reset[r].at = "waiting" /\ pool = "stopped" /\ Quiet
    /\ Goes(r, "executing")
    /\ UNCHANGED <<up, lock, phase, resetting, mutation, pool, leasing, work>>

\* Nothing to execute: refused earlier, or another reset owns maintenance.
Rejected(r) ==
    /\ reset[r].at = "executing" /\ lock # reset[r].key
    /\ Ends(r)
    /\ UNCHANGED <<up, lock, phase, mutation, pool, leasing, work>>

Owns(r) == reset[r].at = "executing" /\ lock = reset[r].key

\* The targets are unsafe, or not those authorised: only before the first
\* delete is the lock released.
FailBeforeDelete(k) == phase' = [phase EXCEPT ![k] = "refused"] /\ lock' = "free"

Unsafe(r) ==
    LET k == reset[r].key IN
    /\ Owns(r)
    /\ IF phase[k] = "prepared" THEN FailBeforeDelete(k) ELSE UNCHANGED <<phase, lock>>
    /\ PoolStarts
    /\ Ends(r)
    /\ UNCHANGED <<up, mutation, leasing, work>>

CleanDatabase(r) ==
    /\ Owns(r) /\ phase[reset[r].key] = "prepared" /\ Quiet
    /\ phase' = [phase EXCEPT ![reset[r].key] = "database_cleaned"]
    /\ work' = [j \in Jobs |-> "none"]
    /\ UNCHANGED <<up, lock, resetting, mutation, reset, pool, leasing>>

CleanStorage(r) ==
    /\ Owns(r) /\ phase[reset[r].key] = "database_cleaned"
    /\ phase' = [phase EXCEPT ![reset[r].key] = "storage_cleaned"]
    /\ UNCHANGED <<up, lock, resetting, mutation, reset, pool, leasing, work>>

\* complete_reset, for a factory reset after the runtime was refreshed.
Complete(r) ==
    /\ Owns(r) /\ phase[reset[r].key] = "storage_cleaned"
    /\ phase' = [phase EXCEPT ![reset[r].key] = "completed"]
    /\ lock' = "free"
    /\ PoolStarts
    /\ Ends(r)
    /\ UNCHANGED <<up, mutation, leasing, work>>

\* A phase fails, or the refresh of the runtime: the lock stays, for a retry.
Incomplete(r) ==
    /\ Owns(r)
    /\ phase[reset[r].key] = "storage_cleaned" => reset[r].key \in Factory
    /\ Ends(r)
    /\ UNCHANGED <<up, lock, phase, mutation, pool, leasing, work>>

-----------------------------------------------------------------------------
(* The process.                                                             *)

Crash ==
    /\ up
    /\ up' = FALSE
    /\ resetting' = FALSE
    /\ mutation' = [c \in Clients |-> IF c \in Outside THEN mutation[c] ELSE "idle"]
    /\ reset' = [r \in Resets |-> NoReset]
    /\ pool' = "stopped"
    /\ leasing' = FALSE
    /\ UNCHANGED <<lock, phase, work>>

\* recover_interrupted_reset does what is left, or startup fails.
Recovers(k) ==
    /\ Quiet
    /\ phase' = [phase EXCEPT ![k] = "completed"]
    /\ work' = IF phase[k] = "prepared" THEN [j \in Jobs |-> "none"] ELSE work

RecoveryCancels ==
    /\ ~up /\ lock # "free" /\ ~Quiet
    /\ work' = Cancelled
    /\ UNCHANGED <<up, lock, phase, resetting, mutation, reset, pool, leasing>>

Startup ==
    /\ ~up
    /\ IF lock = "free" THEN UNCHANGED <<phase, work>> ELSE Recovers(lock)
    /\ lock' = "free"
    /\ up' = TRUE
    /\ PoolStarts
    /\ UNCHANGED <<resetting, mutation, reset, leasing>>

-----------------------------------------------------------------------------

Init ==
    /\ up = TRUE /\ lock = "free" /\ resetting = FALSE /\ leasing = FALSE
    /\ phase = [k \in Keys |-> "absent"]
    /\ mutation = [c \in Clients |-> "idle"]
    /\ reset = [r \in Resets |-> NoReset]
    /\ pool = "running"
    /\ work = [j \in Jobs |-> "none"]

Next ==
    \/ \E c \in Clients : Admit(c) \/ Enter(c) \/ Enqueue(c) \/ Insert(c) \/ Leave(c)
    \/ LeaseReads \/ LeaseClaims \/ RetentionEnqueues \/ PoolStops
    \/ \E j \in Jobs : WorkEnds(j)
    \/ \E r \in Resets :
           \/ Ask(r) \/ Drained(r) \/ Prepare(r) \/ Replay(r) \/ Quiesce(r) \/ Quiesced(r)
           \/ Rejected(r) \/ Unsafe(r) \/ CleanDatabase(r) \/ CleanStorage(r)
           \/ Complete(r) \/ Incomplete(r)
    \/ Crash \/ RecoveryCancels \/ Startup

Spec == Init /\ [][Next]_vars

-----------------------------------------------------------------------------
(* Properties.                                                              *)

TypeOK ==
    /\ up \in BOOLEAN /\ resetting \in BOOLEAN /\ leasing \in BOOLEAN
    /\ lock \in Keys \cup {"free"}
    /\ phase \in [Keys -> Running \cup {"absent", "completed", "refused"}]
    /\ mutation \in [Clients -> {"idle", "admitted", "inside", "enqueuing"}]
    /\ reset \in [Resets -> {NoReset} \cup
          [at : {"draining", "held", "quiescing", "waiting", "executing"}, key : Keys]]
    /\ pool \in {"running", "stopping", "stopped"}
    /\ work \in [Jobs -> Active \cup {"none", "ended"}]

\* Once the database is cleaned, and until maintenance ends, no row of earlier
\* work is there or comes back: mutations in flight were drained, leases ended.
ResetIsClean == \A k \in Keys : phase[k] \in Cleaned => \A j \in Jobs : work[j] = "none"

\* The lock is held by exactly the operation that is under way, over retries,
\* refusals, crashes and recoveries; otherwise nothing could ever release it.
LockIsOwned == \A k \in Keys : lock = k <=> phase[k] \in Running

\* What a reset promises of the database and of the lock (services/reset.py).
MaintenanceIsSafe == ResetIsClean /\ LockIsOwned

\* A server that is not in a reset works (README.md: resets quiesce the worker
\* and then restart it).
PoolReturns ==
    up /\ lock = "free" /\ (\A r \in Resets : reset[r] = NoReset) => pool = "running"
=============================================================================
