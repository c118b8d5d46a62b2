------------------------------ MODULE JobQueue ------------------------------
(***************************************************************************)
(* The persistent job queue of muzilla and everything that moves a job     *)
(* row: enqueueing, the workers of every process (API server, `jobs        *)
(* worker', CLI), the lease and its heartbeat, the per-job flock, user     *)
(* cancellation, timeouts, process crashes, and the recovery of expired    *)
(* leases.  Sources: jobs/queue.py, jobs/worker.py, jobs/execution_lock.py,*)
(* jobs/cancellation.py, jobs/handlers/apply.py.                           *)
(*                                                                         *)
(* One action is one database transaction or one flock call: that is the   *)
(* grain at which processes interleave on the shared SQLite file.  Time is *)
(* abstracted to the only thing the code asks of it, whether a lease is    *)
(* still live.  The state events the transitions append are the subject of *)
(* module JobEvents.                                                       *)
(***************************************************************************)
EXTENDS Integers

CONSTANTS
    Procs,          \* operating-system processes sharing the database
    Workers,        \* worker loops (run_forever) of all the processes
    ProcOf,         \* the process each worker loop runs in
    Jobs,           \* job ids, in the order of creation
    Kind,           \* "task" | "file" | "unknown": how the job's type dispatches
    Priority,       \* Job.priority
    None,           \* the null worker, process, job or lock holder
    MaxFaults,      \* bound: process crashes and aborted worker loops
    MaxMaintenance  \* bound: times the maintenance lock is taken

ASSUME ConstantsAssumption ==
    /\ Jobs \subseteq Nat
    /\ ProcOf \in [Workers -> Procs]
    /\ Kind \in [Jobs -> {"task", "file", "unknown"}]
    /\ Priority \in [Jobs -> Int]
    /\ Workers \cap Procs = {}
    /\ None \notin Workers \cup Procs \cup Jobs
    /\ MaxFaults \in Nat
    /\ MaxMaintenance \in Nat

VARIABLES
    (* The database: SystemState, Job rows, ApplyRun/ReviewUndoRun rows and  *)
    (* the TaskAttempts tied to a job.                                       *)
    maintenance,  \* SystemState.maintenance_mode
    state,        \* Job.state; "absent" before the row is inserted
    owner,        \* Job.worker_id
    lease,        \* Job.lease_until: "none" | "live" | "expired"
    attempts,     \* Job.attempts
    cancelReq,    \* Job.cancel_requested
    run,          \* a file job's ApplyRun or ReviewUndoRun
    task,         \* a task job's TaskAttempt
    (* The operating system.                                                 *)
    flock,        \* holder of <data>/.db.job-locks/<id>.lock
    (* Memory of the enqueueing clients, of the worker loops and of the      *)
    (* recovery loops.                                                       *)
    admitted,     \* clients past enqueue's maintenance test, not yet inserted
    pc,           \* where each worker stands in run_one / _execute
    job,          \* the candidate, then leased, job of each worker
    att,          \* Job.attempts as the worker's own lease set it
    early,        \* why asyncio.wait ended: "none" | "timeout" | "stop"
    hout,         \* the handler task's outcome
    verdict,      \* the branch _execute took after draining the handler
    rpc,          \* where each process's recover_stuck_jobs stands
    rjob,         \* the candidate of that recovery
    rseen,        \* the row it re-read under the lock
    faults,       \* history: crashes and aborts so far
    resets        \* history: times maintenance was entered

dbVars    == <<maintenance, state, owner, lease, attempts, cancelReq, run, task>>
workVars  == <<pc, job, att, early, hout, verdict>>
recVars   == <<rpc, rjob, rseen>>
boundVars == <<faults, resets>>
vars      == <<dbVars, flock, admitted, workVars, recVars, boundVars>>

Terminal == {"succeeded", "failed", "cancelled"}
Active   == {"running", "cancelling"}

\* A file job's run row: its state, and for "failed" what the persisted result
\* says. "recovery" is failed with recovery_required, "cancelled" is failed
\* with cancelled set, "failed" is neither.
RunStates == {"none", "pending", "working", "committed",
              "failed", "cancelled", "recovery"}

\* "active" stands for TaskAttempt states pending and running.
TaskStates == {"none", "active", "success", "transient_failure",
               "permanent_failure", "cancelled"}

WorkerPcs == {"idle", "peeked", "locked", "cleared", "running", "interrupting",
              "draining", "decided", "releasing", "dead"}
\* A worker that is inside _execute.
Executing == {"running", "interrupting", "draining", "decided"}

NoRow == [cancelled |-> FALSE, attempts |-> 0, owner |-> None]

-----------------------------------------------------------------------------
(* Row operations shared by several transactions.                           *)

\* _owner_filter: the row still belongs to exactly this execution.
Owned(w) ==
    /\ owner[job[w]] = w
    /\ attempts[job[w]] = att[w]
    /\ state[job[w]] \in Active

\* Mutant: recovery looks for running jobs only.
ExpiredRunningOnly(j) == state[j] = "running" /\ lease[j] # "live"

\* _expired_lease_filter, as far as the lease goes.
Expired(j) == state[j] \in Active /\ lease[j] # "live"

\* Mutant: the flock excludes nobody.
LockFreeAlways(j) == j \in Jobs

\* Nobody, in this or another process, holds the job's flock.
LockFree(j) == flock[j] = None

\* _finish_active_review_tasks
FinishTasks(j, outcome) ==
    task' = IF task[j] = "active" THEN [task EXCEPT ![j] = outcome] ELSE task

\* A row leaves its owner for state st.
Release(j, st) ==
    /\ state' = [state EXCEPT ![j] = st]
    /\ owner' = [owner EXCEPT ![j] = None]
    /\ lease' = [lease EXCEPT ![j] = "none"]

\* What _finish_transition makes of unreported TaskAttempts.
TaskOutcome(st) ==
    CASE st = "cancelled" -> "cancelled"
      [] st = "failed"    -> "transient_failure"
      [] OTHER            -> "permanent_failure"

\* The UPDATE of mark_* matched the row: the transition and its effects.
Finish(j, st) ==
    /\ Release(j, st)
    /\ cancelReq' = [cancelReq EXCEPT ![j] = IF st = "succeeded" THEN FALSE ELSE @]
    /\ FinishTasks(j, TaskOutcome(st))

\* Workers ws leave run_one for pc value at: their local variables are gone and
\* the locks they held are free (closed, or dropped by the kernel).
LeaveRunOne(ws, at) ==
    /\ pc' = [w \in Workers |-> IF w \in ws THEN at ELSE pc[w]]
    /\ job' = [w \in Workers |-> IF w \in ws THEN None ELSE job[w]]
    /\ att' = [w \in Workers |-> IF w \in ws THEN 0 ELSE att[w]]
    /\ early' = [w \in Workers |-> IF w \in ws THEN "none" ELSE early[w]]
    /\ hout' = [w \in Workers |-> IF w \in ws THEN "none" ELSE hout[w]]
    /\ verdict' = [w \in Workers |-> IF w \in ws THEN "none" ELSE verdict[w]]

\* Process p's recovery is between two candidates.
EndRecovery(p) ==
    /\ rpc' = [rpc EXCEPT ![p] = "idle"]
    /\ rjob' = [rjob EXCEPT ![p] = None]
    /\ rseen' = [rseen EXCEPT ![p] = NoRow]

Free(holders) ==
    flock' = [j \in Jobs |-> IF flock[j] \in holders THEN None ELSE flock[j]]

-----------------------------------------------------------------------------
(* Clients: enqueue and cancel.                                             *)

\* enqueue reads maintenance_mode ...
EnqueueCheck(j) ==
    /\ state[j] = "absent"
    /\ j \notin admitted
    /\ ~maintenance
    /\ admitted' = admitted \cup {j}
    /\ UNCHANGED <<dbVars, flock, workVars, recVars, boundVars>>

\* ... and inserts the row in a later transaction. Ids grow in insertion order.
EnqueueInsert(j) ==
    /\ j \in admitted
    /\ \A k \in Jobs : k < j => state[k] # "absent"
    /\ admitted' = admitted \ {j}
    /\ state' = [state EXCEPT ![j] = "pending"]
    /\ run' = IF Kind[j] = "file" THEN [run EXCEPT ![j] = "pending"] ELSE run
    /\ task' = IF Kind[j] = "task" THEN [task EXCEPT ![j] = "active"] ELSE task
    /\ UNCHANGED <<maintenance, owner, lease, attempts, cancelReq, flock,
                   workVars, recVars, boundVars>>

\* Mutant: a running job is cancelled at once, under its worker.
CancelRowAtOnce(j) ==
    /\ state[j] \in {"pending", "running"}
    /\ cancelReq' = [cancelReq EXCEPT ![j] = TRUE]
    /\ state' = [state EXCEPT ![j] = "cancelled"]
    /\ FinishTasks(j, "cancelled")

\* Mutant: the TaskAttempts of a cancelled pending job are left as they are.
CancelRowLeavesTasks(j) ==
    /\ state[j] \in {"pending", "running"}
    /\ cancelReq' = [cancelReq EXCEPT ![j] = TRUE]
    /\ state' = [state EXCEPT
                   ![j] = IF @ = "pending" THEN "cancelled" ELSE "cancelling"]
    /\ UNCHANGED task

\* The row change of request_cancel.
CancelRow(j) ==
    /\ state[j] \in {"pending", "running"}
    /\ cancelReq' = [cancelReq EXCEPT ![j] = TRUE]
    /\ state' = [state EXCEPT
                   ![j] = IF @ = "pending" THEN "cancelled" ELSE "cancelling"]
    /\ IF state[j] = "pending" THEN FinishTasks(j, "cancelled") ELSE UNCHANGED task

RequestCancel(j) ==
    /\ CancelRow(j)
    /\ UNCHANGED <<maintenance, owner, lease, attempts, run, flock, admitted,
                   workVars, recVars, boundVars>>

\* reset.prepare_reset takes the maintenance lock; complete_reset drops it.
BeginMaintenance ==
    /\ ~maintenance
    /\ resets < MaxMaintenance
    /\ maintenance' = TRUE
    /\ resets' = resets + 1
    /\ UNCHANGED <<state, owner, lease, attempts, cancelReq, run, task, flock,
                   admitted, workVars, recVars, faults>>

EndMaintenance ==
    /\ maintenance
    /\ maintenance' = FALSE
    /\ UNCHANGED <<state, owner, lease, attempts, cancelReq, run, task, flock,
                   admitted, workVars, recVars, boundVars>>

\* The clock passes lease_until: the owner's heartbeat was late, or it is gone.
LeaseExpires(j) ==
    /\ lease[j] = "live"
    /\ lease' = [lease EXCEPT ![j] = "expired"]
    /\ UNCHANGED <<maintenance, state, owner, attempts, cancelReq, run, task,
                   flock, admitted, workVars, recVars, boundVars>>

-----------------------------------------------------------------------------
(* A worker loop: run_one.                                                  *)

\* next_pending_job_id: highest priority first, then oldest.
Best(j) ==
    /\ state[j] = "pending"
    /\ \A k \in Jobs : state[k] = "pending" =>
          \/ Priority[k] < Priority[j]
          \/ Priority[k] = Priority[j] /\ j <= k

Peek(w) ==
    /\ pc[w] = "idle"
    /\ \E j \in Jobs :
          /\ Best(j)
          /\ job' = [job EXCEPT ![w] = j]
    /\ pc' = [pc EXCEPT ![w] = "peeked"]
    /\ UNCHANGED <<dbVars, flock, admitted, att, early, hout, verdict, recVars,
                   boundVars>>

\* JobExecutionLock.try_for_session_factory: nonblocking; None ends run_one.
TryLock(w) ==
    /\ pc[w] = "peeked"
    /\ IF LockFree(job[w])
       THEN /\ flock' = [flock EXCEPT ![job[w]] = w]
            /\ pc' = [pc EXCEPT ![w] = "locked"]
            /\ UNCHANGED <<job, att, early, hout, verdict>>
       ELSE /\ LeaveRunOne({w}, "idle")
            /\ UNCHANGED flock
    /\ UNCHANGED <<dbVars, admitted, recVars, boundVars>>

\* lease_next reads maintenance_mode ...
LeaseCheck(w) ==
    /\ pc[w] = "locked"
    /\ pc' = [pc EXCEPT ![w] = IF maintenance THEN "releasing" ELSE "cleared"]
    /\ UNCHANGED <<dbVars, flock, admitted, job, att, early, hout, verdict,
                   recVars, boundVars>>

\* ... and claims the candidate by compare-and-swap.
LeaseClaim(w) ==
    /\ pc[w] = "cleared"
    /\ LET j == job[w] IN
       IF state[j] = "pending"
       THEN /\ state' = [state EXCEPT ![j] = "running"]
            /\ owner' = [owner EXCEPT ![j] = w]
            /\ lease' = [lease EXCEPT ![j] = "live"]
            /\ attempts' = [attempts EXCEPT ![j] = @ + 1]
            /\ att' = [att EXCEPT ![w] = attempts[j] + 1]
            /\ pc' = [pc EXCEPT ![w] = "running"]
       ELSE /\ pc' = [pc EXCEPT ![w] = "releasing"]
            /\ UNCHANGED <<state, owner, lease, attempts, att>>
    /\ UNCHANGED <<maintenance, cancelReq, run, task, flock, admitted, job, early,
                   hout, verdict, recVars, boundVars>>

\* get_handler raises KeyError: mark_failed without executing anything.
UnknownType(w) ==
    /\ pc[w] = "running"
    /\ Kind[job[w]] = "unknown"
    /\ verdict' = [verdict EXCEPT ![w] = "fail"]
    /\ pc' = [pc EXCEPT ![w] = "decided"]
    /\ UNCHANGED <<dbVars, flock, admitted, job, att, early, hout, recVars, boundVars>>

\* The heartbeat task renews only the lease of this very execution.
Heartbeat(w) ==
    /\ pc[w] \in Executing
    /\ Kind[job[w]] # "unknown"
    /\ Owned(w)
    /\ lease' = [lease EXCEPT ![job[w]] = "live"]
    /\ UNCHANGED <<maintenance, state, owner, attempts, cancelReq, run, task,
                   flock, admitted, workVars, recVars, boundVars>>

-----------------------------------------------------------------------------
(* The handler task, until its outcome is set. Task handlers only report    *)
(* their TaskAttempt; file handlers drive their run row.                    *)

Handling(w) == pc[w] \in {"running", "interrupting", "draining"} /\ hout[w] = "none"

\* The file operation's own commits to its run row.
FileStep(w, from, to) ==
    /\ Handling(w)
    /\ Kind[job[w]] = "file"
    /\ run[job[w]] = from
    /\ run' = [run EXCEPT ![job[w]] = to]
    /\ UNCHANGED <<maintenance, state, owner, lease, attempts, cancelReq, task,
                   flock, admitted, workVars, recVars, boundVars>>

FileBegin(w)  == FileStep(w, "pending", "working")
FileCommit(w) == FileStep(w, "working", "committed")
FileFail(w)   == \E to \in {"failed", "recovery"} : FileStep(w, "working", to)
\* token.is_requested at a file boundary, then rollback.
FileCancel(w) ==
    /\ Handling(w)
    /\ cancelReq[job[w]]
    /\ \E to \in {"cancelled", "recovery"} : FileStep(w, "working", to)

\* A task handler reports its TaskAttempt.
TaskReport(w) ==
    /\ Handling(w)
    /\ task[job[w]] = "active"
    /\ \E st \in {"success", "transient_failure", "permanent_failure"} :
          task' = [task EXCEPT ![job[w]] = st]
    /\ UNCHANGED <<maintenance, state, owner, lease, attempts, cancelReq, run,
                   flock, admitted, workVars, recVars, boundVars>>

\* The handler returns, stops cooperatively (JobCancelled), or raises. A file
\* handler returns or stops only with a settled run; it can raise anywhere.
HandlerEnds(w) ==
    /\ Handling(w)
    /\ Kind[job[w]] # "unknown"
    /\ \E out \in {"result", "cancelled", "failure"} :
          /\ out = "result" /\ Kind[job[w]] = "file"
                => run[job[w]] \in {"committed", "failed", "recovery"}
          /\ out = "cancelled" =>
                IF Kind[job[w]] = "file" THEN run[job[w]] \in {"cancelled", "recovery"}
                                         ELSE cancelReq[job[w]]
          /\ hout' = [hout EXCEPT ![w] = out]
    /\ UNCHANGED <<dbVars, flock, admitted, pc, job, att, early, verdict, recVars,
                   boundVars>>

-----------------------------------------------------------------------------
(* The supervisor: _execute from asyncio.wait to the terminal transition.   *)

\* asyncio.wait returns. With an unfinished handler this is a timeout, or the
\* stop event or a cancelled caller; with a finished one the stop event may
\* have fired as well.
WaitEnds(w) ==
    /\ pc[w] = "running"
    /\ Kind[job[w]] # "unknown"
    /\ \E why \in {"none", "timeout", "stop"} :
          /\ IF hout[w] = "none" THEN why # "none" ELSE why # "timeout"
          /\ early' = [early EXCEPT ![w] = why]
    /\ pc' = [pc EXCEPT ![w] = IF hout[w] = "none" THEN "interrupting" ELSE "draining"]
    /\ UNCHANGED <<dbVars, flock, admitted, job, att, hout, verdict, recVars, boundVars>>

\* _request_cancel_in_session, then handler_task.cancel().
Interrupt(w) ==
    /\ pc[w] = "interrupting"
    /\ pc' = [pc EXCEPT ![w] = "draining"]
    /\ IF state[job[w]] \in {"pending", "running"}
       THEN CancelRow(job[w])
       ELSE UNCHANGED <<state, cancelReq, task>>
    /\ UNCHANGED <<maintenance, owner, lease, attempts, run, flock, admitted, job,
                   att, early, hout, verdict, recVars, boundVars>>

\* _durable_review_result: the run of a file job says that its files are
\* committed, whatever became of the handler's answer.
DurableResult(j) == run[j] = "committed"

\* Mutant: the timeout is looked at before the durable result.
VerdictTimeoutFirst(w) ==
    IF early[w] = "timeout" THEN "timeout"
    ELSE IF DurableResult(job[w]) THEN "commit"
    ELSE IF early[w] = "stop" \/ cancelReq[job[w]] \/ hout[w] = "cancelled" THEN "cancel"
    ELSE IF hout[w] = "failure" THEN "fail"
    ELSE "succeed"

\* The drained handler's outcome, overridden by a durably committed run; the
\* last branches read the cancellation token from the database. Nothing but
\* that read can change between here and Mark.
Verdict(w) ==
    IF DurableResult(job[w]) THEN "commit"
    ELSE IF early[w] = "timeout" THEN "timeout"
    ELSE IF early[w] = "stop" \/ cancelReq[job[w]] \/ hout[w] = "cancelled" THEN "cancel"
    ELSE IF hout[w] = "failure" THEN "fail"
    ELSE "succeed"

Decide(w) ==
    /\ pc[w] = "draining"
    /\ hout[w] # "none"
    /\ pc' = [pc EXCEPT ![w] = "decided"]
    /\ verdict' = [verdict EXCEPT ![w] = Verdict(w)]
    /\ UNCHANGED <<dbVars, flock, admitted, job, att, early, hout, recVars, boundVars>>

\* Mutant: mark_succeeded does not look for a late cancellation.
MarkTargetForgetsCancel(w) ==
    IF verdict[w] \in {"commit", "succeed"} THEN "succeeded"
    ELSE IF verdict[w] \in {"timeout", "fail"} THEN "failed"
    ELSE "cancelled"

\* mark_succeeded, mark_failed, mark_cancelled: a cancellation that landed
\* since Decide turns an ordinary success or failure into "cancelled"; it turns
\* neither a committed operation nor a timeout.
MarkTarget(w) ==
    IF verdict[w] = "commit" THEN "succeeded"
    ELSE IF verdict[w] = "timeout" THEN "failed"
    ELSE IF verdict[w] = "cancel" \/ state[job[w]] = "cancelling" \/ cancelReq[job[w]]
         THEN "cancelled"
    ELSE IF verdict[w] = "fail" THEN "failed"
    ELSE "succeeded"

Mark(w) ==
    /\ pc[w] = "decided"
    /\ pc' = [pc EXCEPT ![w] = "releasing"]
    /\ IF Owned(w)
       THEN Finish(job[w], MarkTarget(w))
       ELSE UNCHANGED <<state, owner, lease, cancelReq, task>>
    /\ UNCHANGED <<maintenance, attempts, run, flock, admitted, job, att, early,
                   hout, verdict, recVars, boundVars>>

\* execution_lock.close() in run_one's finally.
CloseLock(w) ==
    /\ pc[w] = "releasing"
    /\ Free({w})
    /\ LeaveRunOne({w}, "idle")
    /\ UNCHANGED <<dbVars, admitted, recVars, boundVars>>

\* reporter.flush or the terminal transaction raises (database busy, disk full):
\* the exception leaves run_one, whose finally closes the lock, and ends the
\* loop. The row keeps its owner and its lease.
WorkerAborts(w) ==
    /\ pc[w] = "decided"
    /\ faults < MaxFaults
    /\ faults' = faults + 1
    /\ Free({w})
    /\ LeaveRunOne({w}, "dead")
    /\ UNCHANGED <<dbVars, admitted, recVars, resets>>

-----------------------------------------------------------------------------
(* recover_stuck_jobs, at startup and in run_lease_recovery_loop.           *)

\* One id of candidate_ids; it may be stale by the time its turn comes.
RecoverScan(p) ==
    /\ rpc[p] = "idle"
    /\ \E j \in Jobs :
          /\ Expired(j)
          /\ rjob' = [rjob EXCEPT ![p] = j]
    /\ rpc' = [rpc EXCEPT ![p] = "scanned"]
    /\ UNCHANGED <<dbVars, flock, admitted, workVars, rseen, boundVars>>

\* A held lock proves a live execution: continue with the next candidate.
RecoverLock(p) ==
    /\ rpc[p] = "scanned"
    /\ IF LockFree(rjob[p])
       THEN /\ flock' = [flock EXCEPT ![rjob[p]] = p]
            /\ rpc' = [rpc EXCEPT ![p] = "locked"]
            /\ UNCHANGED <<rjob, rseen>>
       ELSE /\ EndRecovery(p)
            /\ UNCHANGED flock
    /\ UNCHANGED <<dbVars, admitted, workVars, boundVars>>

\* Under the lock the row is read again.
RecoverRead(p) ==
    /\ rpc[p] = "locked"
    /\ LET j == rjob[p] IN
       IF Expired(j)
       THEN /\ rpc' = [rpc EXCEPT ![p] = "read"]
            /\ rseen' = [rseen EXCEPT ![p] =
                  [cancelled |-> cancelReq[j] \/ state[j] = "cancelling",
                   attempts  |-> attempts[j],
                   owner     |-> owner[j]]]
       ELSE /\ rpc' = [rpc EXCEPT ![p] = "done"]
            /\ UNCHANGED rseen
    /\ UNCHANGED <<dbVars, flock, admitted, workVars, rjob, boundVars>>

\* _file_job_recovery reads the run: a file job is never replayed.
FileRecovery(j) ==
    CASE run[j] = "committed" -> "succeeded"
      [] run[j] = "cancelled" -> "cancelled"
      [] OTHER                -> "failed"

\* Mutant: an interrupted file job goes back to the queue like any other.
RecoverTargetReplays(p) ==
    IF rseen[p].cancelled THEN "cancelled" ELSE "pending"

RecoverTarget(p) ==
    IF Kind[rjob[p]] = "file" THEN FileRecovery(rjob[p])
    ELSE IF rseen[p].cancelled THEN "cancelled" ELSE "pending"

\* The compare-and-swap scoped to the row read before; one transaction with
\* the run row's fail-closed state and the TaskAttempts.
RecoverCommit(p) ==
    /\ rpc[p] = "read"
    /\ rpc' = [rpc EXCEPT ![p] = "done"]
    /\ LET j  == rjob[p]
           st == RecoverTarget(p) IN
       IF Expired(j) /\ attempts[j] = rseen[p].attempts /\ owner[j] = rseen[p].owner
       THEN /\ Release(j, st)
            /\ cancelReq' = [cancelReq EXCEPT ![j] = IF st = "succeeded" THEN FALSE ELSE @]
            /\ run' = IF run[j] \in {"pending", "working"}
                      THEN [run EXCEPT ![j] = "recovery"] ELSE run
            /\ CASE st = "cancelled" -> FinishTasks(j, "cancelled")
                 [] st = "failed"    -> FinishTasks(j, "permanent_failure")
                 [] OTHER            -> UNCHANGED task
       ELSE UNCHANGED <<state, owner, lease, cancelReq, run, task>>
    /\ UNCHANGED <<maintenance, attempts, flock, admitted, workVars, rjob, rseen,
                   boundVars>>

\* lock.close() in the finally of the loop body.
RecoverUnlock(p) ==
    /\ rpc[p] = "done"
    /\ Free({p})
    /\ EndRecovery(p)
    /\ UNCHANGED <<dbVars, admitted, workVars, boundVars>>

\* The process dies and is restarted: the kernel drops its flocks, its memory
\* is gone, its committed rows stay.
Crash(p) ==
    LET mine == {w \in Workers : ProcOf[w] = p} IN
    /\ faults < MaxFaults
    /\ faults' = faults + 1
    /\ Free(mine \cup {p})
    /\ LeaveRunOne(mine, "idle")
    /\ EndRecovery(p)
    /\ UNCHANGED <<dbVars, admitted, resets>>

-----------------------------------------------------------------------------
Init ==
    /\ maintenance = FALSE
    /\ state = [j \in Jobs |-> "absent"]
    /\ owner = [j \in Jobs |-> None]
    /\ lease = [j \in Jobs |-> "none"]
    /\ attempts = [j \in Jobs |-> 0]
    /\ cancelReq = [j \in Jobs |-> FALSE]
    /\ run = [j \in Jobs |-> "none"]
    /\ task = [j \in Jobs |-> "none"]
    /\ flock = [j \in Jobs |-> None]
    /\ admitted = {}
    /\ pc = [w \in Workers |-> "idle"]
    /\ job = [w \in Workers |-> None]
    /\ att = [w \in Workers |-> 0]
    /\ early = [w \in Workers |-> "none"]
    /\ hout = [w \in Workers |-> "none"]
    /\ verdict = [w \in Workers |-> "none"]
    /\ rpc = [p \in Procs |-> "idle"]
    /\ rjob = [p \in Procs |-> None]
    /\ rseen = [p \in Procs |-> NoRow]
    /\ faults = 0
    /\ resets = 0

Client(j) == EnqueueCheck(j) \/ EnqueueInsert(j) \/ RequestCancel(j)

RunOne(w) == Peek(w) \/ TryLock(w) \/ LeaseCheck(w) \/ LeaseClaim(w) \/ CloseLock(w)

Handler(w) ==
    \/ FileBegin(w) \/ FileCommit(w) \/ FileFail(w) \/ FileCancel(w)
    \/ TaskReport(w) \/ HandlerEnds(w)

Execute(w) == UnknownType(w) \/ WaitEnds(w) \/ Interrupt(w) \/ Decide(w) \/ Mark(w)

Recover(p) ==
    \/ RecoverScan(p) \/ RecoverLock(p) \/ RecoverRead(p)
    \/ RecoverCommit(p) \/ RecoverUnlock(p)

Next ==
    \/ \E j \in Jobs : Client(j) \/ LeaseExpires(j)
    \/ \E w \in Workers :
          RunOne(w) \/ Heartbeat(w) \/ Handler(w) \/ Execute(w) \/ WorkerAborts(w)
    \/ \E p \in Procs : Recover(p) \/ Crash(p)
    \/ BeginMaintenance \/ EndMaintenance

Spec == Init /\ [][Next]_vars

\* What the scheduler owes each part: worker loops, supervisors and recovery
\* keep running; a handler ends (its own timeouts and cancellation points); a
\* lease that nobody renews expires; a client past the maintenance test inserts
\* its row; reset, or the startup recovery of reset, drops the maintenance lock.
\* Cancellations, crashes and aborted loops happen or not.
Fairness ==
    /\ \A j \in Jobs : WF_vars(EnqueueInsert(j)) /\ WF_vars(LeaseExpires(j))
    /\ \A w \in Workers :
          WF_vars(RunOne(w)) /\ WF_vars(Execute(w)) /\ WF_vars(HandlerEnds(w))
    /\ \A p \in Procs : WF_vars(Recover(p))
    /\ WF_vars(EndMaintenance)

FairSpec == Spec /\ Fairness

-----------------------------------------------------------------------------
(* Properties.                                                              *)

\* Every variable holds a value the code can store there.
TypeOK ==
    /\ maintenance \in BOOLEAN
    /\ state \in [Jobs -> {"absent", "pending"} \cup Active \cup Terminal]
    /\ owner \in [Jobs -> Workers \cup {None}]
    /\ lease \in [Jobs -> {"none", "live", "expired"}]
    /\ attempts \in [Jobs -> Nat]
    /\ cancelReq \in [Jobs -> BOOLEAN]
    /\ run \in [Jobs -> RunStates]
    /\ task \in [Jobs -> TaskStates]
    /\ flock \in [Jobs -> Workers \cup Procs \cup {None}]
    /\ admitted \in SUBSET Jobs
    /\ pc \in [Workers -> WorkerPcs]
    /\ job \in [Workers -> Jobs \cup {None}]
    /\ att \in [Workers -> Nat]
    /\ early \in [Workers -> {"none", "timeout", "stop"}]
    /\ hout \in [Workers -> {"none", "result", "cancelled", "failure"}]
    /\ verdict \in [Workers ->
          {"none", "commit", "timeout", "cancel", "fail", "succeed"}]
    /\ rpc \in [Procs -> {"idle", "scanned", "locked", "read", "done"}]
    /\ rjob \in [Procs -> Jobs \cup {None}]
    /\ rseen \in [Procs -> [cancelled : BOOLEAN, attempts : Nat,
                             owner : Workers \cup {None}]]
    /\ faults \in 0..MaxFaults
    /\ resets \in 0..MaxMaintenance

\* Two workers never execute one job at a time, whatever leases expired
\* meanwhile (run_one holds the flock through the terminal transition).
OneExecution ==
    \A v, w \in Workers :
        pc[v] \in Executing /\ pc[w] \in Executing /\ job[v] = job[w] => v = w

\* A live execution keeps its row: lease expiry, recovery by another process
\* and user cancellation never take it away, so its heartbeat and its terminal
\* transition always match (queue._owner_filter).
ExecutionOwnsRow == \A w \in Workers : pc[w] \in Executing => Owned(w)

\* Files committed by an Apply or Undo are never reported as failed or
\* cancelled: not on a late cancel, a timeout, a crash after the commit, or a
\* lost response (_durable_review_result, mark_succeeded, _file_job_recovery).
CommittedWins ==
    \A j \in Jobs :
        run[j] = "committed" /\ state[j] \in Terminal => state[j] = "succeeded"

\* A finished job leaves no TaskAttempt pending or running, which would block
\* its review's Apply for ever (start_apply_run), whoever finished the job: its
\* worker, a user's cancel, or another process's recovery.
TasksSettled ==
    \A j \in Jobs : state[j] \in Terminal => task[j] # "active"

\* An accepted cancellation is never forgotten: a job whose cancel_requested
\* is set ends in success only if its files were already committed
\* (mark_succeeded, recover_stuck_jobs).
CancelNotLost ==
    [][\A j \in Jobs :
          cancelReq[j] /\ state[j] # "succeeded" /\ state'[j] = "succeeded"
              => run[j] = "committed"]_vars

\* Running jobs told to stop stay in "cancelling" until they end
\* (request_cancel): none is handed out again.
CancellingNotRequeued ==
    [][\A j \in Jobs : state[j] = "cancelling" => state'[j] # "pending"]_vars

\* The queue keeps the promise of JobPromise: terminal states are final, work
\* on files begins at most once, and a committed effect is reported.
Promise == INSTANCE JobPromise WITH
    FileJobs <- {j \in Jobs : Kind[j] = "file"},
    phase    <- [j \in Jobs |-> CASE state[j] = "pending" -> "waiting"
                                  [] state[j] \in Active -> "working"
                                  [] OTHER -> state[j]],
    effect   <- [j \in Jobs |-> run[j] = "committed"]

PromiseKept == Promise!Spec

\* Every queued job reaches a terminal state, through crashes, aborted loops,
\* expired leases and maintenance.
EveryJobFinishes ==
    \A j \in Jobs : (state[j] = "pending") ~> (state[j] \in Terminal)

-----------------------------------------------------------------------------
(* The inductive invariant behind the safety properties.                    *)

HoldsLock  == Executing \cup {"locked", "cleared", "releasing"}
RecHolds   == {"locked", "read", "done"}

\* A flock is held exactly from the probe to its close.
LocksHeld ==
    /\ \A w \in Workers : pc[w] \notin {"idle", "dead"} => job[w] \in Jobs
    /\ \A w \in Workers : pc[w] \in HoldsLock => flock[job[w]] = w
    /\ \A p \in Procs : rpc[p] # "idle" => rjob[p] \in Jobs
    /\ \A p \in Procs : rpc[p] \in RecHolds => flock[rjob[p]] = p

\* What the run row and the TaskAttempt of a job can be in each of its states.
RunsFollowJobs ==
    \A j \in Jobs :
        /\ run[j] # "none" => Kind[j] = "file"
        /\ task[j] # "none" => Kind[j] = "task"
        /\ state[j] = "absent" => run[j] = "none" /\ task[j] = "none"
        /\ state[j] = "pending" => run[j] \in {"none", "pending"}
        /\ j \in admitted => state[j] = "absent"

\* The branch _execute took knows whether the run is committed.
VerdictSound ==
    \A w \in Workers :
        pc[w] = "decided" => (verdict[w] = "commit" <=> run[job[w]] = "committed")

\* The conjunction that every step preserves: with the locks held where the
\* code says so, nobody but the executing worker moves its row or its run
\* (run_one, recover_stuck_jobs), whence the properties above.
IInv ==
    /\ TypeOK
    /\ LocksHeld
    /\ ExecutionOwnsRow
    /\ RunsFollowJobs
    /\ VerdictSound
    /\ CommittedWins
    /\ TasksSettled

=============================================================================
