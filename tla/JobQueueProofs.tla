--------------------------- MODULE JobQueueProofs ---------------------------
(***************************************************************************)
(* Proofs about JobQueue for every set of processes, workers and jobs.     *)
(***************************************************************************)
EXTENDS JobQueue, TLAPS

(* An update at a point keeps a function's range.                           *)
LEMMA ReplaceTyped ==
    ASSUME NEW D, NEW R, NEW f \in [D -> R], NEW d \in D, NEW r \in R
    PROVE  [f EXCEPT ![d] = r] \in [D -> R]
OBVIOUS

(* Attempt counters stay natural numbers.                                   *)
LEMMA IncrementNat == \A n \in Nat : n + 1 \in Nat
OBVIOUS

(* Every variable starts within its type.                                   *)
LEMMA TypeInit == Init => TypeOK
<1> SUFFICES ASSUME Init PROVE TypeOK
  OBVIOUS
<1>1. maintenance \in BOOLEAN
  BY DEF Init
<1>2. /\ state \in [Jobs -> {"absent", "pending"} \cup Active \cup Terminal]
      /\ owner \in [Jobs -> Workers \cup {None}]
      /\ lease \in [Jobs -> {"none", "live", "expired"}]
      /\ attempts \in [Jobs -> Nat]
      /\ cancelReq \in [Jobs -> BOOLEAN]
      /\ run \in [Jobs -> RunStates]
      /\ task \in [Jobs -> TaskStates]
  BY DEF Init, RunStates, TaskStates
<1>3. rseen \in [Procs -> [cancelled : BOOLEAN, attempts : Nat,
                           owner : Workers \cup {None}]]
  BY DEF Init, NoRow
<1> QED
  BY <1>1, <1>2, <1>3, ConstantsAssumption DEF Init, TypeOK, WorkerPcs

(* Every step keeps the types.                                              *)
LEMMA TypeStep == TypeOK /\ LocksHeld /\ [Next]_vars => TypeOK'
<1> SUFFICES ASSUME TypeOK, LocksHeld, [Next]_vars PROVE TypeOK'
  OBVIOUS
<1> USE ConstantsAssumption DEF TypeOK, LocksHeld, RunStates, TaskStates, WorkerPcs, Active, Terminal, Executing, dbVars, workVars, recVars, boundVars
<1>1. ASSUME NEW j \in Jobs, Client(j) \/ LeaseExpires(j) PROVE TypeOK'
  <2>1. CASE EnqueueCheck(j)
    BY <2>1 DEF EnqueueCheck
  <2>2. CASE EnqueueInsert(j)
    BY <2>2 DEF EnqueueInsert
  <2>3. CASE RequestCancel(j)
    BY <2>3 DEF RequestCancel, CancelRow, FinishTasks
  <2>4. CASE LeaseExpires(j)
    BY <2>4 DEF LeaseExpires
  <2>5. QED
    BY <1>1, <2>1, <2>2, <2>3, <2>4 DEF Client
<1>2. ASSUME NEW w \in Workers, RunOne(w) PROVE TypeOK'
  <2>1. CASE Peek(w)
    BY <2>1 DEF Peek
  <2>2. CASE TryLock(w)
    <3>1. job[w] \in Jobs
      BY <2>2 DEF TryLock
    <3>2. CASE LockFree(job[w])
      <4>1. /\ flock' = [flock EXCEPT ![job[w]] = w]
            /\ pc' = [pc EXCEPT ![w] = "locked"]
            /\ UNCHANGED <<job, att, early, hout, verdict, dbVars, admitted,
                           recVars, boundVars>>
        BY <2>2, <3>2 DEF TryLock
      <4>2. QED
        BY <3>1, <4>1
    <3>3. CASE ~LockFree(job[w])
      BY <2>2, <3>1, <3>3 DEF TryLock, LockFree, LeaveRunOne
    <3>4. QED
      BY <3>2, <3>3
  <2>3. CASE LeaseCheck(w)
    BY <2>3 DEF LeaseCheck
  <2>4. CASE LeaseClaim(w)
    <3>1. job[w] \in Jobs
      BY <2>4 DEF LeaseClaim
    <3>2. CASE state[job[w]] = "pending"
      <4>1. /\ state' = [state EXCEPT ![job[w]] = "running"]
            /\ owner' = [owner EXCEPT ![job[w]] = w]
            /\ lease' = [lease EXCEPT ![job[w]] = "live"]
            /\ pc' = [pc EXCEPT ![w] = "running"]
        BY <2>4, <3>2 DEF LeaseClaim
      <4>2. attempts[job[w]] + 1 \in Nat
        BY <3>1, IncrementNat
      <4>3. /\ attempts' = [attempts EXCEPT ![job[w]] = attempts[job[w]] + 1]
            /\ att' = [att EXCEPT ![w] = attempts[job[w]] + 1]
        BY <2>4, <3>2 DEF LeaseClaim
      <4>4. attempts' \in [Jobs -> Nat] /\ att' \in [Workers -> Nat]
        BY <3>1, <4>2, <4>3, ReplaceTyped
      <4>5. /\ state' \in [Jobs -> {"absent", "pending"} \cup Active \cup Terminal]
            /\ owner' \in [Jobs -> Workers \cup {None}]
            /\ lease' \in [Jobs -> {"none", "live", "expired"}]
        BY <3>1, <4>1
      <4>6. UNCHANGED <<maintenance, cancelReq, run, task, flock, admitted, job,
                        early, hout, verdict, recVars, boundVars>>
        BY <2>4 DEF LeaseClaim
      <4>7. QED
        BY <4>1, <4>4, <4>5, <4>6
    <3>3. CASE state[job[w]] # "pending"
      <4>1. /\ pc' = [pc EXCEPT ![w] = "releasing"]
            /\ UNCHANGED <<state, owner, lease, attempts, att>>
            /\ UNCHANGED <<maintenance, cancelReq, run, task, flock, admitted, job,
                           early, hout, verdict, recVars, boundVars>>
        BY <2>4, <3>3 DEF LeaseClaim
      <4>2. QED
        BY <4>1
    <3>4. QED
      BY <3>2, <3>3
  <2>5. CASE CloseLock(w)
    BY <2>5 DEF CloseLock, Free, LeaveRunOne
  <2>6. QED
    BY <1>2, <2>1, <2>2, <2>3, <2>4, <2>5 DEF RunOne
<1>3. ASSUME NEW w \in Workers, Handler(w) PROVE TypeOK'
  <2>1. ASSUME NEW from \in RunStates, NEW to \in RunStates, FileStep(w, from, to) PROVE TypeOK'
    BY <2>1 DEF FileStep
  <2>2. CASE TaskReport(w)
    <3>1. PICK st \in {"success", "transient_failure", "permanent_failure"} :
            task' = [task EXCEPT ![job[w]] = st]
      BY <2>2 DEF TaskReport
    <3>2. task' \in [Jobs -> TaskStates]
      BY <3>1
    <3>3. QED
      BY <2>2, <3>2 DEF TaskReport
  <2>3. CASE HandlerEnds(w)
    BY <2>3 DEF HandlerEnds
  <2>4. CASE FileBegin(w) \/ FileCommit(w)
    BY <2>1, <2>4 DEF FileBegin, FileCommit
  <2>5. CASE FileFail(w) \/ FileCancel(w)
    <3>1. PICK to \in RunStates : FileStep(w, "working", to)
      BY <2>5 DEF FileFail, FileCancel
    <3>2. QED
      BY ZenonT(40), <2>1, <3>1
  <2>6. QED
    BY <1>3, <2>2, <2>3, <2>4, <2>5 DEF Handler
<1>4. ASSUME NEW w \in Workers, Heartbeat(w) \/ Execute(w) \/ WorkerAborts(w) PROVE TypeOK'
  <2>1. CASE UnknownType(w)
    BY <2>1 DEF UnknownType
  <2>2. CASE WaitEnds(w)
    BY <2>2 DEF WaitEnds
  <2>3. CASE Interrupt(w)
    <3>1. job[w] \in Jobs
      BY <2>3 DEF Interrupt
    <3>2. CASE state[job[w]] \in {"pending", "running"}
      <4>1. CancelRow(job[w])
        BY <2>3, <3>2 DEF Interrupt
      <4>2. /\ state' \in [Jobs -> {"absent", "pending"} \cup Active \cup Terminal]
            /\ cancelReq' \in [Jobs -> BOOLEAN]
            /\ task' \in [Jobs -> TaskStates]
        BY <3>1, <4>1 DEF CancelRow, FinishTasks
      <4>3. /\ pc' = [pc EXCEPT ![w] = "draining"]
            /\ UNCHANGED <<maintenance, owner, lease, attempts, run, flock, admitted,
                           job, att, early, hout, verdict, recVars, boundVars>>
        BY <2>3 DEF Interrupt
      <4>4. QED
        BY <4>2, <4>3
    <3>3. CASE state[job[w]] \notin {"pending", "running"}
      BY <2>3, <3>1, <3>3 DEF Interrupt
    <3>4. QED
      BY <3>2, <3>3
  <2>4. CASE Decide(w)
    BY <2>4 DEF Decide, Verdict, DurableResult
  <2>5. CASE Mark(w)
    <3>1. job[w] \in Jobs
      BY <2>5 DEF Mark
    <3>2. CASE Owned(w)
      <4>1. MarkTarget(w) \in Terminal
        BY DEF MarkTarget
      <4>2. TaskOutcome(MarkTarget(w)) \in TaskStates
        BY <4>1 DEF TaskOutcome
      <4>3. Finish(job[w], MarkTarget(w))
        BY <2>5, <3>2 DEF Mark
      <4>4. QED
        BY <2>5, <3>1, <4>1, <4>2, <4>3 DEF Mark, Finish, Release, FinishTasks
    <3>3. CASE ~Owned(w)
      BY <2>5, <3>3 DEF Mark
    <3>4. QED
      BY <3>2, <3>3
  <2>6. CASE WorkerAborts(w)
    BY <2>6 DEF WorkerAborts, Free, LeaveRunOne
  <2>7. CASE Heartbeat(w)
    BY <2>7 DEF Heartbeat
  <2>8. QED
    BY <1>4, <2>1, <2>2, <2>3, <2>4, <2>5, <2>6, <2>7 DEF Execute
<1>5. ASSUME NEW p \in Procs, Recover(p) \/ Crash(p) PROVE TypeOK'
  <2>1. CASE RecoverScan(p)
    BY <2>1 DEF RecoverScan
  <2>2. CASE RecoverLock(p)
    <3>1. rjob[p] \in Jobs
      BY <2>2 DEF RecoverLock
    <3>2. CASE LockFree(rjob[p])
      <4>1. /\ flock' = [flock EXCEPT ![rjob[p]] = p]
            /\ rpc' = [rpc EXCEPT ![p] = "locked"]
            /\ UNCHANGED <<rjob, rseen, dbVars, admitted, workVars, boundVars>>
        BY <2>2, <3>2 DEF RecoverLock
      <4>2. QED
        BY <3>1, <4>1
    <3>3. CASE ~LockFree(rjob[p])
      <4>1. /\ EndRecovery(p)
            /\ UNCHANGED <<flock, dbVars, admitted, workVars, boundVars>>
        BY <2>2, <3>3 DEF RecoverLock
      <4>2. QED
        BY <4>1 DEF EndRecovery, NoRow
    <3>4. QED
      BY <3>2, <3>3
  <2>3. CASE RecoverRead(p)
    <3>1. rjob[p] \in Jobs
      BY <2>3 DEF RecoverRead
    <3>2. CASE Expired(rjob[p])
      <4>1. [cancelled |-> cancelReq[rjob[p]] \/ state[rjob[p]] = "cancelling",
             attempts  |-> attempts[rjob[p]],
             owner     |-> owner[rjob[p]]]
              \in [cancelled : BOOLEAN, attempts : Nat, owner : Workers \cup {None}]
        BY <3>1
      <4>2. /\ rpc' = [rpc EXCEPT ![p] = "read"]
            /\ rseen' = [rseen EXCEPT ![p] =
                  [cancelled |-> cancelReq[rjob[p]] \/ state[rjob[p]] = "cancelling",
                   attempts  |-> attempts[rjob[p]],
                   owner     |-> owner[rjob[p]]]]
        BY <2>3, <3>2 DEF RecoverRead
      <4>3. /\ rpc' \in [Procs -> {"idle", "scanned", "locked", "read", "done"}]
            /\ rseen' \in [Procs -> [cancelled : BOOLEAN, attempts : Nat,
                                      owner : Workers \cup {None}]]
        BY <4>1, <4>2
      <4>4. UNCHANGED <<dbVars, flock, admitted, workVars, rjob, boundVars>>
        BY <2>3 DEF RecoverRead
      <4>5. QED
        BY <4>3, <4>4
    <3>3. CASE ~Expired(rjob[p])
      <4>1. /\ rpc' = [rpc EXCEPT ![p] = "done"]
            /\ UNCHANGED <<rseen, dbVars, flock, admitted, workVars, rjob, boundVars>>
        BY <2>3, <3>3 DEF RecoverRead
      <4>2. QED
        BY <4>1
    <3>4. QED
      BY <3>2, <3>3
  <2>4. CASE RecoverCommit(p)
    <3>1. rjob[p] \in Jobs
      BY <2>4 DEF RecoverCommit
    <3>2. CASE UNCHANGED <<state, owner, lease, cancelReq, run, task>>
      BY <2>4, <3>2 DEF RecoverCommit
    <3>3. CASE ~UNCHANGED <<state, owner, lease, cancelReq, run, task>>
      <4>1. RecoverTarget(p) \in {"pending"} \cup Terminal
        BY DEF RecoverTarget, FileRecovery
      <4>2. /\ Release(rjob[p], RecoverTarget(p))
            /\ cancelReq' = [cancelReq EXCEPT ![rjob[p]] =
                                IF RecoverTarget(p) = "succeeded" THEN FALSE ELSE @]
            /\ run' = IF run[rjob[p]] \in {"pending", "working"}
                      THEN [run EXCEPT ![rjob[p]] = "recovery"] ELSE run
            /\ CASE RecoverTarget(p) = "cancelled" -> FinishTasks(rjob[p], "cancelled")
                 [] RecoverTarget(p) = "failed" -> FinishTasks(rjob[p], "permanent_failure")
                 [] OTHER -> UNCHANGED task
        BY <2>4, <3>3 DEF RecoverCommit
      <4>3. task' \in [Jobs -> TaskStates]
        <5>1. UNCHANGED task \/ \E o \in TaskStates : FinishTasks(rjob[p], o)
          BY <4>2
        <5>2. ASSUME NEW o \in TaskStates, FinishTasks(rjob[p], o)
              PROVE  task' \in [Jobs -> TaskStates]
          BY <3>1, <5>2, ReplaceTyped DEF FinishTasks
        <5>3. CASE UNCHANGED task
          BY <5>3
        <5>4. QED
          BY <5>1, <5>2, <5>3
      <4>4. QED
        BY <2>4, <3>1, <4>1, <4>2, <4>3 DEF RecoverCommit, Release
    <3>4. QED
      BY <3>2, <3>3
  <2>5. CASE RecoverUnlock(p)
    BY <2>5 DEF RecoverUnlock, Free, EndRecovery, NoRow
  <2>6. CASE Crash(p)
    BY <2>6 DEF Crash, Free, LeaveRunOne, EndRecovery, NoRow
  <2>7. QED
    BY <1>5, <2>1, <2>2, <2>3, <2>4, <2>5, <2>6 DEF Recover
<1>6. CASE BeginMaintenance
  BY <1>6 DEF BeginMaintenance
<1>7. CASE EndMaintenance
  BY <1>7 DEF EndMaintenance
<1>8. CASE UNCHANGED vars
  BY <1>8 DEF vars
<1>9. QED
  BY <1>1, <1>2, <1>3, <1>4, <1>5, <1>6, <1>7, <1>8 DEF Next

-----------------------------------------------------------------------------
(* The locks.                                                               *)

(* A worker that keeps its job and its lock stays a holder.                 *)
LEMMA HolderMoves ==
    ASSUME TypeOK, LocksHeld, NEW w \in Workers, NEW at \in HoldsLock,
           pc[w] \in HoldsLock, pc' = [pc EXCEPT ![w] = at],
           UNCHANGED <<job, flock, rpc, rjob>>
    PROVE  LocksHeld'
<1>1. \A v \in Workers : pc'[v] = IF v = w THEN at ELSE pc[v]
  BY DEF TypeOK
<1>2. \A v \in Workers : pc'[v] \notin {"idle", "dead"} => job'[v] \in Jobs
  BY <1>1 DEF LocksHeld, HoldsLock, Executing
<1>3. \A v \in Workers : pc'[v] \in HoldsLock => flock'[job'[v]] = v
  BY <1>1 DEF LocksHeld
<1>4. QED
  BY <1>2, <1>3 DEF LocksHeld

(* Worker w leaves run_one with the locks of the holders in hs closed.      *)
LEMMA LocksFreed ==
    ASSUME TypeOK, LocksHeld, NEW ws \in SUBSET Workers, NEW at \in {"idle", "dead"},
           NEW hs \in SUBSET (Workers \cup Procs),
           Free(hs), LeaveRunOne(ws, at),
           \A w \in Workers : w \in hs => w \in ws,
           \A p \in Procs : /\ p \in hs => rpc'[p] = "idle"
                            /\ p \notin hs => rpc'[p] = rpc[p] /\ rjob'[p] = rjob[p]
    PROVE  LocksHeld'
<1>1. \A w \in Workers : /\ pc'[w] = IF w \in ws THEN at ELSE pc[w]
                         /\ job'[w] = IF w \in ws THEN None ELSE job[w]
  BY DEF LeaveRunOne
<1>2. \A j \in Jobs : flock'[j] = IF flock[j] \in hs THEN None ELSE flock[j]
  BY DEF Free
<1>3. \A w \in Workers : pc'[w] \notin {"idle", "dead"} => job'[w] \in Jobs
  BY <1>1 DEF LocksHeld
<1>4. ASSUME NEW w \in Workers, pc'[w] \in HoldsLock
      PROVE  flock'[job'[w]] = w
  <2>1. w \notin ws /\ pc[w] \in HoldsLock /\ job'[w] = job[w]
    BY <1>1, <1>4 DEF HoldsLock, Executing
  <2>2. job[w] \in Jobs
    BY <2>1 DEF LocksHeld, HoldsLock, Executing
  <2>3. QED
    BY <1>2, <2>1, <2>2 DEF LocksHeld
<1>5. \A p \in Procs : rpc'[p] # "idle" => rjob'[p] \in Jobs
  BY DEF LocksHeld
<1>6. ASSUME NEW p \in Procs, rpc'[p] \in RecHolds
      PROVE  flock'[rjob'[p]] = p
  <2>1. p \notin hs /\ rpc[p] \in RecHolds /\ rjob'[p] = rjob[p]
    BY <1>6 DEF RecHolds
  <2>2. rjob[p] \in Jobs
    BY <2>1 DEF LocksHeld, RecHolds
  <2>3. QED
    BY <1>2, <2>1, <2>2 DEF LocksHeld
<1>7. QED
  BY <1>3, <1>4, <1>5, <1>6 DEF LocksHeld

(* A flock is held from the probe to the close, by one holder.              *)
LEMMA LocksStep == TypeOK /\ LocksHeld /\ [Next]_vars => LocksHeld'
<1> SUFFICES ASSUME TypeOK, LocksHeld, [Next]_vars PROVE LocksHeld'
  OBVIOUS
<1>1. ASSUME UNCHANGED <<pc, job, flock, rpc, rjob>> PROVE LocksHeld'
  BY <1>1 DEF LocksHeld
<1>2. ASSUME NEW j \in Jobs, Client(j) \/ LeaseExpires(j) PROVE LocksHeld'
  BY <1>1, <1>2 DEF Client, EnqueueCheck, EnqueueInsert, RequestCancel, LeaseExpires,
                    workVars, recVars
<1>3. ASSUME NEW w \in Workers, RunOne(w) PROVE LocksHeld'
  <2>1. CASE Peek(w)
    <3>1. PICK j \in Jobs : /\ job' = [job EXCEPT ![w] = j]
                            /\ pc' = [pc EXCEPT ![w] = "peeked"]
                            /\ UNCHANGED <<flock, rpc, rjob>>
      BY <2>1 DEF Peek, recVars
    <3>2. \A v \in Workers : /\ pc'[v] = IF v = w THEN "peeked" ELSE pc[v]
                             /\ job'[v] = IF v = w THEN j ELSE job[v]
      BY <3>1 DEF TypeOK
    <3>3. QED
      BY <3>1, <3>2 DEF LocksHeld, HoldsLock, Executing
  <2>2. CASE TryLock(w) /\ LockFree(job[w])
    <3>1. /\ pc[w] = "peeked"
          /\ flock[job[w]] = None
          /\ flock' = [flock EXCEPT ![job[w]] = w]
          /\ pc' = [pc EXCEPT ![w] = "locked"]
          /\ UNCHANGED <<job, rpc, rjob>>
      BY <2>2 DEF TryLock, LockFree, recVars
    <3>2. job[w] \in Jobs
      BY <3>1 DEF LocksHeld
    <3>3. \A v \in Workers : pc'[v] = IF v = w THEN "locked" ELSE pc[v]
      BY <3>1 DEF TypeOK
    <3>4. \A j \in Jobs : flock'[j] = IF j = job[w] THEN w ELSE flock[j]
      BY <3>1 DEF TypeOK
    <3>5. \A v \in Workers : pc'[v] \notin {"idle", "dead"} => job'[v] \in Jobs
      BY <3>1, <3>2, <3>3 DEF LocksHeld
    <3>6. ASSUME NEW v \in Workers, pc'[v] \in HoldsLock PROVE flock'[job'[v]] = v
      <4>1. CASE v = w
        BY <3>1, <3>2, <3>4, <4>1
      <4>2. CASE v # w
        <5>1. pc[v] \in HoldsLock /\ job[v] \in Jobs
          BY <3>3, <3>6, <4>2 DEF LocksHeld, HoldsLock, Executing
        <5>2. flock[job[v]] = v
          BY <5>1 DEF LocksHeld
        <5>3. QED
          BY <3>1, <3>4, <5>1, <5>2, ConstantsAssumption
      <4>3. QED
        BY <4>1, <4>2
    <3>7. ASSUME NEW p \in Procs, rpc'[p] \in RecHolds PROVE flock'[rjob'[p]] = p
      <4>1. rjob[p] \in Jobs /\ flock[rjob[p]] = p
        BY <3>1, <3>7 DEF LocksHeld, RecHolds
      <4>2. QED
        BY <3>1, <3>4, <4>1, ConstantsAssumption
    <3>8. QED
      BY <3>1, <3>5, <3>6, <3>7 DEF LocksHeld
  <2>3. CASE TryLock(w) /\ ~LockFree(job[w])
    <3>1. LeaveRunOne({w}, "idle") /\ UNCHANGED <<flock, rpc, rjob>>
      BY <2>3 DEF TryLock, recVars
    <3>2. \A v \in Workers : /\ pc'[v] = IF v = w THEN "idle" ELSE pc[v]
                             /\ job'[v] = IF v = w THEN None ELSE job[v]
      BY <3>1 DEF LeaveRunOne
    <3>3. QED
      BY <3>1, <3>2 DEF LocksHeld, HoldsLock, Executing
  <2>4. CASE LeaseCheck(w)
    <3>1. PICK at \in {"releasing", "cleared"} : pc' = [pc EXCEPT ![w] = at]
      BY <2>4 DEF LeaseCheck
    <3>2. pc[w] = "locked" /\ UNCHANGED <<job, flock, rpc, rjob>>
      BY <2>4 DEF LeaseCheck, recVars
    <3>3. QED
      BY <3>1, <3>2, HolderMoves DEF HoldsLock
  <2>5. CASE LeaseClaim(w)
    <3>1. PICK at \in {"releasing", "running"} : pc' = [pc EXCEPT ![w] = at]
      BY <2>5 DEF LeaseClaim
    <3>2. pc[w] = "cleared" /\ UNCHANGED <<job, flock, rpc, rjob>>
      BY <2>5 DEF LeaseClaim, recVars
    <3>3. QED
      BY <3>1, <3>2, HolderMoves DEF HoldsLock, Executing
  <2>6. CASE CloseLock(w)
    <3>1. Free({w}) /\ LeaveRunOne({w}, "idle") /\ UNCHANGED <<rpc, rjob>>
      BY <2>6 DEF CloseLock, recVars
    <3>2. QED
      BY <3>1, LocksFreed, ConstantsAssumption
  <2>7. QED
    BY <1>3, <2>1, <2>2, <2>3, <2>4, <2>5, <2>6 DEF RunOne
<1>4. ASSUME NEW w \in Workers, Heartbeat(w) \/ Handler(w) PROVE LocksHeld'
  <2>1. UNCHANGED <<pc, job, flock, rpc, rjob>>
    BY <1>4 DEF Heartbeat, Handler, FileBegin, FileCommit, FileFail, FileCancel, FileStep,
                TaskReport, HandlerEnds, workVars, recVars
  <2>2. QED
    BY <1>1, <2>1
<1>5. ASSUME NEW w \in Workers, Execute(w) PROVE LocksHeld'
  <2>1. /\ pc[w] \in {"running", "interrupting", "draining", "decided"}
        /\ \E at \in {"decided", "interrupting", "draining", "releasing"} :
              pc' = [pc EXCEPT ![w] = at]
        /\ UNCHANGED <<job, flock, rpc, rjob>>
    BY <1>5 DEF Execute, UnknownType, WaitEnds, Interrupt, Decide, Mark, recVars
  <2>2. QED
    BY <2>1, HolderMoves DEF HoldsLock, Executing
<1>6. ASSUME NEW w \in Workers, WorkerAborts(w) PROVE LocksHeld'
  <2>1. Free({w}) /\ LeaveRunOne({w}, "dead") /\ UNCHANGED <<rpc, rjob>>
    BY <1>6 DEF WorkerAborts, recVars
  <2>2. QED
    BY <2>1, LocksFreed, ConstantsAssumption
<1>7. ASSUME NEW p \in Procs, Recover(p) PROVE LocksHeld'
  <2>1. CASE RecoverScan(p)
    <3>1. PICK j \in Jobs : /\ rjob' = [rjob EXCEPT ![p] = j]
                            /\ rpc' = [rpc EXCEPT ![p] = "scanned"]
                            /\ UNCHANGED <<pc, job, flock>>
      BY <2>1 DEF RecoverScan, workVars
    <3>2. \A q \in Procs : /\ rpc'[q] = IF q = p THEN "scanned" ELSE rpc[q]
                           /\ rjob'[q] = IF q = p THEN j ELSE rjob[q]
      BY <3>1 DEF TypeOK
    <3>3. QED
      BY <3>1, <3>2 DEF LocksHeld, RecHolds
  <2>2. CASE RecoverLock(p) /\ LockFree(rjob[p])
    <3>1. /\ rpc[p] = "scanned"
          /\ flock[rjob[p]] = None
          /\ flock' = [flock EXCEPT ![rjob[p]] = p]
          /\ rpc' = [rpc EXCEPT ![p] = "locked"]
          /\ UNCHANGED <<rjob, pc, job>>
      BY <2>2 DEF RecoverLock, LockFree, workVars
    <3>2. rjob[p] \in Jobs
      BY <3>1 DEF LocksHeld
    <3>3. \A q \in Procs : rpc'[q] = IF q = p THEN "locked" ELSE rpc[q]
      BY <3>1 DEF TypeOK
    <3>4. \A j \in Jobs : flock'[j] = IF j = rjob[p] THEN p ELSE flock[j]
      BY <3>1 DEF TypeOK
    <3>5. \A q \in Procs : rpc'[q] # "idle" => rjob'[q] \in Jobs
      BY <3>1, <3>2, <3>3 DEF LocksHeld
    <3>6. ASSUME NEW v \in Workers, pc'[v] \in HoldsLock PROVE flock'[job'[v]] = v
      <4>1. job[v] \in Jobs /\ flock[job[v]] = v
        BY <3>1, <3>6 DEF LocksHeld, HoldsLock, Executing
      <4>2. QED
        BY <3>1, <3>4, <4>1, ConstantsAssumption
    <3>7. ASSUME NEW q \in Procs, rpc'[q] \in RecHolds PROVE flock'[rjob'[q]] = q
      <4>1. CASE q = p
        BY <3>1, <3>2, <3>4, <4>1
      <4>2. CASE q # p
        <5>1. rjob[q] \in Jobs /\ flock[rjob[q]] = q
          BY <3>3, <3>7, <4>2 DEF LocksHeld, RecHolds
        <5>2. QED
          BY <3>1, <3>4, <5>1, ConstantsAssumption
      <4>3. QED
        BY <4>1, <4>2
    <3>8. \A v \in Workers : pc'[v] \notin {"idle", "dead"} => job'[v] \in Jobs
      BY <3>1 DEF LocksHeld
    <3>9. QED
      BY <3>5, <3>6, <3>7, <3>8 DEF LocksHeld
  <2>3. CASE RecoverLock(p) /\ ~LockFree(rjob[p])
    <3>1. EndRecovery(p) /\ UNCHANGED <<flock, pc, job>>
      BY <2>3 DEF RecoverLock, workVars
    <3>2. \A q \in Procs : /\ rpc'[q] = IF q = p THEN "idle" ELSE rpc[q]
                           /\ rjob'[q] = IF q = p THEN None ELSE rjob[q]
      BY <3>1 DEF EndRecovery, TypeOK
    <3>3. QED
      BY <3>1, <3>2 DEF LocksHeld, RecHolds
  <2>4. CASE RecoverRead(p) \/ RecoverCommit(p)
    <3>1. PICK at \in {"read", "done"} : rpc' = [rpc EXCEPT ![p] = at]
      BY <2>4 DEF RecoverRead, RecoverCommit
    <3>2. rpc[p] \in {"locked", "read"} /\ UNCHANGED <<rjob, flock, pc, job>>
      BY <2>4 DEF RecoverRead, RecoverCommit, workVars
    <3>3. \A q \in Procs : rpc'[q] = IF q = p THEN at ELSE rpc[q]
      BY <3>1 DEF TypeOK
    <3>4. QED
      BY <3>2, <3>3 DEF LocksHeld, RecHolds
  <2>5. CASE RecoverUnlock(p)
    <3>1. Free({p}) /\ EndRecovery(p) /\ UNCHANGED <<pc, job>> /\ UNCHANGED workVars
      BY <2>5 DEF RecoverUnlock, workVars
    <3>2. \A q \in Procs : /\ rpc'[q] = IF q = p THEN "idle" ELSE rpc[q]
                           /\ rjob'[q] = IF q = p THEN None ELSE rjob[q]
      BY <3>1 DEF EndRecovery, TypeOK
    <3>3. LeaveRunOne({}, "idle")
      BY <3>1 DEF LeaveRunOne, TypeOK, workVars
    <3>4. QED
      BY <3>1, <3>2, <3>3, LocksFreed, ConstantsAssumption
  <2>6. QED
    BY <1>7, <2>1, <2>2, <2>3, <2>4, <2>5 DEF Recover
<1>8. ASSUME NEW p \in Procs, Crash(p) PROVE LocksHeld'
  <2> DEFINE mine == {w \in Workers : ProcOf[w] = p}
  <2>1. Free(mine \cup {p}) /\ LeaveRunOne(mine, "idle") /\ EndRecovery(p)
    BY <1>8 DEF Crash
  <2>2. \A q \in Procs : /\ rpc'[q] = IF q = p THEN "idle" ELSE rpc[q]
                         /\ rjob'[q] = IF q = p THEN None ELSE rjob[q]
    BY <2>1 DEF EndRecovery, TypeOK
  <2>3. QED
    BY <2>1, <2>2, LocksFreed, ConstantsAssumption
<1>9. CASE BeginMaintenance \/ EndMaintenance \/ UNCHANGED vars
  BY <1>1, <1>9 DEF BeginMaintenance, EndMaintenance, workVars, recVars, vars
<1>10. QED
  BY <1>2, <1>3, <1>4, <1>5, <1>6, <1>7, <1>8, <1>9 DEF Next

-----------------------------------------------------------------------------
(* How one step can move a job's row, and a worker.                         *)

Untouched(j) ==
    /\ state'[j] = state[j] /\ owner'[j] = owner[j] /\ attempts'[j] = attempts[j]
    /\ run'[j] = run[j]
    /\ task'[j] = task[j] \/ (task[j] = "active" /\ task'[j] # "active")

Inserted(j) ==
    /\ state[j] = "absent" /\ state'[j] = "pending"
    /\ j \notin admitted'
    /\ run'[j] = IF Kind[j] = "file" THEN "pending" ELSE run[j]

CancelledByUser(j) ==
    /\ \/ state[j] = "pending" /\ state'[j] = "cancelled" /\ task'[j] # "active"
       \/ state[j] = "running" /\ state'[j] = "cancelling"
    /\ owner'[j] = owner[j] /\ attempts'[j] = attempts[j] /\ run'[j] = run[j]

Claimed(j) ==
    state[j] = "pending" /\ state'[j] = "running" /\ run'[j] = run[j]

WorkedOn(j) ==
    /\ \E w \in Workers : job[w] = j /\ Handling(w)
    /\ Kind[j] = "file"
    /\ run[j] \in {"pending", "working"}
    /\ state'[j] = state[j] /\ owner'[j] = owner[j] /\ attempts'[j] = attempts[j]
    /\ task'[j] = task[j]

Marked(j) ==
    /\ \E w \in Workers : /\ job[w] = j /\ Owned(w)
                          /\ pc[w] = "decided" /\ pc'[w] = "releasing"
                          /\ state'[j] = MarkTarget(w)
    /\ task'[j] # "active"
    /\ run'[j] = run[j]

Recovered(j) ==
    /\ \E p \in Procs : rjob[p] = j /\ rpc[p] = "read" /\ state'[j] = RecoverTarget(p)
    /\ state[j] \in Active
    /\ state'[j] \in Terminal => task'[j] # "active"
    /\ run'[j] = IF run[j] \in {"pending", "working"} THEN "recovery" ELSE run[j]

RowMove(j) ==
    \/ Untouched(j) \/ Inserted(j) \/ CancelledByUser(j) \/ Claimed(j)
    \/ WorkedOn(j) \/ Marked(j) \/ Recovered(j)

WorkerMove(w) ==
    \/ pc'[w] \notin Executing
    \/ LeaseClaim(w) /\ state[job[w]] = "pending"
    \/ /\ pc[w] \in Executing
       /\ job'[w] = job[w] /\ att'[w] = att[w]
       /\ \/ pc'[w] # "decided"
          \/ pc[w] = "decided" /\ verdict'[w] = verdict[w]
          \/ Decide(w) \/ UnknownType(w)

(* A user's cancel, or the supervisor's, moves one row.                     *)
LEMMA CancelMoves ==
    ASSUME TypeOK, NEW k \in Jobs, CancelRow(k),
           UNCHANGED <<owner, attempts, run>>, NEW j \in Jobs
    PROVE  RowMove(j)
<1>1. /\ state[k] \in {"pending", "running"}
      /\ state'[j] = IF j # k THEN state[j]
                     ELSE IF state[k] = "pending" THEN "cancelled" ELSE "cancelling"
  BY DEF CancelRow, TypeOK
<1>2. task'[j] = task[j] \/ (j = k /\ task[j] = "active" /\ task'[j] # "active")
  BY DEF CancelRow, FinishTasks, TypeOK
<1>3. j = k /\ state[k] = "pending" => task'[j] # "active"
  BY DEF CancelRow, FinishTasks, TypeOK
<1>4. CASE j = k
  BY <1>1, <1>3, <1>4 DEF RowMove, CancelledByUser
<1>5. CASE j # k
  BY <1>1, <1>2, <1>5 DEF RowMove, Untouched
<1>6. QED
  BY <1>4, <1>5

(* The run and the TaskAttempts of other jobs are not concerned.            *)
LEMMA OtherRow ==
    ASSUME TypeOK, NEW k \in Jobs, NEW j \in Jobs, j # k,
           NEW s, NEW o, NEW n, NEW r, NEW t,
           state' = [state EXCEPT ![k] = s], owner' = [owner EXCEPT ![k] = o],
           attempts' = [attempts EXCEPT ![k] = n], run' = [run EXCEPT ![k] = r],
           task' = [task EXCEPT ![k] = t]
    PROVE  RowMove(j)
BY DEF RowMove, Untouched, TypeOK

(* Every step moves every row in one of these ways.                         *)
LEMMA RowMoves == TypeOK /\ LocksHeld /\ RunsFollowJobs /\ [Next]_vars
                    => \A j \in Jobs : RowMove(j)
<1> SUFFICES ASSUME TypeOK, LocksHeld, RunsFollowJobs, [Next]_vars, NEW j \in Jobs
             PROVE  RowMove(j)
  OBVIOUS
<1>1. ASSUME UNCHANGED <<state, owner, attempts, run, task>> PROVE RowMove(j)
  BY <1>1 DEF RowMove, Untouched
<1>2. ASSUME NEW k \in Jobs, Client(k) \/ LeaseExpires(k) PROVE RowMove(j)
  <2>1. CASE EnqueueInsert(k)
    <3>1. state[k] = "absent"
      BY <2>1 DEF EnqueueInsert, RunsFollowJobs
    <3>2. CASE j = k
      BY <2>1, <3>1, <3>2 DEF EnqueueInsert, RowMove, Inserted, TypeOK
    <3>3. CASE j # k
      BY <2>1, <3>3 DEF EnqueueInsert, RowMove, Untouched, TypeOK
    <3>4. QED
      BY <3>2, <3>3
  <2>2. CASE RequestCancel(k)
    BY <2>2, CancelMoves DEF RequestCancel
  <2>3. CASE EnqueueCheck(k) \/ LeaseExpires(k)
    BY <1>1, <2>3 DEF EnqueueCheck, LeaseExpires, dbVars
  <2>4. QED
    BY <1>2, <2>1, <2>2, <2>3 DEF Client
<1>3. ASSUME NEW w \in Workers, LeaseClaim(w) PROVE RowMove(j)
  <2>1. job[w] \in Jobs
    BY <1>3 DEF LeaseClaim, LocksHeld
  <2>2. CASE state[job[w]] = "pending"
    <3>1. /\ state' = [state EXCEPT ![job[w]] = "running"]
          /\ owner' = [owner EXCEPT ![job[w]] = w]
          /\ UNCHANGED <<run, task>>
      BY <1>3, <2>2 DEF LeaseClaim
    <3>2. j # job[w] => attempts'[j] = attempts[j]
      <4>1. \E n : attempts' = [attempts EXCEPT ![job[w]] = n]
        BY <1>3, <2>2 DEF LeaseClaim
      <4>2. QED
        BY <4>1 DEF TypeOK
    <3>3. CASE j = job[w]
      BY <2>2, <3>1, <3>3 DEF RowMove, Claimed, TypeOK
    <3>4. CASE j # job[w]
      BY <3>1, <3>2, <3>4 DEF RowMove, Untouched, TypeOK
    <3>5. QED
      BY <3>3, <3>4
  <2>3. CASE state[job[w]] # "pending"
    <3>1. UNCHANGED <<state, owner, attempts, run, task>>
      BY <1>3, <2>3 DEF LeaseClaim
    <3>2. QED
      BY <1>1, <3>1
  <2>4. QED
    BY <2>2, <2>3
<1>4. ASSUME NEW w \in Workers, Handler(w) PROVE RowMove(j)
  <2>1. ASSUME NEW from \in {"pending", "working"}, NEW to \in RunStates,
               FileStep(w, from, to)
        PROVE  RowMove(j)
    <3>1. /\ Handling(w) /\ Kind[job[w]] = "file" /\ run[job[w]] = from
          /\ run' = [run EXCEPT ![job[w]] = to]
          /\ UNCHANGED <<state, owner, attempts, task>>
      BY <2>1 DEF FileStep
    <3>2. CASE j = job[w]
      BY <3>1, <3>2 DEF RowMove, WorkedOn
    <3>3. CASE j # job[w]
      BY <3>1, <3>3 DEF RowMove, Untouched, TypeOK
    <3>4. QED
      BY <3>2, <3>3
  <2>2. CASE FileBegin(w) \/ FileCommit(w)
    BY <2>1, <2>2 DEF FileBegin, FileCommit, RunStates
  <2>3. CASE FileFail(w) \/ FileCancel(w)
    <3>1. PICK to \in RunStates : FileStep(w, "working", to)
      BY <2>3 DEF FileFail, FileCancel, RunStates
    <3>2. QED
      BY <2>1, <3>1
  <2>4. CASE TaskReport(w)
    <3>1. PICK st \in {"success", "transient_failure", "permanent_failure"} :
            task' = [task EXCEPT ![job[w]] = st]
      BY <2>4 DEF TaskReport
    <3>2. task[job[w]] = "active" /\ UNCHANGED <<state, owner, attempts, run>>
      BY <2>4 DEF TaskReport
    <3>3. QED
      BY <3>1, <3>2 DEF RowMove, Untouched, TypeOK
  <2>5. CASE HandlerEnds(w)
    BY <1>1, <2>5 DEF HandlerEnds, dbVars
  <2>6. QED
    BY <1>4, <2>2, <2>3, <2>4, <2>5 DEF Handler
<1>5. ASSUME NEW w \in Workers, Interrupt(w) PROVE RowMove(j)
  <2>1. job[w] \in Jobs
    BY <1>5 DEF Interrupt, LocksHeld
  <2>2. CASE state[job[w]] \in {"pending", "running"}
    <3>1. CancelRow(job[w]) /\ UNCHANGED <<owner, attempts, run>>
      BY <1>5, <2>2 DEF Interrupt
    <3>2. QED
      BY <2>1, <3>1, CancelMoves
  <2>3. CASE state[job[w]] \notin {"pending", "running"}
    <3>1. UNCHANGED <<state, owner, attempts, run, task>>
      BY <1>5, <2>3 DEF Interrupt
    <3>2. QED
      BY <1>1, <3>1
  <2>4. QED
    BY <2>2, <2>3
<1>6. ASSUME NEW w \in Workers, Mark(w) PROVE RowMove(j)
  <2>1. /\ job[w] \in Jobs
        /\ pc[w] = "decided" /\ pc'[w] = "releasing"
        /\ UNCHANGED <<attempts, run>>
    BY <1>6 DEF Mark, LocksHeld, TypeOK
  <2>2. CASE Owned(w)
    <3>1. Finish(job[w], MarkTarget(w))
      BY <1>6, <2>2 DEF Mark
    <3>2. /\ state' = [state EXCEPT ![job[w]] = MarkTarget(w)]
          /\ owner' = [owner EXCEPT ![job[w]] = None]
          /\ FinishTasks(job[w], TaskOutcome(MarkTarget(w)))
      BY <3>1 DEF Finish, Release
    <3>3. TaskOutcome(MarkTarget(w)) # "active"
      BY DEF TaskOutcome
    <3>4. CASE j = job[w]
      <4>1. state'[j] = MarkTarget(w) /\ task'[j] # "active"
        BY <2>1, <3>2, <3>3, <3>4 DEF FinishTasks, TypeOK
      <4>2. QED
        BY <2>1, <2>2, <3>4, <4>1 DEF RowMove, Marked
    <3>5. CASE j # job[w]
      <4>1. state'[j] = state[j] /\ owner'[j] = owner[j] /\ task'[j] = task[j]
        BY <2>1, <3>2, <3>5 DEF FinishTasks, TypeOK
      <4>2. QED
        BY <2>1, <4>1 DEF RowMove, Untouched
    <3>6. QED
      BY <3>4, <3>5
  <2>3. CASE ~Owned(w)
    <3>1. UNCHANGED <<state, owner, attempts, run, task>>
      BY <1>6, <2>3 DEF Mark
    <3>2. QED
      BY <1>1, <3>1
  <2>4. QED
    BY <2>2, <2>3
<1>7. ASSUME NEW p \in Procs, RecoverCommit(p) PROVE RowMove(j)
  <2>1. rjob[p] \in Jobs /\ rpc[p] = "read" /\ UNCHANGED attempts
    BY <1>7 DEF RecoverCommit, LocksHeld
  <2>2. CASE UNCHANGED <<state, owner, lease, cancelReq, run, task>>
    BY <1>1, <2>1, <2>2
  <2>3. CASE ~UNCHANGED <<state, owner, lease, cancelReq, run, task>>
    <3>1. /\ Expired(rjob[p])
          /\ Release(rjob[p], RecoverTarget(p))
          /\ run' = IF run[rjob[p]] \in {"pending", "working"}
                    THEN [run EXCEPT ![rjob[p]] = "recovery"] ELSE run
          /\ CASE RecoverTarget(p) = "cancelled" -> FinishTasks(rjob[p], "cancelled")
               [] RecoverTarget(p) = "failed" -> FinishTasks(rjob[p], "permanent_failure")
               [] OTHER -> UNCHANGED task
      BY <1>7, <2>3 DEF RecoverCommit
    <3>2. CASE j = rjob[p]
      <4>1. state[j] \in Active /\ state'[j] = RecoverTarget(p)
        BY <2>1, <3>1, <3>2 DEF Expired, Release, TypeOK
      <4>2. run'[j] = IF run[j] \in {"pending", "working"} THEN "recovery" ELSE run[j]
        BY <2>1, <3>1, <3>2 DEF TypeOK
      <4>3. RecoverTarget(p) = "succeeded" => task'[j] # "active"
        <5>1. RecoverTarget(p) = "succeeded" => Kind[j] = "file"
          BY <3>2 DEF RecoverTarget
        <5>2. RecoverTarget(p) = "succeeded" => task[j] # "active" /\ UNCHANGED task
          BY <2>1, <3>1, <3>2, <5>1 DEF RunsFollowJobs
        <5>3. QED
          BY <5>2
      <4>4. RecoverTarget(p) \in {"cancelled", "failed"} => task'[j] # "active"
        BY <2>1, <3>1, <3>2 DEF FinishTasks, TypeOK
      <4>5. QED
        BY <2>1, <3>2, <4>1, <4>2, <4>3, <4>4 DEF RowMove, Recovered, Terminal
    <3>3. CASE j # rjob[p]
      <4>1. state'[j] = state[j] /\ owner'[j] = owner[j] /\ run'[j] = run[j]
        BY <2>1, <3>1, <3>3 DEF Release, TypeOK
      <4>2. task'[j] = task[j]
        BY <2>1, <3>1, <3>3 DEF FinishTasks, TypeOK
      <4>3. QED
        BY <2>1, <4>1, <4>2 DEF RowMove, Untouched
    <3>4. QED
      BY <3>2, <3>3
  <2>4. QED
    BY <2>2, <2>3
<1>8. ASSUME \/ BeginMaintenance \/ EndMaintenance \/ UNCHANGED vars
             \/ \E w \in Workers : \/ Peek(w) \/ TryLock(w) \/ LeaseCheck(w) \/ CloseLock(w)
                                   \/ Heartbeat(w) \/ UnknownType(w) \/ WaitEnds(w)
                                   \/ Decide(w) \/ WorkerAborts(w)
             \/ \E p \in Procs : \/ RecoverScan(p) \/ RecoverLock(p) \/ RecoverRead(p)
                                 \/ RecoverUnlock(p) \/ Crash(p)
      PROVE  RowMove(j)
  <2>1. UNCHANGED <<state, owner, attempts, run, task>>
    BY <1>8 DEF BeginMaintenance, EndMaintenance, vars, Peek, TryLock, LeaseCheck,
      CloseLock, Heartbeat, UnknownType, WaitEnds, Decide, WorkerAborts, RecoverScan,
      RecoverLock, RecoverRead, RecoverUnlock, Crash, dbVars
  <2>2. QED
    BY <1>1, <2>1
<1>9. QED
  BY <1>2, <1>3, <1>4, <1>5, <1>6, <1>7, <1>8 DEF Next, RunOne, Execute, Recover

(* Every step moves every worker in one of these ways.                      *)
LEMMA WorkerMoves == TypeOK /\ [Next]_vars => \A v \in Workers : WorkerMove(v)
<1> SUFFICES ASSUME TypeOK, [Next]_vars, NEW v \in Workers
             PROVE  WorkerMove(v)
  OBVIOUS
<1>1. ASSUME UNCHANGED <<pc, job, att, verdict>> PROVE WorkerMove(v)
  BY <1>1 DEF WorkerMove
<1>2. ASSUME \/ BeginMaintenance \/ EndMaintenance \/ UNCHANGED vars
             \/ \E j \in Jobs : Client(j) \/ LeaseExpires(j)
             \/ \E w \in Workers : Heartbeat(w) \/ Handler(w)
             \/ \E p \in Procs : Recover(p)
      PROVE  WorkerMove(v)
  <2>1. UNCHANGED <<pc, job, att, verdict>>
    BY <1>2 DEF BeginMaintenance, EndMaintenance, vars, Client, EnqueueCheck,
      EnqueueInsert, RequestCancel, LeaseExpires, Heartbeat, Handler, FileBegin,
      FileCommit, FileFail, FileCancel, FileStep, TaskReport, HandlerEnds, Recover,
      RecoverScan, RecoverLock, RecoverRead, RecoverCommit, RecoverUnlock, workVars
  <2>2. QED
    BY <1>1, <2>1
<1>3. ASSUME NEW ws \in SUBSET Workers, NEW at \in {"idle", "dead"}, LeaveRunOne(ws, at)
      PROVE  WorkerMove(v)
  BY <1>3 DEF LeaveRunOne, WorkerMove, Executing
<1>4. ASSUME NEW w \in Workers, RunOne(w) PROVE WorkerMove(v)
  <2>1. CASE Peek(w)
    <3>1. /\ pc' = [pc EXCEPT ![w] = "peeked"]
          /\ \E j \in Jobs : job' = [job EXCEPT ![w] = j]
          /\ UNCHANGED <<att, verdict>>
      BY <2>1 DEF Peek
    <3>2. QED
      BY <3>1 DEF WorkerMove, Executing, TypeOK
  <2>2. CASE TryLock(w) /\ LockFree(job[w])
    <3>1. pc' = [pc EXCEPT ![w] = "locked"] /\ UNCHANGED <<job, att, verdict>>
      BY <2>2 DEF TryLock
    <3>2. QED
      BY <3>1 DEF WorkerMove, Executing, TypeOK
  <2>3. CASE TryLock(w) /\ ~LockFree(job[w])
    BY <1>3, <2>3 DEF TryLock
  <2>4. CASE LeaseCheck(w)
    <3>1. /\ \E at \in {"releasing", "cleared"} : pc' = [pc EXCEPT ![w] = at]
          /\ UNCHANGED <<job, att, verdict>>
      BY <2>4 DEF LeaseCheck
    <3>2. QED
      BY <3>1 DEF WorkerMove, Executing, TypeOK
  <2>5. CASE LeaseClaim(w) /\ v = w
    <3>1. state[job[w]] # "pending" => pc' = [pc EXCEPT ![w] = "releasing"]
      BY <2>5 DEF LeaseClaim
    <3>2. QED
      BY <2>5, <3>1 DEF WorkerMove, Executing, TypeOK
  <2>6. CASE LeaseClaim(w) /\ v # w
    <3>1. /\ \E at : pc' = [pc EXCEPT ![w] = at]
          /\ UNCHANGED <<job, verdict>>
      BY <2>6 DEF LeaseClaim
    <3>2. \E n : att' = [att EXCEPT ![w] = n]
      <4>1. CASE state[job[w]] = "pending"
        BY <2>6, <4>1 DEF LeaseClaim
      <4>2. CASE state[job[w]] # "pending"
        <5>1. UNCHANGED att
          BY <2>6, <4>2 DEF LeaseClaim
        <5>2. att' = [att EXCEPT ![w] = att[w]]
          BY <5>1 DEF TypeOK
        <5>3. QED
          BY <5>2
      <4>3. QED
        BY <4>1, <4>2
    <3>3. QED
      BY <2>6, <3>1, <3>2 DEF WorkerMove, TypeOK
  <2>7. CASE CloseLock(w)
    BY <1>3, <2>7 DEF CloseLock
  <2>8. QED
    BY <1>4, <2>1, <2>2, <2>3, <2>4, <2>5, <2>6, <2>7 DEF RunOne
<1>5. ASSUME NEW w \in Workers, Execute(w) PROVE WorkerMove(v)
  <2>1. /\ pc[w] \in Executing
        /\ \E at : pc' = [pc EXCEPT ![w] = at]
        /\ UNCHANGED <<job, att>>
    BY <1>5 DEF Execute, UnknownType, WaitEnds, Interrupt, Decide, Mark, Executing
  <2>2. CASE v # w
    <3>1. \E x : verdict' = [verdict EXCEPT ![w] = x] \/ UNCHANGED verdict
      BY <1>5 DEF Execute, UnknownType, WaitEnds, Interrupt, Decide, Mark
    <3>2. QED
      BY <2>1, <2>2, <3>1 DEF WorkerMove, TypeOK
  <2>3. CASE v = w
    <3>1. Decide(w) \/ UnknownType(w) \/ pc'[w] # "decided"
      BY <1>5 DEF Execute, WaitEnds, Interrupt, Mark, TypeOK
    <3>2. QED
      BY <2>1, <2>3, <3>1 DEF WorkerMove
  <2>4. QED
    BY <2>2, <2>3
<1>6. ASSUME NEW w \in Workers, WorkerAborts(w) PROVE WorkerMove(v)
  BY <1>3, <1>6 DEF WorkerAborts
<1>7. ASSUME NEW p \in Procs, Crash(p) PROVE WorkerMove(v)
  <2>1. LeaveRunOne({w \in Workers : ProcOf[w] = p}, "idle")
    BY <1>7 DEF Crash
  <2>2. QED
    BY <1>3, <2>1
<1>8. QED
  BY <1>2, <1>4, <1>5, <1>6, <1>7 DEF Next

-----------------------------------------------------------------------------
(* The inductive invariant.                                                 *)

(* The flock keeps workers and recoveries of one job apart.                 *)
LEMMA Exclusive ==
    ASSUME TypeOK, LocksHeld, NEW w \in Workers, pc[w] \in HoldsLock
    PROVE  /\ job[w] \in Jobs
           /\ \A v \in Workers : pc[v] \in HoldsLock /\ job[v] = job[w] => v = w
           /\ \A p \in Procs : rpc[p] \in RecHolds => rjob[p] # job[w]
<1>1. job[w] \in Jobs /\ flock[job[w]] = w
  BY DEF LocksHeld, HoldsLock, Executing
<1>2. \A v \in Workers : pc[v] \in HoldsLock /\ job[v] = job[w] => v = w
  BY <1>1 DEF LocksHeld
<1>3. \A p \in Procs : rpc[p] \in RecHolds => rjob[p] # job[w]
  BY <1>1, ConstantsAssumption DEF LocksHeld
<1>4. QED
  BY <1>1, <1>2, <1>3

(* No step takes its row from an execution: only its worker, under the      *)
(* lock, moves it.                                                          *)
LEMMA OwnStep == IInv /\ [Next]_vars => ExecutionOwnsRow'
<1> SUFFICES ASSUME IInv, [Next]_vars, NEW w \in Workers, pc'[w] \in Executing
             PROVE  Owned(w)'
  BY DEF ExecutionOwnsRow
<1>1. TypeOK /\ LocksHeld /\ ExecutionOwnsRow /\ RunsFollowJobs
  BY DEF IInv
<1>2. WorkerMove(w)
  BY <1>1, WorkerMoves
<1>3. CASE LeaseClaim(w) /\ state[job[w]] = "pending"
  <2>1. job[w] \in Jobs
    BY <1>1, <1>3 DEF LeaseClaim, LocksHeld
  <2>2. /\ state' = [state EXCEPT ![job[w]] = "running"]
        /\ owner' = [owner EXCEPT ![job[w]] = w]
        /\ attempts' = [attempts EXCEPT ![job[w]] = attempts[job[w]] + 1]
        /\ att' = [att EXCEPT ![w] = attempts[job[w]] + 1]
        /\ job' = job
    BY <1>3 DEF LeaseClaim
  <2>3. attempts'[job[w]] = att'[w]
    <3> DEFINE n == attempts[job[w]] + 1
    <3>1. /\ attempts' = [attempts EXCEPT ![job[w]] = n]
          /\ att' = [att EXCEPT ![w] = n]
      BY <2>2
    <3> HIDE DEF n
    <3>2. QED
      BY <1>1, <2>1, <3>1 DEF TypeOK
  <2>4. QED
    BY <1>1, <2>1, <2>2, <2>3 DEF Owned, Active, TypeOK
<1>4. CASE pc[w] \in Executing /\ job'[w] = job[w] /\ att'[w] = att[w]
  <2>1. pc[w] \in HoldsLock
    BY <1>4 DEF HoldsLock
  <2>2. job[w] \in Jobs
    BY <1>1, <2>1, Exclusive
  <2>3. Owned(w)
    BY <1>1, <1>4 DEF ExecutionOwnsRow
  <2>4. RowMove(job[w])
    BY <1>1, <2>2, RowMoves
  <2>5. ~Marked(job[w])
    <3>1. SUFFICES ASSUME NEW v \in Workers, job[v] = job[w], pc[v] = "decided",
                          pc'[v] = "releasing"
                   PROVE  FALSE
      BY DEF Marked
    <3>2. v = w
      BY <1>1, <2>1, <3>1, Exclusive DEF HoldsLock, Executing
    <3>3. QED
      BY <3>1, <3>2 DEF Executing
  <2>6. ~Recovered(job[w])
    BY <1>1, <2>1, Exclusive DEF Recovered, RecHolds
  <2>7. ~Inserted(job[w]) /\ ~Claimed(job[w])
    BY <2>3 DEF Owned, Active, Inserted, Claimed
  <2>8. Untouched(job[w]) \/ CancelledByUser(job[w]) \/ WorkedOn(job[w])
    BY <2>4, <2>5, <2>6, <2>7 DEF RowMove
  <2>9. /\ owner'[job[w]] = owner[job[w]] /\ attempts'[job[w]] = attempts[job[w]]
        /\ state'[job[w]] \in Active
    BY <2>3, <2>8 DEF Untouched, CancelledByUser, WorkedOn, Owned, Active
  <2>10. QED
    BY <1>4, <2>3, <2>9 DEF Owned
<1>5. QED
  BY <1>2, <1>3, <1>4 DEF WorkerMove

(* A handler works on a row that is not absent, pending or finished.        *)
LEMMA WorkedRowActive ==
    ASSUME IInv, NEW j \in Jobs, WorkedOn(j) PROVE state[j] \in Active
<1>1. PICK w \in Workers : job[w] = j /\ Handling(w)
  BY DEF WorkedOn
<1>2. Owned(w)
  BY <1>1 DEF IInv, ExecutionOwnsRow, Handling, Executing
<1>3. QED
  BY <1>1, <1>2 DEF Owned

(* What a worker writes at the end is final, and so is what recovery        *)
(* writes, unless it requeues.                                              *)
LEMMA TargetsTerminal ==
    /\ \A w \in Workers : MarkTarget(w) \in Terminal
    /\ \A p \in Procs : RecoverTarget(p) \in Terminal \cup {"pending"}
BY DEF MarkTarget, RecoverTarget, FileRecovery, Terminal

(* Only a task job's TaskAttempt ever moves.                                *)
LEMMA TasksMove == TypeOK /\ [Next]_vars
    => \A j \in Jobs : task'[j] = task[j] \/ task[j] = "active" \/ Kind[j] = "task"
<1> SUFFICES ASSUME TypeOK, [Next]_vars, NEW j \in Jobs
             PROVE  task'[j] = task[j] \/ task[j] = "active" \/ Kind[j] = "task"
  OBVIOUS
<1>1. ASSUME NEW k, NEW o, FinishTasks(k, o)
      PROVE  task'[j] = task[j] \/ task[j] = "active"
  BY <1>1 DEF FinishTasks, TypeOK
<1>2. ASSUME NEW k \in Jobs, Client(k) \/ LeaseExpires(k)
      PROVE  task'[j] = task[j] \/ task[j] = "active" \/ Kind[j] = "task"
  <2>1. CASE EnqueueInsert(k)
    BY <2>1 DEF EnqueueInsert, TypeOK
  <2>2. CASE RequestCancel(k)
    BY <1>1, <2>2 DEF RequestCancel, CancelRow
  <2>3. CASE EnqueueCheck(k) \/ LeaseExpires(k)
    BY <2>3 DEF EnqueueCheck, LeaseExpires, dbVars
  <2>4. QED
    BY <1>2, <2>1, <2>2, <2>3 DEF Client
<1>3. ASSUME NEW w \in Workers, TaskReport(w)
      PROVE  task'[j] = task[j] \/ task[j] = "active"
  <2>1. /\ task[job[w]] = "active"
        /\ \E st : task' = [task EXCEPT ![job[w]] = st]
    BY <1>3 DEF TaskReport
  <2>2. QED
    BY <2>1 DEF TypeOK
<1>4. ASSUME NEW w \in Workers, Interrupt(w) \/ Mark(w)
      PROVE  task'[j] = task[j] \/ task[j] = "active"
  BY <1>1, <1>4 DEF Interrupt, CancelRow, Mark, Finish
<1>5. ASSUME NEW p \in Procs, RecoverCommit(p)
      PROVE  task'[j] = task[j] \/ task[j] = "active"
  <2>1. UNCHANGED task \/ \E o : FinishTasks(rjob[p], o)
    BY <1>5 DEF RecoverCommit
  <2>2. QED
    BY <1>1, <2>1
<1>6. ASSUME \/ BeginMaintenance \/ EndMaintenance \/ UNCHANGED vars
             \/ \E w \in Workers : \/ RunOne(w) \/ Heartbeat(w) \/ UnknownType(w)
                                   \/ WaitEnds(w) \/ Decide(w) \/ WorkerAborts(w)
                                   \/ FileBegin(w) \/ FileCommit(w) \/ FileFail(w)
                                   \/ FileCancel(w) \/ HandlerEnds(w)
             \/ \E p \in Procs : \/ RecoverScan(p) \/ RecoverLock(p) \/ RecoverRead(p)
                                 \/ RecoverUnlock(p) \/ Crash(p)
      PROVE  task' = task
  BY <1>6 DEF BeginMaintenance, EndMaintenance, vars, RunOne, Peek, TryLock, LeaseCheck,
      LeaseClaim, CloseLock, Heartbeat, UnknownType, WaitEnds, Decide, WorkerAborts,
      FileBegin, FileCommit, FileFail, FileCancel, FileStep, HandlerEnds, RecoverScan,
      RecoverLock, RecoverRead, RecoverUnlock, Crash, dbVars
<1>7. QED
  BY <1>2, <1>3, <1>4, <1>5, <1>6 DEF Next, Handler, Execute, Recover

(* What the run and the TaskAttempts of a row can be in each of its states. *)
LEMMA RunsStep == IInv /\ [Next]_vars => RunsFollowJobs'
<1> SUFFICES ASSUME IInv, [Next]_vars, NEW j \in Jobs
             PROVE  /\ run'[j] # "none" => Kind[j] = "file"
                    /\ task'[j] # "none" => Kind[j] = "task"
                    /\ state'[j] = "absent" => run'[j] = "none" /\ task'[j] = "none"
                    /\ state'[j] = "pending" => run'[j] \in {"none", "pending"}
                    /\ j \in admitted' => state'[j] = "absent"
  BY DEF RunsFollowJobs
<1>1. TypeOK /\ LocksHeld /\ RunsFollowJobs
  BY DEF IInv
<1>2. RowMove(j)
  BY <1>1, RowMoves
<1>3. task'[j] # "none" => Kind[j] = "task"
  BY <1>1, TasksMove DEF RunsFollowJobs
<1>4. run'[j] # "none" => Kind[j] = "file"
  BY <1>1, <1>2 DEF RunsFollowJobs, RowMove, Untouched, Inserted, CancelledByUser, Claimed,
                    WorkedOn, Marked, Recovered
<1>5. WorkedOn(j) => state[j] \in Active
  BY WorkedRowActive
<1>6. Marked(j) => state'[j] \in Terminal
  BY TargetsTerminal DEF Marked
<1>7. Recovered(j) => /\ state'[j] \in Terminal \cup {"pending"}
                      /\ state'[j] = "pending" => Kind[j] # "file"
  <2>1. ASSUME NEW p \in Procs, RecoverTarget(p) = "pending" PROVE Kind[rjob[p]] # "file"
    BY <2>1 DEF RecoverTarget, FileRecovery
  <2>2. QED
    BY <2>1, TargetsTerminal DEF Recovered
<1>8. state'[j] = "absent" => run'[j] = "none" /\ task'[j] = "none"
  BY <1>1, <1>2, <1>5, <1>6, <1>7 DEF RunsFollowJobs, RowMove, Untouched, Inserted,
     CancelledByUser, Claimed, WorkedOn, Active, Terminal
<1>9. state'[j] = "pending" => run'[j] \in {"none", "pending"}
  BY <1>1, <1>2, <1>4, <1>5, <1>6, <1>7 DEF RunsFollowJobs, RowMove, Untouched, Inserted,
     CancelledByUser, Claimed, WorkedOn, Active, Terminal
<1>10. j \in admitted' => state[j] = "absent"
  <2>1. ASSUME NEW k \in Jobs, Client(k) PROVE j \in admitted' => state[j] = "absent"
    BY <1>1, <2>1 DEF Client, EnqueueCheck, EnqueueInsert, RequestCancel, RunsFollowJobs
  <2>2. ASSUME ~\E k \in Jobs : Client(k) PROVE admitted' = admitted
    BY <2>2 DEF Next, LeaseExpires, RunOne, Peek, TryLock, LeaseCheck, LeaseClaim, CloseLock,
      Heartbeat, Handler, FileBegin, FileCommit, FileFail, FileCancel, FileStep, TaskReport,
      HandlerEnds, Execute, UnknownType, WaitEnds, Interrupt, Decide, Mark, WorkerAborts,
      Recover, RecoverScan, RecoverLock, RecoverRead, RecoverCommit, RecoverUnlock, Crash,
      BeginMaintenance, EndMaintenance, vars
  <2>3. QED
    BY <1>1, <2>1, <2>2 DEF RunsFollowJobs
<1>11. j \in admitted' => state'[j] = "absent"
  BY <1>2, <1>6, <1>10 DEF RowMove, Untouched, Inserted, CancelledByUser, Claimed, WorkedOn,
     Marked, Owned, Recovered, Active
<1>12. QED
  BY <1>3, <1>4, <1>8, <1>9, <1>11

(* The branch _execute took agrees with the run for as long as it matters.  *)
LEMMA VerdictStep == IInv /\ [Next]_vars => VerdictSound'
<1> SUFFICES ASSUME IInv, [Next]_vars, NEW w \in Workers, pc'[w] = "decided"
             PROVE  verdict'[w] = "commit" <=> run'[job'[w]] = "committed"
  BY DEF VerdictSound
<1>1. TypeOK /\ LocksHeld /\ ExecutionOwnsRow /\ RunsFollowJobs /\ VerdictSound
  BY DEF IInv
<1>2. \/ Decide(w) \/ UnknownType(w)
      \/ pc[w] = "decided" /\ verdict'[w] = verdict[w] /\ job'[w] = job[w]
  <2>1. ~(LeaseClaim(w) /\ state[job[w]] = "pending")
    <3>1. LeaseClaim(w) /\ state[job[w]] = "pending" => pc' = [pc EXCEPT ![w] = "running"]
      BY DEF LeaseClaim
    <3>2. QED
      BY <1>1, <3>1 DEF TypeOK
  <2>2. QED
    BY <1>1, <2>1, WorkerMoves DEF WorkerMove, Executing
<1>3. CASE Decide(w)
  <2>1. verdict'[w] = Verdict(w) /\ run' = run /\ job' = job
    BY <1>1, <1>3 DEF Decide, dbVars, TypeOK
  <2>2. Verdict(w) = "commit" <=> run[job[w]] = "committed"
    BY DEF Verdict, DurableResult
  <2>3. QED
    BY <2>1, <2>2
<1>4. CASE UnknownType(w)
  <2>1. verdict'[w] = "fail" /\ run' = run /\ job' = job /\ Kind[job[w]] = "unknown"
    BY <1>1, <1>4 DEF UnknownType, dbVars, TypeOK
  <2>2. job[w] \in Jobs
    BY <1>1, <1>4 DEF UnknownType, LocksHeld
  <2>3. QED
    BY <1>1, <2>1, <2>2 DEF RunsFollowJobs
<1>5. CASE pc[w] = "decided" /\ verdict'[w] = verdict[w] /\ job'[w] = job[w]
  <2>1. pc[w] \in HoldsLock /\ Owned(w)
    BY <1>1, <1>5 DEF HoldsLock, Executing, ExecutionOwnsRow
  <2>2. job[w] \in Jobs
    BY <1>1, <2>1, Exclusive
  <2>3. RowMove(job[w])
    BY <1>1, <2>2, RowMoves
  <2>4. ~WorkedOn(job[w])
    <3>1. SUFFICES ASSUME NEW v \in Workers, job[v] = job[w], Handling(v) PROVE FALSE
      BY DEF WorkedOn
    <3>2. v = w
      BY <1>1, <2>1, <3>1, Exclusive DEF HoldsLock, Executing, Handling
    <3>3. QED
      BY <1>5, <3>1, <3>2 DEF Handling
  <2>5. ~Recovered(job[w])
    BY <1>1, <2>1, Exclusive DEF Recovered, RecHolds
  <2>6. ~Inserted(job[w])
    BY <2>1 DEF Owned, Active, Inserted
  <2>7. run'[job[w]] = run[job[w]]
    BY <2>3, <2>4, <2>5, <2>6 DEF RowMove, Untouched, CancelledByUser, Claimed, Marked
  <2>8. QED
    BY <1>1, <1>5, <2>7 DEF VerdictSound
<1>6. QED
  BY <1>2, <1>3, <1>4, <1>5

(* A committed run's job can only end as succeeded.                         *)
LEMMA CommittedStep == IInv /\ [Next]_vars => CommittedWins'
<1> SUFFICES ASSUME IInv, [Next]_vars, NEW j \in Jobs,
                    run'[j] = "committed", state'[j] \in Terminal
             PROVE  state'[j] = "succeeded"
  BY DEF CommittedWins
<1>1. TypeOK /\ LocksHeld /\ RunsFollowJobs /\ VerdictSound /\ CommittedWins
  BY DEF IInv
<1>2. RowMove(j)
  BY <1>1, RowMoves
<1>3. CASE Untouched(j)
  BY <1>1, <1>3 DEF Untouched, CommittedWins
<1>4. CASE Inserted(j) \/ CancelledByUser(j) \/ Claimed(j)
  BY <1>1, <1>4 DEF Inserted, CancelledByUser, Claimed, RunsFollowJobs, Terminal
<1>5. CASE WorkedOn(j)
  BY <1>5, WorkedRowActive DEF WorkedOn, Active, Terminal
<1>6. CASE Marked(j)
  <2>1. PICK w \in Workers : /\ job[w] = j /\ pc[w] = "decided"
                             /\ state'[j] = MarkTarget(w)
    BY <1>6 DEF Marked
  <2>2. verdict[w] = "commit"
    BY <1>1, <1>6, <2>1 DEF Marked, VerdictSound
  <2>3. QED
    BY <2>1, <2>2 DEF MarkTarget
<1>7. CASE Recovered(j)
  <2>1. run[j] = "committed" /\ Kind[j] = "file"
    BY <1>1, <1>7 DEF Recovered, RunsFollowJobs
  <2>2. QED
    BY <1>7, <2>1 DEF Recovered, RecoverTarget, FileRecovery
<1>8. QED
  BY <1>2, <1>3, <1>4, <1>5, <1>6, <1>7 DEF RowMove

(* Whoever finishes a job settles its TaskAttempt.                          *)
LEMMA SettledStep == IInv /\ [Next]_vars => TasksSettled'
<1> SUFFICES ASSUME IInv, [Next]_vars, NEW j \in Jobs, state'[j] \in Terminal
             PROVE  task'[j] # "active"
  BY DEF TasksSettled
<1>1. TypeOK /\ LocksHeld /\ RunsFollowJobs /\ TasksSettled
  BY DEF IInv
<1>2. RowMove(j)
  BY <1>1, RowMoves
<1>3. WorkedOn(j) => state[j] \in Active
  BY WorkedRowActive
<1>4. QED
  BY <1>1, <1>2, <1>3 DEF RowMove, Untouched, Inserted, CancelledByUser, Claimed, WorkedOn,
     Marked, Recovered, Active, Terminal, TasksSettled

(* Init establishes the invariant and every step keeps it.                  *)
LEMMA IInvInit == Init => IInv
<1> SUFFICES ASSUME Init PROVE IInv
  OBVIOUS
<1>1. TypeOK
  BY TypeInit
<1>2. LocksHeld /\ ExecutionOwnsRow /\ VerdictSound
  BY DEF Init, LocksHeld, ExecutionOwnsRow, VerdictSound, HoldsLock, Executing, RecHolds
<1>3. RunsFollowJobs /\ CommittedWins /\ TasksSettled
  BY DEF Init, RunsFollowJobs, CommittedWins, TasksSettled, Terminal
<1>4. QED
  BY <1>1, <1>2, <1>3 DEF IInv

(* The invariant is inductive.                                              *)
LEMMA IInvStep == IInv /\ [Next]_vars => IInv'
<1> SUFFICES ASSUME IInv, [Next]_vars PROVE IInv'
  OBVIOUS
<1>1. TypeOK' /\ LocksHeld'
  BY TypeStep, LocksStep DEF IInv
<1>2. ExecutionOwnsRow' /\ RunsFollowJobs' /\ VerdictSound' /\ CommittedWins' /\ TasksSettled'
  BY OwnStep, RunsStep, VerdictStep, CommittedStep, SettledStep
<1>3. QED
  BY <1>1, <1>2 DEF IInv

(* The locks, the leases and the run rows agree in every reachable state of *)
(* any number of processes, workers and jobs (run_one, recover_stuck_jobs). *)
THEOREM Invariance == Spec => []IInv
<1>1. QED
  BY IInvInit, IInvStep, PTL DEF Spec

(* Every variable keeps its type.                                           *)
THEOREM TypeCorrect == Spec => []TypeOK
<1>1. IInv => TypeOK
  BY DEF IInv
<1>2. QED
  BY <1>1, Invariance, PTL

(* Two workers never execute one job: the per-job flock of run_one outlives *)
(* the lease.                                                               *)
THEOREM MutualExclusion == Spec => []OneExecution
<1>1. IInv => OneExecution
  BY Exclusive DEF IInv, OneExecution, HoldsLock
<1>2. QED
  BY <1>1, Invariance, PTL

(* Recovery, cancellation and other workers never take the row away from a  *)
(* live execution, whatever leases expire (queue._owner_filter).            *)
THEOREM OwnershipKept == Spec => []ExecutionOwnsRow
<1>1. IInv => ExecutionOwnsRow
  BY DEF IInv
<1>2. QED
  BY <1>1, Invariance, PTL

(* A committed Apply or Undo is reported as succeeded, by its worker or by  *)
(* recovery after a crash (_durable_review_result, _file_job_recovery).     *)
THEOREM CommittedReported == Spec => []CommittedWins
<1>1. IInv => CommittedWins
  BY DEF IInv
<1>2. QED
  BY <1>1, Invariance, PTL

(* No finished job leaves a TaskAttempt behind (_finish_transition,         *)
(* request_cancel, recover_stuck_jobs).                                     *)
THEOREM NoTaskLeftBehind == Spec => []TasksSettled
<1>1. IInv => TasksSettled
  BY DEF IInv
<1>2. QED
  BY <1>1, Invariance, PTL

(* A job with an accepted cancellation succeeds only when its files were    *)
(* already committed (mark_succeeded, recover_stuck_jobs).                  *)
LEMMA CancelStep ==
    ASSUME IInv, [Next]_vars, NEW j \in Jobs, cancelReq[j],
           state[j] # "succeeded", state'[j] = "succeeded"
    PROVE  run[j] = "committed"
<1>1. TypeOK /\ LocksHeld /\ RunsFollowJobs /\ VerdictSound
  BY DEF IInv
<1>2. Marked(j) \/ Recovered(j)
  BY <1>1, RowMoves DEF RowMove, Untouched, Inserted, CancelledByUser, Claimed, WorkedOn
<1>3. CASE Marked(j)
  <2>1. PICK w \in Workers : job[w] = j /\ pc[w] = "decided" /\ MarkTarget(w) = "succeeded"
    BY <1>3 DEF Marked
  <2>2. verdict[w] = "commit"
    BY <2>1 DEF MarkTarget
  <2>3. QED
    BY <1>1, <2>1, <2>2 DEF VerdictSound
<1>4. CASE Recovered(j)
  <2>1. PICK p \in Procs : rjob[p] = j /\ RecoverTarget(p) = "succeeded"
    BY <1>4 DEF Recovered
  <2>2. QED
    BY <2>1 DEF RecoverTarget, FileRecovery
<1>5. QED
  BY <1>2, <1>3, <1>4

(* An accepted cancellation is never forgotten: a job whose                 *)
(* cancel_requested is set ends in success only if its files were           *)
(* already committed (mark_succeeded, recover_stuck_jobs).                  *)
THEOREM CancelKept == Spec => CancelNotLost
<1>1. IInv /\ [Next]_vars
        => [\A j \in Jobs :
              cancelReq[j] /\ state[j] # "succeeded" /\ state'[j] = "succeeded"
                  => run[j] = "committed"]_vars
  BY CancelStep
<1>2. QED
  BY <1>1, Invariance, PTL DEF Spec, CancelNotLost

-----------------------------------------------------------------------------
(* JobQueue implements JobPromise.                                          *)

(* A step moves at most one job's state and run.                            *)
StillBut(k) == \A j \in Jobs \ {k} : state'[j] = state[j] /\ run'[j] = run[j]

(* A step moves the row and the run of one job at most.                     *)
LEMMA OneRowMoves == TypeOK /\ LocksHeld /\ [Next]_vars
    => UNCHANGED <<state, run>> \/ \E k \in Jobs : StillBut(k)
<1> SUFFICES ASSUME TypeOK, LocksHeld, [Next]_vars
             PROVE  UNCHANGED <<state, run>> \/ \E k \in Jobs : StillBut(k)
  OBVIOUS
<1>1. ASSUME NEW k \in Jobs, Client(k) \/ LeaseExpires(k)
      PROVE  UNCHANGED <<state, run>> \/ StillBut(k)
  BY <1>1 DEF Client, EnqueueCheck, EnqueueInsert, RequestCancel, CancelRow, LeaseExpires,
              dbVars, StillBut, TypeOK
<1>2. ASSUME NEW w \in Workers, LeaseClaim(w) \/ Interrupt(w) \/ Mark(w)
      PROVE  job[w] \in Jobs /\ (UNCHANGED <<state, run>> \/ StillBut(job[w]))
  <2>1. job[w] \in Jobs /\ UNCHANGED run
    BY <1>2 DEF LeaseClaim, Interrupt, Mark, LocksHeld
  <2>2. UNCHANGED state \/ \E s : state' = [state EXCEPT ![job[w]] = s]
    <3>1. CASE LeaseClaim(w)
      BY <3>1 DEF LeaseClaim
    <3>2. CASE Interrupt(w)
      BY <3>2 DEF Interrupt, CancelRow
    <3>3. CASE Mark(w)
      BY <3>3 DEF Mark, Finish, Release
    <3>4. QED
      BY <1>2, <3>1, <3>2, <3>3
  <2>3. QED
    BY <2>1, <2>2 DEF StillBut, TypeOK
<1>3. ASSUME NEW w \in Workers, Handler(w)
      PROVE  UNCHANGED <<state, run>> \/ (job[w] \in Jobs /\ StillBut(job[w]))
  <2>1. job[w] \in Jobs /\ UNCHANGED state
    BY <1>3 DEF Handler, FileBegin, FileCommit, FileFail, FileCancel, FileStep, TaskReport,
                HandlerEnds, Handling, LocksHeld, dbVars
  <2>2. UNCHANGED run \/ \E r : run' = [run EXCEPT ![job[w]] = r]
    BY <1>3 DEF Handler, FileBegin, FileCommit, FileFail, FileCancel, FileStep, TaskReport,
                HandlerEnds, dbVars
  <2>3. QED
    BY <2>1, <2>2 DEF StillBut, TypeOK
<1>4. ASSUME NEW p \in Procs, RecoverCommit(p)
      PROVE  rjob[p] \in Jobs /\ (UNCHANGED <<state, run>> \/ StillBut(rjob[p]))
  <2>1. rjob[p] \in Jobs
    BY <1>4 DEF RecoverCommit, LocksHeld
  <2>2. \/ UNCHANGED <<state, run>>
        \/ /\ \E s : state' = [state EXCEPT ![rjob[p]] = s]
           /\ UNCHANGED run \/ \E r : run' = [run EXCEPT ![rjob[p]] = r]
    BY <1>4 DEF RecoverCommit, Release
  <2>3. QED
    BY <2>1, <2>2 DEF StillBut, TypeOK
<1>5. ASSUME \/ BeginMaintenance \/ EndMaintenance \/ UNCHANGED vars
             \/ \E w \in Workers : \/ Peek(w) \/ TryLock(w) \/ LeaseCheck(w) \/ CloseLock(w)
                                   \/ Heartbeat(w) \/ UnknownType(w) \/ WaitEnds(w)
                                   \/ Decide(w) \/ WorkerAborts(w)
             \/ \E p \in Procs : \/ RecoverScan(p) \/ RecoverLock(p) \/ RecoverRead(p)
                                 \/ RecoverUnlock(p) \/ Crash(p)
      PROVE  UNCHANGED <<state, run>>
  BY <1>5 DEF BeginMaintenance, EndMaintenance, vars, Peek, TryLock, LeaseCheck,
    CloseLock, Heartbeat, UnknownType, WaitEnds, Decide, WorkerAborts, RecoverScan,
    RecoverLock, RecoverRead, RecoverUnlock, Crash, dbVars
<1>6. QED
  BY <1>1, <1>2, <1>3, <1>4, <1>5 DEF Next, RunOne, Execute, Recover

(* The refinement mapping, by name.                                         *)
Phase(st) == CASE st = "pending" -> "waiting"
               [] st \in Active  -> "working"
               [] OTHER          -> st
phase  == [j \in Jobs |-> Phase(state[j])]
effect == [j \in Jobs |-> run[j] = "committed"]

(* A step that moves job k, seen through the mapping.                       *)
LEMMA PromiseMove ==
    ASSUME NEW k \in Jobs, StillBut(k), run'[k] = "committed" <=> run[k] = "committed"
    PROVE  /\ phase' = [phase EXCEPT ![k] = Phase(state'[k])]
           /\ effect' = effect
<1>1. phase' = [j \in Jobs |-> Phase(state'[j])] /\ effect' = [j \in Jobs |-> run'[j] = "committed"]
  BY DEF phase, effect, Phase
<1>2. phase' = [phase EXCEPT ![k] = Phase(state'[k])]
  BY <1>1 DEF phase, StillBut
<1>3. \A j \in Jobs : (run'[j] = "committed") <=> (run[j] = "committed")
  BY DEF StillBut
<1>4. effect' = effect
  BY <1>1, <1>3, Zenon DEF effect
<1>5. QED
  BY <1>2, <1>4

(* Every step is a step of JobPromise or leaves its variables alone.        *)
LEMMA PromiseStep == IInv /\ IInv' /\ [Next]_vars => [Promise!Next]_(Promise!vars)
<1> SUFFICES ASSUME IInv, IInv', [Next]_vars
             PROVE  Promise!Next \/ UNCHANGED <<phase, effect>>
  BY DEF Promise!vars, phase, effect, Phase
<1>1. /\ TypeOK /\ LocksHeld /\ ExecutionOwnsRow /\ RunsFollowJobs
      /\ TypeOK' /\ CommittedWins'
  BY DEF IInv
<1>2. CASE UNCHANGED <<state, run>>
  BY <1>2 DEF phase, effect, Phase
<1>3. ASSUME NEW k \in Jobs, StillBut(k)
      PROVE  Promise!Next \/ UNCHANGED <<phase, effect>>
  <2>1. RowMove(k)
    BY <1>1, RowMoves
  <2>2. phase[k] = Phase(state[k]) /\ phase \in [Jobs -> {Phase(state[j]) : j \in Jobs}]
    BY DEF phase
  <2>3. ASSUME NEW to, run'[k] = "committed" <=> run[k] = "committed", Phase(state'[k]) = to
        PROVE  /\ phase' = [phase EXCEPT ![k] = to]
               /\ effect' = effect
    BY <1>3, <2>3, PromiseMove
  <2>4. CASE Untouched(k) \/ (CancelledByUser(k) /\ state'[k] = "cancelling")
    <3>1. Phase(state'[k]) = phase[k]
      BY <2>2, <2>4 DEF Untouched, CancelledByUser, Phase, Active
    <3>2. run'[k] = run[k]
      BY <2>4 DEF Untouched, CancelledByUser
    <3>3. QED
      BY <2>2, <2>3, <3>1, <3>2
  <2>5. CASE Inserted(k)
    <3>1. phase[k] = "absent" /\ Phase(state'[k]) = "waiting"
      BY <2>2, <2>5 DEF Inserted, Phase, Active
    <3>2. run'[k] # "committed" /\ run[k] # "committed"
      BY <1>1, <2>5 DEF Inserted, RunsFollowJobs
    <3>3. Promise!Submit(k)
      BY <2>3, <3>1, <3>2 DEF Promise!Submit, Promise!Move, phase, effect, Phase
    <3>4. QED
      BY <3>3 DEF Promise!Next
  <2>6. CASE CancelledByUser(k) /\ state'[k] = "cancelled"
    <3>1. phase[k] = "waiting" /\ Phase(state'[k]) = "cancelled"
      BY <2>2, <2>6 DEF CancelledByUser, Phase, Active
    <3>2. run'[k] = run[k]
      BY <2>6 DEF CancelledByUser
    <3>3. Promise!Refuse(k)
      BY <2>3, <3>1, <3>2 DEF Promise!Refuse, Promise!Move, phase, effect, Phase
    <3>4. QED
      BY <3>3 DEF Promise!Next
  <2>7. CASE Claimed(k)
    <3>1. phase[k] = "waiting" /\ Phase(state'[k]) = "working" /\ run'[k] = run[k]
      BY <2>2, <2>7 DEF Claimed, Phase, Active
    <3>2. Promise!Begin(k)
      BY <2>3, <3>1 DEF Promise!Begin, Promise!Move, phase, effect, Phase
    <3>3. QED
      BY <3>2 DEF Promise!Next
  <2>8. CASE WorkedOn(k)
    <3>1. state[k] \in Active /\ state'[k] = state[k] /\ run[k] # "committed"
      BY <2>8, WorkedRowActive DEF WorkedOn
    <3>2. Kind[k] = "file"
      BY <2>8 DEF WorkedOn
    <3>3. phase' = phase /\ phase[k] = "working"
      BY <1>3, <3>1 DEF phase, StillBut, Phase
    <3>4. CASE run'[k] # "committed"
      <4>1. effect' = effect
        BY <2>3, <3>1, <3>4
      <4>2. QED
        BY <3>3, <4>1
    <3>5. CASE run'[k] = "committed"
      <4>1. effect' = [effect EXCEPT ![k] = TRUE]
        <5>1. effect' = [j \in Jobs |-> run'[j] = "committed"]
          BY DEF effect
        <5>2. \A j \in Jobs : (run'[j] = "committed") = [effect EXCEPT ![k] = TRUE][j]
          BY <1>3, <3>5 DEF effect, StillBut
        <5>3. QED
          BY <5>1, <5>2 DEF effect
      <4>2. Promise!CommitEffect(k)
        BY <3>2, <3>3, <4>1 DEF Promise!CommitEffect, phase, effect, Phase
      <4>3. QED
        BY <4>2 DEF Promise!Next
    <3>6. QED
      BY <3>4, <3>5
  <2>9. ASSUME state[k] \in Active, state'[k] \in Terminal,
               run'[k] = "committed" <=> run[k] = "committed"
        PROVE  Promise!Next
    <3>1. phase[k] = "working" /\ Phase(state'[k]) = state'[k]
      BY <2>2, <2>9 DEF Phase, Active, Terminal
    <3>2. effect[k] => state'[k] = "succeeded"
      BY <1>1, <2>9 DEF effect, CommittedWins
    <3>3. phase' = [phase EXCEPT ![k] = state'[k]] /\ effect' = effect
      BY <2>3, <2>9, <3>1
    <3>4. state'[k] \in Promise!Outcomes
      BY <2>9 DEF Promise!Outcomes, Terminal
    <3>5. Promise!End(k)
      BY <3>1, <3>2, <3>3, <3>4 DEF Promise!End, Promise!Move, phase, effect, Phase
    <3>6. QED
      BY <3>5 DEF Promise!Next
  <2>10. CASE Marked(k)
    <3>1. state[k] \in Active /\ state'[k] \in Terminal /\ run'[k] = run[k]
      BY <2>10, TargetsTerminal DEF Marked, Owned
    <3>2. QED
      BY <2>9, <3>1
  <2>11. CASE Recovered(k)
    <3>1. /\ state[k] \in Active
          /\ run'[k] = "committed" <=> run[k] = "committed"
          /\ state'[k] \in Terminal \cup {"pending"}
      BY <2>11, TargetsTerminal DEF Recovered
    <3>2. CASE state'[k] = "pending"
      <4>1. Kind[k] # "file"
        BY <2>11, <3>2 DEF Recovered, RecoverTarget, FileRecovery
      <4>2. phase[k] = "working" /\ Phase(state'[k]) = "waiting"
        BY <2>2, <3>1, <3>2 DEF Phase, Active
      <4>3. Promise!Restart(k)
        BY <2>3, <3>1, <4>1, <4>2 DEF Promise!Restart, Promise!Move, phase, effect, Phase
      <4>4. QED
        BY <4>3 DEF Promise!Next
    <3>3. QED
      BY <2>9, <3>1, <3>2
  <2>12. QED
    BY <2>1, <2>4, <2>5, <2>6, <2>7, <2>8, <2>10, <2>11 DEF RowMove, CancelledByUser
<1>4. QED
  BY <1>1, <1>2, <1>3, OneRowMoves

(* The queue keeps JobPromise: final outcomes are final, files are worked   *)
(* on at most once, and a committed effect is reported as a success, for    *)
(* any number of processes, workers, jobs, crashes and cancellations.       *)
THEOREM Implements == Spec => PromiseKept
<1>1. Init => Promise!Init
  <2> SUFFICES ASSUME Init PROVE Promise!Init
    OBVIOUS
  <2>1. phase = [j \in Jobs |-> "absent"]
    BY DEF Init, phase, Phase, Active
  <2>2. \A j \in Jobs : (run[j] = "committed") = FALSE
    BY DEF Init
  <2>3. effect = [j \in Jobs |-> FALSE]
    BY <2>2 DEF effect
  <2>4. QED
    BY <2>1, <2>3 DEF Promise!Init, phase, effect, Phase
<1>2. IInv /\ IInv' /\ [Next]_vars => [Promise!Next]_(Promise!vars)
  BY PromiseStep
<1>3. QED
  BY <1>1, <1>2, Invariance, PTL DEF Spec, PromiseKept, Promise!Spec

=============================================================================
