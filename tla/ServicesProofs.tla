--------------------------- MODULE ServicesProofs ---------------------------
(***************************************************************************)
(* Proofs about the services around the library, for every number of       *)
(* requests, jobs, holders and sets of clients.  Maintenance: who holds    *)
(* the lock, and why a cleaned database stays clean.  Credentials: no      *)
(* credential in use is lost, no client is closed under its holder, and no *)
(* late check speaks for a client that was replaced.  Imports and           *)
(* enrichment: what is matched stays visible, what is done stays done, and *)
(* no section waits in vain.  Retrieval and the cache: no failure is shown  *)
(* as an absence, and each provider is heard.                              *)
(***************************************************************************)
EXTENDS Services, FiniteSetTheorems, TLAPS

-----------------------------------------------------------------------------
(* The inductive invariant.                                                 *)

\* A request for a reset has closed the gate, and it is the only one.
GateIsHeld ==
    /\ \A r \in Resets : reset[r] # NoReset => resetting
    /\ \A r, s \in Resets : reset[r] # NoReset /\ reset[s] # NoReset => r = s

\* Whoever holds the gate has seen the last mutation leave.
HeldIsDrained == \A r \in Resets : reset[r].at = "held" => Inside = {}

\* A job is inserted by nobody who tested the lock before it was taken.
LockStopsInserts == lock # "free" => \A c \in Clients \ Outside : mutation[c] # "enqueuing"

\* The part of the invariant that holds whatever other processes do.
LInv == TypeOK /\ LockIsOwned

ResetInv == LInv /\ GateIsHeld /\ HeldIsDrained /\ LockStopsInserts /\ ResetIsClean

-----------------------------------------------------------------------------
(* Types.                                                                   *)

\* A request for a reset that is past asking has a key.
LEMMA ResetTyped ==
    ASSUME TypeOK, NEW r \in Resets
    PROVE  /\ reset[r] = NoReset \/ reset[r].key \in Keys
           /\ reset[r].at # "idle" => reset[r] # NoReset /\ reset[r].key \in Keys
BY DEF TypeOK, NoReset

\* Where a request is moves on, its key stays.
LEMMA GoesTyped ==
    ASSUME TypeOK, NEW r \in Resets, reset[r] # NoReset,
           NEW place \in {"held", "quiescing", "waiting", "executing"}, Goes(r, place)
    PROVE  /\ reset' \in [Resets -> {NoReset} \cup
                 [at : {"draining", "held", "quiescing", "waiting", "executing"}, key : Keys]]
           /\ reset'[r].at = place
           /\ \A s \in Resets : reset'[s] # NoReset => reset[s] # NoReset
           /\ \A s \in Resets : s # r => reset'[s] = reset[s]
<1>1. reset[r] \in [at : {"draining", "held", "quiescing", "waiting", "executing"}, key : Keys]
    BY DEF TypeOK
<1>2. [reset[r] EXCEPT !.at = place] \in
          [at : {"draining", "held", "quiescing", "waiting", "executing"}, key : Keys]
    BY <1>1
<1> QED BY <1>1, <1>2 DEF TypeOK, Goes

\* A request for a reset that ends opens the gate and leaves the others alone.
LEMMA EndsTyped ==
    ASSUME TypeOK, NEW r \in Resets, Ends(r)
    PROVE  /\ reset' \in [Resets -> {NoReset} \cup
                 [at : {"draining", "held", "quiescing", "waiting", "executing"}, key : Keys]]
           /\ reset'[r] = NoReset /\ resetting' = FALSE
           /\ \A s \in Resets : s # r => reset'[s] = reset[s]
BY DEF TypeOK, Ends

\* Jobs that a recovery cancels end; none appears.
LEMMA CancelledTyped ==
    ASSUME TypeOK
    PROVE  /\ Cancelled \in [Jobs -> Active \cup {"none", "ended"}]
           /\ \A j \in Jobs : Cancelled[j] = "none" <=> work[j] = "none"
<1>1. ASSUME NEW j \in Jobs
      PROVE  /\ Cancelled[j] \in Active \cup {"none", "ended"}
             /\ Cancelled[j] = "none" <=> work[j] = "none"
    <2>1. work[j] \in Active \cup {"none", "ended"}
        BY DEF TypeOK
    <2>2. CASE work[j] = "pending"
        BY <2>2 DEF Cancelled, Active
    <2>3. CASE work[j] = "running"
        BY <2>3 DEF Cancelled, Active
    <2>4. CASE work[j] \notin {"pending", "running"}
        BY <2>1, <2>4 DEF Cancelled
    <2> QED BY <2>2, <2>3, <2>4
<1> QED BY <1>1 DEF Cancelled

\* What every step of the requests that mutate, of the workers and of the
\* retention loop leaves alone.
Bystander == UNCHANGED <<up, lock, phase, resetting, reset>>

\* A client keeps the types, and touches neither lock nor phase.
LEMMA ClientTyped ==
    ASSUME TypeOK, NEW c \in Clients,
           Admit(c) \/ Enter(c) \/ Enqueue(c) \/ Insert(c) \/ Leave(c)
    PROVE  TypeOK' /\ Bystander
<1> USE DEF TypeOK, Bystander
<1>1. CASE Admit(c)
    BY <1>1 DEF Admit
<1>2. CASE Enter(c)
    BY <1>2 DEF Enter
<1>3. CASE Enqueue(c)
    BY <1>3 DEF Enqueue
<1>4. CASE Insert(c)
    BY <1>4 DEF Insert, Active
<1>5. CASE Leave(c)
    BY <1>5 DEF Leave
<1> QED BY <1>1, <1>2, <1>3, <1>4, <1>5

\* The workers keep the types, and touch neither lock, phase nor gate.
LEMMA WorkerTyped ==
    ASSUME TypeOK,
           LeaseReads \/ LeaseClaims \/ RetentionEnqueues \/ PoolStops
           \/ \E j \in Jobs : WorkEnds(j)
    PROVE  TypeOK' /\ Bystander /\ mutation' = mutation
<1> USE DEF TypeOK, Bystander
<1>1. CASE LeaseReads
    BY <1>1 DEF LeaseReads
<1>2. CASE LeaseClaims
    BY <1>2 DEF LeaseClaims, Active
<1>3. CASE RetentionEnqueues
    BY <1>3 DEF RetentionEnqueues, Active
<1>4. CASE PoolStops
    BY <1>4 DEF PoolStops
<1>5. CASE \E j \in Jobs : WorkEnds(j)
    BY <1>5 DEF WorkEnds
<1> QED BY <1>1, <1>2, <1>3, <1>4, <1>5


\* The steps of a reset and of the process keep the types as well.
LEMMA ResetStepTyped ==
    ASSUME TypeOK, NEW r \in Resets,
           \/ Ask(r) \/ Drained(r) \/ Prepare(r) \/ Replay(r) \/ Quiesce(r) \/ Quiesced(r)
           \/ Rejected(r) \/ Unsafe(r) \/ CleanDatabase(r) \/ CleanStorage(r)
           \/ Complete(r) \/ Incomplete(r)
    PROVE  TypeOK'
<1> DEFINE k == reset[r].key
<1>1. CASE Ask(r)
    <2>1. PICK q \in Keys : reset' = [reset EXCEPT ![r] = [at |-> "draining", key |-> q]]
        BY <1>1 DEF Ask
    <2>2. reset' \in [Resets -> {NoReset} \cup
              [at : {"draining", "held", "quiescing", "waiting", "executing"}, key : Keys]]
        BY <2>1 DEF TypeOK
    <2> QED BY <2>2, <1>1 DEF Ask, TypeOK
<1>2. CASE Drained(r)
    <2>1. reset[r] # NoReset
        BY <1>2, ResetTyped DEF Drained
    <2> QED BY <2>1, <1>2, GoesTyped DEF Drained, TypeOK
<1>3. CASE Prepare(r)
    <2>1. reset[r] # NoReset /\ k \in Keys
        BY <1>3, ResetTyped DEF Prepare
    <2>2. CASE lock # "free"
        BY <2>2, <1>3, EndsTyped DEF Prepare, TypeOK
    <2>3. CASE lock = "free"
        <3>1. Goes(r, "quiescing") /\ resetting' = resetting
            BY <2>3, <1>3 DEF Prepare
        <3>2. lock' = k /\ phase' = [phase EXCEPT ![k] = "prepared"] /\ work' = Cancelled
            BY <2>3, <1>3 DEF Prepare
        <3>3. phase' \in [Keys -> Running \cup {"absent", "completed", "refused"}]
            BY <3>2 DEF TypeOK, Running
        <3>4. UNCHANGED <<up, mutation, pool, leasing>>
            BY <1>3 DEF Prepare
        <3> QED BY <2>1, <3>1, <3>2, <3>3, <3>4, GoesTyped, CancelledTyped DEF TypeOK
    <2> QED BY <2>2, <2>3
<1>4. CASE Replay(r)
    <2>1. reset[r] # NoReset
        BY <1>4, ResetTyped DEF Replay
    <2>2. CASE phase[k] = "completed"
        BY <2>2, <1>4, EndsTyped DEF Replay, TypeOK
    <2>3. CASE phase[k] # "completed"
        BY <2>1, <2>3, <1>4, GoesTyped, CancelledTyped DEF Replay, TypeOK
    <2> QED BY <2>2, <2>3
<1>5. CASE Quiesce(r)
    <2>1. reset[r] # NoReset
        BY <1>5, ResetTyped DEF Quiesce
    <2>2. pool' \in {"running", "stopping", "stopped"}
        BY <1>5 DEF Quiesce, TypeOK
    <2> QED BY <2>1, <2>2, <1>5, GoesTyped DEF Quiesce, TypeOK
<1>6. CASE Quiesced(r)
    <2>1. reset[r] # NoReset
        BY <1>6, ResetTyped DEF Quiesced
    <2> QED BY <2>1, <1>6, GoesTyped DEF Quiesced, TypeOK
<1>7. CASE Rejected(r)
    BY <1>7, EndsTyped DEF Rejected, TypeOK
<1>8. CASE Unsafe(r)
    <2>1. k \in Keys
        BY <1>8, ResetTyped DEF Unsafe, Owns
    <2>2. /\ phase' \in [Keys -> Running \cup {"absent", "completed", "refused"}]
          /\ lock' \in Keys \cup {"free"}
        BY <1>8 DEF Unsafe, FailBeforeDelete, TypeOK
    <2> QED BY <2>2, <1>8, EndsTyped DEF Unsafe, PoolStarts, TypeOK
<1>9. CASE CleanDatabase(r)
    <2>1. phase' \in [Keys -> Running \cup {"absent", "completed", "refused"}]
        BY <1>9 DEF CleanDatabase, TypeOK, Running
    <2>2. work' \in [Jobs -> Active \cup {"none", "ended"}]
        BY <1>9 DEF CleanDatabase
    <2> QED BY <2>1, <2>2, <1>9 DEF CleanDatabase, TypeOK
<1>10. CASE CleanStorage(r)
    <2>1. phase' \in [Keys -> Running \cup {"absent", "completed", "refused"}]
        BY <1>10 DEF CleanStorage, TypeOK, Running
    <2> QED BY <2>1, <1>10 DEF CleanStorage, TypeOK
<1>11. CASE Complete(r)
    <2>1. phase' \in [Keys -> Running \cup {"absent", "completed", "refused"}]
        BY <1>11 DEF Complete, TypeOK
    <2> QED BY <2>1, <1>11, EndsTyped DEF Complete, PoolStarts, TypeOK
<1>12. CASE Incomplete(r)
    BY <1>12, EndsTyped DEF Incomplete, TypeOK
<1> QED BY <1>1, <1>2, <1>3, <1>4, <1>5, <1>6, <1>7, <1>8, <1>9, <1>10, <1>11, <1>12

\* A crash and a startup keep the types.
LEMMA ProcessTyped ==
    ASSUME TypeOK, Crash \/ RecoveryCancels \/ Startup
    PROVE  TypeOK'
<1>1. CASE Crash
    BY <1>1 DEF Crash, TypeOK
<1>2. CASE RecoveryCancels
    BY <1>2, CancelledTyped DEF RecoveryCancels, TypeOK
<1>3. CASE Startup
    <2>1. /\ phase' \in [Keys -> Running \cup {"absent", "completed", "refused"}]
          /\ work' \in [Jobs -> Active \cup {"none", "ended"}]
        BY <1>3 DEF Startup, Recovers, TypeOK
    <2> QED BY <2>1, <1>3 DEF Startup, PoolStarts, TypeOK
<1> QED BY <1>1, <1>2, <1>3

-----------------------------------------------------------------------------
(* The lock.                                                                *)

\* Only one operation is under way.
LEMMA OneUnderWay ==
    ASSUME LockIsOwned
    PROVE  /\ \A k, q \in Keys : phase[k] \in Running /\ phase[q] \in Running => k = q
           /\ lock = "free" => \A k \in Keys : phase[k] \notin Running
BY KeysAreNames DEF LockIsOwned

\* The operation that holds the lock goes on, or gives it back with its end.
LEMMA LockStep ==
    ASSUME LInv, NEW k \in Keys, NEW p \in Running \cup {"absent", "completed", "refused"},
           phase' = [phase EXCEPT ![k] = p],
           \/ lock = k /\ lock' = k /\ p \in Running
           \/ lock = k /\ lock' = "free" /\ p \notin Running
           \/ lock = "free" /\ lock' = k /\ p \in Running
    PROVE  LockIsOwned'
<1>1. phase'[k] = p /\ \A q \in Keys : q # k => phase'[q] = phase[q]
    BY DEF LInv, TypeOK
<1>2. \A q \in Keys : q # k => phase[q] \notin Running
    BY OneUnderWay DEF LInv, LockIsOwned
<1> QED BY <1>1, <1>2, KeysAreNames DEF LockIsOwned

\* A step of a reset takes and gives back the lock together with its phase.
LEMMA ResetStepOwned ==
    ASSUME LInv, NEW r \in Resets,
           \/ Ask(r) \/ Drained(r) \/ Prepare(r) \/ Replay(r) \/ Quiesce(r) \/ Quiesced(r)
           \/ Rejected(r) \/ Unsafe(r) \/ CleanDatabase(r) \/ CleanStorage(r)
           \/ Complete(r) \/ Incomplete(r)
    PROVE  LockIsOwned'
<1> DEFINE k == reset[r].key
<1> USE DEF Running
<1>1. CASE Prepare(r)
    <2>1. k \in Keys
        BY <1>1, ResetTyped DEF Prepare, LInv
    <2>2. CASE lock # "free"
        BY <2>2, <1>1 DEF Prepare, LInv, LockIsOwned
    <2>3. CASE lock = "free"
        <3>1. lock' = k /\ phase' = [phase EXCEPT ![k] = "prepared"]
            BY <2>3, <1>1 DEF Prepare
        <3> QED BY <2>1, <2>3, <3>1, LockStep
    <2> QED BY <2>2, <2>3
<1>2. CASE Unsafe(r)
    <2>1. k \in Keys /\ lock = k
        BY <1>2, ResetTyped DEF Unsafe, Owns, LInv
    <2>2. CASE phase[k] = "prepared"
        <3>1. lock' = "free" /\ phase' = [phase EXCEPT ![k] = "refused"]
            BY <2>2, <1>2 DEF Unsafe, FailBeforeDelete
        <3> QED BY <2>1, <3>1, LockStep
    <2>3. CASE phase[k] # "prepared"
        BY <2>3, <1>2 DEF Unsafe, LInv, LockIsOwned
    <2> QED BY <2>2, <2>3
<1>3. CASE CleanDatabase(r)
    <2>1. k \in Keys /\ lock = k /\ lock' = k /\ phase' = [phase EXCEPT ![k] = "database_cleaned"]
        BY <1>3, ResetTyped DEF CleanDatabase, Owns, LInv
    <2> QED BY <2>1, LockStep
<1>4. CASE CleanStorage(r)
    <2>1. k \in Keys /\ lock = k /\ lock' = k /\ phase' = [phase EXCEPT ![k] = "storage_cleaned"]
        BY <1>4, ResetTyped DEF CleanStorage, Owns, LInv
    <2> QED BY <2>1, LockStep
<1>5. CASE Complete(r)
    <2>1. k \in Keys /\ lock = k /\ lock' = "free" /\ phase' = [phase EXCEPT ![k] = "completed"]
        BY <1>5, ResetTyped DEF Complete, Owns, LInv
    <2> QED BY <2>1, LockStep
<1>6. CASE \/ Ask(r) \/ Drained(r) \/ Replay(r) \/ Quiesce(r) \/ Quiesced(r) \/ Rejected(r)
           \/ Incomplete(r)
    <2>1. lock' = lock /\ phase' = phase
        BY <1>6 DEF Ask, Drained, Replay, Quiesce, Quiesced, Rejected, Incomplete
    <2> QED BY <2>1 DEF LInv, LockIsOwned
<1> QED BY <1>1, <1>2, <1>3, <1>4, <1>5, <1>6

\* A crash leaves the lock with its owner, and a startup resumes that owner.
LEMMA ProcessOwned ==
    ASSUME LInv, Crash \/ RecoveryCancels \/ Startup
    PROVE  LockIsOwned'
<1>1. CASE Crash \/ RecoveryCancels
    <2>1. lock' = lock /\ phase' = phase
        BY <1>1 DEF Crash, RecoveryCancels
    <2> QED BY <2>1 DEF LInv, LockIsOwned
<1>2. CASE Startup /\ lock = "free"
    <2>1. lock' = lock /\ phase' = phase
        BY <1>2 DEF Startup
    <2> QED BY <2>1 DEF LInv, LockIsOwned
<1>3. CASE Startup /\ lock # "free"
    <2>1. lock \in Keys /\ phase' = [phase EXCEPT ![lock] = "completed"] /\ lock' = "free"
        BY <1>3 DEF Startup, Recovers, LInv, TypeOK
    <2> QED BY <2>1, LockStep DEF Running
<1> QED BY <1>1, <1>2, <1>3

\* The part of the invariant that needs no gate is inductive.
LEMMA LockKept == LInv /\ [Next]_vars => LInv'
<1> SUFFICES ASSUME LInv, [Next]_vars PROVE LInv'
    OBVIOUS
<1>1. ASSUME NEW c \in Clients, Admit(c) \/ Enter(c) \/ Enqueue(c) \/ Insert(c) \/ Leave(c)
      PROVE  LInv'
    BY <1>1, ClientTyped DEF LInv, LockIsOwned, Bystander
<1>2. CASE LeaseReads \/ LeaseClaims \/ RetentionEnqueues \/ PoolStops
           \/ \E j \in Jobs : WorkEnds(j)
    BY <1>2, WorkerTyped DEF LInv, LockIsOwned, Bystander
<1>3. ASSUME NEW r \in Resets,
             \/ Ask(r) \/ Drained(r) \/ Prepare(r) \/ Replay(r) \/ Quiesce(r) \/ Quiesced(r)
             \/ Rejected(r) \/ Unsafe(r) \/ CleanDatabase(r) \/ CleanStorage(r)
             \/ Complete(r) \/ Incomplete(r)
      PROVE  LInv'
    BY <1>3, ResetStepTyped, ResetStepOwned DEF LInv
<1>4. CASE Crash \/ RecoveryCancels \/ Startup
    BY <1>4, ProcessTyped, ProcessOwned DEF LInv
<1>5. CASE UNCHANGED vars
    BY <1>5 DEF LInv, TypeOK, LockIsOwned, vars
<1> QED BY <1>1, <1>2, <1>3, <1>4, <1>5 DEF Next


-----------------------------------------------------------------------------
(* A cleaned database stays clean.                                          *)

\* The part of the invariant that assumes that every mutation passes the gate.
Gated == GateIsHeld /\ HeldIsDrained /\ LockStopsInserts /\ ResetIsClean

\* While a database is cleaned somebody owns the lock.
LEMMA CleanedIsLocked ==
    ASSUME LockIsOwned, NEW k \in Keys, phase[k] \in Cleaned
    PROVE  lock # "free"
BY KeysAreNames DEF LockIsOwned, Cleaned, Running

\* A client that passes the gate inserts nothing into a cleaned database.
LEMMA ClientGated ==
    ASSUME Outside = {}, ResetInv, NEW c \in Clients,
           Admit(c) \/ Enter(c) \/ Enqueue(c) \/ Insert(c) \/ Leave(c)
    PROVE  Gated'
<1> USE DEF ResetInv, LInv
<1>1. Bystander /\ mutation \in [Clients -> {"idle", "admitted", "inside", "enqueuing"}]
    BY ClientTyped DEF TypeOK
<1>2. GateIsHeld'
    BY <1>1 DEF GateIsHeld, Bystander
<1>3. HeldIsDrained'
    <2>1. ASSUME NEW r \in Resets, reset'[r].at = "held"
          PROVE  Inside' = {}
        <3>1. reset[r] # NoReset /\ Inside = {}
            BY <2>1, <1>1 DEF Bystander, HeldIsDrained, NoReset
        <3>2. resetting
            BY <3>1 DEF GateIsHeld
        <3>3. \A d \in Clients : mutation[d] \notin {"inside", "enqueuing"}
            BY <3>1 DEF Inside
        <3>4. Admit(c) \/ Enter(c)
            BY <3>3 DEF Enqueue, Insert, Leave
        <3>5. \A d \in Clients : mutation'[d] \notin {"inside", "enqueuing"}
            BY <3>2, <3>3, <3>4, <1>1 DEF Admit, Enter
        <3> QED BY <3>5 DEF Inside
    <2> QED BY <2>1 DEF HeldIsDrained
<1>4. LockStopsInserts'
    <2>1. ASSUME lock # "free", NEW d \in Clients
          PROVE  mutation'[d] # "enqueuing"
        <3>1. mutation[d] # "enqueuing" /\ ~Enqueue(c)
            BY <2>1 DEF LockStopsInserts, Enqueue
        <3> QED BY <3>1, <1>1 DEF Admit, Enter, Insert, Leave
    <2> QED BY <2>1, <1>1 DEF LockStopsInserts, Bystander
<1>5. ResetIsClean'
    <2>1. ASSUME NEW k \in Keys, phase'[k] \in Cleaned
          PROVE  work' = work /\ phase[k] \in Cleaned
        <3>1. phase[k] \in Cleaned
            BY <2>1, <1>1 DEF Bystander
        <3>2. lock # "free"
            BY <3>1, CleanedIsLocked
        <3>3. ~Insert(c)
            BY <3>2 DEF LockStopsInserts, Insert
        <3> QED BY <3>1, <3>3 DEF Admit, Enter, Enqueue, Leave
    <2> QED BY <2>1 DEF ResetIsClean
<1> QED BY <1>2, <1>3, <1>4, <1>5 DEF Gated

\* Neither do the workers: they end jobs, or test the lock themselves.
LEMMA WorkerGated ==
    ASSUME ResetInv,
           LeaseReads \/ LeaseClaims \/ RetentionEnqueues \/ PoolStops
           \/ \E j \in Jobs : WorkEnds(j)
    PROVE  Gated'
<1> USE DEF ResetInv, LInv
<1>1. Bystander /\ mutation' = mutation
    BY WorkerTyped
<1>2. GateIsHeld' /\ HeldIsDrained' /\ LockStopsInserts'
    BY <1>1 DEF GateIsHeld, HeldIsDrained, LockStopsInserts, Inside, Bystander
<1>3. ResetIsClean'
    <2>1. ASSUME NEW k \in Keys, phase'[k] \in Cleaned, NEW j \in Jobs
          PROVE  work'[j] = "none"
        <3>1. phase[k] \in Cleaned
            BY <2>1, <1>1 DEF Bystander
        <3>2. lock # "free" /\ \A i \in Jobs : work[i] = "none"
            BY <3>1, CleanedIsLocked DEF ResetIsClean
        <3>3. ~RetentionEnqueues
            BY <3>2 DEF RetentionEnqueues
        <3>4. work' = work
            BY <3>2, <3>3 DEF LeaseReads, LeaseClaims, PoolStops, WorkEnds
        <3> QED BY <3>2, <3>4
    <2> QED BY <2>1 DEF ResetIsClean
<1> QED BY <1>2, <1>3 DEF Gated

\* A request for a reset that goes on keeps the gate, and one that ends is the
\* only one there was.
LEMMA GateGoes ==
    ASSUME ResetInv, NEW r \in Resets, reset[r] # NoReset,
           NEW place \in {"held", "quiescing", "waiting", "executing"}, Goes(r, place),
           resetting' = resetting
    PROVE  GateIsHeld'
<1>1. \A s \in Resets : reset'[s] # NoReset => reset[s] # NoReset
    BY GoesTyped DEF ResetInv, LInv
<1> QED BY <1>1 DEF ResetInv, GateIsHeld

\* When a request for a reset ends, none is left.
LEMMA GateEnds ==
    ASSUME ResetInv, NEW r \in Resets, reset[r] # NoReset, Ends(r)
    PROVE  \A s \in Resets : reset'[s] = NoReset
<1>1. reset'[r] = NoReset /\ \A s \in Resets : s # r => reset'[s] = reset[s]
    BY EndsTyped DEF ResetInv, LInv
<1>2. \A s \in Resets : s # r => reset[s] = NoReset
    BY DEF ResetInv, GateIsHeld
<1> QED BY <1>1, <1>2

\* Without a request for a reset the gate is whatever it is.
LEMMA NobodyHolds ==
    ASSUME \A s \in Resets : reset'[s] = NoReset
    PROVE  GateIsHeld' /\ HeldIsDrained'
BY DEF GateIsHeld, HeldIsDrained, NoReset

\* The steps of a reset keep the gate: one request at a time, and drained.
LEMMA ResetStepGate ==
    ASSUME ResetInv, NEW r \in Resets,
           \/ Ask(r) \/ Drained(r) \/ Prepare(r) \/ Replay(r) \/ Quiesce(r) \/ Quiesced(r)
           \/ Rejected(r) \/ Unsafe(r) \/ CleanDatabase(r) \/ CleanStorage(r)
           \/ Complete(r) \/ Incomplete(r)
    PROVE  GateIsHeld' /\ HeldIsDrained' /\ mutation' = mutation
<1> USE DEF ResetInv, LInv
<1>1. mutation' = mutation /\ Inside' = Inside
    BY DEF Ask, Drained, Prepare, Replay, Quiesce, Quiesced, Rejected, Unsafe, CleanDatabase,
           CleanStorage, Complete, Incomplete, Inside
<1>2. CASE Ask(r)
    <2>1. \A s \in Resets : reset[s] = NoReset
        BY <1>2 DEF Ask, GateIsHeld
    <2>2. PICK q \in Keys : reset' = [reset EXCEPT ![r] = [at |-> "draining", key |-> q]]
        BY <1>2 DEF Ask
    <2>3. /\ reset'[r].at = "draining"
          /\ \A s \in Resets : s # r => reset'[s] = NoReset
        BY <2>1, <2>2 DEF TypeOK
    <2>4. GateIsHeld'
        BY <2>3, <1>2 DEF Ask, GateIsHeld
    <2>5. HeldIsDrained'
        BY <2>3 DEF HeldIsDrained, NoReset
    <2> QED BY <2>4, <2>5, <1>1
<1>3. CASE \/ Drained(r)
           \/ Prepare(r) /\ lock = "free"
           \/ Replay(r) /\ phase[reset[r].key] # "completed"
           \/ Quiesce(r) \/ Quiesced(r)
    <2>1. reset[r] # NoReset
        BY <1>3 DEF Drained, Prepare, Replay, Quiesce, Quiesced, NoReset
    <2>2. resetting' = resetting
        BY <1>3 DEF Drained, Prepare, Replay, Quiesce, Quiesced
    <2>3. PICK place \in {"held", "quiescing", "waiting", "executing"} :
              Goes(r, place) /\ (place = "held" => Drained(r))
        BY <1>3 DEF Drained, Prepare, Replay, Quiesce, Quiesced
    <2>4. GateIsHeld'
        BY <2>1, <2>2, <2>3, GateGoes
    <2>5. reset'[r].at = place /\ \A s \in Resets : s # r => reset'[s] = reset[s]
        BY <2>1, <2>3, GoesTyped
    <2>6. ASSUME NEW s \in Resets, reset'[s].at = "held"
          PROVE  Inside = {}
        <3>1. CASE s = r
            BY <3>1, <2>3, <2>5, <2>6 DEF Drained
        <3>2. CASE s # r
            BY <3>2, <2>5, <2>6 DEF HeldIsDrained
        <3> QED BY <3>1, <3>2
    <2> QED BY <2>4, <2>6, <1>1 DEF HeldIsDrained
<1>4. CASE \/ Prepare(r) /\ lock # "free"
           \/ Replay(r) /\ phase[reset[r].key] = "completed"
           \/ Rejected(r) \/ Unsafe(r) \/ Complete(r) \/ Incomplete(r)
    <2>1. reset[r] # NoReset
        BY <1>4 DEF Prepare, Replay, Rejected, Unsafe, Complete, Incomplete, Owns, NoReset
    <2>2. Ends(r)
        BY <1>4 DEF Prepare, Replay, Rejected, Unsafe, Complete, Incomplete
    <2> QED BY <2>1, <2>2, <1>1, GateEnds, NobodyHolds
<1>5. CASE CleanDatabase(r) \/ CleanStorage(r)
    <2>1. reset' = reset /\ resetting' = resetting
        BY <1>5 DEF CleanDatabase, CleanStorage
    <2> QED BY <2>1, <1>1 DEF GateIsHeld, HeldIsDrained
<1> QED BY <1>2, <1>3, <1>4, <1>5

\* The steps of a reset keep what the gate is for.
LEMMA ResetStepGated ==
    ASSUME ResetInv, NEW r \in Resets,
           \/ Ask(r) \/ Drained(r) \/ Prepare(r) \/ Replay(r) \/ Quiesce(r) \/ Quiesced(r)
           \/ Rejected(r) \/ Unsafe(r) \/ CleanDatabase(r) \/ CleanStorage(r)
           \/ Complete(r) \/ Incomplete(r)
    PROVE  Gated'
<1> DEFINE k == reset[r].key
<1> USE DEF ResetInv, LInv
<1>1. GateIsHeld' /\ HeldIsDrained' /\ mutation' = mutation
    BY ResetStepGate
<1>2. LockStopsInserts'
    <2>1. CASE Prepare(r)
        <3>1. \A c \in Clients \ Outside : mutation[c] # "enqueuing"
            BY <2>1 DEF Prepare, HeldIsDrained, Inside
        <3> QED BY <3>1, <1>1 DEF LockStopsInserts
    <2>2. CASE ~Prepare(r)
        <3>1. lock' \in {lock, "free"}
            BY <2>2 DEF Ask, Drained, Replay, Quiesce, Quiesced, Rejected, Unsafe,
               FailBeforeDelete, CleanDatabase, CleanStorage, Complete, Incomplete
        <3> QED BY <3>1, <1>1 DEF LockStopsInserts
    <2> QED BY <2>1, <2>2
<1>3. ResetIsClean'
    <2>1. CASE Prepare(r) \/ Replay(r)
        <3>1. \A q \in Keys : phase'[q] \in Cleaned => phase[q] \in Cleaned
            BY <2>1 DEF Prepare, Replay, TypeOK, Cleaned
        <3>2. work' = work \/ work' = Cancelled
            BY <2>1 DEF Prepare, Replay
        <3> QED BY <3>1, <3>2, CancelledTyped DEF ResetIsClean
    <2>2. CASE CleanDatabase(r)
        BY <2>2 DEF CleanDatabase, ResetIsClean
    <2>3. CASE CleanStorage(r)
        <3>1. k \in Keys /\ phase[k] \in Cleaned /\ work' = work
            BY <2>3, ResetTyped DEF CleanStorage, Owns, Cleaned
        <3> QED BY <3>1 DEF ResetIsClean
    <2>4. CASE \/ Ask(r) \/ Drained(r) \/ Quiesce(r) \/ Quiesced(r) \/ Rejected(r)
               \/ Unsafe(r) \/ Complete(r) \/ Incomplete(r)
        <3>1. work' = work
            BY <2>4 DEF Ask, Drained, Quiesce, Quiesced, Rejected, Unsafe, Complete, Incomplete
        <3>2. \A q \in Keys : phase'[q] \in Cleaned => phase[q] \in Cleaned
            BY <2>4 DEF Ask, Drained, Quiesce, Quiesced, Rejected, Unsafe, FailBeforeDelete,
               Complete, Incomplete, TypeOK, Cleaned
        <3> QED BY <3>1, <3>2 DEF ResetIsClean
    <2> QED BY <2>1, <2>2, <2>3, <2>4
<1> QED BY <1>1, <1>2, <1>3 DEF Gated

\* A crash and a startup keep it: the memory of the gate is gone, and the
\* clients with it.
LEMMA ProcessGated ==
    ASSUME Outside = {}, ResetInv, Crash \/ RecoveryCancels \/ Startup
    PROVE  Gated'
<1> USE DEF ResetInv, LInv
<1>1. CASE Crash
    <2>1. \A s \in Resets : reset'[s] = NoReset
        BY <1>1 DEF Crash
    <2>2. LockStopsInserts'
        BY <1>1 DEF Crash, LockStopsInserts
    <2>3. ResetIsClean'
        BY <1>1 DEF Crash, ResetIsClean
    <2> QED BY <2>1, <2>2, <2>3, NobodyHolds DEF Gated
<1>2. CASE RecoveryCancels
    <2>1. UNCHANGED <<lock, phase, resetting, mutation, reset>> /\ work' = Cancelled
        BY <1>2 DEF RecoveryCancels
    <2>2. GateIsHeld' /\ HeldIsDrained' /\ LockStopsInserts'
        BY <2>1 DEF GateIsHeld, HeldIsDrained, LockStopsInserts, Inside
    <2>3. ResetIsClean'
        BY <2>1, CancelledTyped DEF ResetIsClean
    <2> QED BY <2>2, <2>3 DEF Gated
<1>3. CASE Startup
    <2>1. UNCHANGED <<resetting, mutation, reset>> /\ lock' = "free"
        BY <1>3 DEF Startup
    <2>2. GateIsHeld' /\ HeldIsDrained' /\ LockStopsInserts'
        BY <2>1 DEF GateIsHeld, HeldIsDrained, LockStopsInserts, Inside
    <2>3. ResetIsClean'
        <3>1. LockIsOwned'
            BY <1>3, ProcessOwned
        <3>2. \A k \in Keys : phase'[k] \notin Cleaned
            BY <3>1, <2>1, KeysAreNames DEF LockIsOwned, Cleaned, Running
        <3> QED BY <3>2 DEF ResetIsClean
    <2> QED BY <2>2, <2>3 DEF Gated
<1> QED BY <1>1, <1>2, <1>3

\* With every client behind the gate, the invariant is inductive.
LEMMA GatedKept ==
    ASSUME Outside = {}
    PROVE  ResetInv /\ [Next]_vars => ResetInv'
<1> SUFFICES ASSUME ResetInv, [Next]_vars PROVE ResetInv'
    OBVIOUS
<1>1. LInv'
    BY LockKept DEF ResetInv
<1>2. Gated'
    <2>1. ASSUME NEW c \in Clients, Admit(c) \/ Enter(c) \/ Enqueue(c) \/ Insert(c) \/ Leave(c)
          PROVE  Gated'
        BY <2>1, ClientGated
    <2>2. CASE \/ LeaseReads \/ LeaseClaims \/ RetentionEnqueues \/ PoolStops
               \/ \E j \in Jobs : WorkEnds(j)
        BY <2>2, WorkerGated
    <2>3. ASSUME NEW r \in Resets,
                 \/ Ask(r) \/ Drained(r) \/ Prepare(r) \/ Replay(r) \/ Quiesce(r) \/ Quiesced(r)
                 \/ Rejected(r) \/ Unsafe(r) \/ CleanDatabase(r) \/ CleanStorage(r)
                 \/ Complete(r) \/ Incomplete(r)
          PROVE  Gated'
        BY <2>3, ResetStepGated
    <2>4. CASE Crash \/ RecoveryCancels \/ Startup
        BY <2>4, ProcessGated
    <2>5. CASE UNCHANGED vars
        BY <2>5 DEF ResetInv, Gated, GateIsHeld, HeldIsDrained, LockStopsInserts,
        ResetIsClean, Inside,
           vars
    <2> QED BY <2>1, <2>2, <2>3, <2>4, <2>5 DEF Next
<1> QED BY <1>1, <1>2 DEF ResetInv, Gated

-----------------------------------------------------------------------------
(* The theorems.                                                            *)

\* A server that starts without a reset satisfies the invariant.
LEMMA InitHolds == Init => ResetInv
<1> SUFFICES ASSUME Init PROVE ResetInv
    OBVIOUS
<1> USE DEF Init
<1>1. TypeOK
    BY DEF TypeOK
<1>2. LockIsOwned
    BY KeysAreNames DEF LockIsOwned, Running
<1>3. GateIsHeld
    BY DEF GateIsHeld
<1>4. HeldIsDrained
    BY DEF HeldIsDrained, NoReset
<1>5. LockStopsInserts
    BY DEF LockStopsInserts
<1>6. ResetIsClean
    BY DEF ResetIsClean, Cleaned
<1> QED BY <1>1, <1>2, <1>3, <1>4, <1>5, <1>6 DEF ResetInv, LInv

\* The lock, the operations, the gate, the pool and the jobs keep their types,
\* whatever happens outside the server.
THEOREM MaintenanceTypeCorrect == Spec => []TypeOK
<1>1. Init => LInv
    BY InitHolds DEF ResetInv
<1>2. LInv => TypeOK
    BY DEF LInv
<1> QED BY <1>1, <1>2, LockKept, PTL DEF Spec

\* Exactly the operation under way holds the lock, also with processes that
\* enqueue beside the gate, over retries, refusals, crashes and recoveries.
THEOREM LockHasOwner == Spec => []LockIsOwned
<1>1. Init => LInv
    BY InitHolds DEF ResetInv
<1>2. LInv => LockIsOwned
    BY DEF LInv
<1> QED BY <1>1, <1>2, LockKept, PTL DEF Spec

\* When every mutation passes the gate, as all those of the server do, nothing
\* comes back into a database that a reset has cleaned until maintenance ends.
THEOREM ResetStaysClean ==
    ASSUME Outside = {}
    PROVE  Spec => []MaintenanceIsSafe
<1>1. ResetInv /\ [Next]_vars => ResetInv'
    BY GatedKept
<1>2. ResetInv => MaintenanceIsSafe
    BY DEF ResetInv, LInv, MaintenanceIsSafe
<1> QED BY <1>1, <1>2, InitHolds, PTL DEF Spec

-----------------------------------------------------------------------------
(* The inductive invariant.                                                 *)

\* What is on disk, and what the settings calls and the reset know of it.
StoreTyped ==
    /\ setting \in [present : BOOLEAN, enabled : BOOLEAN, ref : 0 .. MaxRef, legacy : BOOLEAN]
    /\ files \subseteq 1 .. MaxRef /\ used \in 1 .. MaxRef
    /\ plain \in {"row", "wal", "none"}
    /\ server \in {"down", "recovered", "written", "moved", "migrated", "checkpointed", "up"}
    /\ call \in [at : {"idle", "written", "committed", "settled"},
                 kind : {"none", "token", "clear", "toggle"}, new : 0 .. MaxRef, prev : 0 .. MaxRef]
    /\ owed \subseteq 1 .. MaxRef
    /\ wipe \in {"none", "rows", "files", "revoked", "published"}

\* The sets of clients and their leases.
RuntimeTyped ==
    /\ current \in Sets /\ made \in [Sets -> 0 .. MaxRef]
    /\ open \subseteq Sets /\ retiring \subseteq Sets
    /\ count \in [Sets -> Nat]
    /\ revoked \in 0 .. MaxSet
    /\ lease \in [Holders -> 0 .. MaxSet]

\* The health checks.
ChecksTyped ==
    /\ probing \in [Probes -> {"idle", "acquired", "waiting"}]
    /\ scheduled \in Nat /\ closing \in Nat
    /\ status \in [of : 0 .. MaxSet, by : {"none", "probe", "traffic"}, probe : 0 .. MaxSet]

\* A call or a reset that is under way has not yet removed what the row names:
\* the new secret has a reference of its own, and a reset has emptied the row.
Secrets ==
    /\ ReferenceHasSecret
    /\ setting.ref <= used
    /\ call.at # "idle" => server = "up" /\ wipe = "none"
    /\ wipe # "none" => setting.ref = NoRef /\ server \in {"down", "up"}
    /\ call.at = "written" =>
          /\ call.prev = setting.ref
          /\ call.new <= used
          /\ IF call.kind = "token" THEN call.new \in files /\ setting.ref < call.new
                                    ELSE call.new = NoRef
    /\ call.at = "committed" => call.prev # NoRef /\ setting.ref # call.prev
    /\ server = "written" /\ setting.legacy => Stable \in files

\* Where a token in plain text may be left, the next startup knows of it.
PlaintextIsKnown ==
    /\ server \in {"moved", "migrated", "checkpointed", "up"} => ~setting.legacy
    /\ plain # "none" =>
          server \notin {"checkpointed", "up"} /\ (setting.legacy \/ setting.ref # NoRef)

\* The leases of a set.
Held(s) == {h \in Holders : lease[h] = s}

\* The count of a set is the number of its leases, until a reset has revoked it.
CountsLeases ==
    \A s \in Sets : count[s] = IF revoked < s THEN Cardinality(Held(s)) ELSE 0

\* Leases are of sets that were published, and what is open beside the current
\* set waits for its last lease.
ClientsInUse ==
    /\ server # "up" => /\ current = 1 /\ open = {} /\ retiring = {} /\ revoked = 0
                        /\ \A h \in Holders : lease[h] = 0
    /\ server = "up" => retiring = open \ {current}
    /\ revoked < current
    /\ \A h \in Holders : lease[h] <= current

\* A probe holds a lease as long as it is not idle.
ProbesHold == \A p \in Probes : probing[p] = "idle" <=> lease[p] = 0

\* The status is of the newest set that was probed, and the current one is
\* probed, about to be, or was.
Checks ==
    /\ status.probe <= current
    /\ status.by = "probe" => status.of = status.probe
    /\ server = "up" /\ made[current] # NoRef =>
          \/ scheduled + closing > 0
          \/ status.probe = current
          \/ \E p \in Probes : probing[p] = "acquired" /\ lease[p] = current

SInv == StoreTyped /\ Secrets /\ PlaintextIsKnown
CInv == RuntimeTyped /\ CountsLeases /\ ClientsInUse /\ OpenIsHeld
KInv == ChecksTyped /\ ProbesHold /\ Checks
CredentialsInv == SInv /\ CInv /\ KInv

-----------------------------------------------------------------------------
(* The store: what a call, a reset and a startup do to the credential.      *)

\* What the settings calls, resets and startups work on stays as it is.
StoreKept == UNCHANGED <<setting, files, used, plain, server, call, wipe>> /\ owed' = owed

\* A step that leaves the store alone keeps what is known of it.
LEMMA StoreKeptKeeps ==
    ASSUME SInv, StoreKept
    PROVE  SInv'
BY DEF SInv, StoreTyped, Secrets, PlaintextIsKnown, ReferenceHasSecret, StoreKept

\* A row that names another secret is a row.
LEMMA RowNames ==
    ASSUME StoreTyped, NEW r \in 0 .. MaxRef
    PROVE  LET named == [setting EXCEPT !.present = TRUE, !.ref = r]
               moved == [setting EXCEPT !.legacy = FALSE, !.ref = r]
               Rows  == [present : BOOLEAN, enabled : BOOLEAN, ref : 0 .. MaxRef,
                         legacy : BOOLEAN]
           IN  /\ named \in Rows /\ named.ref = r /\ named.legacy = setting.legacy
               /\ moved \in Rows /\ moved.ref = r /\ moved.legacy = FALSE
BY DEF StoreTyped

\* A settings call never removes the file its row names.
LEMMA CallKeeps ==
    ASSUME SInv,
           \/ \E sort \in {"token", "clear", "toggle"} : BeginUpdate(sort)
           \/ WriteFails \/ CommitSetting \/ CommitSettingFails \/ RemoveOld \/ RemoveOldFails
           \/ Publish \/ PublishFails
    PROVE  SInv'
<1> USE DEF SInv, StoreTyped, Secrets, PlaintextIsKnown,
                     ReferenceHasSecret, NoRef, Stable,
            Loop, NoCall, CallEnds, store, request
<1>0. /\ MaxRef \in Nat /\ 1 <= MaxRef
      /\ 0 \in 0 .. MaxRef /\ 1 \in 0 .. MaxRef
    BY CredentialsConstants
<1> USE <1>0
<1>1. ASSUME NEW sort \in {"token", "clear", "toggle"}, BeginUpdate(sort)
      PROVE  SInv'
    <2>1. CASE sort = "token"
        BY <1>1, <2>1 DEF BeginUpdate, FreshRef
    <2>2. CASE sort # "token"
        BY <1>1, <2>2 DEF BeginUpdate, FreshRef
    <2> QED BY <2>1, <2>2
<1>2. CASE WriteFails
    BY <1>2 DEF WriteFails, FreshRef
<1>3. CASE CommitSetting
    <2> DEFINE place == IF Outdated(call) THEN "committed" ELSE "settled"
    <2>1. /\ call.at = "written" /\ server = "up" /\ wipe = "none"
          /\ call' = [call EXCEPT !.at = place] /\ place \in {"committed", "settled"}
          /\ setting' = Named(call.kind, setting, call.new)
          /\ UNCHANGED <<files, used, plain, server, owed, wipe>>
        BY <1>3 DEF CommitSetting
    <2>2. /\ call' \in [at : {"idle", "written", "committed", "settled"},
                        kind : {"none", "token", "clear", "toggle"}, new : 0 .. MaxRef,
                        prev : 0 .. MaxRef]
          /\ call'.at = place /\ call'.prev = setting.ref
        BY <2>1
    <2>3. CASE call.kind = "token"
        <3>1. setting' = [setting EXCEPT !.present = TRUE, !.ref = call.new]
            BY <2>1, <2>3 DEF Named
        <3>2. /\ setting' \in [present : BOOLEAN, enabled : BOOLEAN, ref : 0 .. MaxRef,
                           legacy : BOOLEAN]
              /\ setting'.ref = call.new /\ setting'.legacy = setting.legacy
            BY <3>1
        <3>3. call.new \in files /\ setting.ref < call.new /\ call.new <= used
            BY <2>1, <2>3
        <3> QED BY <2>1, <2>2, <3>2, <3>3 DEF Outdated
    <2>4. CASE call.kind = "clear"
        <3>1. setting' = [setting EXCEPT !.present = TRUE, !.ref = NoRef]
            BY <2>1, <2>4 DEF Named
        <3>2. /\ setting' \in [present : BOOLEAN, enabled : BOOLEAN, ref : 0 .. MaxRef,
                           legacy : BOOLEAN]
              /\ setting'.ref = 0 /\ setting'.legacy = setting.legacy
            BY <3>1, RowNames
        <3> QED BY <2>1, <2>2, <3>2 DEF Outdated
    <2>5. CASE call.kind \notin {"token", "clear"}
        <3>1. setting' = [setting EXCEPT !.present = TRUE, !.enabled = ~@]
            BY <2>1, <2>5 DEF Named
        <3>2. /\ setting' \in [present : BOOLEAN, enabled : BOOLEAN, ref : 0 .. MaxRef,
                           legacy : BOOLEAN]
              /\ setting'.ref = setting.ref /\ setting'.legacy = setting.legacy
            BY <3>1
        <3>3. place = "settled"
            BY <2>1, <2>5 DEF Outdated
        <3> QED BY <2>1, <2>2, <3>2, <3>3
    <2> QED BY <2>3, <2>4, <2>5
<1>4. CASE CommitSettingFails
    BY <1>4 DEF CommitSettingFails
<1>5. CASE RemoveOld
    BY <1>5 DEF RemoveOld
<1>6. CASE RemoveOldFails
    BY <1>6 DEF RemoveOldFails
<1>7. CASE Publish
    BY <1>7 DEF Publish
<1>8. CASE PublishFails
    BY <1>8 DEF PublishFails
<1> QED BY <1>1, <1>2, <1>3, <1>4, <1>5, <1>6, <1>7, <1>8

\* A reset empties the row before it removes a file.
LEMMA ResetKeeps ==
    ASSUME SInv,
           \/ ResetRows \/ ResetFiles \/ ResetRevokes \/ ResetStalls \/ ResetPublishes
           \/ SchedulesChecks
    PROVE  SInv'
<1> USE DEF SInv, StoreTyped, Secrets, PlaintextIsKnown,
                     ReferenceHasSecret, NoRef, Stable,
            Loop, store, request
<1>1. CASE ResetRows
    BY <1>1, CredentialsConstants DEF ResetRows, NoSetting
<1>2. CASE ResetFiles
    BY <1>2 DEF ResetFiles
<1>3. CASE ResetRevokes
    BY <1>3 DEF ResetRevokes
<1>4. CASE ResetStalls
    BY <1>4 DEF ResetStalls
<1>5. CASE ResetPublishes
    BY <1>5 DEF ResetPublishes
<1>6. CASE SchedulesChecks
    BY <1>6 DEF SchedulesChecks
<1> QED BY <1>1, <1>2, <1>3, <1>4, <1>5, <1>6

\* A startup finishes the reset, writes the migrated secret before its row, and
\* empties the log before it serves.
LEMMA LifeKeeps ==
    ASSUME SInv,
           ServerDies \/ Recover \/ MigrateWrites \/ MigrateCommits \/ Checkpoint \/ Boot
    PROVE  SInv'
<1> USE DEF SInv, StoreTyped, Secrets, PlaintextIsKnown,
                     ReferenceHasSecret, NoRef, Stable,
            NoCall, store, request
<1>0. /\ MaxRef \in Nat /\ 1 <= MaxRef
      /\ 0 \in 0 .. MaxRef /\ 1 \in 0 .. MaxRef
    BY CredentialsConstants
<1> USE <1>0
<1>1. CASE ServerDies
    BY <1>1 DEF ServerDies
<1>2. CASE Recover
    BY <1>2 DEF Recover
<1>3. CASE MigrateWrites
    BY <1>3 DEF MigrateWrites
<1>4. CASE MigrateCommits
    <2>1. CASE setting.legacy
        <3>1. setting' = [setting EXCEPT !.legacy = FALSE, !.ref = Stable]
            BY <1>4, <2>1 DEF MigrateCommits
        <3>2. /\ setting' \in [present : BOOLEAN, enabled : BOOLEAN, ref : 0 .. MaxRef,
                           legacy : BOOLEAN]
              /\ setting'.ref = 1 /\ ~setting'.legacy
            BY <3>1, RowNames
        <3> QED BY <1>4, <2>1, <3>2 DEF MigrateCommits
    <2>2. CASE ~setting.legacy
        BY <1>4, <2>2 DEF MigrateCommits
    <2> QED BY <2>1, <2>2
<1>5. CASE Checkpoint
    BY <1>5 DEF Checkpoint, Truncates
<1>6. CASE Boot
    BY <1>6 DEF Boot
<1> QED BY <1>1, <1>2, <1>3, <1>4, <1>5, <1>6

-----------------------------------------------------------------------------
(* The clients: leases, swaps and revocations.                              *)

\* The leases of a set are finitely many.
LEMMA LeasesFinite ==
    ASSUME NEW H \in SUBSET Holders
    PROVE  /\ IsFiniteSet(H) /\ Cardinality(H) \in Nat
           /\ Cardinality(H) = 0 <=> H = {}
<1>1. IsFiniteSet(Holders)
    BY CredentialsConstants DEF Holders
<1>2. IsFiniteSet(H)
    BY <1>1, FS_Subset
<1> QED BY <1>2, FS_CardinalityType, FS_EmptySet

\* The sets that are pinned and not revoked.
Pinned == {lease[h] : h \in {g \in Holders : lease[g] > revoked}}

\* Numbers of sets.
LEMMA SetNumbers ==
    /\ MaxSet \in Nat /\ 1 \in Sets /\ Sets \subseteq Nat
    /\ \A s : s \in Sets <=> s \in Nat /\ 1 <= s /\ s <= MaxSet
BY CredentialsConstants DEF Sets

\* The set in use is published, and it is the newest anybody has.
LEMMA CurrentIsNewest ==
    ASSUME CInv, server = "up"
    PROVE  /\ current \in Nat /\ revoked \in Nat /\ revoked < current
           /\ \A h \in Holders : lease[h] \in Nat /\ lease[h] <= current
           /\ open = {current} \cup Pinned /\ retiring = open \ {current}
           /\ \A s \in open : s \in Nat /\ revoked < s /\ s <= current
           /\ count[current] = Cardinality(Held(current))
<1>1. current \in Sets /\ current \in Nat /\ revoked \in Nat /\ revoked < current
    BY SetNumbers DEF CInv, RuntimeTyped, ClientsInUse
<1>2. \A h \in Holders : lease[h] \in Nat /\ lease[h] <= current
    BY SetNumbers DEF CInv, RuntimeTyped, ClientsInUse
<1>3. open = {current} \cup Pinned /\ retiring = open \ {current}
    BY DEF CInv, OpenIsHeld, Pinned, ClientsInUse
<1>4. \A s \in open : s \in Nat /\ revoked < s /\ s <= current
    BY <1>1, <1>2, <1>3 DEF Pinned
<1>5. count[current] = Cardinality(Held(current))
    BY <1>1 DEF CInv, CountsLeases
<1> QED BY <1>1, <1>2, <1>3, <1>4, <1>5

\* A swap keeps the replaced clients open exactly as long as they are leased.
LEMMA SwapKeeps ==
    ASSUME CInv, server = "up", server' = "up",
           NEW token \in 0 .. MaxRef, Swap(token)
    PROVE  /\ CInv'
           /\ current' = current + 1 /\ made'[current'] = token
           /\ UNCHANGED <<lease, revoked>>
<1>1. /\ current < MaxSet /\ current' = current + 1 /\ current \in Nat
      /\ made' = [made EXCEPT ![current + 1] = token]
      /\ open' = (open \ Retired(current, count)) \cup {current + 1}
      /\ retiring' = (retiring \cup {current}) \ Retired(current, count)
      /\ UNCHANGED <<count, revoked, lease>>
    BY CurrentIsNewest DEF Swap
<1>2. current + 1 \in Sets
    BY <1>1, SetNumbers
<1>3. RuntimeTyped' /\ made'[current'] = token
    <2>1. made' \in [Sets -> 0 .. MaxRef] /\ made'[current + 1] = token
        BY <1>1, <1>2 DEF CInv, RuntimeTyped
    <2>2. open' \subseteq Sets /\ retiring' \subseteq Sets
        BY <1>1, <1>2 DEF CInv, RuntimeTyped
    <2> QED BY <1>1, <1>2, <2>1, <2>2 DEF CInv, RuntimeTyped
<1>4. CountsLeases'
    BY <1>1 DEF CInv, CountsLeases, Held
<1>5. Pinned' = Pinned
    BY <1>1 DEF Pinned
<1>6. open' = {current + 1} \cup Pinned /\ retiring' = open' \ {current + 1}
    <2>1. current + 1 \notin open
        BY <1>1, CurrentIsNewest
    <2>2. CASE count[current] = 0
        <3>1. Held(current) = {}
            BY <2>2, CurrentIsNewest, LeasesFinite DEF Held
        <3>2. current \notin Pinned
            BY <3>1 DEF Held, Pinned
        <3> QED BY <1>1, <2>1, <2>2, <3>2, CurrentIsNewest DEF Retired
    <2>3. CASE count[current] # 0
        <3>1. Held(current) # {}
            BY <2>3, CurrentIsNewest, LeasesFinite DEF Held
        <3>2. current \in Pinned
            BY <3>1, CurrentIsNewest DEF Held, Pinned
        <3> QED BY <1>1, <2>1, <2>3, <3>2, CurrentIsNewest DEF Retired
    <2> QED BY <2>2, <2>3
<1>7. OpenIsHeld'
    BY <1>1, <1>5, <1>6 DEF OpenIsHeld, Pinned
<1>8. ClientsInUse'
    <2>1. revoked' < current' /\ \A h \in Holders : lease'[h] <= current'
        BY <1>1, CurrentIsNewest
    <2> QED BY <1>1, <1>6, <2>1 DEF ClientsInUse
<1> QED BY <1>1, <1>3, <1>4, <1>7, <1>8 DEF CInv

\* A lease pins the set in use.
LEMMA AcquireKeeps ==
    ASSUME CInv, server = "up", server' = "up",
           NEW h \in Holders, lease[h] = 0, Acquire(h)
    PROVE  /\ CInv'
           /\ UNCHANGED <<current, made, revoked>>
           /\ lease'[h] = current /\ \A g \in Holders : g # h => lease'[g] = lease[g]
<1>1. /\ count' = [count EXCEPT ![current] = @ + 1]
      /\ lease' = [lease EXCEPT ![h] = current]
      /\ UNCHANGED <<current, made, open, retiring, revoked>>
    BY DEF Acquire
<1>2. /\ current \in Sets /\ current \in Nat /\ 1 <= current /\ current \in 0 .. MaxSet
      /\ revoked \in Nat
    BY SetNumbers, CurrentIsNewest DEF CInv, RuntimeTyped
<1>3. /\ lease'[h] = current /\ \A g \in Holders : g # h => lease'[g] = lease[g]
      /\ lease' \in [Holders -> 0 .. MaxSet]
    BY <1>1, <1>2 DEF CInv, RuntimeTyped
<1>4. /\ count' \in [Sets -> Nat] /\ count'[current] = count[current] + 1
      /\ \A s \in Sets : s # current => count'[s] = count[s]
    BY <1>1, <1>2 DEF CInv, RuntimeTyped
<1>5. RuntimeTyped'
    BY <1>1, <1>3, <1>4 DEF CInv, RuntimeTyped
<1>6. CountsLeases'
    <2>1. /\ Held(current)' = Held(current) \cup {h} /\ h \notin Held(current)
          /\ \A s \in Sets : s # current => Held(s)' = Held(s)
        BY <1>1, <1>2, <1>3, SetNumbers DEF Held
    <2>2. Cardinality(Held(current)') = Cardinality(Held(current)) + 1
        BY SMTT(30), <2>1, LeasesFinite, FS_AddElement DEF Held
    <2>3. count'[current] = Cardinality(Held(current)')
        BY <1>4, <2>2, CurrentIsNewest
    <2>4. ASSUME NEW s \in Sets
          PROVE  count'[s] = IF revoked' < s THEN Cardinality(Held(s)') ELSE 0
        <3>1. CASE s = current
            BY <1>1, <2>3, <3>1, CurrentIsNewest
        <3>2. CASE s # current
            BY <1>1, <1>4, <2>1, <3>2 DEF CInv, CountsLeases
        <3> QED BY <3>1, <3>2
    <2> QED BY <2>4 DEF CountsLeases
<1>7. {current} \cup Pinned' = {current} \cup Pinned
    BY <1>1, <1>2, <1>3, CurrentIsNewest DEF Pinned
<1>8. OpenIsHeld'
    <2>1. open' = {current'} \cup Pinned'
        BY <1>1, <1>7, CurrentIsNewest
    <2> QED BY <2>1 DEF OpenIsHeld, Pinned
<1>9. ClientsInUse'
    BY <1>1, <1>2, <1>3, CurrentIsNewest DEF ClientsInUse
<1> QED BY <1>1, <1>3, <1>5, <1>6, <1>8, <1>9 DEF CInv

\* The last lease of a replaced set closes it, any other lease leaves it open.
LEMMA ReleaseKeeps ==
    ASSUME CInv, server = "up", server' = "up",
           NEW h \in Holders, NEW s \in Sets, lease[h] = s, Release(h)
    PROVE  /\ CInv'
           /\ UNCHANGED <<current, made, revoked>>
           /\ lease'[h] = 0 /\ \A g \in Holders : g # h => lease'[g] = lease[g]
<1> DEFINE last == count[s] <= 1
<1>1. /\ count' = [count EXCEPT ![s] = IF last THEN 0 ELSE @ - 1]
      /\ open' = IF last /\ s \in retiring THEN open \ {s} ELSE open
      /\ retiring' = IF last THEN retiring \ {s} ELSE retiring
      /\ lease' = [lease EXCEPT ![h] = 0]
      /\ UNCHANGED <<current, made, revoked>>
    BY DEF Release
<1>2. /\ s \in Nat /\ 1 <= s /\ s <= current
      /\ current \in Nat /\ revoked \in Nat /\ revoked < current
      /\ count[s] \in Nat /\ MaxSet \in Nat
    BY SetNumbers, CurrentIsNewest DEF CInv, RuntimeTyped
<1>3. /\ lease'[h] = 0 /\ \A g \in Holders : g # h => lease'[g] = lease[g]
      /\ lease' \in [Holders -> 0 .. MaxSet]
    BY <1>1, <1>2 DEF CInv, RuntimeTyped
<1>4. /\ count' \in [Sets -> Nat]
      /\ count'[s] = IF last THEN 0 ELSE count[s] - 1
      /\ \A t \in Sets : t # s => count'[t] = count[t]
    BY <1>1, <1>2 DEF CInv, RuntimeTyped
<1>5. RuntimeTyped'
    BY <1>1, <1>3, <1>4 DEF CInv, RuntimeTyped
<1>6. /\ Held(s)' = Held(s) \ {h} /\ h \in Held(s)
      /\ \A t \in Sets : t # s => Held(t)' = Held(t)
    BY <1>2, <1>3, SetNumbers DEF Held
<1>7. Cardinality(Held(s)') = Cardinality(Held(s)) - 1
    BY ZenonT(40), <1>6, LeasesFinite, FS_RemoveElement DEF Held
<1>8. CountsLeases'
    <2>1. ASSUME NEW t \in Sets
          PROVE  count'[t] = IF revoked' < t THEN Cardinality(Held(t)') ELSE 0
        <3>1. CASE t # s
            BY <1>1, <1>4, <1>6, <3>1 DEF CInv, CountsLeases
        <3>2. CASE t = s /\ revoked < s
            <4>1. count[s] = Cardinality(Held(s)) /\ count[s] # 0
                BY <1>6, <3>2, LeasesFinite DEF CInv, CountsLeases, Held
            <4>2. count'[s] = count[s] - 1
                BY <1>2, <1>4, <4>1
            <4> QED BY <1>1, <1>7, <3>2, <4>1, <4>2
        <3>3. CASE t = s /\ ~(revoked < s)
            <4>1. count[s] = 0
                BY <3>3 DEF CInv, CountsLeases
            <4>2. count'[s] = 0
                BY <1>4, <4>1
            <4> QED BY <1>1, <3>3, <4>2
        <3> QED BY <3>1, <3>2, <3>3
    <2> QED BY <2>1 DEF CountsLeases
<1>9. open' = {current} \cup Pinned' /\ retiring' = open' \ {current}
    <2>1. CASE ~(revoked < s)
        <3>1. s \notin open /\ s \notin retiring
            BY <2>1, <1>2, CurrentIsNewest
        <3>2. open' = open /\ retiring' = retiring
            BY <1>1, <3>1
        <3>3. Pinned' = Pinned
            BY <1>1, <1>2, <1>3, <2>1 DEF Pinned
        <3> QED BY <3>2, <3>3, CurrentIsNewest
    <2>2. CASE revoked < s /\ last
        <3>1. Cardinality(Held(s)') = 0
            BY <1>2, <1>6, <1>7, <2>2, LeasesFinite DEF CInv, CountsLeases, Held
        <3>2. Held(s)' = {}
            BY <3>1, LeasesFinite DEF Held
        <3>3. Pinned' = Pinned \ {s}
            BY <1>1, <1>2, <1>3, <3>2 DEF Pinned, Held
        <3>4. s \in open
            BY <2>2, CurrentIsNewest DEF Pinned
        <3>5. CASE s = current
            BY <1>1, <2>2, <3>3, <3>5, CurrentIsNewest
        <3>6. CASE s # current
            BY <1>1, <2>2, <3>3, <3>4, <3>6, CurrentIsNewest
        <3> QED BY <3>5, <3>6
    <2>3. CASE revoked < s /\ ~last
        <3>1. Cardinality(Held(s)') # 0
            BY <1>2, <1>6, <1>7, <2>3, LeasesFinite DEF CInv, CountsLeases, Held
        <3>2. Held(s)' # {}
            BY <3>1, LeasesFinite DEF Held
        <3>3. Pinned' = Pinned
            BY <1>1, <1>2, <1>3, <2>3, <3>2 DEF Pinned, Held
        <3> QED BY <1>1, <2>3, <3>3, CurrentIsNewest
    <2> QED BY <2>1, <2>2, <2>3
<1>10. OpenIsHeld'
    BY <1>1, <1>9 DEF OpenIsHeld, Pinned
<1>11. ClientsInUse'
    BY <1>1, <1>2, <1>3, <1>9, CurrentIsNewest DEF ClientsInUse
<1> QED BY <1>1, <1>3, <1>5, <1>8, <1>10, <1>11 DEF CInv

\* A revocation closes every set, whoever has leased it.
LEMMA RevokeKeeps ==
    ASSUME CInv, server = "up", server' = "up", Revoke
    PROVE  /\ CInv'
           /\ current' = current + 1 /\ made'[current'] = NoRef
           /\ UNCHANGED lease
<1>1. /\ current < MaxSet /\ current' = current + 1
      /\ made' = [made EXCEPT ![current + 1] = NoRef]
      /\ open' = {current + 1} /\ retiring' = {}
      /\ count' = [s \in Sets |-> 0] /\ revoked' = current
      /\ UNCHANGED lease
    BY DEF Revoke
<1>2. /\ current \in Nat /\ current + 1 \in Sets /\ current \in 0 .. MaxSet
      /\ NoRef \in 0 .. MaxRef
      /\ \A h \in Holders : lease[h] \in Nat /\ lease[h] <= current
    BY <1>1, SetNumbers, CurrentIsNewest, CredentialsConstants DEF NoRef
<1>3. RuntimeTyped' /\ made'[current'] = NoRef
    <2>1. made' \in [Sets -> 0 .. MaxRef] /\ made'[current + 1] = NoRef
        BY <1>1, <1>2 DEF CInv, RuntimeTyped
    <2> QED BY <1>1, <1>2, <2>1 DEF CInv, RuntimeTyped
<1>4. CountsLeases'
    <2>1. ASSUME NEW s \in Sets, current < s
          PROVE  Cardinality(Held(s)') = 0
        <3>1. Held(s)' = {}
            BY <1>1, <1>2, <2>1, SetNumbers DEF Held
        <3> QED BY <3>1, FS_EmptySet
    <2> QED BY <1>1, <2>1 DEF CountsLeases
<1>5. Pinned' = {}
    BY <1>1, <1>2 DEF Pinned
<1>6. OpenIsHeld'
    BY <1>1, <1>5 DEF OpenIsHeld, Pinned
<1>7. ClientsInUse'
    BY <1>1, <1>2 DEF ClientsInUse
<1> QED BY <1>1, <1>3, <1>4, <1>6, <1>7 DEF CInv

\* A process that is not up has no clients, and its startup opens the first.
LEMMA NoClientsKeep ==
    ASSUME server' # "up", NoClients
    PROVE  CInv'
<1>1. RuntimeTyped'
    BY SetNumbers, CredentialsConstants DEF NoClients, RuntimeTyped, NoRef
<1>2. CountsLeases'
    <2>1. ASSUME NEW s \in Sets
          PROVE  Cardinality(Held(s)') = 0
        <3>1. Held(s)' = {}
            BY SetNumbers DEF Held, NoClients
        <3> QED BY <3>1, FS_EmptySet
    <2> QED BY <2>1 DEF CountsLeases, NoClients
<1>3. ClientsInUse' /\ OpenIsHeld'
    BY DEF ClientsInUse, OpenIsHeld, NoClients
<1> QED BY <1>1, <1>2, <1>3 DEF CInv

\* The first set opens.
LEMMA BootKeeps ==
    ASSUME SInv, CInv, Boot
    PROVE  /\ CInv' /\ UNCHANGED <<current, lease, revoked>>
           /\ server' = "up"
<1>1. /\ server = "checkpointed" /\ server' = "up"
      /\ made' = [made EXCEPT ![1] = Built] /\ open' = {1}
      /\ UNCHANGED <<current, retiring, count, revoked, lease>>
    BY DEF Boot
<1>2. Built \in 0 .. MaxRef
    BY CredentialsConstants DEF Built, Resolved, SInv, StoreTyped, NoRef
<1>3. /\ current = 1 /\ retiring = {} /\ revoked = 0 /\ 1 \in Sets
      /\ \A h \in Holders : lease[h] = 0
    BY <1>1, SetNumbers DEF CInv, ClientsInUse
<1>4. RuntimeTyped'
    BY <1>1, <1>2, <1>3 DEF CInv, RuntimeTyped
<1>5. CountsLeases'
    BY <1>1 DEF CInv, CountsLeases, Held
<1>6. ClientsInUse' /\ OpenIsHeld'
    BY <1>1, <1>3 DEF ClientsInUse, OpenIsHeld
<1> QED BY <1>1, <1>4, <1>5, <1>6 DEF CInv

\* Where clients stay as they are and the server neither starts nor stops.
LEMMA ClientsStay ==
    ASSUME CInv, UNCHANGED client, server' = "up" <=> server = "up"
    PROVE  CInv'
BY DEF CInv, RuntimeTyped, CountsLeases, ClientsInUse, OpenIsHeld, Held, client

-----------------------------------------------------------------------------
(* Health checks: the status and the set it is of.                          *)

\* A probe that works holds a lease on a set that was published.
LEMMA ProbeHolds ==
    ASSUME CInv, KInv, server = "up", NEW p \in Probes, probing[p] # "idle"
    PROVE  /\ p \in Holders /\ lease[p] \in Sets /\ lease[p] \in Nat /\ lease[p] # 0
           /\ lease[p] <= current /\ lease[p] \in 0 .. MaxSet /\ current \in Nat
<1>1. p \in Holders
    BY DEF Holders
<1>2. lease[p] \in 0 .. MaxSet /\ lease[p] # 0
    BY <1>1 DEF KInv, ProbesHold, CInv, RuntimeTyped
<1> QED BY <1>1, <1>2, SetNumbers, CurrentIsNewest

\* Nothing of the checks changes.
LEMMA ChecksStay ==
    ASSUME KInv, UNCHANGED <<checks, current, made>>,
           \A p \in Probes : lease'[p] = lease[p],
           server' = "up" <=> server = "up"
    PROVE  KInv'
BY DEF KInv, ChecksTyped, ProbesHold, Checks, checks

\* A new set is to be checked, and so is one whose publication has to wait.
LEMMA NewSetChecked ==
    ASSUME CInv, KInv, server = "up",
           \/ scheduled' = scheduled + 1 /\ closing' = closing
           \/ closing' = closing + 1 /\ scheduled' = scheduled
           \/ closing > 0 /\ closing' = closing - 1 /\ scheduled' = scheduled + 1,
           UNCHANGED <<probing, status, lease>>,
           current' = current \/ current' = current + 1
    PROVE  KInv'
<1>1. /\ current \in Nat /\ scheduled \in Nat /\ closing \in Nat /\ status.probe \in Nat
      /\ status.probe <= current
    BY SetNumbers, CurrentIsNewest DEF KInv, ChecksTyped, Checks
<1>2. /\ scheduled' \in Nat /\ closing' \in Nat /\ scheduled' + closing' > 0
      /\ status'.probe <= current'
    BY <1>1
<1> QED BY <1>2 DEF KInv, ChecksTyped, ProbesHold, Checks

\* Clients that are published are to be checked, now or later.
LEMMA PublishesKeeps ==
    ASSUME CInv, KInv, server = "up", server' = "up", Built \in 0 .. MaxRef,
           Publishes, UNCHANGED <<probing, status>>
    PROVE  CInv' /\ KInv'
<1>1. Swap(Built)
    BY DEF Publishes
<1>2. CInv' /\ current' = current + 1 /\ UNCHANGED lease
    BY <1>1, SwapKeeps
<1>3. \/ scheduled' = scheduled + 1 /\ closing' = closing
      \/ closing' = closing + 1 /\ scheduled' = scheduled
    BY DEF Publishes
<1>4. KInv'
    BY <1>2, <1>3, NewSetChecked
<1> QED BY <1>2, <1>4

\* A response or a result is recorded for the set it came from, unless a newer
\* one was probed since.
LEMMA RecordedIsOf ==
    ASSUME KInv, NEW g \in 0 .. MaxSet, g <= current, NEW result \in BOOLEAN,
           current \in Nat
    PROVE  LET new == Recorded(g, result)
           IN  /\ new \in [of : 0 .. MaxSet, by : {"none", "probe", "traffic"}, probe : 0 .. MaxSet]
               /\ status.probe <= new.probe /\ new.probe <= current
               /\ new.by = "probe" => new.of = new.probe
               /\ ~result => g <= new.probe
<1>1. /\ status \in [of : 0 .. MaxSet, by : {"none", "probe", "traffic"}, probe : 0 .. MaxSet]
      /\ status.probe <= current /\ (status.by = "probe" => status.of = status.probe)
      /\ MaxSet \in Nat
    BY SetNumbers DEF KInv, ChecksTyped, Checks
<1>2. CASE Accepts(g, result)
    <2>1. Recorded(g, result) = [of |-> g, by |-> "probe", probe |-> g]
        BY <1>2 DEF Recorded
    <2>2. status.probe <= g
        BY <1>1, <1>2 DEF Accepts
    <2> QED BY <1>1, <2>1, <2>2
<1>3. CASE ~Accepts(g, result)
    <2>1. Recorded(g, result) = status
        BY <1>3 DEF Recorded
    <2>2. ~result => g <= status.probe
        BY <1>1, <1>3 DEF Accepts
    <2> QED BY <1>1, <2>1, <2>2
<1> QED BY <1>2, <1>3

\* A status that is recorded keeps the checks where no probe moves.
LEMMA RecordKeeps ==
    ASSUME CInv, KInv, server = "up", server' = "up",
           NEW p \in Probes, probing[p] # "idle", NEW result \in BOOLEAN,
           status' = Recorded(lease[p], result), UNCHANGED <<current, made, scheduled, closing>>,
           probing' \in [Probes -> {"idle", "acquired", "waiting"}], ProbesHold',
           \A q \in Probes : q # p => probing'[q] = probing[q] /\ lease'[q] = lease[q],
           probing[p] = "acquired" => ~result
    PROVE  KInv'
<1>1. /\ lease[p] \in Nat /\ lease[p] <= current /\ lease[p] \in 0 .. MaxSet
      /\ current \in Nat
    BY ProbeHolds
<1>2. /\ status' \in [of : 0 .. MaxSet, by : {"none", "probe", "traffic"}, probe : 0 .. MaxSet]
      /\ status.probe <= status'.probe /\ status'.probe <= current
      /\ status'.by = "probe" => status'.of = status'.probe
      /\ ~result => lease[p] <= status'.probe
    BY <1>1, RecordedIsOf
<1>3. status.probe \in Nat /\ status'.probe \in Nat
    BY <1>2, SetNumbers DEF KInv, ChecksTyped
<1>4. ASSUME made[current] # NoRef
      PROVE  \/ scheduled + closing > 0
             \/ status'.probe = current
             \/ \E q \in Probes : probing'[q] = "acquired" /\ lease'[q] = current
    <2>1. CASE scheduled + closing > 0
        BY <2>1
    <2>2. CASE status.probe = current
        BY <2>2, <1>1, <1>2, <1>3
    <2>3. ASSUME NEW q \in Probes, probing[q] = "acquired" /\ lease[q] = current
          PROVE  \/ status'.probe = current
                 \/ probing'[q] = "acquired" /\ lease'[q] = current
        <3>1. CASE q = p
            BY <1>1, <1>2, <1>3, <2>3, <3>1
        <3>2. CASE q # p
            BY <2>3, <3>2
        <3> QED BY <3>1, <3>2
    <2> QED BY <1>4, <2>1, <2>2, <2>3 DEF KInv, Checks
<1>5. Checks'
    BY <1>2, <1>4 DEF Checks
<1>6. ChecksTyped'
    BY <1>2 DEF KInv, ChecksTyped
<1> QED BY <1>5, <1>6 DEF KInv

-----------------------------------------------------------------------------
(* Every step.                                                              *)

\* The leases and the answers of requests and jobs.
LEMMA ReaderStep ==
    ASSUME CredentialsInv, NEW r \in Readers,
           ReaderBegins(r) \/ ReaderHears(r) \/ ReaderEnds(r)
    PROVE  CredentialsInv'
<1> USE DEF CredentialsInv
<1>1. r \in Holders /\ r \notin Probes
    BY CredentialsConstants DEF Holders
<1>2. StoreKept /\ server = "up" /\ server' = "up"
    BY DEF ReaderBegins, ReaderHears, ReaderEnds, StoreKept, Loop, store, request
<1>3. SInv'
    BY <1>2, StoreKeptKeeps
<1>4. CASE ReaderBegins(r)
    <2>1. lease[r] = 0 /\ Acquire(r) /\ UNCHANGED checks
        BY <1>4 DEF ReaderBegins
    <2>2. /\ CInv' /\ UNCHANGED <<current, made>>
          /\ \A g \in Holders : g # r => lease'[g] = lease[g]
        BY <1>1, <1>2, <2>1, AcquireKeeps
    <2>3. KInv'
        BY <1>1, <1>2, <2>1, <2>2, ChecksStay DEF Holders
    <2> QED BY <1>3, <2>2, <2>3
<1>5. CASE ReaderEnds(r)
    <2>1. lease[r] # 0 /\ Release(r) /\ UNCHANGED checks
        BY <1>5 DEF ReaderEnds
    <2>2. lease[r] \in Sets
        BY <1>1, <2>1, SetNumbers DEF CInv, RuntimeTyped
    <2>3. /\ CInv' /\ UNCHANGED <<current, made>>
          /\ \A g \in Holders : g # r => lease'[g] = lease[g]
        BY <1>1, <1>2, <2>1, <2>2, ReleaseKeeps
    <2>4. KInv'
        BY <1>1, <1>2, <2>1, <2>3, ChecksStay DEF Holders
    <2> QED BY <1>3, <2>3, <2>4
<1>6. CASE ReaderHears(r)
    <2>1. /\ lease[r] \in open
          /\ status' = [status EXCEPT !.of = lease[r], !.by = "traffic"]
          /\ UNCHANGED <<client, probing, scheduled, closing>>
        BY <1>6 DEF ReaderHears
    <2>2. CInv'
        BY <1>2, <2>1, ClientsStay
    <2>3. lease[r] \in 0 .. MaxSet
        BY <1>1 DEF CInv, RuntimeTyped
    <2>4. /\ status' \in [of : 0 .. MaxSet, by : {"none", "probe", "traffic"}, probe : 0 .. MaxSet]
          /\ status'.by = "traffic" /\ status'.probe = status.probe
        BY <2>1, <2>3 DEF KInv, ChecksTyped
    <2>5. KInv'
        BY <1>2, <2>1, <2>4 DEF KInv, ChecksTyped, ProbesHold, Checks, client
    <2> QED BY <1>3, <2>2, <2>5
<1> QED BY <1>4, <1>5, <1>6

\* A health check from its lease to its result.
LEMMA ProbeStep ==
    ASSUME CredentialsInv, NEW p \in Probes,
           ProbeAcquires(p) \/ ProbeChecks(p) \/ ProbeHears(p) \/ ProbeEnds(p)
    PROVE  CredentialsInv'
<1> USE DEF CredentialsInv
<1>1. p \in Holders
    BY DEF Holders
<1>2. StoreKept /\ server = "up" /\ server' = "up"
    BY DEF ProbeAcquires, ProbeChecks, ProbeHears, ProbeEnds, StoreKept, Loop, store, request
<1>3. SInv'
    BY <1>2, StoreKeptKeeps
<1>4. CASE ProbeAcquires(p)
    <2>1. /\ scheduled > 0 /\ probing[p] = "idle" /\ scheduled' = scheduled - 1
          /\ UNCHANGED <<status, closing>>
        BY <1>4 DEF ProbeAcquires
    <2>2. CASE made[current] = NoRef
        <3>1. UNCHANGED <<client, probing>>
            BY <1>4, <2>2 DEF ProbeAcquires
        <3>2. CInv'
            BY <1>2, <3>1, ClientsStay
        <3>3. KInv'
            BY <1>2, <2>1, <2>2, <3>1 DEF KInv, ChecksTyped, ProbesHold, Checks, client
        <3> QED BY <1>3, <3>2, <3>3
    <2>3. CASE made[current] # NoRef
        <3>1. Acquire(p) /\ probing' = [probing EXCEPT ![p] = "acquired"]
            BY <1>4, <2>3 DEF ProbeAcquires
        <3>2. lease[p] = 0
            BY <2>1 DEF KInv, ProbesHold
        <3>3. /\ CInv' /\ UNCHANGED <<current, made>> /\ lease'[p] = current
              /\ \A g \in Holders : g # p => lease'[g] = lease[g]
            BY <1>1, <1>2, <3>1, <3>2, AcquireKeeps
        <3>4. /\ probing' \in [Probes -> {"idle", "acquired", "waiting"}]
              /\ probing'[p] = "acquired" /\ \A q \in Probes : q # p => probing'[q] = probing[q]
            BY <3>1 DEF KInv, ChecksTyped
        <3>5. ChecksTyped'
            BY <2>1, <3>4 DEF KInv, ChecksTyped
        <3>6. ProbesHold'
            BY <1>2, <3>3, <3>4, SetNumbers DEF KInv, ProbesHold, CInv, RuntimeTyped, Holders
        <3>7. Checks'
            BY <2>1, <3>3, <3>4 DEF KInv, Checks
        <3> QED BY <1>3, <3>3, <3>5, <3>6, <3>7 DEF KInv
    <2> QED BY <2>2, <2>3
<1>5. CASE ProbeChecks(p)
    <2>1. /\ probing[p] = "acquired" /\ probing' = [probing EXCEPT ![p] = "waiting"]
          /\ status' = Recorded(lease[p], FALSE) /\ UNCHANGED <<client, scheduled, closing>>
        BY <1>5 DEF ProbeChecks
    <2>2. CInv'
        BY <1>2, <2>1, ClientsStay
    <2>3. /\ probing' \in [Probes -> {"idle", "acquired", "waiting"}]
          /\ probing'[p] = "waiting" /\ \A q \in Probes : q # p => probing'[q] = probing[q]
          /\ UNCHANGED <<lease, current, made>>
        BY <2>1 DEF KInv, ChecksTyped, client
    <2>4. ProbesHold'
        BY <2>1, <2>3 DEF KInv, ProbesHold
    <2>5. KInv'
        BY <1>2, <2>1, <2>3, <2>4, RecordKeeps
    <2> QED BY <1>3, <2>2, <2>5
<1>6. CASE ProbeHears(p)
    <2>1. /\ probing[p] = "waiting" /\ UNCHANGED probing
          /\ status' = Recorded(lease[p], FALSE) /\ UNCHANGED <<client, scheduled, closing>>
        BY <1>6 DEF ProbeHears
    <2>2. CInv'
        BY <1>2, <2>1, ClientsStay
    <2>3. UNCHANGED <<lease, current, made>>
        BY <2>1 DEF client
    <2>4. /\ ProbesHold' /\ probing' \in [Probes -> {"idle", "acquired", "waiting"}]
        BY <2>1, <2>3 DEF KInv, ProbesHold, ChecksTyped
    <2>5. KInv'
        BY <1>2, <2>1, <2>3, <2>4, RecordKeeps
    <2> QED BY <1>3, <2>2, <2>5
<1>7. CASE ProbeEnds(p)
    <2>1. /\ probing[p] = "waiting" /\ probing' = [probing EXCEPT ![p] = "idle"]
          /\ status' = Recorded(lease[p], TRUE) /\ Release(p)
          /\ UNCHANGED <<scheduled, closing>>
        BY <1>7 DEF ProbeEnds
    <2>2. lease[p] \in Sets
        BY <1>2, <2>1, ProbeHolds
    <2>3. /\ CInv' /\ UNCHANGED <<current, made>> /\ lease'[p] = 0
          /\ \A g \in Holders : g # p => lease'[g] = lease[g]
        BY <1>1, <1>2, <2>1, <2>2, ReleaseKeeps
    <2>4. /\ probing' \in [Probes -> {"idle", "acquired", "waiting"}]
          /\ probing'[p] = "idle" /\ \A q \in Probes : q # p => probing'[q] = probing[q]
        BY <2>1 DEF KInv, ChecksTyped
    <2>5. \A q \in Probes : q # p => lease'[q] = lease[q]
        BY <2>3 DEF Holders
    <2>6. ProbesHold'
        BY <2>3, <2>4, <2>5 DEF KInv, ProbesHold
    <2>7. KInv'
        BY <1>2, <2>1, <2>3, <2>4, <2>5, <2>6, RecordKeeps
    <2> QED BY <1>3, <2>3, <2>7
<1> QED BY <1>4, <1>5, <1>6, <1>7

\* The steps of a settings call.
LEMMA CallStep ==
    ASSUME CredentialsInv,
           \/ \E sort \in {"token", "clear", "toggle"} : BeginUpdate(sort)
           \/ WriteFails \/ CommitSetting \/ CommitSettingFails \/ RemoveOld \/ RemoveOldFails
           \/ Publish \/ PublishFails
    PROVE  CredentialsInv'
<1>1. SInv'
    BY CallKeeps DEF CredentialsInv
<1>2. CASE Publish
    <2>1. /\ server = "up" /\ server' = "up" /\ Publishes /\ UNCHANGED <<probing, status>>
        BY <1>2 DEF Publish, CredentialsInv, SInv, Secrets
    <2>2. Built \in 0 .. MaxRef
        BY CredentialsConstants DEF CredentialsInv, SInv, StoreTyped, Built, Resolved, NoRef
    <2> QED BY <1>1, <2>1, <2>2, PublishesKeeps DEF CredentialsInv
<1>3. CASE ~Publish
    <2>1. UNCHANGED <<server, client, checks>>
        BY <1>3 DEF BeginUpdate, WriteFails, CommitSetting, CommitSettingFails, RemoveOld,
                    RemoveOldFails, PublishFails
    <2>2. CInv'
        BY <2>1, ClientsStay DEF CredentialsInv
    <2>3. KInv'
        BY <2>1, ChecksStay DEF CredentialsInv, client
    <2> QED BY <1>1, <2>2, <2>3 DEF CredentialsInv
<1> QED BY <1>2, <1>3

\* The steps of a factory reset.
LEMMA ResetStep ==
    ASSUME CredentialsInv,
           \/ ResetRows \/ ResetFiles \/ ResetRevokes \/ ResetStalls \/ ResetPublishes
           \/ SchedulesChecks
    PROVE  CredentialsInv'
<1>1. SInv' /\ server = "up" /\ server' = "up"
    BY ResetKeeps DEF CredentialsInv, ResetRows, ResetFiles, ResetRevokes, ResetStalls,
            ResetPublishes, SchedulesChecks,
        Loop, store
<1>2. CASE ResetPublishes
    <2>1. Publishes /\ UNCHANGED <<probing, status>>
        BY <1>2 DEF ResetPublishes
    <2>2. Built \in 0 .. MaxRef
        BY CredentialsConstants DEF CredentialsInv, SInv, StoreTyped, Built, Resolved, NoRef
    <2> QED BY <1>1, <2>1, <2>2, PublishesKeeps DEF CredentialsInv
<1>3. CASE ResetRevokes
    <2>1. Revoke /\ UNCHANGED checks
        BY <1>3 DEF ResetRevokes
    <2>2. CInv' /\ current' = current + 1 /\ made'[current'] = NoRef /\ UNCHANGED lease
        BY <1>1, <2>1, RevokeKeeps DEF CredentialsInv
    <2>3. current \in Nat
        BY <1>1, CurrentIsNewest DEF CredentialsInv
    <2>4. KInv'
        BY <2>1, <2>2, <2>3, SetNumbers
           DEF CredentialsInv, KInv, ChecksTyped, ProbesHold, Checks, checks
    <2> QED BY <1>1, <2>2, <2>4 DEF CredentialsInv
<1>4. CASE ResetRows \/ ResetFiles \/ ResetStalls
    <2>1. UNCHANGED <<client, checks>>
        BY <1>4 DEF ResetRows, ResetFiles, ResetStalls
    <2>2. CInv'
        BY <1>1, <2>1, ClientsStay DEF CredentialsInv
    <2>3. KInv'
        BY <1>1, <2>1, ChecksStay DEF CredentialsInv, client
    <2> QED BY <1>1, <2>2, <2>3 DEF CredentialsInv
<1>5. CASE SchedulesChecks
    <2>1. /\ closing > 0 /\ closing' = closing - 1 /\ scheduled' = scheduled + 1
          /\ UNCHANGED <<client, probing, status>>
        BY <1>5 DEF SchedulesChecks
    <2>2. CInv'
        BY <1>1, <2>1, ClientsStay DEF CredentialsInv
    <2>3. KInv'
        BY <1>1, <2>1, NewSetChecked DEF CredentialsInv, client
    <2> QED BY <1>1, <2>2, <2>3 DEF CredentialsInv
<1> QED BY <1>2, <1>3, <1>4, <1>5

\* A crash, and the steps of a startup.
LEMMA LifeStep ==
    ASSUME CredentialsInv,
           ServerDies \/ Recover \/ MigrateWrites \/ MigrateCommits \/ Checkpoint \/ Boot
    PROVE  CredentialsInv'
<1>1. SInv'
    BY LifeKeeps DEF CredentialsInv
<1>2. CASE ServerDies
    <2>1. CInv'
        BY <1>2, NoClientsKeep DEF ServerDies
    <2>2. KInv'
        BY <1>2, SetNumbers
           DEF ServerDies, NoClients, KInv, ChecksTyped, ProbesHold, Checks, UnknownStatus, Holders
    <2> QED BY <1>1, <2>1, <2>2 DEF CredentialsInv
<1>3. CASE Boot
    <2>1. CInv' /\ UNCHANGED <<current, lease>>
        BY <1>3, BootKeeps DEF CredentialsInv
    <2>2. scheduled' = 1 /\ UNCHANGED <<probing, closing, status>>
        BY <1>3 DEF Boot
    <2>3. KInv'
        BY <2>1, <2>2 DEF CredentialsInv, KInv, ChecksTyped, ProbesHold, Checks
    <2> QED BY <1>1, <2>1, <2>3 DEF CredentialsInv
<1>4. CASE Recover \/ MigrateWrites \/ MigrateCommits \/ Checkpoint
    <2>1. UNCHANGED <<client, checks>> /\ server # "up" /\ server' # "up"
        BY <1>4 DEF Recover, MigrateWrites, MigrateCommits, Checkpoint
    <2>2. CInv'
        BY <2>1, ClientsStay DEF CredentialsInv
    <2>3. KInv'
        BY <2>1, ChecksStay DEF CredentialsInv, client
    <2> QED BY <1>1, <2>2, <2>3 DEF CredentialsInv
<1> QED BY <1>2, <1>3, <1>4

\* The invariant is inductive.
LEMMA CredentialsInductive ==
    CredentialsInv /\ [CredentialsNext]_credentialsVars => CredentialsInv'
<1> SUFFICES ASSUME CredentialsInv, [CredentialsNext]_credentialsVars PROVE CredentialsInv'
    OBVIOUS
<1>1. CASE UNCHANGED credentialsVars
    <2>1. StoreKept /\ UNCHANGED <<client, checks>>
        BY <1>1 DEF credentialsVars, store, request, StoreKept
    <2> QED BY <2>1, StoreKeptKeeps, ClientsStay, ChecksStay DEF CredentialsInv, StoreKept, client
<1>2. CASE CredentialsNext
    BY <1>2, CallStep, ResetStep, ReaderStep, ProbeStep, LifeStep DEF CredentialsNext
<1> QED BY <1>1, <1>2

\* Before its first startup an installation has no credential, or one in plain
\* text that is to be migrated.
LEMMA CredentialsInitially ==
    ASSUME CredentialsInit
    PROVE  CredentialsInv
<1>1. MaxRef \in Nat /\ 1 <= MaxRef /\ MaxSet \in Nat /\ 1 \in Sets
    BY SetNumbers, CredentialsConstants
<1>2. SInv
    <2>1. /\ setting \in [present : BOOLEAN, enabled : BOOLEAN, ref : 0 .. MaxRef, legacy : BOOLEAN]
          /\ setting.ref = 0 /\ (plain # "none" => setting.legacy)
          /\ plain \in {"row", "wal", "none"}
        <3>1. NoSetting \in
              [present : BOOLEAN, enabled : BOOLEAN, ref : 0 .. MaxRef, legacy : BOOLEAN]
              /\ NoSetting.ref = 0
            BY <1>1 DEF NoSetting, NoRef
        <3>2. CASE setting = NoSetting /\ plain = "none"
            BY <3>1, <3>2
        <3>3. CASE setting = [NoSetting EXCEPT !.present = TRUE, !.legacy = TRUE] /\ plain = "row"
            BY <3>1, <3>3
        <3> QED BY <3>2, <3>3 DEF CredentialsInit
    <2>2. /\ call \in [at : {"idle", "written", "committed", "settled"},
                       kind : {"none", "token", "clear", "toggle"}, new : 0 .. MaxRef,
                       prev : 0 .. MaxRef]
          /\ call.at = "idle"
        BY <1>1 DEF CredentialsInit, NoCall, NoRef
    <2>3. StoreTyped
        BY <1>1, <2>1, <2>2 DEF CredentialsInit, StoreTyped, Stable
    <2>4. Secrets /\ PlaintextIsKnown
        BY <2>1, <2>2 DEF CredentialsInit, Secrets, PlaintextIsKnown,
                     ReferenceHasSecret, NoRef, Stable
    <2> QED BY <2>3, <2>4 DEF SInv
<1>3. CInv
    <2>1. \A s \in Sets : Held(s) = {}
        BY SetNumbers DEF CredentialsInit, Held
    <2>2. CountsLeases
        BY <2>1, FS_EmptySet DEF CredentialsInit, CountsLeases
    <2>3. RuntimeTyped
        BY <1>1 DEF CredentialsInit, RuntimeTyped, NoRef
    <2> QED BY <2>2, <2>3 DEF CredentialsInit, CInv, ClientsInUse, OpenIsHeld
<1>4. KInv
    BY <1>1 DEF CredentialsInit, KInv, ChecksTyped, ProbesHold, Checks, UnknownStatus, Holders
<1> QED BY <1>2, <1>3, <1>4 DEF CredentialsInv

-----------------------------------------------------------------------------
(* The theorems.                                                            *)

\* The invariant holds at every moment.
LEMMA CredentialsInvariant ==
    CredentialsSpec => []CredentialsInv
<1>1. CredentialsInit => CredentialsInv
    BY CredentialsInitially
<1>2. CredentialsInv /\ [CredentialsNext]_credentialsVars => CredentialsInv'
    BY CredentialsInductive
<1> QED BY <1>1, <1>2, PTL DEF CredentialsSpec

\* The rows, files, clients and checks are well typed, and no count of leases
\* exceeds the holders (services/settings.py, providers/runtime.py).
THEOREM CredentialsTypeCorrect ==
    CredentialsSpec => []CredentialsTypeOK
<1>1. ASSUME CredentialsInv PROVE CredentialsTypeOK
    <2>1. retiring \subseteq open \ {current}
        BY <1>1 DEF CredentialsInv, CInv, ClientsInUse
    <2>2. ASSUME NEW s \in Sets
          PROVE  count[s] \in 0 .. Cardinality(Holders)
        <3>1. IsFiniteSet(Holders) /\ Held(s) \subseteq Holders
            BY CredentialsConstants DEF Holders, Held
        <3>2. /\ Cardinality(Holders) \in Nat /\ Cardinality(Held(s)) \in Nat
              /\ Cardinality(Held(s)) <= Cardinality(Holders)
            BY <3>1, FS_CardinalityType, FS_Subset
        <3> QED BY <1>1, <3>2 DEF CredentialsInv, CInv, CountsLeases
    <2>3. count \in [Sets -> 0 .. Cardinality(Holders)]
        BY <1>1, <2>2 DEF CredentialsInv, CInv, RuntimeTyped
    <2> QED BY <1>1, <2>1, <2>3 DEF CredentialsInv, SInv, CInv, KInv, StoreTyped,
                                       RuntimeTyped, ChecksTyped, CredentialsTypeOK
<1> QED BY <1>1, CredentialsInvariant, PTL

\* However calls fail and wherever the process dies, in a save, a clear, a
\* reset or the migration, no row names a credential whose file is gone.
THEOREM CredentialIsKept ==
    CredentialsSpec => []ReferenceHasSecret
<1>1. CredentialsInv => ReferenceHasSecret
    BY DEF CredentialsInv, SInv, Secrets
<1> QED BY <1>1, CredentialsInvariant, PTL

\* The server never runs while SQLite may hold a plaintext token, however often
\* the migration was cut (migrate_legacy_provider_tokens).
THEOREM NoPlaintextServed ==
    CredentialsSpec => []PlaintextIsGone
<1>1. CredentialsInv => PlaintextIsGone
    BY DEF CredentialsInv, SInv, PlaintextIsKnown, PlaintextIsGone
<1> QED BY <1>1, CredentialsInvariant, PTL

\* Clients are open exactly while they are in use or pinned by a lease that no
\* reset has revoked: none is closed under its holder, none leaks
\* (ProviderSetRuntime.acquire, _release, swap, revoke).
THEOREM ClientsAreHeld ==
    CredentialsSpec => []OpenIsHeld
<1>1. CredentialsInv => OpenIsHeld
    BY DEF CredentialsInv, CInv
<1> QED BY <1>1, CredentialsInvariant, PTL

\* When no check is pending, the status a check has left is of the clients in
\* use, in whatever order checks and swaps have ended (_accept_generation).
THEOREM StatusIsCurrent ==
    CredentialsSpec => []QuietStatusIsCurrent
<1>1. CredentialsInv => QuietStatusIsCurrent
    BY DEF CredentialsInv, KInv, Checks, QuietStatusIsCurrent
<1> QED BY <1>1, CredentialsInvariant, PTL

-----------------------------------------------------------------------------
(* Preferences: the inductive invariant.                                    *)

\* The base is validated when it is loaded; a row that was written over the base
\* in use was validated together with it.
PreferencesInv ==
    /\ PreferencesTypeOK
    /\ Valid(base)
    /\ settled => Valid(Over(stored, base))

\* A field of the upper configuration hides that of the lower one.
LEMMA OverTyped ==
    ASSUME NEW u \in Partial, NEW b \in [Fields -> Values]
    PROVE  /\ Over(u, b) \in [Fields -> Values]
           /\ \A f \in Fields : Over(u, b)[f] = IF f \in DOMAIN u THEN u[f] ELSE b[f]
<1>1. PICK S \in SUBSET Fields : u \in [S -> Values]
    BY DEF Partial
<1>2. DOMAIN b \cup DOMAIN u = Fields
    BY <1>1
<1>. QED
    BY <1>1, <1>2 DEF Over

\* Of two rows, one over the other, the result is a row.
LEMMA OverPartial ==
    ASSUME NEW u \in Partial, NEW s \in Partial
    PROVE  Over(u, s) \in Partial
<1>1. PICK S \in SUBSET Fields : u \in [S -> Values]
    BY DEF Partial
<1>2. PICK T \in SUBSET Fields : s \in [T -> Values]
    BY DEF Partial
<1>3. Over(u, s) \in [S \cup T -> Values] /\ S \cup T \in SUBSET Fields
    BY <1>1, <1>2 DEF Over
<1>. QED
    BY <1>3 DEF Partial

\* Merging twice or merging the rows first gives one configuration: what Update
\* validates is what the row it writes makes of the base.
LEMMA MergedIsStored ==
    ASSUME NEW u \in Partial, NEW s \in Partial, NEW b \in [Fields -> Values]
    PROVE  \A f \in Fields : Over(Over(u, s), b)[f] = Over(u, Over(s, b))[f]
<1>1. PICK S \in SUBSET Fields : u \in [S -> Values]
    BY DEF Partial
<1>2. PICK T \in SUBSET Fields : s \in [T -> Values]
    BY DEF Partial
<1>3. Over(u, s) \in Partial /\ Over(s, b) \in [Fields -> Values]
    BY OverPartial, OverTyped
<1>4. DOMAIN Over(u, s) = S \cup T
      /\ \A f \in S \cup T : Over(u, s)[f] = IF f \in S THEN u[f] ELSE s[f]
    BY <1>1, <1>2 DEF Over
<1>5. SUFFICES ASSUME NEW f \in Fields
               PROVE  Over(Over(u, s), b)[f] = Over(u, Over(s, b))[f]
    OBVIOUS
<1>6. Over(Over(u, s), b)[f] = IF f \in S \cup T THEN Over(u, s)[f] ELSE b[f]
    BY <1>3, <1>4, OverTyped
<1>7. Over(u, Over(s, b))[f] = IF f \in S THEN u[f] ELSE Over(s, b)[f]
    BY <1>1, <1>3, OverTyped
<1>8. Over(s, b)[f] = IF f \in T THEN s[f] ELSE b[f]
    BY <1>2, OverTyped
<1>. QED
    BY <1>4, <1>6, <1>7, <1>8

\* A row that holds nothing leaves the base as it is.
LEMMA NothingOver ==
    ASSUME NEW b \in [Fields -> Values]
    PROVE  NothingStored \in Partial /\ \A f \in Fields : Over(NothingStored, b)[f] = b[f]
<1>1. DOMAIN NothingStored = {} /\ NothingStored \in [{} -> Values]
    BY DEF NothingStored
<1>2. NothingStored \in Partial
    BY <1>1 DEF Partial
<1>. QED
    BY <1>1, <1>2, OverTyped

\* Both fields are related by the validator.
LEMMA ValidByFields ==
    ASSUME NEW c, NEW d, \A f \in Fields : c[f] = d[f], Valid(d)
    PROVE  Valid(c)
BY DEF Valid, Fields

\* Each write, reset and restart keeps the validated configuration valid.
LEMMA PreferencesInductive == PreferencesInv /\ [PreferencesNext]_preferencesVars => PreferencesInv'
<1>. SUFFICES ASSUME PreferencesInv, [PreferencesNext]_preferencesVars PROVE PreferencesInv'
    OBVIOUS
<1>. USE DEF PreferencesInv, PreferencesTypeOK
<1>1. ASSUME NEW u \in Partial, Update(u) PROVE PreferencesInv'
  <2>1. stored' = Over(u, stored) /\ UNCHANGED <<base, pinned>> /\ settled' \in BOOLEAN
    BY <1>1 DEF Update
  <2>2. Valid(Over(u, Over(stored, base)))
    BY <1>1 DEF Update, Merged
  <2>3. Valid(Over(Over(u, stored), base))
    BY <2>2, MergedIsStored, ValidByFields
  <2>4. stored' \in Partial
    BY <2>1, OverPartial
  <2>. QED
    BY <2>1, <2>3, <2>4
<1>2. CASE Reset
  <2>1. stored' = NothingStored /\ settled' = TRUE /\ UNCHANGED <<base, pinned>>
    BY <1>2 DEF Reset
  <2>2. Valid(Over(NothingStored, base)) /\ NothingStored \in Partial
    BY NothingOver, ValidByFields
  <2>. QED
    BY <2>1, <2>2
<1>3. CASE Restart
  <2>1. /\ base' \in [Fields -> Values] /\ Valid(base') /\ pinned' \subseteq Fields
        /\ settled' \in BOOLEAN /\ stored' = stored
    BY <1>3 DEF Restart
  <2>2. settled' => settled /\ base' = base
    BY <1>3 DEF Restart
  <2>. QED
    BY <2>1, <2>2
<1>4. CASE UNCHANGED preferencesVars
    BY <1>4 DEF preferencesVars
<1>. QED
    BY <1>1, <1>2, <1>3, <1>4 DEF PreferencesNext

\* A validated base and no row.
LEMMA PreferencesInitially == PreferencesInit => PreferencesInv
<1>. SUFFICES ASSUME PreferencesInit PROVE PreferencesInv
    OBVIOUS
<1>1. base \in [Fields -> Values] /\ Valid(base) /\ pinned \subseteq Fields
    BY DEF PreferencesInit
<1>2. stored = NothingStored /\ settled = TRUE
    BY DEF PreferencesInit
<1>3. Valid(Over(stored, base)) /\ stored \in Partial
    BY <1>1, <1>2, NothingOver, ValidByFields
<1>. QED
    BY <1>1, <1>2, <1>3 DEF PreferencesInv, PreferencesTypeOK

\* Every behaviour has the invariant.
LEMMA PreferencesInvariant == PreferencesSpec => []PreferencesInv
BY PreferencesInductive, PreferencesInitially, PTL DEF PreferencesSpec

\* The base, the row and the fields the environment sets keep their types.
THEOREM PreferencesTypeCorrect == PreferencesSpec => []PreferencesTypeOK
<1>1. PreferencesInv => PreferencesTypeOK
    BY DEF PreferencesInv
<1>. QED
    BY <1>1, PreferencesInvariant, PTL

\* Whatever is written, reset or restarted: where the environment sets no field
\* and the base is the one the row was written over, the thresholds in effect
\* are ordered (effective_matching_config).
THEOREM ThresholdsStayOrdered == PreferencesSpec => []WritesStayOrdered
<1>1. ASSUME PreferencesInv PROVE WritesStayOrdered
  <2>. SUFFICES ASSUME settled, pinned = {} PROVE Valid(Effective)
    BY DEF WritesStayOrdered
  <2>1. PICK S \in SUBSET Fields : stored \in [S -> Values]
    BY <1>1 DEF PreferencesInv, PreferencesTypeOK, Partial
  <2>2. Restrict(stored, DOMAIN stored \ pinned) = stored
    BY <2>1 DEF Restrict
  <2>. QED
    BY <1>1, <2>2 DEF PreferencesInv, Effective
<1>. QED
    BY <1>1, PreferencesInvariant, PTL

-----------------------------------------------------------------------------
(* The settings as a whole.                                                 *)

\* Whatever fails and wherever the process dies: a credential that is named is
\* there, none is left in plain text, the clients and the status are those in
\* use, and the thresholds in effect are ordered.
THEOREM SettingsStay == CredentialsSpec /\ PreferencesSpec => []SettingsAreKept
<1>1. ReferenceHasSecret /\ PlaintextIsGone /\ OpenIsHeld /\ QuietStatusIsCurrent
          /\ WritesStayOrdered => SettingsAreKept
    BY DEF SettingsAreKept
<1>. QED
    BY <1>1, CredentialIsKept, NoPlaintextServed, ClientsAreHeld, StatusIsCurrent,
       ThresholdsStayOrdered, PTL

-----------------------------------------------------------------------------
(* Enrichment: the inductive invariant.                                     *)

\* An item is in work only while the job runs, and between two items the session
\* holds nothing; a picture is where the provider says for covers alone; and the
\* lyrics handler has its one answer when it holds the writer.
ItemInWork ==
    /\ at.step # "idle" => job = "running" /\ at.item \in Items
    /\ at.step # "fetch" => draft = "none"

LyricsAnswered ==
    /\ kind # "cover" => \A p \in CoverProviders : asked[p] # "refs"
    /\ kind = "lyrics" /\ at.step = "fetch" /\ Writing => Answered

EnrichmentInv == EnrichmentTypeOK /\ ItemInWork /\ LyricsAnswered /\ AttemptsSettle

\* The outcomes of an attempt that has ended.
Concluding == {"succeeded", "not_found", "cancelled", "transient_failure", "permanent_failure"}

\* Settling leaves no attempt unfinished when it is given an outcome.
LEMMA SettledTyped ==
    ASSUME EnrichmentInv, NEW how \in Concluding \cup {"pending"}
    PROVE  /\ Settled(how) \in [Items -> {"none", "pending"} \cup Concluding]
           /\ how # "pending" => \A i \in Items : Settled(how)[i] \notin Unfinished
BY DEF EnrichmentInv, EnrichmentTypeOK, Settled, Unfinished, Concluding

\* A job that ends settles every attempt and gives up the item in work.
LEMMA JobEndsKeeps ==
    ASSUME EnrichmentInv, NEW end \in {"succeeded", "failed", "cancelled"},
           NEW how \in Concluding, JobEnds(end, how)
    PROVE  EnrichmentInv'
<1>1. /\ attempt' \in [Items -> {"none", "pending"} \cup Concluding]
      /\ \A i \in Items : attempt'[i] \notin Unfinished
    BY SettledTyped DEF JobEnds, Closed, Concluding
<1>2. /\ at' = Nowhere /\ asked' = Nothing /\ draft' = "none" /\ todo' = {} /\ job' = end
      /\ UNCHANGED <<kind, review, proposed, cancel, jobs>>
    BY DEF JobEnds, reviews
<1>3. EnrichmentTypeOK'
    BY <1>1, <1>2 DEF EnrichmentInv, EnrichmentTypeOK, Nowhere, Nothing, Concluding
<1>. QED
    BY <1>1, <1>2, <1>3
       DEF EnrichmentInv, ItemInWork, LyricsAnswered, AttemptsSettle, Nowhere, Nothing, Writing

\* What the user does to a review, and to the job.
LEMMA UserKeeps ==
    ASSUME EnrichmentInv,
           \/ \E i \in Items : Discard(i) \/ Reopen(i) \/ Retry(i)
           \/ EnrichmentEnqueue \/ AskCancel \/ Lease
    PROVE  EnrichmentInv'
<1>. USE EnrichmentConstantsAssumption
     DEF EnrichmentInv, EnrichmentTypeOK, ItemInWork, LyricsAnswered, AttemptsSettle, reviews,
         working, Idle, Enqueued, Writing, Answered, Found, Sources
<1>1. ASSUME NEW i \in Items, Discard(i) \/ Reopen(i) PROVE EnrichmentInv'
  <2>1. PICK shown \in {"open", "discarded"} : review' = [review EXCEPT ![i] = shown]
    BY <1>1 DEF Discard, Reopen
  <2>2. UNCHANGED <<kind, proposed, attempt, job, cancel, todo, at, asked, draft, jobs>>
    BY <1>1 DEF Discard, Reopen
  <2>3. review' \in [Items -> {"open", "discarded"}]
    BY <2>1
  <2>. QED
    BY <2>2, <2>3
<1>2. ASSUME NEW i \in Items, Retry(i) PROVE EnrichmentInv'
  <2>1. /\ job' = "pending" /\ cancel' = FALSE /\ jobs < MaxJobs /\ jobs' = jobs + 1 /\ todo' = {i}
        /\ job \notin {"pending", "running"} /\ attempt' = [attempt EXCEPT ![i] = "pending"]
        /\ UNCHANGED <<kind, review, proposed, at, asked, draft>>
    BY <1>2 DEF Retry
  <2>2. /\ attempt' \in [Items -> {"none", "pending", "running"} \cup Concluding]
        /\ jobs' \in 0..MaxJobs /\ todo' \subseteq Items
    BY <2>1 DEF Concluding
  <2>3. EnrichmentTypeOK'
    BY <2>1, <2>2 DEF Concluding
  <2>4. at.step = "idle" /\ at'.step = "idle"
    BY <2>1
  <2>5. ItemInWork' /\ AttemptsSettle'
    BY <2>1, <2>4
  <2>6. LyricsAnswered'
    BY <2>1, <2>4
  <2>. QED
    BY <2>3, <2>5, <2>6
<1>3. CASE EnrichmentEnqueue
  <2>1. /\ job' = "pending" /\ cancel' = FALSE /\ jobs < MaxJobs /\ jobs' = jobs + 1
        /\ todo' \subseteq Items /\ job \notin {"pending", "running"}
        /\ UNCHANGED <<kind, review, proposed, attempt, at, asked, draft>>
    BY <1>3 DEF EnrichmentEnqueue
  <2>2. EnrichmentTypeOK'
    <3>1. jobs' \in 0..MaxJobs
      BY <2>1
    <3>2. /\ job' \in {"none", "pending", "running", "succeeded", "failed", "cancelled"}
          /\ cancel' \in BOOLEAN
      BY <2>1
    <3>3. /\ kind' = kind /\ review' = review /\ proposed' = proposed /\ attempt' = attempt
          /\ at' = at /\ asked' = asked /\ draft' = draft
      BY <2>1
    <3>. QED
      BY <2>1, <3>1, <3>2, <3>3
  <2>3. at.step = "idle" /\ at'.step = "idle"
    BY <2>1
  <2>4. ItemInWork' /\ AttemptsSettle'
    BY <2>1, <2>3
  <2>5. LyricsAnswered'
    BY <2>1, <2>3
  <2>. QED
    BY <2>2, <2>4, <2>5
<1>4. CASE AskCancel \/ Lease
    BY <1>4 DEF AskCancel, Lease
<1>. QED
    BY <1>1, <1>2, <1>3, <1>4

\* The providers asked are providers; of lyrics and of ReplayGain there is one.
LEMMA SourcesAre ==
    ASSUME NEW q \in CoverProviders
    PROVE  /\ Sources \subseteq CoverProviders
           /\ kind # "cover" => \A p, r \in Sources : p = r
BY DEF Sources

\* The handler goes from one item to the next and asks the providers.
LEMMA HandlerKeeps ==
    ASSUME EnrichmentInv,
           \/ \E i \in Items : Skip(i) \/ Begin(i)
           \/ \E p \in CoverProviders : \/ Fetched(p) \/ FetchedFromCache(p) \/ FetchFails(p)
                                        \/ Downloaded(p) \/ DownloadFails(p)
    PROVE  EnrichmentInv'
<1>. USE EnrichmentConstantsAssumption
     DEF EnrichmentInv, EnrichmentTypeOK, ItemInWork, AttemptsSettle, reviews, working, Between
<1>1. ASSUME NEW i \in Items, Skip(i) PROVE EnrichmentInv'
    BY <1>1 DEF Skip, LyricsAnswered, Writing, Answered, Found, Sources
<1>2. ASSUME NEW i \in Items, Begin(i) PROVE EnrichmentInv'
  <2>1. /\ attempt' \in [Items -> {"none", "pending", "running"} \cup Concluding]
        /\ draft' = IF kind = "replaygain" THEN "running" ELSE "none"
    BY <1>2 DEF Begin, Begun, Concluding
  <2>2. /\ at' = [item |-> i, step |-> "fetch"] /\ asked' = Nothing /\ job' = "running"
        /\ UNCHANGED <<kind, review, proposed, cancel, todo, jobs>>
    BY <1>2 DEF Begin
  <2>3. EnrichmentTypeOK'
    BY <2>1, <2>2 DEF Nothing, Concluding
  <2>. QED
    BY <2>1, <2>2, <2>3 DEF LyricsAnswered, Nothing, Writing
<1>3. ASSUME NEW p \in CoverProviders, Fetched(p) \/ FetchedFromCache(p) \/ FetchFails(p)
      PROVE  EnrichmentInv'
  <2>1. PICK got \in {"refs", "some", "nothing", "error"} :
            /\ asked' = [asked EXCEPT ![p] = got] /\ (got = "refs" => kind = "cover")
    BY <1>3 DEF Fetched, FetchedFromCache, FetchFails, Answer
  <2>2. /\ at.step = "fetch" /\ p \in Sources /\ draft' \in {draft, "running"}
        /\ UNCHANGED <<kind, review, proposed, attempt, job, cancel, todo, at, jobs>>
    BY <1>3 DEF Fetched, FetchedFromCache, FetchFails, MayAsk, Unanswered
  <2>3. asked' \in [CoverProviders -> {"unasked", "refs", "some", "nothing", "error", "lost"}]
        /\ asked'[p] = got /\ \A q \in CoverProviders : q # p => asked'[q] = asked[q]
    BY <2>1
  <2>4. Sources' = Sources
    BY <2>2 DEF Sources
  <2>5. kind = "lyrics" => Answered'
    BY <2>1, <2>2, <2>3, <2>4, SourcesAre DEF Answered, Found
  <2>6. kind # "cover" => \A q \in CoverProviders : asked'[q] # "refs"
    BY <2>1, <2>3 DEF LyricsAnswered
  <2>. QED
    BY <2>2, <2>3, <2>5, <2>6 DEF LyricsAnswered
<1>4. ASSUME NEW p \in CoverProviders, Downloaded(p) \/ DownloadFails(p) PROVE EnrichmentInv'
  <2>1. PICK got \in {"some", "lost"} : asked' = [asked EXCEPT ![p] = got]
    BY <1>4 DEF Downloaded, DownloadFails, Answer
  <2>2. /\ at.step = "fetch" /\ asked[p] = "refs" /\ draft' \in {draft, "running"}
        /\ UNCHANGED <<kind, review, proposed, attempt, job, cancel, todo, at, jobs>>
    BY <1>4 DEF Downloaded, DownloadFails
  <2>3. kind = "cover"
    BY <2>2 DEF LyricsAnswered
  <2>. QED
    BY <2>1, <2>2, <2>3 DEF LyricsAnswered
<1>. QED
    BY <1>1, <1>2, <1>3, <1>4

\* What the handler reads of the review is where it stands with its item.
LEMMA ReviewReadKeeps ==
    ASSUME EnrichmentInv, PromotionReads \/ OutcomeReads
    PROVE  EnrichmentInv'
<1>. USE DEF EnrichmentInv, EnrichmentTypeOK
<1>1. PICK step \in {"promotes", "passed", "settles", "archived"} :
          at' = [item |-> at.item, step |-> step]
    BY DEF PromotionReads, OutcomeReads
<1>2. /\ at.step # "idle" /\ draft = "none"
      /\ UNCHANGED <<kind, review, proposed, attempt, job, cancel, todo, asked, draft, jobs>>
    BY DEF PromotionReads, OutcomeReads, reviews, Writing
<1>3. at'.step = step /\ at'.item = at.item
    BY <1>1, <1>2
<1>. QED
    BY <1>1, <1>2, <1>3 DEF ItemInWork, LyricsAnswered, AttemptsSettle, Writing

\* A result that is stored ends the attempt of its item and lets the writer go.
LEMMA StoreKeeps ==
    ASSUME EnrichmentInv, StoreResult
    PROVE  EnrichmentInv'
<1>. USE DEF EnrichmentInv, EnrichmentTypeOK
<1>1. PICK ended \in Outcome :
          /\ attempt' = [attempt EXCEPT ![at.item] = ended]
          /\ StoresAtOnce(ended) \/ StoresAsRead
    BY DEF StoreResult
<1>2. ended \in Concluding
    BY DEF Outcome, Concluding
<1>3. /\ at.step # "idle" /\ at' = Nowhere /\ draft' = "none" /\ todo' = todo \ {at.item}
      /\ UNCHANGED <<kind, job, cancel, asked, jobs>>
    BY <1>1 DEF StoreResult, StoresAtOnce, StoresAsRead
<1>4. proposed' \in [Items -> BOOLEAN] /\ review' \in [Items -> {"open", "discarded"}]
    BY <1>1, <1>3 DEF ItemInWork, StoresAtOnce, StoresAsRead
<1>. QED
    BY <1>1, <1>2, <1>3, <1>4
       DEF ItemInWork, LyricsAnswered, AttemptsSettle, Concluding, Nowhere, Writing, Unfinished

\* The process dies: what was in work waits again, or is cancelled.
LEMMA RecoveryKeeps ==
    ASSUME EnrichmentInv, CrashAndRecovery
    PROVE  EnrichmentInv'
<1>1. /\ attempt' \in [Items -> {"none", "pending"} \cup Concluding]
      /\ cancel => \A i \in Items : attempt'[i] \notin Unfinished
    BY SettledTyped DEF CrashAndRecovery, Concluding
<1>2. /\ at' = Nowhere /\ asked' = Nothing /\ draft' = "none" /\ todo' \subseteq Items
      /\ job' = (IF cancel THEN "cancelled" ELSE "pending")
      /\ jobs < MaxJobs /\ jobs' = jobs + 1
      /\ UNCHANGED <<kind, review, proposed, cancel>>
    BY DEF CrashAndRecovery, reviews
<1>3. EnrichmentTypeOK'
    BY <1>1, <1>2, EnrichmentConstantsAssumption
       DEF EnrichmentInv, EnrichmentTypeOK, Nowhere, Nothing, Concluding
<1>. QED
    BY <1>1, <1>2, <1>3
       DEF EnrichmentInv, EnrichmentTypeOK, ItemInWork, LyricsAnswered, AttemptsSettle, Nowhere,
           Nothing, Writing

\* Every step of the handler, of the user and of recovery keeps the invariant.
LEMMA EnrichmentInductive ==
    EnrichmentInv /\ [EnrichmentNext]_enrichmentVars => EnrichmentInv'
<1>. SUFFICES ASSUME EnrichmentInv, [EnrichmentNext]_enrichmentVars PROVE EnrichmentInv'
    OBVIOUS
<1>1. CASE CancelPending \/ CancelSeen \/ CancelBeforeStore \/ HandlerEnds \/ HandlerFails
    BY <1>1, JobEndsKeeps
       DEF CancelPending, CancelSeen, CancelBeforeStore, HandlerEnds, HandlerFails, Concluding
<1>2. CASE UNCHANGED enrichmentVars
    BY <1>2
       DEF enrichmentVars, reviews, working, EnrichmentInv, EnrichmentTypeOK, ItemInWork,
           LyricsAnswered, AttemptsSettle, Writing, Answered, Found, Sources
<1>. QED
    BY <1>1, <1>2, UserKeeps, HandlerKeeps, ReviewReadKeeps, StoreKeeps, RecoveryKeeps
       DEF EnrichmentNext

\* Before the first job nothing is in work.
LEMMA EnrichmentInitially == EnrichmentInit => EnrichmentInv
<1>. SUFFICES ASSUME EnrichmentInit PROVE EnrichmentInv
    OBVIOUS
<1>1. EnrichmentTypeOK
  <2>1. /\ review \in [Items -> {"open", "discarded"}]
        /\ attempt \in [Items -> {"none", "pending", "running", "succeeded", "not_found",
                                  "cancelled", "transient_failure", "permanent_failure"}]
    BY DEF EnrichmentInit
  <2>2. proposed \in [Items -> BOOLEAN] /\ cancel \in BOOLEAN
    BY DEF EnrichmentInit
  <2>3. asked \in [CoverProviders -> {"unasked", "refs", "some", "nothing", "error", "lost"}]
    BY DEF EnrichmentInit, Nothing
  <2>4. /\ kind \in Kinds /\ job = "none" /\ todo \subseteq Items /\ jobs \in 0..MaxJobs
        /\ at.step = "idle" /\ at.item = "none" /\ draft = "none"
    BY EnrichmentConstantsAssumption DEF EnrichmentInit, Nowhere
  <2>. QED
    BY <2>1, <2>2, <2>3, <2>4 DEF EnrichmentTypeOK
<1>2. at.step = "idle" /\ at.item = "none" /\ draft = "none"
    BY DEF EnrichmentInit, Nowhere
<1>3. \A p \in CoverProviders : asked[p] = "unasked"
    BY DEF EnrichmentInit, Nothing
<1>4. \A i \in Items : attempt[i] = "none"
    BY DEF EnrichmentInit
<1>. QED
    BY <1>1, <1>2, <1>3, <1>4
       DEF EnrichmentInv, ItemInWork, LyricsAnswered, AttemptsSettle, Writing, Unfinished

\* Every behaviour has the invariant.
LEMMA EnrichmentInvariant == EnrichmentSpec => []EnrichmentInv
BY EnrichmentInductive, EnrichmentInitially, PTL DEF EnrichmentSpec

\* Every variable of the enrichment keeps its type.
THEOREM EnrichmentTypeCorrect == EnrichmentSpec => []EnrichmentTypeOK
<1>1. EnrichmentInv => EnrichmentTypeOK
    BY DEF EnrichmentInv
<1>. QED
    BY <1>1, EnrichmentInvariant, PTL

\* A section that waits has a job that will end it, and the lyrics handler lets
\* others write while it asks (jobs/handlers/enrich_lyrics.py).
LEMMA SectionsSettle == EnrichmentSpec => [](AttemptsSettle /\ LyricsReservationIsShort)
<1>1. EnrichmentInv => AttemptsSettle /\ LyricsReservationIsShort
    BY DEF EnrichmentInv, LyricsAnswered, LyricsReservationIsShort, ShortReservation, Waiting
<1>. QED
    BY <1>1, EnrichmentInvariant, PTL

\* A failed provider is not concluded to have nothing; a review the user has
\* discarded gets no further proposal, and no handler that read it so opens it.
LEMMA SectionsStand ==
    ASSUME EnrichmentInv, [EnrichmentNext]_enrichmentVars
    PROVE  ReportsFailure /\ KeepsRejection
<1>1. CASE StoreResult
  <2>1. PICK ended \in Outcome :
            /\ attempt' = [attempt EXCEPT ![at.item] = ended]
            /\ StoresAtOnce(ended) \/ StoresAsRead
    BY <1>1 DEF StoreResult
  <2>2. at.step # "idle"
    BY <2>1 DEF StoresAtOnce, StoresAsRead
  <2>3. at.item \in Items /\ attempt'[at.item] = ended
    BY <2>1, <2>2 DEF EnrichmentInv, EnrichmentTypeOK, ItemInWork
  <2>4. proposed \in [Items -> BOOLEAN] /\ review \in [Items -> {"open", "discarded"}]
    BY DEF EnrichmentInv, EnrichmentTypeOK
  <2>5. ~Found /\ ended = "not_found" => ~Failed
    BY DEF Outcome
  <2>6. ReportsFailure
    BY <2>3, <2>5 DEF ReportsFailure, Concluded, Failed
  <2>7. ASSUME NEW i \in Items, review[i] = "discarded" PROVE proposed'[i] = proposed[i]
    BY <2>1, <2>3, <2>4, <2>7 DEF StoresAtOnce, StoresAsRead
  <2>8. ASSUME NEW i \in Items, review[i] = "discarded", review'[i] = "open"
        PROVE  at.item = i /\ at.step = "settles"
    BY <2>1, <2>3, <2>4, <2>8 DEF StoresAtOnce, StoresAsRead
  <2>. QED
    BY <2>6, <2>7, <2>8 DEF KeepsRejection
<1>2. CASE ~StoreResult
  <2>1. proposed' = proposed
    BY <1>2
       DEF EnrichmentNext, enrichmentVars, reviews, Discard, Reopen, Retry, Skip, Begin,
           EnrichmentEnqueue, CancelPending, AskCancel, Lease, CancelSeen, Fetched,
           FetchedFromCache, FetchFails, Downloaded, DownloadFails, CancelBeforeStore,
           PromotionReads, OutcomeReads, HandlerEnds, HandlerFails, CrashAndRecovery, JobEnds
  <2>2. ~(at.step # "idle" /\ at'.step = "idle" /\ job' = "running")
    BY <1>2
       DEF EnrichmentInv, ItemInWork, EnrichmentNext, enrichmentVars, working, Discard, Reopen,
           Retry, Skip, Begin, Between, EnrichmentEnqueue, CancelPending, AskCancel, Lease,
           CancelSeen, Fetched, FetchedFromCache, FetchFails, Downloaded, DownloadFails,
           CancelBeforeStore, PromotionReads, OutcomeReads, HandlerEnds, HandlerFails,
           CrashAndRecovery, JobEnds
  <2>3. review' = review \/ at' = at
    BY <1>2
       DEF EnrichmentNext, enrichmentVars, reviews, working, Discard, Reopen, Retry, Skip, Begin,
           EnrichmentEnqueue, CancelPending, AskCancel, Lease, CancelSeen, Fetched,
           FetchedFromCache, FetchFails, Downloaded, DownloadFails, CancelBeforeStore,
           PromotionReads, OutcomeReads, HandlerEnds, HandlerFails, CrashAndRecovery, JobEnds
  <2>. QED
    BY <2>1, <2>2, <2>3 DEF ReportsFailure, Concluded, KeepsRejection
<1>. QED
    BY <1>1, <1>2

-----------------------------------------------------------------------------
(* Imports: what is matched stays visible, whatever jobs drive the session.  *)

Shown == {"none", "prepared", "attention", "candidate"}

Places == Stages \cup {"ended", "between", "proposes", "hydrates", "matched"}

Matching == {"match", "proposes", "hydrates"}

\* What a review and a draft of it can be, and what each job proposed is matched.
ReviewsTyped ==
    /\ matched \subseteq Groups /\ planned \subseteq matched
    /\ importReview \in [Groups -> Shown]
    /\ importDraft \in [ImportJobs -> [Groups -> {"same", "prepared", "attention"}]]
    /\ ids \in [ImportJobs -> SUBSET Groups] /\ \A j \in ImportJobs : ids[j] \subseteq matched
    /\ created \in [ImportJobs -> Groups \cup {None}]
    /\ importAt \in [ImportJobs -> Places]

\* A review a job has prepared is of a work unit that is not matched; and while it
\* matches, the review it created last is one of those it has not committed.
DraftsAreUnmatched ==
    /\ \A j \in ImportJobs, g \in Groups : importDraft[j][g] = "prepared" => g \notin matched
    /\ \A j \in ImportJobs :
           importAt[j] \in Matching /\ created[j] # None =>
               importDraft[j][created[j]] # "same" /\ created[j] \notin matched

VisibleInv == ReviewsTyped /\ DraftsAreUnmatched /\ ProposedIsVisible

visible == <<matched, planned, importReview, importDraft, ids, created, importAt>>

\* A step of a job leaves the locals of the others alone.
LocalsOf(j) ==
    /\ importAt' \in [ImportJobs -> Places] /\ ids' \in [ImportJobs -> SUBSET Groups]
    /\ created' \in [ImportJobs -> Groups \cup {None}]
    /\ \A i \in ImportJobs \ {j} :
           importAt'[i] = importAt[i] /\ created'[i] = created[i] /\ ids'[i] = ids[i]

\* What touches none of these keeps it.
LEMMA UnchangedKeeps ==
    ASSUME VisibleInv, UNCHANGED visible
    PROVE  VisibleInv'
BY DEF VisibleInv, ReviewsTyped, DraftsAreUnmatched, ProposedIsVisible, visible

\* The review of a matched work unit outlives the commit of any draft.
LEMMA DraftShows ==
    ASSUME VisibleInv, NEW j \in ImportJobs, NEW g \in Groups
    PROVE  /\ ReviewOf(j, g) \in Shown
           /\ g \in matched => ReviewOf(j, g) \in {"candidate", "attention"}
<1>1. importDraft[j][g] \in {"same", "prepared", "attention"} /\ importReview[g] \in Shown
    BY DEF VisibleInv, ReviewsTyped
<1>2. g \in matched => /\ importDraft[j][g] # "prepared"
                     /\ importReview[g] \in {"candidate", "attention"}
    BY DEF VisibleInv, DraftsAreUnmatched, ProposedIsVisible
<1>. QED
    BY <1>1, <1>2 DEF ReviewOf, Shown

\* A commit keeps the invariant if the job is not matching afterwards, or has
\* forgotten the review it created.
LEMMA CommitKeeps ==
    ASSUME VisibleInv, NEW j \in ImportJobs, Commits(j),
           matched' = matched, planned' \subseteq matched, LocalsOf(j),
           importAt'[j] \in Matching => created'[j] = None,
           ids'[j] \in {{}, ids[j]}
    PROVE  VisibleInv'
<1>. USE DEF VisibleInv, ReviewsTyped, LocalsOf
<1>1. importReview' = [g \in Groups |-> ReviewOf(j, g)]
      /\ importDraft' = [importDraft EXCEPT ![j] = Same]
    BY DEF Commits
<1>2. importReview' \in [Groups -> Shown] /\ ProposedIsVisible'
    BY <1>1, DraftShows DEF ProposedIsVisible
<1>3. /\ importDraft' \in [ImportJobs -> [Groups -> {"same", "prepared", "attention"}]]
      /\ \A g \in Groups : importDraft'[j][g] = "same"
      /\ \A i \in ImportJobs \ {j} : importDraft'[i] = importDraft[i]
    BY <1>1 DEF Same
<1>4. \A i \in ImportJobs : ids'[i] \subseteq matched'
    OBVIOUS
<1>5. DraftsAreUnmatched'
  <2>1. \A i \in ImportJobs, g \in Groups : importDraft'[i][g] = "prepared" => g \notin matched'
    BY <1>3 DEF DraftsAreUnmatched
  <2>2. ASSUME NEW i \in ImportJobs, importAt'[i] \in Matching, created'[i] # None
        PROVE  importDraft'[i][created'[i]] # "same" /\ created'[i] \notin matched'
    <3>1. i # j /\ importAt'[i] = importAt[i] /\ created'[i] = created[i]
      BY <2>2
    <3>. QED
      BY <2>2, <3>1, <1>3 DEF DraftsAreUnmatched
  <2>. QED
    BY <2>1, <2>2 DEF DraftsAreUnmatched
<1>. QED
    BY <1>2, <1>3, <1>4, <1>5

\* The same where the locals of the handler go as well.
LEMMA LeavingKeeps ==
    ASSUME VisibleInv, NEW j \in ImportJobs, Commits(j), Leaves(j), UNCHANGED <<matched, planned>>
    PROVE  VisibleInv'
<1>1. LocalsOf(j) /\ importAt'[j] = "ended" /\ ids'[j] = {}
    BY DEF Leaves, LocalsOf, VisibleInv, ReviewsTyped, Places
<1>. QED
    BY <1>1, CommitKeeps DEF Matching, VisibleInv, ReviewsTyped

LEMMA SessionCancelKeeps ==
    ASSUME VisibleInv, NEW j \in ImportJobs, CancelSession(j)
    PROVE  VisibleInv'
BY LeavingKeeps DEF CancelSession, ImportEnds

\* The end of a stage keeps it: the handler matches no more.
LEMMA FinishKeeps ==
    ASSUME VisibleInv, NEW j \in ImportJobs, NEW s, NEW rows, Finishes(j, s, rows)
    PROVE  VisibleInv'
<1>1. CASE Requested(j)
    BY <1>1, LeavingKeeps DEF Finishes, ImportEnds
<1>2. CASE ~Requested(j)
  <2>1. /\ Commits(j) /\ importAt' = [importAt EXCEPT ![j] = "between"]
        /\ UNCHANGED <<matched, planned, ids, created>>
    BY <1>2 DEF Finishes
  <2>2. LocalsOf(j) /\ importAt'[j] = "between" /\ ids'[j] = ids[j]
    BY <2>1 DEF VisibleInv, ReviewsTyped, LocalsOf, Places
  <2>. QED
    BY <2>1, <2>2, CommitKeeps DEF Matching, VisibleInv, ReviewsTyped
<1>. QED
    BY <1>1, <1>2

\* What the orchestrator and the fingerprint stage do keeps it.
LEMMA StagesKeep ==
    ASSUME VisibleInv, NEW j \in ImportJobs, Orchestrate(j) \/ Fingerprint(j)
    PROVE  VisibleInv'
<1>1. ASSUME NEW s \in Stages, BeginStage(j, s) PROVE VisibleInv'
  <2>1. /\ Commits(j) /\ UNCHANGED <<matched, planned>>
        /\ importAt' = [importAt EXCEPT ![j] = s] /\ created' = [created EXCEPT ![j] = None]
        /\ ids' = [ids EXCEPT ![j] = {}]
    BY <1>1 DEF BeginStage
  <2>2. s \in Places
    BY DEF Places
  <2>3. LocalsOf(j) /\ created'[j] = None /\ ids'[j] = {}
    BY <2>1, <2>2 DEF VisibleInv, ReviewsTyped, LocalsOf
  <2>. QED
    BY <2>1, <2>3, CommitKeeps DEF VisibleInv, ReviewsTyped
<1>2. ASSUME NEW s \in Stages, EndQuickStage(j, s) PROVE VisibleInv'
    BY <1>2, FinishKeeps DEF EndQuickStage
<1>3. ASSUME NEW s \in Stages, StageFails(j, s) PROVE VisibleInv'
    BY <1>3, LeavingKeeps DEF StageFails, ImportEnds
<1>4. CASE CancelBetween(j) \/ CancelScan(j) \/ CancelFingerprint(j)
    BY <1>4, SessionCancelKeeps DEF CancelBetween, CancelScan, CancelFingerprint
<1>5. CASE Review(j)
    BY <1>5, LeavingKeeps DEF Review, ImportEnds
<1>6. ASSUME NEW t \in Tracks, LookupFails(j, t) PROVE VisibleInv'
    BY <1>6, LeavingKeeps DEF LookupFails
<1>7. ASSUME NEW t \in Tracks, FingerprintOne(j, t) PROVE VisibleInv'
  <2>1. UNCHANGED visible
    BY <1>7 DEF FingerprintOne, visible
  <2>. QED
    BY <2>1, UnchangedKeeps
<1>8. CASE EndFingerprint(j)
    BY <1>8, FinishKeeps DEF EndFingerprint
<1>. QED
    BY <1>1, <1>2, <1>3, <1>4, <1>5, <1>6, <1>7, <1>8 DEF Orchestrate, Fingerprint

\* The first review of a work unit, before the network is asked.
LEMMA PrepareKeeps ==
    ASSUME VisibleInv, NEW j \in ImportJobs, NEW g \in Groups, PrepareReview(j, g)
    PROVE  VisibleInv'
<1>. USE DEF VisibleInv, ReviewsTyped, Places
<1>1. /\ UNCHANGED <<matched, planned, importReview, ids>> /\ importAt[j] = "match"
      /\ importAt' = [importAt EXCEPT ![j] = "proposes"]
    BY DEF PrepareReview, run
<1>2. CASE ReviewOf(j, g) # "none"
  <2>1. UNCHANGED <<importDraft, created>>
    BY <1>2 DEF PrepareReview
  <2>. QED
    BY <1>1, <2>1 DEF DraftsAreUnmatched, Matching, ProposedIsVisible
<1>3. CASE ReviewOf(j, g) = "none"
  <2>1. /\ importDraft' = [importDraft EXCEPT ![j][g] = "prepared"]
        /\ created' = [created EXCEPT ![j] = g]
    BY <1>3 DEF PrepareReview
  <2>2. g \notin matched
    BY <1>3, DraftShows
  <2>3. /\ importDraft' \in [ImportJobs -> [Groups -> {"same", "prepared", "attention"}]]
        /\ created' \in [ImportJobs -> Groups \cup {None}] /\ created'[j] = g
        /\ importDraft'[j][g] = "prepared"
        /\ \A c \in Groups \ {g} : importDraft'[j][c] = importDraft[j][c]
        /\ \A i \in ImportJobs \ {j} : /\ importDraft'[i] = importDraft[i]
                                       /\ created'[i] = created[i] /\ importAt'[i] = importAt[i]
    BY <1>1, <2>1
  <2>4. \A i \in ImportJobs, c \in Groups : importDraft'[i][c] = "prepared" => c \notin matched
    BY <2>2, <2>3 DEF DraftsAreUnmatched
  <2>5. ASSUME NEW i \in ImportJobs, importAt'[i] \in Matching, created'[i] # None
        PROVE  importDraft'[i][created'[i]] # "same" /\ created'[i] \notin matched
    BY <2>2, <2>3, <2>5 DEF DraftsAreUnmatched
  <2>6. DraftsAreUnmatched'
    BY <1>1, <2>4, <2>5 DEF DraftsAreUnmatched
  <2>. QED
    BY <1>1, <2>3, <2>6 DEF ProposedIsVisible
<1>. QED
    BY <1>2, <1>3

\* A review that needs attention stays a draft.
LEMMA AttentionKeeps ==
    ASSUME VisibleInv, NEW j \in ImportJobs, NEW g \in Groups, NeedsAttention(j, g) \/ Strong(j, g)
    PROVE  VisibleInv'
<1>. USE DEF VisibleInv, ReviewsTyped, Places
<1>1. PICK place \in {"match", "hydrates"} : importAt' = [importAt EXCEPT ![j] = place]
    BY DEF NeedsAttention, Strong
<1>2. importAt[j] = "proposes" /\ UNCHANGED <<matched, planned, importReview, ids, created>>
    BY DEF NeedsAttention, Strong, run
<1>3. importDraft' = importDraft \/ importDraft' = [importDraft EXCEPT ![j][g] = "attention"]
    BY DEF NeedsAttention, Strong
<1>4. /\ importDraft' \in [ImportJobs -> [Groups -> {"same", "prepared", "attention"}]]
      /\ \A i \in ImportJobs, c \in Groups :
             \/ importDraft'[i][c] = importDraft[i][c] \/ importDraft'[i][c] = "attention"
    BY <1>3
<1>5. DraftsAreUnmatched'
  <2>1. \A i \in ImportJobs, c \in Groups : importDraft'[i][c] = "prepared" => c \notin matched'
    BY <1>2, <1>4 DEF DraftsAreUnmatched
  <2>2. ASSUME NEW i \in ImportJobs, importAt'[i] \in Matching, created'[i] # None
        PROVE  importDraft'[i][created'[i]] # "same" /\ created'[i] \notin matched'
    <3>1. importAt[i] \in Matching /\ created[i] # None /\ created[i] \in Groups
      BY <1>1, <1>2, <2>2 DEF Matching
    <3>2. importDraft[i][created[i]] # "same" /\ created[i] \notin matched
      BY <3>1 DEF DraftsAreUnmatched
    <3>. QED
      BY <1>2, <1>4, <3>1, <3>2
  <2>. QED
    BY <2>1, <2>2 DEF DraftsAreUnmatched
<1>6. ReviewsTyped'
  <2>0. place \in Places
    BY DEF Stages
  <2>. HIDE DEF Places
  <2>1. importAt' \in [ImportJobs -> Places]
    BY <1>1, <2>0
  <2>. QED
    BY <1>2, <1>4, <2>1
<1>7. ProposedIsVisible'
    BY <1>2 DEF ProposedIsVisible
<1>. HIDE DEF ReviewsTyped, Places
<1>. QED
    BY <1>5, <1>6, <1>7

\* A job that gives up after the network answered deletes the review it created
\* last, which is of no matched work unit.
LEMMA GivingUpKeeps ==
    ASSUME VisibleInv, NEW j \in ImportJobs, NEW g \in Groups, CancelAfterFetch(j, g)
    PROVE  VisibleInv'
<1>. USE DEF VisibleInv, ReviewsTyped, Places
<1>1. /\ importAt[j] \in {"proposes", "hydrates"} /\ UNCHANGED <<matched, planned>>
      /\ importReview' = [c \in Groups |-> IF c = created[j] THEN "none" ELSE importReview[c]]
      /\ importDraft' = [importDraft EXCEPT ![j] = Same]
      /\ importAt' = [importAt EXCEPT ![j] = "ended"] /\ created' = [created EXCEPT ![j] = None]
      /\ ids' = [ids EXCEPT ![j] = {}]
    BY DEF CancelAfterFetch, ImportEnds, Leaves
<1>2. created[j] \notin matched
    BY <1>1, ImportsConstantsAssumption DEF DraftsAreUnmatched, Matching
<1>3. importReview' \in [Groups -> Shown] /\ ProposedIsVisible'
    BY <1>1, <1>2 DEF ProposedIsVisible, Shown
<1>4. /\ importDraft' \in [ImportJobs -> [Groups -> {"same", "prepared", "attention"}]]
      /\ \A c \in Groups : importDraft'[j][c] = "same"
      /\ \A i \in ImportJobs \ {j} : importDraft'[i] = importDraft[i]
    BY <1>1 DEF Same
<1>5. DraftsAreUnmatched'
    BY <1>1, <1>4 DEF DraftsAreUnmatched, Matching
<1>. QED
    BY <1>1, <1>3, <1>4, <1>5

\* A candidate is committed with every draft before it, when no other job has one.
LEMMA ComposeInv ==
    ASSUME VisibleInv, NEW j \in ImportJobs, NEW g \in Groups, Compose(j, g)
    PROVE  VisibleInv'
<1>. USE DEF VisibleInv, ReviewsTyped, Places
<1>1. PICK found_ \in {"candidate", "attention"} :
          importReview' = [c \in Groups |-> IF c = g THEN found_ ELSE ReviewOf(j, c)]
    BY DEF Compose
<1>2. /\ importDraft' = [importDraft EXCEPT ![j] = Same] /\ matched' = matched \cup {g}
      /\ ids' = [ids EXCEPT ![j] = @ \cup {g}] /\ created' = [created EXCEPT ![j] = None]
      /\ importAt' = [importAt EXCEPT ![j] = "match"] /\ planned' = planned /\ ImportMayWrite(j)
    BY DEF Compose
<1>3. importReview' \in [Groups -> Shown] /\ ProposedIsVisible'
    BY <1>1, <1>2, DraftShows DEF ProposedIsVisible, Shown
<1>4. /\ importDraft' \in [ImportJobs -> [Groups -> {"same", "prepared", "attention"}]]
      /\ \A i \in ImportJobs, c \in Groups : importDraft'[i][c] = "same"
  <2>1. \A i \in ImportJobs \ {j} : importDraft[i] = Same
    BY <1>2 DEF ImportMayWrite, Drafting
  <2>. QED
    BY <1>2, <2>1 DEF Same
<1>5. /\ ids' \in [ImportJobs -> SUBSET Groups]
      /\ \A i \in ImportJobs : ids'[i] \subseteq matched'
    BY <1>2
<1>6. DraftsAreUnmatched'
  <2>1. \A i \in ImportJobs \ {j} : importAt[i] \in Matching => created[i] = None
    BY <1>2, ImportsConstantsAssumption
       DEF DraftsAreUnmatched, ImportMayWrite, Drafting, Same
  <2>. QED
    BY <1>2, <1>4, <2>1 DEF DraftsAreUnmatched
<1>7. ReviewsTyped'
  <2>0. "match" \in Places
    BY DEF Stages
  <2>. HIDE DEF Places
  <2>1. importAt' \in [ImportJobs -> Places]
    BY <1>2, <2>0
  <2>2. created' \in [ImportJobs -> Groups \cup {None}]
    BY <1>2
  <2>3. matched' \subseteq Groups /\ planned' \subseteq matched'
    BY <1>2
  <2>. QED
    BY <1>3, <1>4, <1>5, <2>1, <2>2, <2>3
<1>. HIDE DEF ReviewsTyped, Places
<1>. QED
    BY <1>3, <1>6, <1>7

\* The end of the match stage plans what the job proposed.
LEMMA MatchEndKeeps ==
    ASSUME VisibleInv, NEW j \in ImportJobs, EndMatch(j)
    PROVE  VisibleInv'
<1>. USE DEF VisibleInv, ReviewsTyped, Places
<1>1. CASE Requested(j)
  <2>1. /\ importDraft' = [importDraft EXCEPT ![j] = Same]
        /\ UNCHANGED <<matched, planned, importReview>> /\ Leaves(j)
    BY <1>1 DEF EndMatch
  <2>2. /\ importDraft' \in [ImportJobs -> [Groups -> {"same", "prepared", "attention"}]]
        /\ \A c \in Groups : importDraft'[j][c] = "same"
        /\ \A i \in ImportJobs \ {j} : importDraft'[i] = importDraft[i]
    BY <2>1 DEF Same
  <2>. QED
    BY <2>1, <2>2 DEF DraftsAreUnmatched, Matching, Leaves, ProposedIsVisible
<1>2. CASE ~Requested(j)
  <2>1. /\ planned' = planned \cup ids[j] /\ importAt' = [importAt EXCEPT ![j] = "matched"]
        /\ UNCHANGED <<matched, ids, created>>
        /\ Commits(j) \/ UNCHANGED <<importReview, importDraft>>
    BY <1>2 DEF EndMatch
  <2>2. planned' \subseteq matched'
    BY <2>1
  <2>3. CASE UNCHANGED <<importReview, importDraft>>
    BY <2>1, <2>2, <2>3 DEF DraftsAreUnmatched, Matching, ProposedIsVisible
  <2>4. CASE Commits(j)
    <3>1. LocalsOf(j) /\ importAt'[j] = "matched" /\ ids'[j] = ids[j]
      BY <2>1 DEF LocalsOf, Places
    <3>. QED
      BY <2>1, <2>2, <2>4, <3>1, CommitKeeps DEF Matching
  <2>. QED
    BY <2>1, <2>3, <2>4
<1>. QED
    BY <1>1, <1>2

\* What the service, the queue and recovery do keeps it: none of them commits what
\* a job has drafted.
LEMMA ServiceKeeps ==
    ASSUME VisibleInv, NEW j \in ImportJobs,
           \/ ImportEnqueue(j) \/ Link(j) \/ Cancel(j) \/ PropagateReads(j) \/ PropagateWrites(j)
           \/ ImportLease(j) \/ ImportDies(j)
    PROVE  VisibleInv'
<1>1. CASE ImportEnqueue(j) \/ Link(j) \/ Cancel(j) \/ PropagateReads(j) \/ PropagateWrites(j)
  <2>1. UNCHANGED visible
    BY <1>1
       DEF ImportEnqueue, Link, Cancel, PropagateReads, PropagateWrites, visible, run, own
  <2>. QED
    BY <2>1, UnchangedKeeps
<1>2. CASE ImportLease(j)
  <2>1. /\ UNCHANGED <<matched, planned, importReview, importDraft, ids, created>>
        /\ importAt' = [importAt EXCEPT ![j] = "between"]
    BY <1>2 DEF ImportLease, run
  <2>. QED
    BY <2>1 DEF VisibleInv, ReviewsTyped, DraftsAreUnmatched, ProposedIsVisible, Matching, Places
<1>3. CASE ImportDies(j)
  <2>1. /\ importDraft' = [importDraft EXCEPT ![j] = Same]
        /\ UNCHANGED <<matched, planned, importReview>> /\ Leaves(j)
    BY <1>3 DEF ImportDies, run
  <2>2. /\ importDraft' \in [ImportJobs -> [Groups -> {"same", "prepared", "attention"}]]
        /\ \A c \in Groups : importDraft'[j][c] = "same"
        /\ \A i \in ImportJobs \ {j} : importDraft'[i] = importDraft[i]
    BY <2>1 DEF Same, VisibleInv, ReviewsTyped
  <2>. QED
    BY <2>1, <2>2
       DEF VisibleInv, ReviewsTyped, DraftsAreUnmatched, ProposedIsVisible, Matching, Places, Leaves
<1>. QED
    BY <1>1, <1>2, <1>3

\* Every step of every job keeps it.
LEMMA VisibleInductive == VisibleInv /\ [ImportsNext]_importsVars => VisibleInv'
<1>. SUFFICES ASSUME VisibleInv, [ImportsNext]_importsVars PROVE VisibleInv'
    OBVIOUS
<1>1. ASSUME NEW j \in ImportJobs, Match(j) PROVE VisibleInv'
  <2>1. ASSUME LeaveMatch(j) PROVE VisibleInv'
    BY <2>1, FinishKeeps DEF LeaveMatch
  <2>2. ASSUME CancelNext(j) PROVE VisibleInv'
    BY <2>2, SessionCancelKeeps DEF CancelNext
  <2>. QED
    BY <1>1, <2>1, <2>2, PrepareKeeps, AttentionKeeps, GivingUpKeeps, ComposeInv, MatchEndKeeps
       DEF Match
<1>2. CASE UNCHANGED importsVars
  <2>1. UNCHANGED visible
    BY <1>2 DEF importsVars, run, own, visible
  <2>. QED
    BY <2>1, UnchangedKeeps
<1>. QED
    BY <1>1, <1>2, ServiceKeeps, StagesKeep DEF ImportsNext, ImportStep, Stops

\* A session begins with nothing matched.
LEMMA VisibleInitially == ImportsInit => VisibleInv
<1>. SUFFICES ASSUME ImportsInit PROVE VisibleInv
    OBVIOUS
<1>1. ReviewsTyped
    BY DEF ImportsInit, ReviewsTyped, Shown, Same, Places
<1>2. DraftsAreUnmatched /\ ProposedIsVisible
    BY DEF ImportsInit, DraftsAreUnmatched, ProposedIsVisible, Same, Matching
<1>. QED
    BY <1>1, <1>2 DEF VisibleInv

\* However many jobs drive the session at once, what they proposed stays visible.
LEMMA ProposedStays == ImportsSpec => []VisibleInv
BY VisibleInductive, VisibleInitially, PTL DEF ImportsSpec

\* The variables of an import keep their types, also when jobs overlap.
THEOREM ImportsTypeCorrect == ImportsSpec => []ImportsTypeOK
<1>. DEFINE SessionTyped ==
                /\ DOMAIN state = SessionFields /\ importCurrent \in ImportJobs \cup {0}
                /\ finished \subseteq Stages /\ overlapped \in BOOLEAN /\ stops \in 0..MaxStops
<1>1. ImportsInit => SessionTyped
  <2>. SUFFICES ASSUME ImportsInit PROVE SessionTyped
    OBVIOUS
  <2>1. DOMAIN state = SessionFields /\ importCurrent = 0
    BY DEF ImportsInit, FreshSession
  <2>2. finished = {} /\ overlapped = FALSE /\ stops = 0
    BY DEF ImportsInit
  <2>3. stops \in 0..MaxStops
    BY <2>2, ImportsConstantsAssumption
  <2>. QED
    BY <2>1, <2>2, <2>3
<1>2. SessionTyped /\ [ImportsNext]_importsVars => SessionTyped'
  <2>. SUFFICES ASSUME SessionTyped, [ImportsNext]_importsVars PROVE SessionTyped'
    OBVIOUS
  <2>1. ASSUME NEW j \in ImportJobs, Orchestrate(j)
        PROVE  importCurrent' = importCurrent /\ DOMAIN state' = SessionFields
    BY <2>1 DEF Orchestrate, BeginStage, EndQuickStage, StageFails, CancelBetween, CancelScan,
                Review, Finishes, CancelSession, ImportEnds, Store
  <2>2. ASSUME NEW j \in ImportJobs, Fingerprint(j)
        PROVE  /\ importCurrent' = importCurrent
               /\ state' = state \/ DOMAIN state' = SessionFields
    BY <2>2 DEF Fingerprint, FingerprintOne, LookupFails, CancelFingerprint, EndFingerprint,
                Finishes, CancelSession, ImportEnds, Store
  <2>3. ASSUME NEW j \in ImportJobs, Match(j)
        PROVE  /\ importCurrent' = importCurrent
               /\ state' = state \/ DOMAIN state' = SessionFields
    BY <2>3 DEF Match, PrepareReview, CancelAfterFetch, NeedsAttention, Strong, Compose, CancelNext,
                EndMatch, LeaveMatch, Finishes, CancelSession, ImportEnds, Store, run
  <2>4. ASSUME NEW j \in ImportJobs,
               \/ ImportEnqueue(j) \/ Link(j) \/ Cancel(j) \/ PropagateReads(j)
               \/ PropagateWrites(j) \/ ImportLease(j) \/ ImportDies(j)
        PROVE  /\ importCurrent' \in {importCurrent, j}
               /\ state' = state \/ DOMAIN state' = SessionFields
    BY <2>4 DEF ImportEnqueue, Link, Cancel, PropagateReads, PropagateWrites, ImportLease,
                ImportDies, run
  <2>5. CASE UNCHANGED importsVars
    BY <2>5 DEF importsVars, run, past
  <2>6. CASE ImportsNext
    <3>1. finished' \subseteq Stages /\ overlapped' \in BOOLEAN
      BY <2>6 DEF ImportsNext, Remembers, Overlaps
    <3>2. stops' \in 0..MaxStops
      BY <2>6, ImportsConstantsAssumption DEF ImportsNext, Stops
    <3>3. DOMAIN state' = SessionFields /\ importCurrent' \in ImportJobs \cup {0}
      BY <2>1, <2>2, <2>3, <2>4, <2>6 DEF ImportsNext, ImportStep, Stops
    <3>. QED
      BY <3>1, <3>2, <3>3
  <2>. QED
    BY <2>5, <2>6
<1>3. VisibleInv /\ SessionTyped => ImportsTypeOK
    BY DEF VisibleInv, ReviewsTyped, ImportsTypeOK
<1>. QED
    BY <1>1, <1>2, <1>3, ProposedStays, PTL DEF ImportsSpec

-----------------------------------------------------------------------------
(* Imports: the session and its tasks, whatever jobs drive them.             *)

Rows == [SessionFields -> {"pending", "running", "done", "failed", "cancelled", "reviewing"}
                              \cup {"scanning", "fingerprinting", "grouping", "matching"}]

\* The stage a handler is in.
StageAt(place) == IF place \in {"proposes", "hydrates", "matched"} THEN "match" ELSE place

RowsTyped ==
    /\ state \in Rows /\ seen \in [ImportJobs -> Rows] /\ (told # None => told \in Rows)
    /\ importAt \in [ImportJobs -> Places] /\ finished \subseteq Stages

\* A handler holds the stage it is in as not done.
InStage ==
    \A j \in ImportJobs :
        importAt[j] # "ended" /\ StageAt(importAt[j]) \in Stages =>
            seen[j][StageAt(importAt[j])] # "done"

\* Whoever holds a stage as done, it was done.
DoneWasDone ==
    \A s \in Stages :
        /\ state[s] = "done" => s \in finished
        /\ \A j \in ImportJobs : seen[j][s] = "done" => s \in finished
        /\ told # None /\ told[s] = "done" => s \in finished

\* Until two work on the session at once, the rows that are held are those committed.
HoldsCurrent ==
    \/ overlapped
    \/ /\ ~Overlaps
       /\ \A j \in ImportJobs : importAt[j] # "ended" => seen[j] = state
       /\ told # None => told = state

SessionInv == RowsTyped /\ InStage /\ DoneWasDone /\ HoldsCurrent /\ ReviewingIsComplete

\* How a handler changes the rows it holds: what is done stays done, and it shows
\* the session for review only when all is.
Onward(rows, new) ==
    /\ \A s \in Stages : rows[s] = "done" => new[s] = "done"
    /\ new.session = "reviewing" /\ rows.session # "reviewing" =>
           \A s \in Stages : new[s] = "done"

\* What a step of the handler of job j comes to, which assigns `new` to rows it
\* holds as `rows`, and then goes on at `place`.
Turn(j, rows, new) ==
    /\ importAt[j] # "ended" /\ rows \in {seen[j], state} /\ new \in Rows /\ Onward(rows, new)
    /\ Store(rows, new)
    /\ UNCHANGED told

TurnEnds(j) ==
    /\ importAt' = [importAt EXCEPT ![j] = "ended"]
    /\ Holds(j, FreshSession)

TurnGoesOn(j, new, place) ==
    /\ importAt' = [importAt EXCEPT ![j] = place] /\ place # "ended"
    /\ Holds(j, new)
    /\ StageAt(place) \in Stages => new[StageAt(place)] # "done"

LEMMA FreshRows ==
    FreshSession \in Rows /\ \A s \in Stages : FreshSession[s] # "done"
BY DEF FreshSession, Rows, SessionFields, Stages

\* What rows become by an assignment to those held: a stage in them that is done was
\* done before, or is now recorded.
LEMMA StoreWrites ==
    ASSUME SessionInv, NEW rows \in Rows, NEW new \in Rows, Onward(rows, new), Store(rows, new),
           \A s \in Stages : rows[s] = "done" => s \in finished, Remembers
    PROVE  /\ state' \in Rows /\ finished' \subseteq Stages /\ finished \subseteq finished'
           /\ \A s \in Stages : state'[s] = "done" => s \in finished'
           /\ \A s \in Stages : new[s] = "done" => s \in finished'
           /\ state'.session = "reviewing" => finished' = Stages
           /\ rows = state => state' = new
           /\ \A s \in Stages : state[s] = "done" /\ state'[s] # "done" => rows[s] # "done"
<1>1. /\ Stages \subseteq SessionFields /\ "session" \in SessionFields
      /\ finished' = finished \cup {s \in Stages : state'[s] = "done"} /\ finished \subseteq Stages
    BY DEF SessionFields, Stages, Remembers, SessionInv, RowsTyped
<1>2. /\ state' = [f \in SessionFields |-> IF new[f] # rows[f] THEN new[f] ELSE state[f]]
      /\ state \in Rows
    BY DEF Store, SessionInv, RowsTyped
<1>3. state' \in Rows /\ (rows = state => state' = new)
    BY <1>2 DEF Rows
<1>4. \A s \in Stages : new[s] = "done" => s \in finished'
    BY <1>1, <1>2
<1>5. \A s \in Stages : state[s] = "done" /\ state'[s] # "done" => rows[s] # "done"
    BY <1>1, <1>2 DEF Onward
<1>6. state'.session = "reviewing" => finished' = Stages
  <2>1. CASE state.session = "reviewing"
    BY <1>1, <2>1 DEF SessionInv, ReviewingIsComplete
  <2>2. CASE state.session # "reviewing" /\ state'.session = "reviewing"
    <3>1. new.session = "reviewing" /\ rows.session # "reviewing"
      BY <1>1, <1>2, <2>2
    <3>. QED
      BY <1>1, <1>4, <3>1 DEF Onward
  <2>. QED
    BY <2>1, <2>2
<1>. QED
    BY <1>1, <1>3, <1>4, <1>5, <1>6

\* A handler's step keeps the invariant, whoever else works on the session.
LEMMA TurnKeeps ==
    ASSUME SessionInv, NEW j \in ImportJobs, NEW rows, NEW new, Turn(j, rows, new), Remembers,
           TurnEnds(j) \/ \E place \in Places : TurnGoesOn(j, new, place)
    PROVE  SessionInv' /\ KeepsDone
<1>1. /\ rows \in Rows /\ new \in Rows /\ Onward(rows, new) /\ Store(rows, new)
      /\ \A s \in Stages : rows[s] = "done" => s \in finished
    BY DEF Turn, SessionInv, RowsTyped, DoneWasDone
<1>2. /\ state' \in Rows /\ finished' \subseteq Stages /\ finished \subseteq finished'
      /\ \A s \in Stages : state'[s] = "done" => s \in finished'
      /\ \A s \in Stages : new[s] = "done" => s \in finished'
      /\ state'.session = "reviewing" => finished' = Stages
      /\ rows = state => state' = new
      /\ \A s \in Stages : state[s] = "done" /\ state'[s] # "done" => rows[s] # "done"
    BY <1>1, StoreWrites
<1>3. /\ importAt' \in [ImportJobs -> Places] /\ seen' \in [ImportJobs -> Rows]
      /\ \A i \in ImportJobs \ {j} : importAt'[i] = importAt[i] /\ seen'[i] = seen[i]
  <2>1. CASE TurnEnds(j)
    BY <2>1, FreshRows DEF TurnEnds, Holds, SessionInv, RowsTyped, Places
  <2>2. ASSUME NEW place \in Places, TurnGoesOn(j, new, place)
        PROVE  /\ importAt' \in [ImportJobs -> Places] /\ seen' \in [ImportJobs -> Rows]
               /\ \A i \in ImportJobs \ {j} : importAt'[i] = importAt[i] /\ seen'[i] = seen[i]
    BY <1>1, <2>2 DEF TurnGoesOn, Holds, SessionInv, RowsTyped
  <2>. QED
    BY <2>1, <2>2
<1>4. \/ importAt'[j] = "ended" /\ seen'[j] = FreshSession
      \/ /\ importAt'[j] # "ended" /\ seen'[j] = new
         /\ StageAt(importAt'[j]) \in Stages => new[StageAt(importAt'[j])] # "done"
  <2>1. CASE TurnEnds(j)
    BY <2>1 DEF TurnEnds, Holds, SessionInv, RowsTyped
  <2>2. ASSUME NEW place \in Places, TurnGoesOn(j, new, place)
        PROVE  /\ importAt'[j] # "ended" /\ seen'[j] = new
               /\ StageAt(importAt'[j]) \in Stages => new[StageAt(importAt'[j])] # "done"
    BY <2>2 DEF TurnGoesOn, Holds, SessionInv, RowsTyped
  <2>. QED
    BY <2>1, <2>2
<1>5. told' = told /\ importAt[j] # "ended"
    BY DEF Turn
<1>6. RowsTyped'
    BY <1>2, <1>3, <1>5 DEF SessionInv, RowsTyped
<1>7. InStage'
    BY <1>3, <1>4 DEF SessionInv, InStage
<1>8. DoneWasDone'
    BY <1>2, <1>3, <1>4, <1>5, FreshRows DEF SessionInv, DoneWasDone
<1>9. ~overlapped => /\ ~Overlaps /\ told = None /\ seen[j] = state /\ rows = state
                     /\ \A i \in ImportJobs \ {j} : importAt[i] = "ended"
    BY <1>5 DEF SessionInv, HoldsCurrent, Overlaps, Turn
<1>10. HoldsCurrent'
    BY <1>2, <1>3, <1>4, <1>5, <1>9 DEF HoldsCurrent, Remembers
<1>11. ReviewingIsComplete'
  <2>1. CASE overlapped'
    BY <1>2, <2>1 DEF ReviewingIsComplete
  <2>2. ASSUME ~overlapped', state'.session = "reviewing"
        PROVE  \A s \in Stages : state'[s] = "done"
    <3>1. ~overlapped /\ rows = state /\ state' = new
      BY <1>2, <1>9, <2>2 DEF Remembers
    <3>. QED
      BY <1>1, <2>2, <3>1 DEF Onward, SessionInv, ReviewingIsComplete
  <2>. QED
    BY <1>2, <2>1, <2>2 DEF ReviewingIsComplete
<1>12. KeepsDone
  <2>1. ASSUME NEW s \in Stages, state[s] = "done", state'[s] # "done"
        PROVE  overlapped /\ importAt[j] # "ended" /\ seen[j][s] # "done"
    <3>1. rows[s] # "done" /\ rows # state /\ rows = seen[j]
      BY <1>2, <2>1 DEF Turn
    <3>. QED
      BY <1>5, <1>9, <3>1
  <2>. QED
    BY <2>1 DEF KeepsDone
<1>. QED
    BY <1>6, <1>7, <1>8, <1>10, <1>11, <1>12 DEF SessionInv

\* The rows of a session that is closed, or whose stage changes.
LEMMA ClosedRows ==
    ASSUME NEW rows \in Rows
    PROVE  ClosedSession(rows) \in Rows /\ Onward(rows, ClosedSession(rows))
BY DEF ClosedSession, Onward, Rows, SessionFields, Stages

LEMMA StageRows ==
    ASSUME NEW rows \in Rows, NEW s \in Stages, rows[s] # "done"
    PROVE  /\ [rows EXCEPT !.session = NameOf(s), ![s] = "running"] \in Rows
           /\ Onward(rows, [rows EXCEPT !.session = NameOf(s), ![s] = "running"])
           /\ [rows EXCEPT !.session = NameOf(s), ![s] = "running"][s] = "running"
           /\ [rows EXCEPT !.session = "failed", ![s] = "failed"] \in Rows
           /\ Onward(rows, [rows EXCEPT !.session = "failed", ![s] = "failed"])
<1>1. NameOf(s) \in {"scanning", "fingerprinting", "grouping", "matching"}
    BY DEF NameOf, Stages
<1>2. s \in SessionFields /\ s # "session" /\ "session" \in SessionFields
    BY DEF SessionFields, Stages
<1>3. Stages \subseteq SessionFields /\ "session" \notin Stages
    BY DEF SessionFields, Stages
<1>. QED
    BY <1>1, <1>2, <1>3 DEF Onward, Rows

LEMMA DoneRows ==
    ASSUME NEW rows \in Rows, NEW s \in Stages
    PROVE  [rows EXCEPT ![s] = "done"] \in Rows /\ Onward(rows, [rows EXCEPT ![s] = "done"])
<1>1. Stages \subseteq SessionFields /\ "session" \notin Stages
    BY DEF SessionFields, Stages
<1>. QED
    BY <1>1 DEF Onward, Rows

LEMMA ReviewRows ==
    ASSUME NEW rows \in Rows, \A s \in Stages : rows[s] = "done"
    PROVE  /\ [rows EXCEPT !.session = "reviewing"] \in Rows
           /\ Onward(rows, [rows EXCEPT !.session = "reviewing"])
BY DEF Onward, Rows, SessionFields, Stages

\* What a handler holds, and what is committed, are rows.
LEMMA HeldRows ==
    ASSUME SessionInv, NEW j \in ImportJobs
    PROVE  seen[j] \in Rows /\ state \in Rows /\ importAt[j] \in Places
BY DEF SessionInv, RowsTyped

\* A handler that cancels the session, by the rows it holds or by those committed.
LEMMA CancelTurn ==
    ASSUME SessionInv, NEW j \in ImportJobs, importAt[j] # "ended", Remembers,
           NEW rows \in {seen[j], state}, Store(rows, ClosedSession(rows)), Leaves(j),
           UNCHANGED told
    PROVE  SessionInv' /\ KeepsDone
<1>1. Turn(j, rows, ClosedSession(rows))
    BY HeldRows, ClosedRows DEF Turn
<1>2. TurnEnds(j)
    BY DEF Leaves, TurnEnds
<1>. QED
    BY <1>1, <1>2, TurnKeeps

LEMMA FinishTurn ==
    ASSUME SessionInv, NEW j \in ImportJobs, importAt[j] # "ended", NEW s \in Stages, Remembers,
           NEW rows \in {seen[j], state}, Finishes(j, s, rows)
    PROVE  SessionInv' /\ KeepsDone
<1>1. CASE Requested(j)
    BY <1>1, CancelTurn DEF Finishes, ImportEnds
<1>2. CASE ~Requested(j)
  <2>. DEFINE new == [rows EXCEPT ![s] = "done"]
  <2>1. new \in Rows /\ Onward(rows, new)
    BY HeldRows, DoneRows
  <2>2. Store(rows, new) /\ Holds(j, new) /\ importAt' = [importAt EXCEPT ![j] = "between"]
        /\ UNCHANGED told
    BY <1>2 DEF Finishes
  <2>. HIDE DEF new
  <2>3. Turn(j, rows, new)
    BY <2>1, <2>2 DEF Turn
  <2>4. TurnGoesOn(j, new, "between") /\ "between" \in Places
    BY <2>2 DEF TurnGoesOn, StageAt, Stages, Places
  <2>. QED
    BY <2>3, <2>4, TurnKeeps
<1>. QED
    BY <1>1, <1>2

\* The stages that fail end the job.
LEMMA FailTurn ==
    ASSUME SessionInv, NEW j \in ImportJobs, NEW s \in Stages, importAt[j] = s, Remembers,
           Store(seen[j], [seen[j] EXCEPT !.session = "failed", ![s] = "failed"]),
           Leaves(j), UNCHANGED told
    PROVE  SessionInv' /\ KeepsDone
<1>. DEFINE new == [seen[j] EXCEPT !.session = "failed", ![s] = "failed"]
<1>1. importAt[j] # "ended" /\ StageAt(importAt[j]) = s
    BY DEF Stages, StageAt
<1>2. seen[j][s] # "done"
    BY <1>1 DEF SessionInv, InStage
<1>3. new \in Rows /\ Onward(seen[j], new)
    BY <1>2, HeldRows, StageRows
<1>4. Store(seen[j], new)
    OBVIOUS
<1>. HIDE DEF new
<1>5. Turn(j, seen[j], new) /\ TurnEnds(j)
    BY <1>1, <1>3, <1>4 DEF Turn, TurnEnds, Leaves
<1>. QED
    BY <1>5, TurnKeeps

\* A step that writes no row of the session, and where the handler stays in its stage.
LEMMA QuietTurn ==
    ASSUME SessionInv, NEW j \in ImportJobs, importAt[j] # "ended", Remembers,
           UNCHANGED <<state, seen, told>>,
           NEW place \in Places, importAt' = [importAt EXCEPT ![j] = place], place # "ended",
           StageAt(place) \in Stages => StageAt(place) = StageAt(importAt[j])
    PROVE  SessionInv' /\ KeepsDone
<1>1. Store(seen[j], seen[j]) /\ Holds(j, seen[j])
    BY HeldRows DEF Store, Holds, Rows, SessionInv, RowsTyped
<1>2. Turn(j, seen[j], seen[j])
    BY <1>1, HeldRows DEF Turn, Onward
<1>3. TurnGoesOn(j, seen[j], place)
    BY <1>1 DEF TurnGoesOn, SessionInv, InStage
<1>. QED
    BY <1>2, <1>3, TurnKeeps

\* The orchestrator's steps.
LEMMA OrchestratorTurns ==
    ASSUME SessionInv, NEW j \in ImportJobs, Orchestrate(j), Remembers
    PROVE  SessionInv' /\ KeepsDone
<1>1. ASSUME NEW s \in Stages, BeginStage(j, s) PROVE SessionInv' /\ KeepsDone
  <2>. DEFINE new == [seen[j] EXCEPT !.session = NameOf(s), ![s] = "running"]
  <2>1. importAt[j] # "ended" /\ seen[j][s] # "done"
    BY <1>1 DEF BeginStage
  <2>2. new \in Rows /\ Onward(seen[j], new) /\ new[s] = "running"
    BY <2>1, HeldRows, StageRows
  <2>3. Store(seen[j], new) /\ Holds(j, new) /\ importAt' = [importAt EXCEPT ![j] = s]
        /\ UNCHANGED told
    BY <1>1 DEF BeginStage
  <2>. HIDE DEF new
  <2>4. Turn(j, seen[j], new)
    BY <2>1, <2>2, <2>3 DEF Turn
  <2>5. TurnGoesOn(j, new, s) /\ s \in Places
    BY <2>2, <2>3 DEF TurnGoesOn, StageAt, Stages, Places
  <2>. QED
    BY <2>4, <2>5, TurnKeeps
<1>2. ASSUME NEW s \in Stages, EndQuickStage(j, s) PROVE SessionInv' /\ KeepsDone
  <2>1. importAt[j] # "ended" /\ Finishes(j, s, state)
    BY <1>2 DEF EndQuickStage
  <2>. QED
    BY <2>1, FinishTurn
<1>3. ASSUME NEW s \in Stages, StageFails(j, s) PROVE SessionInv' /\ KeepsDone
    BY <1>3, FailTurn DEF StageFails, ImportEnds
<1>4. CASE CancelBetween(j) \/ CancelScan(j)
    BY <1>4, CancelTurn DEF CancelBetween, CancelScan, CancelSession, ImportEnds
<1>5. CASE Review(j)
  <2>. DEFINE new == [seen[j] EXCEPT !.session = "reviewing"]
  <2>1. importAt[j] # "ended" /\ \A s \in Stages : seen[j][s] = "done"
    BY <1>5 DEF Review
  <2>2. new \in Rows /\ Onward(seen[j], new)
    BY <2>1, HeldRows, ReviewRows
  <2>3. Store(seen[j], new) /\ Leaves(j) /\ UNCHANGED told
    BY <1>5 DEF Review, ImportEnds
  <2>. HIDE DEF new
  <2>4. Turn(j, seen[j], new) /\ TurnEnds(j)
    BY <2>1, <2>2, <2>3 DEF Turn, TurnEnds, Leaves
  <2>. QED
    BY <2>4, TurnKeeps
<1>. QED
    BY <1>1, <1>2, <1>3, <1>4, <1>5 DEF Orchestrate

\* The fingerprint stage's steps.
LEMMA FingerprintTurns ==
    ASSUME SessionInv, NEW j \in ImportJobs, Fingerprint(j), Remembers
    PROVE  SessionInv' /\ KeepsDone
<1>1. ASSUME NEW t \in Tracks, FingerprintOne(j, t) PROVE SessionInv' /\ KeepsDone
  <2>1. /\ importAt[j] = "fingerprint" /\ UNCHANGED <<state, seen, told>>
        /\ importAt' = [importAt EXCEPT ![j] = importAt[j]]
    BY <1>1 DEF FingerprintOne, SessionInv, RowsTyped
  <2>. QED
    BY <2>1, HeldRows, QuietTurn
<1>2. ASSUME NEW t \in Tracks, LookupFails(j, t) PROVE SessionInv' /\ KeepsDone
  <2>1. /\ importAt[j] = "fingerprint" /\ Leaves(j) /\ UNCHANGED told
        /\ Store(seen[j], [seen[j] EXCEPT !.session = "failed", !.fingerprint = "failed"])
        /\ "fingerprint" \in Stages
    BY <1>2 DEF LookupFails, Stages
  <2>. QED
    BY <2>1, FailTurn
<1>3. CASE CancelFingerprint(j)
    BY <1>3, CancelTurn DEF CancelFingerprint, CancelSession, ImportEnds
<1>4. CASE EndFingerprint(j)
  <2>1. /\ importAt[j] = "fingerprint" /\ Finishes(j, "fingerprint", seen[j])
        /\ "fingerprint" \in Stages
    BY <1>4 DEF EndFingerprint, Stages
  <2>. QED
    BY <2>1, FinishTurn
<1>. QED
    BY <1>1, <1>2, <1>3, <1>4 DEF Fingerprint

\* The match stage's steps.
LEMMA MatchTurns ==
    ASSUME SessionInv, NEW j \in ImportJobs, Match(j), Remembers
    PROVE  SessionInv' /\ KeepsDone
<1>1. ASSUME NEW g \in Groups,
             PrepareReview(j, g) \/ NeedsAttention(j, g) \/ Strong(j, g) \/ Compose(j, g)
      PROVE  SessionInv' /\ KeepsDone
  <2>1. PICK place \in Matching : importAt' = [importAt EXCEPT ![j] = place]
    BY <1>1 DEF PrepareReview, NeedsAttention, Strong, Compose, Matching
  <2>2. importAt[j] \in Matching /\ UNCHANGED <<state, seen, told>>
    BY <1>1 DEF PrepareReview, NeedsAttention, Strong, Compose, Matching, run
  <2>3. /\ importAt[j] # "ended" /\ place # "ended" /\ place \in Places
        /\ StageAt(place) = "match" /\ StageAt(importAt[j]) = "match"
    BY <2>2 DEF Matching, StageAt, Places, Stages
  <2>. QED
    BY <2>1, <2>2, <2>3, QuietTurn
<1>2. ASSUME NEW g \in Groups, CancelAfterFetch(j, g) PROVE SessionInv' /\ KeepsDone
    BY <1>2, CancelTurn DEF CancelAfterFetch, ImportEnds
<1>3. CASE CancelNext(j)
    BY <1>3, CancelTurn DEF CancelNext, CancelSession, ImportEnds
<1>4. CASE EndMatch(j)
  <2>1. importAt[j] = "match" /\ UNCHANGED told
    BY <1>4 DEF EndMatch
  <2>2. CASE Requested(j)
    BY <1>4, <2>1, <2>2, CancelTurn DEF EndMatch
  <2>3. CASE ~Requested(j)
    <3>1. /\ importAt' = [importAt EXCEPT ![j] = "matched"]
          /\ UNCHANGED <<state, seen>>
      BY <1>4, <2>3 DEF EndMatch
    <3>2. StageAt("matched") = StageAt(importAt[j]) /\ "matched" \in Places
      BY <2>1 DEF StageAt, Places
    <3>. QED
      BY <2>1, <3>1, <3>2, QuietTurn
  <2>. QED
    BY <2>2, <2>3
<1>5. CASE LeaveMatch(j)
  <2>1. importAt[j] = "matched" /\ Finishes(j, "match", seen[j]) /\ "match" \in Stages
    BY <1>5 DEF LeaveMatch, Stages
  <2>. QED
    BY <2>1, FinishTurn
<1>. QED
    BY <1>1, <1>2, <1>3, <1>4, <1>5 DEF Match

\* What touches no row, and no handler, keeps the invariant.
LEMMA RowsStay ==
    ASSUME SessionInv, UNCHANGED <<state, seen, importAt, told>>,
           Remembers \/ UNCHANGED <<finished, overlapped>>
    PROVE  SessionInv' /\ KeepsDone
<1>1. finished' = finished
    BY DEF Remembers, SessionInv, DoneWasDone
<1>2. Overlaps' = Overlaps
    BY DEF Overlaps
<1>3. overlapped => overlapped'
    BY DEF Remembers
<1>4. ~overlapped' => ~overlapped
    BY <1>3
<1>5. HoldsCurrent'
    BY <1>2, <1>4 DEF SessionInv, HoldsCurrent
<1>6. RowsTyped' /\ InStage' /\ DoneWasDone'
    BY <1>1 DEF SessionInv, RowsTyped, InStage, DoneWasDone
<1>7. ReviewingIsComplete' /\ KeepsDone
    BY <1>1, <1>3 DEF SessionInv, ReviewingIsComplete, KeepsDone
<1>. QED
    BY <1>5, <1>6, <1>7 DEF SessionInv

\* What the service, the queue and recovery do.
LEMMA ServiceTurns ==
    ASSUME SessionInv, NEW j \in ImportJobs, Remembers,
           \/ ImportEnqueue(j) \/ Link(j) \/ Cancel(j) \/ PropagateReads(j) \/ PropagateWrites(j)
           \/ ImportLease(j) \/ ImportDies(j)
    PROVE  SessionInv' /\ KeepsDone
<1>1. CASE ImportEnqueue(j) \/ Link(j) \/ Cancel(j)
    BY <1>1, RowsStay DEF ImportEnqueue, Link, Cancel, run, own
<1>2. CASE PropagateReads(j)
  <2>1. /\ UNCHANGED <<state, seen, importAt>> /\ told = None /\ told' \in {None, state}
    BY <1>2 DEF PropagateReads, run, own
  <2>2. /\ finished' = finished /\ (overlapped => overlapped')
        /\ overlapped' = (overlapped \/ Overlaps')
    BY <2>1 DEF Remembers, SessionInv, DoneWasDone
  <2>3. RowsTyped' /\ InStage' /\ DoneWasDone'
    BY <2>1, <2>2 DEF SessionInv, RowsTyped, InStage, DoneWasDone
  <2>4. HoldsCurrent'
    BY <2>1, <2>2 DEF SessionInv, HoldsCurrent
  <2>5. ReviewingIsComplete' /\ KeepsDone
    BY <2>1, <2>2 DEF SessionInv, ReviewingIsComplete, KeepsDone
  <2>. QED
    BY <2>3, <2>4, <2>5 DEF SessionInv
<1>3. CASE PropagateWrites(j)
  <2>1. /\ told # None /\ told' = None /\ UNCHANGED <<seen, importAt>> /\ told \in Rows
        /\ Store(told, ClosedSession(told))
    BY <1>3 DEF PropagateWrites, own, SessionInv, RowsTyped, Store
  <2>2. ClosedSession(told) \in Rows /\ Onward(told, ClosedSession(told))
    BY <2>1, ClosedRows
  <2>3. \A s \in Stages : told[s] = "done" => s \in finished
    BY <2>1 DEF SessionInv, DoneWasDone
  <2>4. /\ state' \in Rows /\ finished' \subseteq Stages /\ finished \subseteq finished'
        /\ \A s \in Stages : state'[s] = "done" => s \in finished'
        /\ state'.session = "reviewing" => finished' = Stages
        /\ told = state => state' = ClosedSession(told)
        /\ \A s \in Stages : state[s] = "done" /\ state'[s] # "done" => told[s] # "done"
    BY <2>1, <2>2, <2>3, StoreWrites
  <2>5. ~overlapped => /\ ~Overlaps /\ told = state
                       /\ \A i \in ImportJobs : importAt[i] = "ended"
    BY <2>1 DEF SessionInv, HoldsCurrent, Overlaps
  <2>6. RowsTyped' /\ InStage' /\ DoneWasDone'
    BY <2>1, <2>4 DEF SessionInv, RowsTyped, InStage, DoneWasDone
  <2>7. HoldsCurrent'
    BY <2>1, <2>5 DEF HoldsCurrent, Remembers
  <2>8. ReviewingIsComplete'
    <3>1. ~overlapped' => ~overlapped
      BY DEF Remembers
    <3>2. ~overlapped => state'.session # "reviewing"
      BY <2>4, <2>5 DEF ClosedSession, SessionFields
    <3>. QED
      BY <2>4, <3>1, <3>2 DEF ReviewingIsComplete
  <2>9. KeepsDone
    <3>1. ASSUME NEW s \in Stages, state[s] = "done", state'[s] # "done"
          PROVE  overlapped /\ told # None /\ told[s] # "done"
      BY <2>1, <2>4, <2>5, <3>1
    <3>. QED
      BY <3>1 DEF KeepsDone
  <2>. QED
    BY <2>6, <2>7, <2>8, <2>9 DEF SessionInv
<1>4. ASSUME ImportLease(j) \/ ImportDies(j) PROVE SessionInv' /\ KeepsDone
  <2>1. PICK place \in {"between", "ended"} :
            /\ importAt' = [importAt EXCEPT ![j] = place]
            /\ \/ place = "between" /\ Holds(j, state)
               \/ place = "ended" /\ Holds(j, FreshSession)
    BY <1>4 DEF ImportLease, ImportDies, Leaves
  <2>2. UNCHANGED <<state, told>>
    BY <1>4 DEF ImportLease, ImportDies, run
  <2>3. /\ finished' = finished /\ (overlapped => overlapped')
        /\ overlapped' = (overlapped \/ Overlaps')
    BY <2>2 DEF Remembers, SessionInv, DoneWasDone
  <2>4. /\ importAt' \in [ImportJobs -> Places] /\ seen' \in [ImportJobs -> Rows]
        /\ importAt'[j] = place /\ StageAt(place) \notin Stages
        /\ \/ place = "between" /\ seen'[j] = state
           \/ place = "ended" /\ seen'[j] = FreshSession
        /\ \A i \in ImportJobs \ {j} : importAt'[i] = importAt[i] /\ seen'[i] = seen[i]
    BY <2>1, FreshRows DEF Holds, SessionInv, RowsTyped, Places, StageAt, Stages
  <2>5. RowsTyped' /\ InStage'
    BY <2>2, <2>3, <2>4 DEF SessionInv, RowsTyped, InStage
  <2>6. DoneWasDone'
    BY <2>2, <2>3, <2>4, FreshRows DEF SessionInv, DoneWasDone
  <2>7. HoldsCurrent'
    BY <2>2, <2>3, <2>4 DEF SessionInv, HoldsCurrent
  <2>8. ReviewingIsComplete' /\ KeepsDone
    BY <2>2, <2>3 DEF SessionInv, ReviewingIsComplete, KeepsDone
  <2>. QED
    BY <2>5, <2>6, <2>7, <2>8 DEF SessionInv
<1>. QED
    BY <1>1, <1>2, <1>3, <1>4

\* Every step keeps the invariant, and changes what is done only as stated.
LEMMA SessionInductive ==
    ASSUME SessionInv, [ImportsNext]_importsVars
    PROVE  SessionInv' /\ KeepsDone
<1>1. CASE UNCHANGED importsVars
  <2>1. UNCHANGED <<state, seen, importAt, told, finished, overlapped>>
    BY <1>1 DEF importsVars, run, own, past
  <2>. QED
    BY <2>1, RowsStay
<1>. QED
    BY <1>1, ServiceTurns, OrchestratorTurns, FingerprintTurns, MatchTurns
       DEF ImportsNext, ImportStep, Stops

\* A session begins with no job.
LEMMA SessionInitially == ImportsInit => SessionInv
<1>. SUFFICES ASSUME ImportsInit PROVE SessionInv
    OBVIOUS
<1>1. RowsTyped
    BY FreshRows DEF ImportsInit, RowsTyped, Places
<1>2. InStage /\ DoneWasDone
    BY FreshRows DEF ImportsInit, InStage, DoneWasDone
<1>3. HoldsCurrent
    BY DEF ImportsInit, HoldsCurrent, Overlaps
<1>4. ReviewingIsComplete
    BY DEF ImportsInit, ReviewingIsComplete, FreshSession, SessionFields
<1>. QED
    BY <1>1, <1>2, <1>3, <1>4 DEF SessionInv

\* Every behaviour has the invariant, however many jobs drive the session.
LEMMA SessionStays == ImportsSpec => []SessionInv
<1>1. SessionInv /\ [ImportsNext]_importsVars => SessionInv'
    BY SessionInductive
<1>. QED
    BY <1>1, SessionInitially, PTL DEF ImportsSpec

-----------------------------------------------------------------------------
(* Retrieval: the shortlist.                                                 *)

\* The numbers have a least one in every set that is not empty.
LEMMA Least ==
    ASSUME NEW T \in SUBSET Nat, T # {}
    PROVE  \E n \in T : \A m \in T : n <= m
<1>1. PICK n \in T : \A m \in T : <<m, n>> \notin OpToRel(<, Nat)
    BY NatLessThanWellFounded, WFMin, Zenon
<1>2. \A m \in T : ~(m < n)
    BY <1>1 DEF OpToRel
<1>. QED
    BY <1>2

ResultsTyped == \A p \in Providers : found[p].refs \in Seq(Ids)

\* Where a candidate that was heard is named first.
LEMMA RankIs ==
    ASSUME ResultsTyped, NEW c \in Heard
    PROVE  /\ RankOf(c) \in Nat \ {0} /\ RankOf(c) \in DOMAIN found[c[1]].refs
           /\ found[c[1]].refs[RankOf(c)] = c[2]
           /\ \A k \in 1..(RankOf(c) - 1) : found[c[1]].refs[k] # c[2]
<1>. DEFINE refs == found[c[1]].refs
            T == {i \in DOMAIN refs : refs[i] = c[2]}
<1>1. refs \in Seq(Ids)
    BY DEF Heard, Candidates, ResultsTyped
<1>2. DOMAIN refs \subseteq Nat \ {0} /\ DOMAIN refs = 1..Len(refs) /\ Len(refs) \in Nat
    BY <1>1
<1>3. T # {} /\ T \in SUBSET Nat
    BY <1>2 DEF Heard
<1>4. PICK n \in T : \A m \in T : n <= m
    BY <1>3, Least
<1>5. \A k \in 1..(n - 1) : refs[k] # c[2]
  <2>. SUFFICES ASSUME NEW k \in 1..(n - 1), refs[k] = c[2] PROVE FALSE
    OBVIOUS
  <2>1. n \in 1..Len(refs) /\ n \in Nat
    BY <1>2
  <2>2. k \in DOMAIN refs
    BY <1>2, <2>1
  <2>3. k \in T
    BY <2>2
  <2>. QED
    BY <1>4, <2>1, <2>3
<1>6. \E i \in DOMAIN refs : refs[i] = c[2] /\ \A k \in 1..(i - 1) : refs[k] # c[2]
    BY <1>4, <1>5
<1>7. /\ RankOf(c) \in DOMAIN refs /\ refs[RankOf(c)] = c[2]
      /\ \A k \in 1..(RankOf(c) - 1) : refs[k] # c[2]
    BY <1>6 DEF RankOf
<1>. QED
    BY <1>2, <1>7

\* The summaries come in an order: of two candidates one comes sooner.
LEMMA SoonerOrders ==
    ASSUME ResultsTyped, NEW order \in Orders
    PROVE  /\ \A c \in Heard : ~Sooner(order, c, c)
           /\ \A c, d \in Heard : c # d => Sooner(order, c, d) \/ Sooner(order, d, c)
           /\ \A c, d, e \in Heard :
                  Sooner(order, c, d) /\ Sooner(order, d, e) => Sooner(order, c, e)
<1>1. \A c \in Heard : RankOf(c) \in Nat /\ found[c[1]].refs[RankOf(c)] = c[2]
    BY RankIs
<1>2. \A c \in Heard : c \in Candidates /\ c[1] \in Providers /\ c = <<c[1], c[2]>>
    BY DEF Heard, Candidates
<1>3. Cardinality(Providers) \in Nat
    BY RetrievalConstantsAssumption, FS_CardinalityType
<1>4. \A p, q \in Providers : order[p] \in Nat /\ (order[p] = order[q] => p = q)
    BY <1>3 DEF Orders
<1>5. \A c \in Heard : ~Sooner(order, c, c)
    BY <1>1, <1>2, <1>4 DEF Sooner
<1>6. ASSUME NEW c \in Heard, NEW d \in Heard, c # d
      PROVE  Sooner(order, c, d) \/ Sooner(order, d, c)
  <2>1. CASE RankOf(c) # RankOf(d)
    BY <1>1, <2>1 DEF Sooner
  <2>2. CASE RankOf(c) = RankOf(d)
    <3>1. c[1] # d[1]
      BY <1>1, <1>2, <1>6, <2>2
    <3>2. order[c[1]] # order[d[1]] /\ order[c[1]] \in Nat /\ order[d[1]] \in Nat
      BY <1>2, <1>4, <3>1
    <3>. QED
      BY <2>2, <3>2 DEF Sooner
  <2>. QED
    BY <2>1, <2>2
<1>7. ASSUME NEW c \in Heard, NEW d \in Heard, NEW e \in Heard,
             Sooner(order, c, d), Sooner(order, d, e)
      PROVE  Sooner(order, c, e)
  <2>1. /\ RankOf(c) \in Nat /\ RankOf(d) \in Nat /\ RankOf(e) \in Nat
        /\ order[c[1]] \in Nat /\ order[d[1]] \in Nat /\ order[e[1]] \in Nat
    BY <1>1, <1>2, <1>4
  <2>. QED
    BY <1>7, <2>1 DEF Sooner
<1>. QED
    BY <1>5, <1>6, <1>7

Ahead(order, c) == {d \in Heard : Sooner(order, d, c)}

\* What was heard is finite.
LEMMA HeardIsFinite ==
    IsFiniteSet(Heard) /\ \A S \in SUBSET Heard : IsFiniteSet(S) /\ Cardinality(S) \in Nat
<1>1. IsFiniteSet(Providers \X Ids)
    BY RetrievalConstantsAssumption, FS_Product
<1>2. Heard \in SUBSET (Providers \X Ids)
    BY DEF Heard, Candidates
<1>3. IsFiniteSet(Heard)
    BY <1>1, <1>2, FS_Subset
<1>. QED
    BY <1>3, FS_Subset, FS_CardinalityType

\* A candidate that comes sooner has fewer ahead of it.
LEMMA FewerAhead ==
    ASSUME ResultsTyped, NEW order \in Orders,
           NEW c \in Heard, NEW d \in Heard, Sooner(order, c, d)
    PROVE  Cardinality(Ahead(order, c)) < Cardinality(Ahead(order, d))
<1>1. Ahead(order, c) \in SUBSET Ahead(order, d)
    BY SoonerOrders DEF Ahead
<1>2. c \in Ahead(order, d) /\ c \notin Ahead(order, c)
    BY SoonerOrders DEF Ahead
<1>3. IsFiniteSet(Ahead(order, d)) /\ Ahead(order, c) \in SUBSET Heard
      /\ Ahead(order, d) \in SUBSET Heard
    BY HeardIsFinite DEF Ahead
<1>4. /\ Cardinality(Ahead(order, c)) <= Cardinality(Ahead(order, d))
      /\ Cardinality(Ahead(order, c)) # Cardinality(Ahead(order, d))
    BY <1>1, <1>2, <1>3, FS_Subset
<1>5. Cardinality(Ahead(order, c)) \in Nat /\ Cardinality(Ahead(order, d)) \in Nat
    BY <1>3, HeardIsFinite
<1>. QED
    BY <1>4, <1>5

\* The shortlist is no longer than its bound.
LEMMA ShortlistIsShort ==
    ASSUME ResultsTyped, NEW order \in Orders
    PROVE  /\ Shortlist(order) \subseteq Candidates
           /\ Cardinality(Shortlist(order)) <= HydrateLimit
<1>. DEFINE f == [c \in Shortlist(order) |-> Cardinality(Ahead(order, c))]
            Places_ == 0..(HydrateLimit - 1)
<1>1. HydrateLimit \in Nat
    BY RetrievalConstantsAssumption
<1>2. \A c \in Shortlist(order) : c \in Heard /\ Cardinality(Ahead(order, c)) \in Places_
  <2>. SUFFICES ASSUME NEW c \in Shortlist(order)
                PROVE  c \in Heard /\ Cardinality(Ahead(order, c)) \in Places_
    OBVIOUS
  <2>1. c \in Heard /\ Cardinality(Ahead(order, c)) < HydrateLimit
    BY DEF Shortlist, Ahead
  <2>2. Cardinality(Ahead(order, c)) \in Nat
    BY HeardIsFinite DEF Ahead
  <2>. QED
    BY <1>1, <2>1, <2>2
<1>3. f \in [Shortlist(order) -> Places_]
    BY <1>2
<1>4. ASSUME NEW c \in Shortlist(order), NEW d \in Shortlist(order), f[c] = f[d] PROVE c = d
  <2>1. c \in Heard /\ d \in Heard
    BY <1>2
  <2>2. Cardinality(Ahead(order, c)) = Cardinality(Ahead(order, d))
    BY <1>4
  <2>3. Cardinality(Ahead(order, c)) \in Nat
    BY <1>2
  <2>4. ~Sooner(order, c, d)
    BY <2>1, <2>2, <2>3, FewerAhead
  <2>5. ~Sooner(order, d, c)
    BY <2>1, <2>2, <2>3, FewerAhead
  <2>. QED
    BY <2>1, <2>4, <2>5, SoonerOrders
<1>5. f \in Injection(Shortlist(order), Places_)
    BY <1>3, <1>4 DEF Injection, IsInjective
<1>6. IsFiniteSet(Places_) /\ Cardinality(Places_) = HydrateLimit
  <2>1. /\ 0 \in Int /\ HydrateLimit - 1 \in Int
    BY <1>1
  <2>2. IsFiniteSet(Places_) /\ Cardinality(Places_) =
            IF 0 > HydrateLimit - 1 THEN 0 ELSE (HydrateLimit - 1) - 0 + 1
    BY <2>1, FS_Interval
  <2>. QED
    BY <1>1, <2>2
<1>. HIDE DEF f, Places_
<1>7. Cardinality(Shortlist(order)) <= Cardinality(Places_)
    BY <1>5, <1>6, FS_Injection
<1>8. Shortlist(order) \subseteq Candidates
    BY DEF Shortlist, Heard
<1>. QED
    BY <1>6, <1>7, <1>8

\* If every provider can have a place, the first candidate of each has one: ahead of
\* it are first candidates of other providers only.
LEMMA EachIsListed ==
    ASSUME ResultsTyped, NEW order \in Orders,
           HydrateLimit >= Cardinality(Providers),
           NEW p \in Providers, found[p].refs # <<>>
    PROVE  \E c \in Shortlist(order) : c[1] = p
<1>. DEFINE c == <<p, found[p].refs[1]>>
            f == [d \in Ahead(order, c) |-> d[1]]
<1>1. found[p].refs \in Seq(Ids) /\ 1 \in DOMAIN found[p].refs /\ found[p].refs[1] \in Ids
    BY DEF ResultsTyped
<1>2. c \in Heard /\ c[1] = p /\ c[2] = found[p].refs[1]
    BY <1>1 DEF Heard, Candidates
<1>3. RankOf(c) = 1
  <2>1. RankOf(c) \in Nat \ {0} /\ \A k \in 1..(RankOf(c) - 1) : found[p].refs[k] # c[2]
    BY <1>2, RankIs
  <2>2. RankOf(c) > 1 => 1 \in 1..(RankOf(c) - 1)
    BY <2>1
  <2>. QED
    BY <1>2, <2>1, <2>2
<1>. HIDE DEF c
<1>4. ASSUME NEW d \in Ahead(order, c)
      PROVE  /\ d \in Heard /\ RankOf(d) = 1 /\ d[1] \in Providers \ {p}
             /\ d = <<d[1], found[d[1]].refs[1]>>
  <2>1. d \in Heard /\ Sooner(order, d, c)
    BY DEF Ahead
  <2>2. RankOf(d) \in Nat \ {0} /\ found[d[1]].refs[RankOf(d)] = d[2]
    BY <2>1, RankIs
  <2>3. RankOf(d) = 1 /\ order[d[1]] < order[p]
    BY <1>2, <1>3, <2>1, <2>2 DEF Sooner
  <2>4. d[1] \in Providers /\ d = <<d[1], d[2]>>
    BY <2>1 DEF Heard, Candidates
  <2>5. d[1] # p
    <3>1. order[p] \in Nat
      BY RetrievalConstantsAssumption, FS_CardinalityType DEF Orders
    <3>. QED
      BY <2>3, <3>1
  <2>. QED
    BY <2>1, <2>2, <2>3, <2>4, <2>5
<1>5. f \in [Ahead(order, c) -> Providers \ {p}]
    BY <1>4
<1>6. \A d, e \in Ahead(order, c) : f[d] = f[e] => d = e
    BY <1>4
<1>7. f \in Injection(Ahead(order, c), Providers \ {p})
    BY <1>5, <1>6 DEF Injection, IsInjective
<1>8. /\ IsFiniteSet(Providers \ {p}) /\ Cardinality(Providers \ {p}) = Cardinality(Providers) - 1
      /\ Cardinality(Providers) \in Nat
    BY RetrievalConstantsAssumption, FS_RemoveElement, FS_CardinalityType
<1>. HIDE DEF f
<1>9. Cardinality(Ahead(order, c)) <= Cardinality(Providers) - 1
    BY <1>7, <1>8, FS_Injection
<1>10. Cardinality(Ahead(order, c)) \in Nat /\ HydrateLimit \in Nat
    BY RetrievalConstantsAssumption, HeardIsFinite DEF Ahead
<1>11. Cardinality(Ahead(order, c)) < HydrateLimit
    BY <1>8, <1>9, <1>10
<1>12. c \in Shortlist(order)
    BY <1>2, <1>11 DEF Shortlist, Ahead
<1>. QED
    BY <1>2, <1>12

-----------------------------------------------------------------------------
(* Retrieval and the cache: an absence that is shown was answered.           *)

Lists == Answers \cup {<<>>}

RetrievalTyped ==
    /\ searches \in [Providers -> [age : {"absent", "stale", "fresh"}, what : Lists]]
    /\ found \in [Providers -> [kind : {"unknown", "list", "error"}, refs : Lists]]
    /\ truth \in [Providers -> {"unasked", "nothing", "some", "error"}]
    /\ outcome \in [Providers -> {"none", "failed", "zero_results", "results"}]

\* An empty list was answered in this retrieval, unless the network is off; and a
\* failure left an error, or an older list that is not empty.
HeardTruly ==
    \A p \in Providers :
        /\ found[p].kind = "list" /\ found[p].refs = <<>> => offline \/ truth[p] = "nothing"
        /\ truth[p] = "error" => found[p] = SearchError \/ found[p].refs # <<>>
        /\ found[p].kind # "list" => found[p] \in {NotHeard, SearchError}

\* An empty list is never cached; and after the searches every provider was heard,
\* and its outcome follows from what was heard, or is a failure.
OutcomesFollow ==
    /\ \A p \in Providers : searches[p].age # "absent" => searches[p].what # <<>>
    /\ stage # "search" => \A p \in Providers : /\ found[p].kind # "unknown"
                                                /\ outcome[p] \in {SearchOutcome(p), "failed"}

RetrievalInv == RetrievalTyped /\ HeardTruly /\ OutcomesFollow

\* What is settled for one provider, in the searches.
LEMMA SettleKeeps ==
    ASSUME RetrievalInv, NEW p \in Providers, stage = "search",
           UNCHANGED <<offline, stage, outcome>>,
           NEW result \in [kind : {"list", "error"}, refs : Lists],
           NEW said \in {"unasked", "nothing", "some", "error"}, Settle(p, result, said),
           result.kind = "list" /\ result.refs = <<>> => offline \/ said = "nothing",
           said = "error" => result = SearchError \/ result.refs # <<>>,
           result.kind = "list" \/ result = SearchError,
           searches' = searches \/ \E refs \in Lists \ {<<>>} :
                                       searches' = [searches EXCEPT ![p] = Row(refs)]
    PROVE  RetrievalInv'
<1>. USE DEF RetrievalInv
<1>1. /\ found' = [found EXCEPT ![p] = result] /\ truth' = [truth EXCEPT ![p] = said]
    BY DEF Settle
<1>2. /\ found' \in [Providers -> [kind : {"unknown", "list", "error"}, refs : Lists]]
      /\ truth' \in [Providers -> {"unasked", "nothing", "some", "error"}]
    BY <1>1 DEF RetrievalTyped
<1>3. /\ searches' \in [Providers -> [age : {"absent", "stale", "fresh"}, what : Lists]]
      /\ \A q \in Providers : searches'[q].age # "absent" => searches'[q].what # <<>>
  <2>1. CASE searches' = searches
    BY <2>1 DEF RetrievalTyped, OutcomesFollow
  <2>2. ASSUME NEW refs \in Lists \ {<<>>}, searches' = [searches EXCEPT ![p] = Row(refs)]
        PROVE  /\ searches' \in [Providers -> [age : {"absent", "stale", "fresh"}, what : Lists]]
               /\ \A q \in Providers : searches'[q].age # "absent" => searches'[q].what # <<>>
    BY <2>2 DEF RetrievalTyped, OutcomesFollow, Row
  <2>. QED
    BY <2>1, <2>2
<1>4. HeardTruly'
    BY <1>1 DEF RetrievalTyped, HeardTruly
<1>. QED
    BY <1>2, <1>3, <1>4 DEF RetrievalTyped, OutcomesFollow

\* The searches: from the cache, from the network, and where it fails.
LEMMA SearchesKeep ==
    ASSUME RetrievalInv, NEW p \in Providers, Search(p) \/ SearchAnswered(p) \/ SearchFails(p)
    PROVE  RetrievalInv'
<1>. USE DEF RetrievalInv
<1>1. CASE Search(p)
  <2>1. stage = "search" /\ UNCHANGED <<offline, stage, searches, outcome>>
    BY <1>1 DEF Search, mode, cache
  <2>2. CASE ~refresh /\ ~offline /\ Fresh(searches[p])
    <3>1. Settle(p, List(searches[p].what), "unasked")
      BY <1>1, <2>2 DEF Search
    <3>2. List(searches[p].what) \in [kind : {"list", "error"}, refs : Lists]
          /\ searches[p].what # <<>>
      BY <2>2 DEF RetrievalTyped, OutcomesFollow, List, Fresh
    <3>. QED
      BY <2>1, <3>1, <3>2, SettleKeeps DEF List
  <2>3. CASE ~(~refresh /\ ~offline /\ Fresh(searches[p])) /\ offline
    <3>1. PICK refs \in Lists : Settle(p, List(refs), "unasked")
      BY <1>1, <2>3 DEF Search, RetrievalTyped, Lists
    <3>2. List(refs) \in [kind : {"list", "error"}, refs : Lists]
      BY DEF List
    <3>. QED
      BY <2>1, <2>3, <3>1, <3>2, SettleKeeps DEF List
  <2>4. CASE ~(~refresh /\ ~offline /\ Fresh(searches[p])) /\ ~offline
    <3>1. UNCHANGED <<offline, stage, searches, outcome, found, truth>>
      BY <1>1, <2>1, <2>4 DEF Search
    <3>. QED
      BY <3>1 DEF RetrievalTyped, HeardTruly, OutcomesFollow, SearchOutcome
  <2>. QED
    BY <2>2, <2>3, <2>4
<1>2. CASE SearchAnswered(p)
  <2>1. PICK refs \in Answers :
            /\ Settle(p, List(refs), IF refs = <<>> THEN "nothing" ELSE "some")
            /\ Stored(p, refs)
    BY <1>2 DEF SearchAnswered
  <2>2. /\ stage = "search" /\ UNCHANGED <<offline, stage, outcome>>
        /\ List(refs) \in [kind : {"list", "error"}, refs : Lists] 
        /\ List(refs).refs = refs /\ List(refs).kind = "list"
    BY <1>2 DEF SearchAnswered, mode, List, Lists
  <2>3. searches' = searches \/ \E some \in Lists \ {<<>>} :
                                    searches' = [searches EXCEPT ![p] = Row(some)]
    BY <2>1 DEF Stored, Lists
  <2>. QED
    BY <2>1, <2>2, <2>3, SettleKeeps
<1>3. CASE SearchFails(p)
  <2>1. PICK result \in {SearchError, List(searches[p].what)} :
            /\ Settle(p, result, "error")
            /\ result = SearchError \/ (result = List(searches[p].what) /\ searches[p].what # <<>>)
    BY <1>3 DEF SearchFails
  <2>2. /\ result \in [kind : {"list", "error"}, refs : Lists]
        /\ result = SearchError \/ (result.kind = "list" /\ result.refs # <<>>)
    BY <2>1 DEF RetrievalTyped, List, SearchError, Lists
  <2>3. stage = "search" /\ UNCHANGED <<offline, stage, searches, outcome>>
    BY <1>3 DEF SearchFails, mode, cache
  <2>. QED
    BY <2>1, <2>2, <2>3, SettleKeeps DEF SearchError
<1>. QED
    BY <1>1, <1>2, <1>3

\* A step that leaves the searches as they were heard.
LEMMA HeardKeeps ==
    ASSUME RetrievalInv, UNCHANGED <<offline, found, truth>>,
           searches' \in [Providers -> [age : {"absent", "stale", "fresh"}, what : Lists]],
           \A p \in Providers : searches'[p].age # "absent" => searches'[p].what # <<>>,
           outcome' \in [Providers -> {"none", "failed", "zero_results", "results"}],
           stage' # "search" => \A p \in Providers : /\ found[p].kind # "unknown"
                                                     /\ outcome'[p] \in {SearchOutcome(p), "failed"}
    PROVE  RetrievalInv'
BY DEF RetrievalInv, RetrievalTyped, HeardTruly, OutcomesFollow, SearchOutcome

\* A result that is known is no more the one of a search that is not over.
LEMMA HeardIsKnown ==
    ASSUME RetrievalInv, NEW p \in Providers, found[p] # NotHeard
    PROVE  found[p].kind # "unknown"
BY DEF RetrievalInv, HeardTruly, SearchError

\* The shortlist, the hydration, the caller's commit, and the age of the cache.
LEMMA HydrationKeeps ==
    ASSUME RetrievalInv,
           \/ Gathered \/ RetrievalDone \/ SweepCache
           \/ \E c \in Candidates : Hydrate(c) \/ HydrateAnswered(c) \/ HydrateFails(c)
           \/ \E p \in Providers : Expire(p)
    PROVE  RetrievalInv'
<1>. USE DEF RetrievalInv
<1>1. /\ searches \in [Providers -> [age : {"absent", "stale", "fresh"}, what : Lists]]
      /\ \A p \in Providers : searches[p].age # "absent" => searches[p].what # <<>>
      /\ outcome \in [Providers -> {"none", "failed", "zero_results", "results"}]
    BY DEF RetrievalTyped, OutcomesFollow
<1>2. CASE Gathered
  <2>1. /\ UNCHANGED <<offline, found, truth, searches>>
        /\ outcome' = [p \in Providers |-> SearchOutcome(p)]
        /\ \A p \in Providers : found[p] # NotHeard
    BY <1>2 DEF Gathered, mode, cache
  <2>2. \A p \in Providers : SearchOutcome(p) \in {"failed", "zero_results", "results"}
    BY DEF SearchOutcome
  <2>3. \A p \in Providers : found[p].kind # "unknown"
    BY <2>1, HeardIsKnown
  <2>. QED
    BY <1>1, <2>1, <2>2, <2>3, HeardKeeps
<1>3. CASE RetrievalDone
  <2>1. /\ UNCHANGED <<offline, found, truth, searches>> /\ stage = "hydrate"
        /\ outcome' \in [Providers -> {"none", "failed", "zero_results", "results"}]
        /\ \A p \in Providers : outcome'[p] \in {outcome[p], "failed"}
    BY <1>1, <1>3 DEF RetrievalDone, mode, cache
  <2>. QED
    BY <1>1, <2>1, HeardKeeps DEF OutcomesFollow
<1>4. ASSUME NEW c \in Candidates, Hydrate(c) \/ HydrateAnswered(c) \/ HydrateFails(c)
      PROVE  RetrievalInv'
  <2>1. UNCHANGED <<offline, stage, found, truth, searches, outcome>>
    BY <1>4 DEF Hydrate, HydrateAnswered, HydrateFails, mode, cache
  <2>. QED
    BY <1>1, <2>1, HeardKeeps DEF OutcomesFollow
<1>5. CASE SweepCache
  <2>1. /\ UNCHANGED <<offline, stage, found, truth, outcome>>
        /\ searches' = [p \in Providers |-> IF searches[p].age = "stale" THEN NoRow
                                            ELSE searches[p]]
    BY <1>5 DEF SweepCache, mode
  <2>2. NoRow \in [age : {"absent", "stale", "fresh"}, what : Lists] /\ NoRow.age = "absent"
    BY DEF NoRow, Lists
  <2>3. /\ searches' \in [Providers -> [age : {"absent", "stale", "fresh"}, what : Lists]]
        /\ \A p \in Providers : searches'[p].age # "absent" => searches'[p].what # <<>>
    BY <1>1, <2>1, <2>2
  <2>. QED
    BY <1>1, <2>1, <2>3, HeardKeeps DEF OutcomesFollow
<1>6. ASSUME NEW p \in Providers, Expire(p) PROVE RetrievalInv'
  <2>1. /\ UNCHANGED <<offline, stage, found, truth, outcome>>
        /\ searches' = [searches EXCEPT
               ![p] = IF @.age = "fresh" THEN [@ EXCEPT !.age = "stale"] ELSE @]
    BY <1>6 DEF Expire, mode
  <2>2. /\ searches' \in [Providers -> [age : {"absent", "stale", "fresh"}, what : Lists]]
        /\ \A q \in Providers : searches'[q].age # "absent" => searches'[q].what # <<>>
    BY <1>1, <2>1
  <2>. QED
    BY <1>1, <2>1, <2>2, HeardKeeps DEF OutcomesFollow
<1>. QED
    BY <1>2, <1>3, <1>4, <1>5, <1>6

\* A new retrieval has heard nothing.
LEMMA NothingHeard ==
    ASSUME searches \in [Providers -> [age : {"absent", "stale", "fresh"}, what : Lists]],
           \A p \in Providers : searches[p].age # "absent" => searches[p].what # <<>>,
           NothingYet, stage = "search"
    PROVE  RetrievalInv
<1>1. RetrievalTyped
    BY DEF NothingYet, RetrievalTyped, NotHeard, Lists
<1>2. HeardTruly
    BY DEF NothingYet, HeardTruly, NotHeard
<1>. QED
    BY <1>1, <1>2 DEF RetrievalInv, OutcomesFollow

LEMMA AgainKeeps ==
    ASSUME RetrievalInv, Again
    PROVE  RetrievalInv'
<1>1. /\ searches' = searches /\ stage' = "search"
      /\ found' = [p \in Providers |-> NotHeard] /\ truth' = [p \in Providers |-> "unasked"]
      /\ outcome' = [p \in Providers |-> "none"]
    BY DEF Again, cache
<1>2. RetrievalTyped'
    BY <1>1 DEF RetrievalInv, RetrievalTyped, NotHeard, Lists
<1>3. HeardTruly'
    BY <1>1 DEF HeardTruly, NotHeard
<1>. QED
    BY <1>1, <1>2, <1>3 DEF RetrievalInv, OutcomesFollow

LEMMA RetrievalInductive == RetrievalInv /\ [RetrievalNext]_retrievalVars => RetrievalInv'
<1>1. RetrievalInv /\ UNCHANGED retrievalVars => RetrievalInv'
    BY DEF retrievalVars, mode, cache, RetrievalInv, RetrievalTyped, HeardTruly, OutcomesFollow,
           SearchOutcome
<1>. QED
    BY <1>1, SearchesKeep, HydrationKeeps, AgainKeeps DEF RetrievalNext

LEMMA RetrievalInitially == RetrievalInit => RetrievalInv
<1>. SUFFICES ASSUME RetrievalInit PROVE RetrievalInv
    OBVIOUS
<1>1. /\ searches = [p \in Providers |-> NoRow] /\ NothingYet /\ stage = "search"
    BY DEF RetrievalInit
<1>2. /\ searches \in [Providers -> [age : {"absent", "stale", "fresh"}, what : Lists]]
      /\ \A p \in Providers : searches[p].age = "absent"
    BY <1>1 DEF NoRow, Lists
<1>. QED
    BY <1>1, <1>2, NothingHeard

\* A provider that failed is not shown as one without results, whatever the
\* providers answer and however the cache ages (matching/candidates.py).
THEOREM ZeroWasAnswered == RetrievalSpec => []FailureIsNotZero
<1>1. RetrievalInv => FailureIsNotZero
  <2>. SUFFICES ASSUME RetrievalInv, stage = "done", NEW p \in Providers
                PROVE  /\ outcome[p] = "zero_results" => offline \/ truth[p] = "nothing"
                       /\ truth[p] = "error" /\ outcome[p] # "failed" => found[p].refs # <<>>
    BY DEF FailureIsNotZero
  <2>1. /\ outcome[p] \in {SearchOutcome(p), "failed"}
        /\ found[p].kind \in {"list", "error"}
    BY DEF RetrievalInv, OutcomesFollow, RetrievalTyped
  <2>2. found[p].kind = "error" => found[p] = SearchError \/ found[p].refs # <<>>
    BY DEF SearchError, RetrievalInv, RetrievalTyped
  <2>. QED
    BY <2>1, <2>2 DEF SearchOutcome, RetrievalInv, HeardTruly, SearchError
<1>. QED
    BY <1>1, RetrievalInductive, RetrievalInitially, PTL DEF RetrievalSpec

\* What is cached of a release is of that release, and the shortlist is one.
ShortlistInv ==
    /\ RetrievalTypeOK /\ EachProviderHeard
    /\ releases \in [Candidates -> [age : {"absent", "stale", "fresh"},
                                    what : Candidates \cup {<<>>}]]

\* What the searches heard are lists of numbers.
LEMMA HeardTyped == RetrievalInv => ResultsTyped
<1>1. Lists \subseteq Seq(Ids)
  <2>1. <<>> \in Seq(Ids)
    OBVIOUS
  <2>. QED
    BY <2>1, RetrievalConstantsAssumption DEF Lists
<1>2. ASSUME RetrievalInv, NEW p \in Providers PROVE found[p].refs \in Lists
    BY <1>2 DEF RetrievalInv, RetrievalTyped
<1>. QED
    BY <1>1, <1>2 DEF ResultsTyped

\* The step from the searches to the hydration chooses a shortlist.
LEMMA GatheredLists ==
    ASSUME RetrievalInv, ShortlistInv, Gathered
    PROVE  ShortlistInv'
<1>1. PICK order \in Orders : shortlist' = Shortlist(order)
    BY DEF Gathered
<1>2. ResultsTyped
    BY HeardTyped
<1>3. /\ stage' = "hydrate" /\ UNCHANGED <<found, waits, releases, writing>>
    BY DEF Gathered, cache
<1>4. shortlist' \subseteq Candidates /\ Cardinality(shortlist') <= HydrateLimit
    BY <1>1, <1>2, ShortlistIsShort
<1>5. HydrateLimit >= Cardinality(Providers) =>
          \A p \in Providers : found[p].refs # <<>> => \E c \in shortlist' : c[1] = p
    BY <1>1, <1>2, EachIsListed
<1>. QED
    BY <1>3, <1>4, <1>5 DEF ShortlistInv, RetrievalTypeOK, EachProviderHeard

\* The other steps of a retrieval.
LEMMA ShortlistKeeps ==
    ASSUME ShortlistInv,
           \/ \E p \in Providers : Search(p) \/ SearchAnswered(p) \/ SearchFails(p) \/ Expire(p)
           \/ \E c \in Candidates : Hydrate(c) \/ HydrateAnswered(c) \/ HydrateFails(c)
           \/ RetrievalDone \/ Again \/ SweepCache \/ UNCHANGED retrievalVars
    PROVE  ShortlistInv'
<1>. USE DEF ShortlistInv, RetrievalTypeOK
<1>1. ASSUME NEW p \in Providers, Search(p) \/ SearchAnswered(p) \/ SearchFails(p)
      PROVE  ShortlistInv'
  <2>1. /\ stage = "search" /\ UNCHANGED <<stage, releases, shortlist>>
        /\ waits' \in {waits, waits \cup {p}, waits \ {p}} /\ writing' \in {writing, TRUE}
    BY <1>1 DEF Search, SearchAnswered, SearchFails, Settle, Stored, cache
  <2>. QED
    BY <2>1 DEF EachProviderHeard
<1>2. ASSUME NEW c \in Candidates, Hydrate(c) \/ HydrateAnswered(c) \/ HydrateFails(c)
      PROVE  ShortlistInv'
  <2>1. /\ UNCHANGED <<stage, found, shortlist>>
        /\ waits' \in {waits, waits \cup {c}, waits \ {c}} /\ writing' \in {writing, TRUE}
        /\ releases' = releases \/ releases' = [releases EXCEPT ![c] = Row(c)]
    BY <1>2 DEF Hydrate, HydrateAnswered, HydrateFails, Hydrated, cache
  <2>2. /\ releases' \in [Candidates -> [age : {"absent", "stale", "fresh"},
                                         what : Candidates \cup {<<>>}]]
        /\ \A d \in Candidates : releases'[d].age = "absent" \/ releases'[d].what = d
    BY <2>1 DEF Row
  <2>. QED
    BY <2>1, <2>2 DEF EachProviderHeard
<1>3. CASE RetrievalDone \/ UNCHANGED retrievalVars
  <2>1. /\ UNCHANGED <<releases, found, shortlist, waits>> /\ stage' \in {stage, "done"}
        /\ writing' \in {writing, FALSE} /\ (stage' # stage => stage = "hydrate")
    BY <1>3 DEF RetrievalDone, cache, mode, retrievalVars
  <2>. QED
    BY <2>1 DEF EachProviderHeard
<1>4. CASE Again
  <2>1. stage' = "search" /\ shortlist' = {} /\ waits' = {} /\ UNCHANGED <<releases, writing>>
    BY <1>4 DEF Again, cache
  <2>2. Cardinality({}) <= HydrateLimit
    BY FS_EmptySet, RetrievalConstantsAssumption
  <2>. QED
    BY <2>1, <2>2 DEF EachProviderHeard
<1>5. CASE SweepCache \/ \E p \in Providers : Expire(p)
  <2>1. UNCHANGED <<stage, found, shortlist, waits, writing>>
    BY <1>5 DEF SweepCache, Expire, mode
  <2>2. \A c \in Candidates :
            /\ releases[c] \in [age : {"absent", "stale", "fresh"},
                                what : Candidates \cup {<<>>}]
            /\ releases[c].age = "absent" \/ releases[c].what = c
    OBVIOUS
  <2>3. PICK aged \in [Candidates -> BOOLEAN], swept \in [Candidates -> BOOLEAN] :
            /\ \A c \in Candidates : aged[c] => releases[c].age = "fresh"
            /\ releases' = [c \in Candidates |->
                               IF swept[c] THEN NoRow
                               ELSE IF aged[c] THEN [releases[c] EXCEPT !.age = "stale"]
                                    ELSE releases[c]]
    <3>1. CASE SweepCache
      <4>1. releases' = [c \in Candidates |->
                            IF [d \in Candidates |-> releases[d].age = "stale"][c] THEN NoRow
                            ELSE IF [d \in Candidates |-> FALSE][c]
                                 THEN [releases[c] EXCEPT !.age = "stale"] ELSE releases[c]]
        BY <3>1 DEF SweepCache
      <4>. QED
        BY <4>1
    <3>2. ASSUME NEW p \in Providers, Expire(p)
          PROVE  \E aged \in [Candidates -> BOOLEAN], swept \in [Candidates -> BOOLEAN] :
                     /\ \A c \in Candidates : aged[c] => releases[c].age = "fresh"
                     /\ releases' = [c \in Candidates |->
                                        IF swept[c] THEN NoRow
                                        ELSE IF aged[c] THEN [releases[c] EXCEPT !.age = "stale"]
                                             ELSE releases[c]]
      <4>1. releases' = [c \in Candidates |->
                            IF [d \in Candidates |-> FALSE][c] THEN NoRow
                            ELSE IF [d \in Candidates |->
                                        d[1] = p /\ releases[d].age = "fresh"][c]
                                 THEN [releases[c] EXCEPT !.age = "stale"] ELSE releases[c]]
        BY <3>2 DEF Expire
      <4>. QED
        BY <4>1
    <3>. QED
      BY <1>5, <3>1, <3>2
  <2>4. /\ releases' \in [Candidates -> [age : {"absent", "stale", "fresh"},
                                         what : Candidates \cup {<<>>}]]
        /\ \A d \in Candidates : releases'[d].age = "absent" \/ releases'[d].what = d
    <3>1. ASSUME NEW d \in Candidates
          PROVE  /\ releases'[d] \in [age : {"absent", "stale", "fresh"},
                                       what : Candidates \cup {<<>>}]
                 /\ releases'[d].age = "absent" \/ releases'[d].what = d
      <4>1. \/ releases'[d] = NoRow
            \/ /\ releases'[d] = [releases[d] EXCEPT !.age = "stale"]
               /\ releases[d].age = "fresh"
            \/ releases'[d] = releases[d]
        BY <2>3
      <4>2. CASE releases'[d] = NoRow
        BY <4>2 DEF NoRow
      <4>3. CASE releases'[d] = [releases[d] EXCEPT !.age = "stale"] /\ releases[d].what = d
        BY <2>2, <4>3
      <4>4. CASE releases'[d] = releases[d]
        BY <2>2, <4>4
      <4>. QED
        BY <2>2, <4>1, <4>2, <4>3, <4>4
    <3>2. releases' = [d \in Candidates |-> releases'[d]]
      BY <2>3
    <3>. QED
      BY <3>1, <3>2
  <2>. QED
    BY <2>1, <2>4 DEF EachProviderHeard
<1>. QED
    BY <1>1, <1>2, <1>3, <1>4, <1>5

LEMMA ShortlistInitially == RetrievalInit => ShortlistInv
<1>. SUFFICES ASSUME RetrievalInit PROVE ShortlistInv
    OBVIOUS
<1>1. PICK old \in SUBSET Keepable :
          releases = [c \in Candidates |-> IF c \in old THEN [age |-> "stale", what |-> c]
                                           ELSE NoRow]
    BY DEF RetrievalInit
<1>2. /\ releases \in [Candidates -> [age : {"absent", "stale", "fresh"},
                                      what : Candidates \cup {<<>>}]]
      /\ \A c \in Candidates : releases[c].age = "absent" \/ releases[c].what = c
    BY <1>1 DEF NoRow
<1>3. stage = "search" /\ waits = {} /\ shortlist = {} /\ writing = FALSE
    BY DEF RetrievalInit, NothingYet
<1>4. Cardinality(shortlist) <= HydrateLimit
    BY <1>3, FS_EmptySet, RetrievalConstantsAssumption
<1>. QED
    BY <1>2, <1>3, <1>4 DEF ShortlistInv, RetrievalTypeOK, EachProviderHeard

\* Every provider that found something is heard, however the others answer and
\* however many results they have; and the variables of a retrieval keep their types.
THEOREM EachIsHeard == RetrievalSpec => [](RetrievalTypeOK /\ EachProviderHeard)
<1>1. RetrievalInv /\ ShortlistInv /\ [RetrievalNext]_retrievalVars => ShortlistInv'
    BY GatheredLists, ShortlistKeeps DEF RetrievalNext
<1>2. ShortlistInv => RetrievalTypeOK /\ EachProviderHeard
    BY DEF ShortlistInv
<1>. QED
    BY <1>1, <1>2, ShortlistInitially, RetrievalInductive, RetrievalInitially, PTL
       DEF RetrievalSpec

\* What may be in a row and what a caller may have got; a caller that asked has a
\* question.
GatewayInv ==
    /\ GatewayTypeOK /\ FailureIsNotAbsence
    /\ \A c \in Callers : calling[c].step # "idle" => calling[c].op \in Ops

Questions == [op : Ops \cup {"none"}, step : {"idle", "asked", "waiting", "ended"},
              refresh : BOOLEAN, got : {"none", "value", "empty", "error"},
              said : {"none", "unasked", "offline", "answered", "failed"}]

Entries == [age : {"absent", "fresh", "stale"}, payload : {"none", "value", "empty", "broken"}]

\* A caller that goes on keeps the invariant, unless it takes a failure for an
\* absence of what is not cached as absent.
LEMMA QuestionKeeps ==
    ASSUME GatewayInv, NEW c \in Callers, NEW question \in Questions,
           calling' = [calling EXCEPT ![c] = question], cached' \in [Ops -> Entries],
           question.op \in Ops,
           question.said = "failed" /\ question.got = "empty" =>
               question.op \notin {"get_release", "get_track", "get_lyrics"}
    PROVE  GatewayInv'
<1>1. calling \in [Callers -> Questions]
    BY DEF GatewayInv, GatewayTypeOK, Questions
<1>2. /\ calling' \in [Callers -> Questions] /\ calling'[c] = question
      /\ \A d \in Callers \ {c} : calling'[d] = calling[d]
    BY <1>1
<1>3. GatewayTypeOK'
    BY <1>2 DEF GatewayTypeOK, Questions, Entries
<1>4. \A d \in Callers : calling'[d].step # "idle" => calling'[d].op \in Ops
    BY <1>2 DEF GatewayInv
<1>5. FailureIsNotAbsence'
    BY <1>2 DEF GatewayInv, FailureIsNotAbsence, Collapsed
<1>. QED
    BY <1>3, <1>4, <1>5 DEF GatewayInv

\* The answer a caller returns with.
LEMMA ReturnKeeps ==
    ASSUME GatewayInv, NEW c \in Callers, calling[c].step # "idle",
           NEW got \in {"value", "empty", "error"},
           NEW said \in {"unasked", "offline", "answered", "failed"}, Returns(c, got, said),
           cached' \in [Ops -> Entries],
           said = "failed" /\ got = "empty" =>
               calling[c].op \notin {"get_release", "get_track", "get_lyrics"}
    PROVE  GatewayInv'
<1>. DEFINE question == [calling[c] EXCEPT !.step = "ended", !.got = got, !.said = said]
<1>1. calling[c] \in Questions /\ calling[c].op \in Ops
    BY DEF GatewayInv, GatewayTypeOK, Questions
<1>2. /\ question \in Questions /\ question.op = calling[c].op /\ question.got = got
      /\ question.said = said
    BY <1>1 DEF Questions
<1>3. calling' = [calling EXCEPT ![c] = question]
    BY DEF Returns
<1>. HIDE DEF question
<1>. QED
    BY <1>1, <1>2, <1>3, QuestionKeeps

\* What the decoder accepts is a value, or an answer that there is none.
LEMMA DecodedIs ==
    ASSUME NEW op \in Ops, UsableEntry(op) \/ FreshEntry(op)
    PROVE  /\ cached[op].payload \in {"value", "empty"}
           /\ cached[op].payload = "empty" => op \notin {"get_release", "get_track", "get_lyrics"}
BY DEF UsableEntry, FreshEntry, Decodes, Empty, GetRelease, GetTrack, GetLyrics, Ops

\* Every step of every caller keeps it.
LEMMA GatewayInductive == GatewayInv /\ [GatewayNext]_gateway => GatewayInv'
<1>. SUFFICES ASSUME GatewayInv, [GatewayNext]_gateway PROVE GatewayInv'
    OBVIOUS
<1>1. cached \in [Ops -> Entries] /\ calling \in [Callers -> Questions]
    BY DEF GatewayInv, GatewayTypeOK, Entries, Questions
<1>2. \A c \in Callers : calling[c].step # "idle" => calling[c].op \in Ops
    BY DEF GatewayInv
<1>3. ASSUME NEW c \in Callers, NEW op \in Ops, AskFor(c, op) PROVE GatewayInv'
  <2>1. PICK fresh \in BOOLEAN :
            calling' = [calling EXCEPT ![c] =
                           [NoQuestion EXCEPT !.op = op, !.step = "asked", !.refresh = fresh]]
    BY <1>3 DEF AskFor
  <2>. DEFINE question == [NoQuestion EXCEPT !.op = op, !.step = "asked", !.refresh = fresh]
  <2>2. question \in Questions /\ question.op = op /\ question.said = "none" /\ cached' = cached
    BY <1>3 DEF AskFor, NoQuestion, Questions
  <2>3. calling' = [calling EXCEPT ![c] = question]
    BY <2>1
  <2>. HIDE DEF question
  <2>. QED
    BY <1>1, <2>2, <2>3, QuestionKeeps
<1>4. ASSUME NEW c \in Callers, FromCache(c) PROVE GatewayInv'
  <2>1. /\ calling[c].op \in Ops /\ FreshEntry(calling[c].op) /\ cached' = cached
        /\ calling[c].step # "idle" /\ Returns(c, cached[calling[c].op].payload, "unasked")
    BY <1>2, <1>4 DEF FromCache
  <2>2. cached[calling[c].op].payload \in {"value", "empty"}
    BY <2>1, DecodedIs
  <2>. QED
    BY <1>1, <2>1, <2>2, ReturnKeeps
<1>5. ASSUME NEW c \in Callers, Offline(c) PROVE GatewayInv'
  <2>1. PICK got \in {"value", "empty"} : Returns(c, got, "offline")
    BY <1>2, <1>5, DecodedIs DEF Offline
  <2>2. cached' = cached /\ calling[c].step # "idle"
    BY <1>5 DEF Offline
  <2>. QED
    BY <1>1, <2>1, <2>2, ReturnKeeps
<1>6. ASSUME NEW c \in Callers, ToNetwork(c) PROVE GatewayInv'
  <2>. DEFINE question == [calling[c] EXCEPT !.step = "waiting"]
  <2>1. /\ question \in Questions /\ question.op = calling[c].op /\ question.got = calling[c].got
        /\ question.said = calling[c].said
    BY <1>1 DEF Questions
  <2>2. /\ calling' = [calling EXCEPT ![c] = question] /\ cached' = cached
        /\ calling[c].op \in Ops
    BY <1>2, <1>6 DEF ToNetwork
  <2>3. calling[c].said = "failed" /\ calling[c].got = "empty" =>
            calling[c].op \notin {"get_release", "get_track", "get_lyrics"}
    BY DEF GatewayInv, FailureIsNotAbsence, Collapsed
  <2>. HIDE DEF question
  <2>. QED
    BY <1>1, <2>1, <2>2, <2>3, QuestionKeeps
<1>7. ASSUME NEW c \in Callers, NetworkAnswers(c) PROVE GatewayInv'
  <2>1. PICK payload \in {"value", "empty"} :
            /\ cached' = [cached EXCEPT ![calling[c].op] = Kept(calling[c].op, payload)]
            /\ Returns(c, payload, "answered")
    BY <1>7 DEF NetworkAnswers
  <2>2. calling[c].step # "idle" /\ calling[c].op \in Ops
    BY <1>2, <1>7 DEF NetworkAnswers
  <2>3. Kept(calling[c].op, payload) \in Entries
    BY <1>1, <2>2 DEF Kept, Entries
  <2>4. cached' \in [Ops -> Entries]
    BY <1>1, <2>1, <2>3
  <2>. QED
    BY <2>1, <2>2, <2>4, ReturnKeeps
<1>8. ASSUME NEW c \in Callers, Fails(c) PROVE GatewayInv'
  <2>1. calling[c].step # "idle" /\ calling[c].op \in Ops /\ cached' = cached
    BY <1>2, <1>8 DEF Fails
  <2>2. PICK got \in {"value", "empty", "error"} :
            /\ Returns(c, got, "failed")
            /\ got = "empty" => calling[c].op \notin {"get_release", "get_track", "get_lyrics"}
    BY <1>8, <2>1, DecodedIs DEF Fails
  <2>. QED
    BY <1>1, <2>1, <2>2, ReturnKeeps
<1>9. ASSUME NEW op \in Ops, Age(op) PROVE GatewayInv'
  <2>1. /\ calling' = calling
        /\ cached' = [cached EXCEPT ![op] =
                         IF @.age = "fresh" THEN [@ EXCEPT !.age = "stale"] ELSE NoEntry]
    BY <1>9 DEF Age
  <2>2. cached' \in [Ops -> Entries]
    BY <1>1, <2>1 DEF NoEntry, Entries
  <2>. QED
    BY <1>2, <2>1, <2>2
       DEF GatewayInv, GatewayTypeOK, Entries, FailureIsNotAbsence, Collapsed
<1>10. CASE UNCHANGED gateway
    BY <1>10 DEF gateway, GatewayInv, GatewayTypeOK, FailureIsNotAbsence, Collapsed
<1>. QED
    BY <1>3, <1>4, <1>5, <1>6, <1>7, <1>8, <1>9, <1>10 DEF GatewayNext

\* At first there are no questions, and rows that cannot be decoded at most.
LEMMA GatewayInitially == GatewayInit => GatewayInv
<1>. SUFFICES ASSUME GatewayInit PROVE GatewayInv
    OBVIOUS
<1>1. cached \in [Ops -> Entries]
    BY DEF GatewayInit, NoEntry, Entries
<1>2. /\ calling \in [Callers -> Questions]
      /\ \A c \in Callers : calling[c].step = "idle" /\ calling[c].said = "none"
    BY DEF GatewayInit, NoQuestion, Questions
<1>. QED
    BY <1>1, <1>2
       DEF GatewayInv, GatewayTypeOK, Entries, Questions, FailureIsNotAbsence, Collapsed

\* A provider that failed is not taken for one that has no such release, track or
\* lyrics, over all callers, ages of the rows and refreshes (providers/cache.py).
THEOREM AbsenceWasAnswered == GatewaySpec => [](GatewayTypeOK /\ FailureIsNotAbsence)
<1>1. GatewayInv => GatewayTypeOK /\ FailureIsNotAbsence
    BY DEF GatewayInv
<1>. QED
    BY <1>1, GatewayInductive, GatewayInitially, PTL DEF GatewaySpec

-----------------------------------------------------------------------------
(* The services side by side.                                                *)

\* Every variable of every service keeps its type, and the shortlist its bound.
THEOREM ServicesTypeCorrect ==
    (Spec /\ ImportsSpec /\ RetrievalSpec /\ GatewaySpec /\ EnrichmentSpec /\ CredentialsSpec
        /\ PreferencesSpec) => []TypesOK
<1>1. (TypeOK /\ ImportsTypeOK /\ RetrievalTypeOK /\ GatewayTypeOK /\ EnrichmentTypeOK
        /\ CredentialsTypeOK /\ PreferencesTypeOK) => TypesOK
    BY DEF TypesOK
<1>. QED
    BY <1>1, MaintenanceTypeCorrect, ImportsTypeCorrect, EachIsHeard, AbsenceWasAnswered,
       EnrichmentTypeCorrect, CredentialsTypeCorrect, PreferencesTypeCorrect, PTL

\* For any number of import jobs, which may drive the session at the same time, and
\* of sections: what was matched is in a review, a session under review had all its
\* stages, which are still done unless two worked on it at once, and no section
\* waits for a job that is over.
THEOREM WorkSettles == ImportsSpec /\ EnrichmentSpec => []WorkIsSettled
<1>1. VisibleInv /\ SessionInv /\ AttemptsSettle /\ LyricsReservationIsShort => WorkIsSettled
    BY DEF VisibleInv, SessionInv, WorkIsSettled
<1>. QED
    BY <1>1, ProposedStays, SessionStays, SectionsSettle, PTL

\* Whatever jobs drive the session, a completed stage is run again only by one that
\* worked on the session at the same time as another, and had read it before the
\* stage was done; a failed provider is not told as an absence; and a late section
\* opens a discarded review only when it had read it before the discard, and never
\* adds to it.
THEOREM OutcomesStay == ImportsSpec /\ EnrichmentSpec => OutcomesStand
<1>1. SessionInv /\ EnrichmentInv /\ [ImportsNext]_importsVars /\ [EnrichmentNext]_enrichmentVars
          => [KeepsDone /\ ReportsFailure /\ KeepsRejection]_<<importsVars, enrichmentVars>>
    BY SessionInductive, SectionsStand
<1>. QED
    BY <1>1, SessionStays, EnrichmentInvariant, PTL DEF ImportsSpec, EnrichmentSpec, OutcomesStand

\* For any providers, answers and bound of the shortlist: a failure is not shown as
\* an absence, and each provider that found something is heard.
THEOREM FailuresStayTold == RetrievalSpec /\ GatewaySpec => []FailuresAreTold
<1>1. FailureIsNotZero /\ EachProviderHeard /\ FailureIsNotAbsence => FailuresAreTold
    BY DEF FailuresAreTold
<1>. QED
    BY <1>1, ZeroWasAnswered, EachIsHeard, AbsenceWasAnswered, PTL
=============================================================================
