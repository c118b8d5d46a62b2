----------------------------- MODULE JobEvents ------------------------------
(***************************************************************************)
(* The events of one job and a client that follows them.  Events come from *)
(* two sides: the state events of the job's transitions, each inserted in  *)
(* the transaction of its transition, and the progress and log events of   *)
(* the executing worker, inserted by append_event, which reads the last    *)
(* sequence number in one statement and inserts in another.  Sources:      *)
(* jobs/queue.py (append_event, _append_state_event), jobs/progress.py,    *)
(* api/routers/jobs.py (_job_events_stream).                               *)
(*                                                                         *)
(* The transitions of the job are those of module JobQueue, by now without *)
(* locks and leases: one worker executes the job at a time.                *)
(***************************************************************************)
EXTENDS Integers, Sequences, FiniteSetsExt

CONSTANTS
    MaxUpdates,   \* bound: progress updates of one execution
    MaxAttempts,  \* bound: leases of the job
    MaxBusy,      \* bound: retries of append_event on a busy database
    MaxDrops      \* bound: connections the client loses

ASSUME BoundsAssumption ==
    {MaxUpdates, MaxAttempts, MaxBusy, MaxDrops} \subseteq Nat

VARIABLES
    state,     \* Job.state
    events,    \* the job_events rows in the order of their ids
    current,   \* the execution's latest update, what Job.progress_current shows
    attempts,  \* Job.attempts
    pending,   \* ProgressReporter._pending: the coalesced update, 0 if none
    wpc,       \* where the worker stands
    handling,  \* whether the handler has not ended
    appending, \* the event append_event is to insert
    lastSeq,   \* the sequence number append_event read
    busy,      \* history: retries so far
    cpc,       \* where the client's stream stands
    cstate,    \* the job state it read
    batch,     \* positions in events it has read and not delivered
    last,      \* last_seq
    got,       \* positions delivered to the client
    drops      \* history: lost connections

jobVars    == <<state, attempts>>
workerVars == <<current, pending, wpc, handling, appending, lastSeq, busy>>
clientVars == <<cpc, cstate, batch, last, got, drops>>
vars       == <<jobVars, events, workerVars, clientVars>>

Terminal == {"succeeded", "failed", "cancelled"}
States   == {"pending", "running", "cancelling"} \cup Terminal

\* What an event carries: a progress event its update, a state event a state,
\* which no property looks at.
StateEvent       == [kind |-> "state", update |-> 0]
ProgressEvent(n) == [kind |-> "progress", update |-> n]
Nothing          == [kind |-> "none", update |-> 0]

-----------------------------------------------------------------------------
(* The table job_events.                                                    *)

\* Mutant: the next number, where the caller adds one again.
MaxSeqNext == 1 + Max({0} \cup {events[i].seq : i \in DOMAIN events})

\* SELECT seq ORDER BY seq DESC, or 0
MaxSeq == Max({0} \cup {events[i].seq : i \in DOMAIN events})

Insert(seq, event) ==
    events' = Append(events, [seq |-> seq, kind |-> event.kind, update |-> event.update])

\* Mutant: the number follows that of the last state event.
AppendStateEventOwnNumbers ==
    Insert(1 + Max({0} \cup {events[i].seq : i \in {k \in DOMAIN events :
                                                      events[k].kind = "state"}}),
           StateEvent)

\* _append_state_event: inside the write transaction of a transition, hence atomic.
AppendStateEvent == Insert(MaxSeq + 1, StateEvent)

-----------------------------------------------------------------------------
(* The job.                                                                 *)

\* lease_next; a new execution starts with a new ProgressReporter.
Lease ==
    /\ state = "pending"
    /\ attempts < MaxAttempts
    /\ wpc = "idle"
    /\ state' = "running"
    /\ attempts' = attempts + 1
    /\ wpc' = "working"
    /\ handling' = TRUE
    /\ current' = 0
    /\ pending' = 0
    /\ UNCHANGED <<events, appending, lastSeq, busy, clientVars>>

\* request_cancel
RequestCancel ==
    /\ state \in {"pending", "running"}
    /\ state' = IF state = "pending" THEN "cancelled" ELSE "cancelling"
    /\ AppendStateEvent
    /\ UNCHANGED <<attempts, workerVars, clientVars>>

\* mark_succeeded, mark_failed, mark_cancelled, after reporter.flush
Mark ==
    /\ wpc = "flushed"
    /\ \E st \in Terminal :
          state' = st
    /\ AppendStateEvent
    /\ wpc' = "idle"
    /\ UNCHANGED <<attempts, current, pending, handling, appending, lastSeq, busy,
                   clientVars>>

\* The worker's process dies; recover_stuck_jobs settles the row later.
Crash ==
    /\ wpc # "idle"
    /\ wpc' = "idle"
    /\ handling' = FALSE
    /\ pending' = 0
    /\ appending' = Nothing
    /\ lastSeq' = 0
    /\ UNCHANGED <<jobVars, events, current, busy, clientVars>>

Recover ==
    /\ state \in {"running", "cancelling"}
    /\ wpc = "idle"
    /\ \E st \in Terminal \cup {"pending"} : state' = st
    /\ AppendStateEvent
    /\ UNCHANGED <<attempts, workerVars, clientVars>>

-----------------------------------------------------------------------------
(* The worker's reporter.                                                   *)

StartAppend(event) ==
    /\ wpc' = "reading"
    /\ appending' = event

\* ProgressReporter.update: within the throttle window the event waits.
Update ==
    /\ wpc = "working" /\ handling
    /\ current < MaxUpdates
    /\ current' = current + 1
    /\ \/ /\ pending' = current'
          /\ current > 0
          /\ UNCHANGED <<wpc, appending>>
       \/ /\ pending' = 0
          /\ StartAppend(ProgressEvent(current'))
    /\ UNCHANGED <<jobVars, events, handling, lastSeq, busy, clientVars>>

\* append_event, first statement ...
AppendRead ==
    /\ wpc = "reading"
    /\ wpc' = "read"
    /\ lastSeq' = MaxSeq
    /\ UNCHANGED <<jobVars, events, current, pending, handling, appending, busy,
                   clientVars>>

AfterAppend == IF handling THEN "working" ELSE "flushed"

\* Mutant: the number read is used as it is.
AppendInsertSameNumber ==
    /\ wpc = "read"
    /\ Insert(lastSeq, appending)
    /\ wpc' = AfterAppend
    /\ appending' = Nothing
    /\ UNCHANGED <<jobVars, current, pending, handling, lastSeq, busy, clientVars>>

\* ... and second, in a transaction of its own.
AppendInsert ==
    /\ wpc = "read"
    /\ Insert(lastSeq + 1, appending)
    /\ wpc' = AfterAppend
    /\ appending' = Nothing
    /\ UNCHANGED <<jobVars, current, pending, handling, lastSeq, busy, clientVars>>

\* The insert finds the database busy: rolled back, both statements again.
AppendBusy ==
    /\ wpc = "read"
    /\ busy < MaxBusy
    /\ busy' = busy + 1
    /\ wpc' = "reading"
    /\ UNCHANGED <<jobVars, events, current, pending, handling, appending, lastSeq,
                   clientVars>>

\* The handler ends, by itself or drained.
HandlerEnds ==
    /\ wpc = "working" /\ handling
    /\ handling' = FALSE
    /\ UNCHANGED <<jobVars, events, current, pending, wpc, appending, lastSeq, busy,
                   clientVars>>

\* Mutant: the throttled update is dropped with the reporter.
FlushNothing ==
    /\ wpc = "working" /\ ~handling
    /\ wpc' = "flushed"
    /\ pending' = 0
    /\ UNCHANGED <<jobVars, events, current, handling, appending, lastSeq, busy,
                   clientVars>>

\* reporter.flush
Flush ==
    /\ wpc = "working" /\ ~handling
    /\ IF pending = 0
       THEN wpc' = "flushed" /\ UNCHANGED appending
       ELSE StartAppend(ProgressEvent(pending))
    /\ pending' = 0
    /\ UNCHANGED <<jobVars, events, current, handling, lastSeq, busy, clientVars>>

-----------------------------------------------------------------------------
(* The client: _job_events_stream, one session per tick.                    *)

\* get_job ...
ReadJob ==
    /\ cpc = "tick"
    /\ cpc' = "sawJob"
    /\ cstate' = state
    /\ UNCHANGED <<jobVars, events, workerVars, batch, last, got, drops>>

\* Rows come in the order of the index (job_id, seq), then of their ids.
Earlier(i, k) ==
    \/ events[i].seq < events[k].seq
    \/ events[i].seq = events[k].seq /\ i < k

\* Mutant: the last event received is asked for again.
ReadEventsInclusive ==
    /\ cpc = "sawJob"
    /\ batch' = {i \in DOMAIN events : events[i].seq >= last}
    /\ cpc' = IF batch' # {} THEN "delivering"
              ELSE IF cstate \in Terminal THEN "done" ELSE "tick"
    /\ UNCHANGED <<jobVars, events, workerVars, cstate, last, got, drops>>

\* ... then list_events_after, in statements of their own.
ReadEvents ==
    /\ cpc = "sawJob"
    /\ batch' = {i \in DOMAIN events : events[i].seq > last}
    /\ cpc' = IF batch' # {} THEN "delivering"
              ELSE IF cstate \in Terminal THEN "done" ELSE "tick"
    /\ UNCHANGED <<jobVars, events, workerVars, cstate, last, got, drops>>

Deliver ==
    /\ cpc = "delivering"
    /\ \E i \in batch :
          /\ \A k \in batch \ {i} : Earlier(i, k)
          /\ got' = got \cup {i}
          /\ last' = events[i].seq
          /\ batch' = batch \ {i}
    /\ cpc' = IF batch' = {} THEN "tick" ELSE "delivering"
    /\ UNCHANGED <<jobVars, events, workerVars, cstate, drops>>

\* The connection is lost; the client asks again for what came after the last
\* event it received.
Reconnect ==
    /\ cpc \in {"tick", "sawJob", "delivering"}
    /\ drops < MaxDrops
    /\ drops' = drops + 1
    /\ cpc' = "tick"
    /\ batch' = {}
    /\ UNCHANGED <<jobVars, events, workerVars, cstate, last, got>>

-----------------------------------------------------------------------------
Init ==
    /\ state = "pending" /\ attempts = 0
    /\ events = <<>>
    /\ current = 0 /\ pending = 0 /\ wpc = "idle" /\ handling = FALSE
    /\ appending = Nothing /\ lastSeq = 0 /\ busy = 0
    /\ cpc = "tick" /\ cstate = "pending" /\ batch = {} /\ last = 0
    /\ got = {} /\ drops = 0

Job    == Lease \/ Mark \/ Recover
Report == AppendRead \/ AppendInsert \/ HandlerEnds \/ Flush
Stream == ReadJob \/ ReadEvents \/ Deliver

Next ==
    \/ Job \/ RequestCancel \/ Crash
    \/ Update \/ AppendBusy \/ Report
    \/ Stream \/ Reconnect

Spec == Init /\ [][Next]_vars

\* The worker, recovery and the client's connection keep going; updates,
\* cancellations, crashes and lost connections happen or not.
FairSpec ==
    Spec /\ WF_vars(Job) /\ WF_vars(Report) /\ WF_vars(Stream)

-----------------------------------------------------------------------------
(* Properties.                                                              *)

Rows == [seq : Nat \ {0}, kind : {"state", "progress"}, update : 0..MaxUpdates]

\* Every variable holds a value the code can store there.
TypeOK ==
    /\ state \in States
    /\ events \in Seq(Rows)
    /\ attempts \in 0..MaxAttempts
    /\ current \in 0..MaxUpdates /\ pending \in 0..current
    /\ wpc \in {"idle", "working", "reading", "read", "flushed"}
    /\ handling \in BOOLEAN
    /\ lastSeq \in 0..Len(events)
    /\ busy \in 0..MaxBusy /\ drops \in 0..MaxDrops
    /\ cpc \in {"tick", "sawJob", "delivering", "done"}
    /\ cstate \in States /\ batch \in SUBSET DOMAIN events
    /\ got \in SUBSET DOMAIN events /\ last \in 0..Len(events)

Done == cpc = "done"

\* A client told that the job is done has received every transition of it,
\* the last one included, whatever it lost and asked for again.
StateEventsSeen ==
    Done => {i \in DOMAIN events : events[i].kind = "state"} \subseteq got

\* Events that a worker inserts late, between transitions, never carry a
\* number below one already there: the replay order is the commit order.
ReplayInOrder ==
    \A i, k \in DOMAIN events : i < k => events[i].seq <= events[k].seq

Progress == {i \in DOMAIN events : events[i].kind = "progress"}

\* Coalescing never drops the last word of an execution that ended normally:
\* the newest progress event is its latest update (reporter.flush).
FinalProgressKept ==
    wpc = "flushed" /\ current > 0 => events[Max(Progress)].update = current

\* A connected client is told that the job is done.
StreamEnds == state \in Terminal ~> Done

\* The sequence lets clients replay missed events: one that is told that the
\* job is done has received all of them.
NoEventMissed == Done => got = DOMAIN events

=============================================================================
