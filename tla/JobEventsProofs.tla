-------------------------- MODULE JobEventsProofs ---------------------------
(***************************************************************************)
(* Proofs about JobEvents for every number of updates, leases, retries and *)
(* lost connections.                                                       *)
(***************************************************************************)
EXTENDS JobEvents, TLAPS

-----------------------------------------------------------------------------
(* The inductive invariant.                                                 *)

\* What append_event holds between its statements is a progress event, and it
\* is the execution's latest update.
AppendsLatest ==
    /\ appending \in [kind : {"none", "progress"}, update : 0..MaxUpdates]
    /\ wpc \in {"reading", "read"} =>
          appending = ProgressEvent(current) /\ current > 0 /\ pending = 0

\* No number has been skipped.
NumbersBounded == \A i \in DOMAIN events : events[i].seq <= i

\* A state event's number is new: above all the numbers before it.
StateEventsAbove ==
    \A i, k \in DOMAIN events :
        events[k].kind = "state" /\ i < k => events[i].seq < events[k].seq

\* Between the statements of append_event a cancellation is the only event
\* that can be inserted, and only one.
ReadIsRecent ==
    wpc = "read" =>
        \A i \in DOMAIN events :
            /\ events[i].seq <= lastSeq + 1
            /\ state = "running" => events[i].seq <= lastSeq

\* A worker at work holds a job that has not ended.
WorkerHoldsJob == wpc # "idle" => state \in {"running", "cancelling"}

\* A job that the client saw ended stays ended.
EndedStays == cstate \in Terminal => state \in Terminal

StateEvents == {i \in DOMAIN events : events[i].kind = "state"}

\* The client's cursor stands at an event, and passes no state event.
CursorIsTrue ==
    /\ last = 0 \/ \E i \in DOMAIN events : events[i].seq = last
    /\ \A i \in StateEvents : events[i].seq <= last => i \in got

\* A state event that the client lacks is among those it is about to receive
\* or comes after all of them.
BatchIsTrue ==
    cpc = "delivering" =>
        \A k \in StateEvents :
            \/ k \in got \cup batch
            \/ \A i \in batch : events[i].seq < events[k].seq

\* The client is told that the job is done after all its transitions.
DoneIsTrue == Done => cstate \in Terminal /\ StateEvents \subseteq got

\* The newest progress event carries update n.
Newest(n) ==
    \E p \in Progress :
        events[p].update = n /\ \A k \in Progress : k <= p

\* The execution's latest update waits in the reporter or is the newest event.
LatestIsKept ==
    /\ wpc = "working" /\ current > 0 => pending = current \/ Newest(current)
    /\ wpc = "working" => pending \in {0, current}
    /\ wpc = "flushed" => pending = 0 /\ (current > 0 => Newest(current))

OrderInv == ReplayInOrder /\ NumbersBounded /\ StateEventsAbove /\ ReadIsRecent
ClientInv == EndedStays /\ CursorIsTrue /\ BatchIsTrue /\ DoneIsTrue

IInv ==
    TypeOK /\ AppendsLatest /\ WorkerHoldsJob /\ OrderInv /\ ClientInv /\ LatestIsKept

-----------------------------------------------------------------------------
(* The table.                                                               *)

(* The positions in the table and what stands there.                        *)
LEMMA EventsTyped ==
    ASSUME TypeOK
    PROVE  /\ Len(events) \in Nat
           /\ DOMAIN events = 1..Len(events)
           /\ \A i \in DOMAIN events :
                 /\ i \in Nat /\ 1 <= i /\ i <= Len(events)
                 /\ events[i].seq \in Nat /\ 0 < events[i].seq
                 /\ events[i].kind \in {"state", "progress"}
                 /\ events[i].update \in 0..MaxUpdates
<1>1. events \in Seq(Rows)
  BY DEF TypeOK
<1>2. \A r \in Rows : /\ r.seq \in Nat /\ 0 < r.seq
                     /\ r.kind \in {"state", "progress"} /\ r.update \in 0..MaxUpdates
  BY DEF Rows
<1>3. Len(events) \in Nat /\ DOMAIN events = 1..Len(events)
  BY <1>1
<1>4. \A i \in DOMAIN events : events[i] \in Rows /\ i \in Nat /\ 1 <= i /\ i <= Len(events)
  BY <1>1
<1>5. QED
  BY <1>2, <1>3, <1>4

(* What an insertion leaves: the events there, and one more.                *)
LEMMA Inserted ==
    ASSUME TypeOK, NEW n \in Nat \ {0},
           NEW event \in [kind : {"state", "progress"}, update : 0..MaxUpdates],
           Insert(n, event)
    PROVE  /\ events' \in Seq(Rows)
           /\ Len(events') = Len(events) + 1
           /\ DOMAIN events' = DOMAIN events \cup {Len(events) + 1}
           /\ \A i \in DOMAIN events : events'[i] = events[i]
           /\ events'[Len(events) + 1].seq = n
           /\ events'[Len(events) + 1].kind = event.kind
           /\ events'[Len(events) + 1].update = event.update
<1> DEFINE row == [seq |-> n, kind |-> event.kind, update |-> event.update]
<1>1. events \in Seq(Rows)
  BY DEF TypeOK
<1>2. row \in Rows
  BY DEF Rows
<1>3. events' = Append(events, row)
  BY DEF Insert
<1>4. row.seq = n /\ row.kind = event.kind /\ row.update = event.update
  OBVIOUS
<1> HIDE DEF row
<1>5. events'[Len(events) + 1] = row
  BY <1>1, <1>2, <1>3
<1>6. QED
  BY <1>1, <1>2, <1>3, <1>4, <1>5

(* A state event's row, with the number a transition gives it.              *)
LEMMA MaxSeqIsLast ==
    ASSUME TypeOK, ReplayInOrder, NumbersBounded
    PROVE  /\ MaxSeq \in Nat
           /\ MaxSeq <= Len(events)
           /\ \A i \in DOMAIN events : events[i].seq <= MaxSeq
           /\ MaxSeq = 0 \/ \E i \in DOMAIN events : events[i].seq = MaxSeq
<1> DEFINE S == {0} \cup {events[i].seq : i \in DOMAIN events}
<1>1. \A i \in DOMAIN events : events[i].seq \in Nat /\ i \in Nat /\ i <= Len(events)
  BY EventsTyped
<1>2. \E x \in S : \A y \in S : x >= y
  <2>1. CASE events = <<>>
    BY <2>1
  <2>2. CASE events # <<>>
    <3>1. Len(events) \in DOMAIN events
      BY <2>2, EventsTyped DEF TypeOK
    <3>2. \A i \in DOMAIN events : events[i].seq <= events[Len(events)].seq
      BY <1>1, <3>1 DEF ReplayInOrder
    <3>3. events[Len(events)].seq \in S
      BY <3>1
    <3>4. \A y \in S : events[Len(events)].seq >= y
      BY <1>1, <3>1, <3>2
    <3>5. QED
      BY <3>3, <3>4
  <2>3. QED
    BY <2>1, <2>2
<1>3. MaxSeq \in S /\ \A y \in S : MaxSeq >= y
  BY <1>2 DEF MaxSeq, Max
<1>4. Len(events) \in Nat
  BY EventsTyped
<1>5. QED
  BY <1>1, <1>3, <1>4 DEF NumbersBounded

(* A transition's event, whose number is above all others.                  *)
LEMMA StateEventInserted ==
    ASSUME TypeOK, ReplayInOrder, NumbersBounded, AppendStateEvent
    PROVE  /\ events' \in Seq(Rows)
           /\ Len(events') = Len(events) + 1
           /\ DOMAIN events' = DOMAIN events \cup {Len(events) + 1}
           /\ \A i \in DOMAIN events : events'[i] = events[i]
           /\ events'[Len(events) + 1].seq = MaxSeq + 1
           /\ events'[Len(events) + 1].kind = "state"
<1>1. MaxSeq + 1 \in Nat \ {0}
  BY MaxSeqIsLast
<1>2. StateEvent \in [kind : {"state", "progress"}, update : 0..MaxUpdates]
  BY BoundsAssumption DEF StateEvent
<1>3. Insert(MaxSeq + 1, StateEvent)
  BY DEF AppendStateEvent
<1>4. StateEvent.kind = "state"
  BY DEF StateEvent
<1>5. /\ events' \in Seq(Rows)
      /\ Len(events') = Len(events) + 1
      /\ DOMAIN events' = DOMAIN events \cup {Len(events) + 1}
      /\ \A i \in DOMAIN events : events'[i] = events[i]
      /\ events'[Len(events) + 1].seq = MaxSeq + 1
      /\ events'[Len(events) + 1].kind = StateEvent.kind
  BY <1>1, <1>2, <1>3, Inserted
<1>6. QED
  BY <1>4, <1>5

(* append_event's row: a progress event with the execution's latest update. *)
LEMMA ProgressInserted ==
    ASSUME TypeOK, AppendsLatest, AppendInsert
    PROVE  /\ events' \in Seq(Rows)
           /\ Len(events') = Len(events) + 1
           /\ DOMAIN events' = DOMAIN events \cup {Len(events) + 1}
           /\ \A i \in DOMAIN events : events'[i] = events[i]
           /\ events'[Len(events) + 1].seq = lastSeq + 1
           /\ events'[Len(events) + 1].kind = "progress"
           /\ events'[Len(events) + 1].update = current
<1>1. lastSeq + 1 \in Nat \ {0}
  BY EventsTyped DEF TypeOK
<1>2. /\ appending.kind = "progress" /\ appending.update = current
      /\ appending \in [kind : {"state", "progress"}, update : 0..MaxUpdates]
  BY DEF AppendsLatest, ProgressEvent, AppendInsert, TypeOK
<1>3. Insert(lastSeq + 1, appending)
  BY DEF AppendInsert
<1>4. QED
  BY <1>1, <1>2, <1>3, Inserted

-----------------------------------------------------------------------------
(* Types.                                                                   *)

(* An empty table is well typed.                                            *)
LEMMA TypeInit == Init => TypeOK
<1> SUFFICES ASSUME Init PROVE TypeOK
  OBVIOUS
<1>1. events \in Seq(Rows) /\ Len(events) = 0
  BY DEF Init
<1>2. lastSeq \in 0..Len(events) /\ last \in 0..Len(events)
  BY <1>1 DEF Init
<1>3. got \in SUBSET DOMAIN events /\ batch \in SUBSET DOMAIN events
  BY DEF Init
<1>4. attempts \in 0..MaxAttempts /\ busy \in 0..MaxBusy /\ drops \in 0..MaxDrops
  BY BoundsAssumption DEF Init
<1>5. current \in 0..MaxUpdates /\ pending \in 0..current
  BY BoundsAssumption DEF Init
<1>6. QED
  BY <1>1, <1>2, <1>3, <1>4, <1>5 DEF Init, TypeOK, States

(* Every step keeps the types; numbers stay in range since none is skipped. *)
LEMMA TypeStep ==
    ASSUME TypeOK, AppendsLatest, ReplayInOrder, NumbersBounded, [Next]_vars
    PROVE  TypeOK'
<1> USE BoundsAssumption DEF TypeOK, States, Terminal
<1>1. CASE Lease
  BY <1>1 DEF Lease, clientVars
<1>2. ASSUME AppendStateEvent, state' \in States, UNCHANGED clientVars,
             UNCHANGED <<current, pending, handling, lastSeq, busy>>,
             wpc' \in {wpc, "idle"}, attempts' = attempts
      PROVE  TypeOK'
  <2>1. /\ events' \in Seq(Rows)
        /\ Len(events') = Len(events) + 1
        /\ DOMAIN events' = DOMAIN events \cup {Len(events) + 1}
    BY <1>2, StateEventInserted
  <2>2. Len(events) \in Nat
    BY EventsTyped
  <2>3. /\ lastSeq' \in 0..Len(events') /\ last' \in 0..Len(events')
        /\ batch' \in SUBSET DOMAIN events' /\ got' \in SUBSET DOMAIN events'
    BY <1>2, <2>1, <2>2 DEF clientVars
  <2>4. QED
    BY <1>2, <2>1, <2>3 DEF clientVars
<1>3. CASE RequestCancel
  BY <1>2, <1>3 DEF RequestCancel, workerVars
<1>4. CASE Mark
  BY <1>2, <1>4 DEF Mark
<1>5. CASE Recover
  BY <1>2, <1>5 DEF Recover, workerVars
<1>6. CASE Crash
  <2>1. lastSeq' \in 0..Len(events')
    <3>1. lastSeq' = 0 /\ events' = events
      BY <1>6 DEF Crash
    <3>2. QED
      BY <3>1, EventsTyped
  <2>2. pending' \in 0..current' /\ current' = current
    BY <1>6 DEF Crash
  <2>3. /\ UNCHANGED <<state, attempts, events, busy, cpc, cstate, batch, last, got, drops>>
        /\ wpc' = "idle" /\ handling' = FALSE
    BY <1>6 DEF Crash, jobVars, clientVars
  <2>4. QED
    BY <2>1, <2>2, <2>3
<1>7. CASE Update
  BY <1>7 DEF Update, StartAppend, jobVars, clientVars
<1>8. CASE AppendRead
  BY <1>8, MaxSeqIsLast, EventsTyped DEF AppendRead, jobVars, clientVars
<1>9. CASE AppendInsert
  <2>1. /\ events' \in Seq(Rows) /\ Len(events') = Len(events) + 1
        /\ DOMAIN events' = DOMAIN events \cup {Len(events) + 1}
    BY <1>9, ProgressInserted
  <2>2. /\ UNCHANGED <<state, attempts, current, pending, handling, lastSeq, busy>>
        /\ UNCHANGED <<cpc, cstate, batch, last, got, drops>>
        /\ wpc' \in {"working", "flushed"}
    BY <1>9 DEF AppendInsert, AfterAppend, jobVars, clientVars
  <2>3. Len(events) \in Nat
    BY EventsTyped
  <2>4. /\ lastSeq' \in 0..Len(events') /\ last' \in 0..Len(events')
        /\ batch' \in SUBSET DOMAIN events' /\ got' \in SUBSET DOMAIN events'
    BY <2>1, <2>2, <2>3
  <2>5. QED
    BY <2>1, <2>2, <2>4
<1>10. CASE AppendBusy
  <2>1. busy' \in 0..MaxBusy
    BY <1>10 DEF AppendBusy
  <2>2. /\ UNCHANGED <<state, attempts, events, current, pending, handling, lastSeq>>
        /\ UNCHANGED <<cpc, cstate, batch, last, got, drops>> /\ wpc' = "reading"
    BY <1>10 DEF AppendBusy, jobVars, clientVars
  <2>3. QED
    BY <2>1, <2>2
<1>11. CASE HandlerEnds
  BY <1>11 DEF HandlerEnds, jobVars, clientVars
<1>12. CASE Flush
  <2>1. /\ UNCHANGED <<state, attempts, events, current, handling, lastSeq, busy>>
        /\ UNCHANGED <<cpc, cstate, batch, last, got, drops>>
        /\ wpc' \in {"flushed", "reading"} /\ pending' = 0
    BY <1>12 DEF Flush, StartAppend, jobVars, clientVars
  <2>2. pending' \in 0..current'
    BY <2>1
  <2>3. QED
    BY <2>1, <2>2
<1>13. CASE ReadJob
  BY <1>13 DEF ReadJob, jobVars, workerVars
<1>14. CASE ReadEvents
  BY <1>14 DEF ReadEvents, jobVars, workerVars
<1>15. CASE Deliver
  <2>1. PICK i \in batch : /\ got' = got \cup {i} /\ last' = events[i].seq
                           /\ batch' = batch \ {i}
    BY <1>15 DEF Deliver
  <2>2. i \in DOMAIN events /\ events[i].seq \in 0..Len(events)
    <3>1. i \in DOMAIN events
      BY <2>1
    <3>2. QED
      BY <3>1, EventsTyped DEF NumbersBounded
  <2>3. QED
    BY <1>15, <2>1, <2>2 DEF Deliver, jobVars, workerVars
<1>16. CASE Reconnect
  BY <1>16 DEF Reconnect, jobVars, workerVars
<1>17. CASE UNCHANGED vars
  BY <1>17 DEF vars, jobVars, workerVars, clientVars
<1>18. QED
  BY <1>1, <1>3, <1>4, <1>5, <1>6, <1>7, <1>8, <1>9, <1>10, <1>11, <1>12, <1>13,
     <1>14, <1>15, <1>16, <1>17 DEF Next, Job, Report, Stream

-----------------------------------------------------------------------------
(* The worker.                                                              *)

(* The worker's statements keep the job leased and the update in hand the   *)
(* latest.                                                                  *)
LEMMA WorkerStep ==
    ASSUME TypeOK, AppendsLatest, WorkerHoldsJob, LatestIsKept, [Next]_vars
    PROVE  AppendsLatest' /\ WorkerHoldsJob'
<1> USE BoundsAssumption DEF AppendsLatest, WorkerHoldsJob, ProgressEvent, Nothing
<1>1. CASE Lease
  BY <1>1 DEF Lease, clientVars
<1>2. CASE RequestCancel
  BY <1>2 DEF RequestCancel, workerVars
<1>3. CASE Mark
  BY <1>3 DEF Mark
<1>4. CASE Recover
  BY <1>4 DEF Recover, workerVars
<1>5. CASE Crash
  BY <1>5 DEF Crash, jobVars
<1>6. CASE Update
  <2>1. current' \in 0..MaxUpdates /\ current' > 0 /\ current' = current + 1
    BY <1>6 DEF Update, TypeOK
  <2>2. QED
    BY <1>6, <2>1 DEF Update, StartAppend, jobVars, TypeOK
<1>7. CASE AppendRead
  BY <1>7 DEF AppendRead, jobVars
<1>8. CASE AppendInsert
  BY <1>8 DEF AppendInsert, AfterAppend, jobVars
<1>9. CASE AppendBusy
  BY <1>9 DEF AppendBusy, jobVars
<1>10. CASE HandlerEnds
  BY <1>10 DEF HandlerEnds, jobVars
<1>11. CASE Stream \/ Reconnect \/ UNCHANGED vars
  BY <1>11 DEF Stream, ReadJob, ReadEvents, Deliver, Reconnect, vars, jobVars, workerVars
<1>12. CASE Flush
  <2>1. CASE pending = 0
    BY <1>12, <2>1 DEF Flush, jobVars
  <2>2. CASE pending # 0
    <3>1. pending = current /\ current > 0 /\ current \in 0..MaxUpdates
      BY <1>12, <2>2 DEF Flush, LatestIsKept, TypeOK
    <3>2. /\ appending' = [kind |-> "progress", update |-> current]
          /\ wpc' = "reading" /\ current' = current /\ pending' = 0 /\ UNCHANGED state
      BY <1>12, <2>2, <3>1 DEF Flush, StartAppend, jobVars
    <3>3. wpc # "idle"
      BY <1>12 DEF Flush
    <3>4. QED
      BY <3>1, <3>2, <3>3
  <2>3. QED
    BY <2>1, <2>2
<1>13. QED
  BY <1>1, <1>2, <1>3, <1>4, <1>5, <1>6, <1>7, <1>8, <1>9, <1>10, <1>11, <1>12
     DEF Next, Job, Report

-----------------------------------------------------------------------------
(* The order of the events.                                                 *)

(* The table changes by a transition's event or by append_event's.          *)
LEMMA TableSteps ==
    ASSUME [Next]_vars
    PROVE  \/ UNCHANGED events
           \/ AppendStateEvent /\ (RequestCancel \/ Mark \/ Recover)
           \/ AppendInsert
BY DEF Next, Job, Report, Stream, Lease, RequestCancel, Mark, Recover, Crash, Update,
       AppendRead, AppendBusy, HandlerEnds, Flush, ReadJob, ReadEvents, Deliver,
       Reconnect, vars

(* Every step keeps the order of what is replayed and what append_event may *)
(* rely on.                                                                 *)
LEMMA OrderStep ==
    ASSUME TypeOK, AppendsLatest, WorkerHoldsJob, OrderInv, [Next]_vars
    PROVE  OrderInv'
<1> USE DEF OrderInv
<1>1. ReplayInOrder' /\ NumbersBounded' /\ StateEventsAbove'
  <2>1. CASE UNCHANGED events
    BY <2>1 DEF ReplayInOrder, NumbersBounded, StateEventsAbove
  <2>2. CASE AppendStateEvent
    <3>1. \A i \in DOMAIN events : events[i].seq < MaxSeq + 1 /\ i < Len(events) + 1
      BY MaxSeqIsLast, EventsTyped
    <3>2. MaxSeq + 1 <= Len(events) + 1 /\ MaxSeq \in Nat /\ Len(events) \in Nat
      BY MaxSeqIsLast, EventsTyped
    <3>3. /\ DOMAIN events' = DOMAIN events \cup {Len(events) + 1}
          /\ \A i \in DOMAIN events : events'[i] = events[i]
          /\ events'[Len(events) + 1].seq = MaxSeq + 1
      BY <2>2, StateEventInserted
    <3>4. QED
      BY <3>1, <3>2, <3>3, EventsTyped DEF ReplayInOrder, NumbersBounded, StateEventsAbove
  <2>3. CASE AppendInsert
    <3>1. \A i \in DOMAIN events : events[i].seq <= lastSeq + 1 /\ i < Len(events) + 1
      BY <2>3, EventsTyped DEF ReadIsRecent, AppendInsert
    <3>2. lastSeq + 1 <= Len(events) + 1 /\ lastSeq \in Nat /\ Len(events) \in Nat
      BY EventsTyped DEF TypeOK
    <3>3. /\ DOMAIN events' = DOMAIN events \cup {Len(events) + 1}
          /\ \A i \in DOMAIN events : events'[i] = events[i]
          /\ events'[Len(events) + 1].seq = lastSeq + 1
          /\ events'[Len(events) + 1].kind = "progress"
      BY <2>3, ProgressInserted
    <3>4. QED
      BY <3>1, <3>2, <3>3, EventsTyped DEF ReplayInOrder, NumbersBounded, StateEventsAbove
  <2>4. QED
    BY <2>1, <2>2, <2>3, TableSteps
<1>2. ReadIsRecent'
  <2>1. CASE AppendRead
    BY <2>1, MaxSeqIsLast, EventsTyped DEF AppendRead, ReadIsRecent, jobVars
  <2>2. CASE RequestCancel
    <3>1. SUFFICES ASSUME wpc = "read"
                   PROVE  /\ \A i \in DOMAIN events' : events'[i].seq <= lastSeq + 1
                          /\ state' = "cancelling"
      BY <2>2 DEF RequestCancel, workerVars, ReadIsRecent
    <3>2. state = "running" /\ state' = "cancelling"
      BY <2>2, <3>1 DEF RequestCancel, WorkerHoldsJob
    <3>3. \A i \in DOMAIN events : events[i].seq <= lastSeq
      BY <3>1, <3>2 DEF ReadIsRecent
    <3>4. lastSeq \in Nat
      BY EventsTyped DEF TypeOK
    <3>5. MaxSeq \in Nat /\ MaxSeq <= lastSeq
      BY <3>3, <3>4, MaxSeqIsLast
    <3>6. /\ DOMAIN events' = DOMAIN events \cup {Len(events) + 1}
          /\ \A i \in DOMAIN events : events'[i] = events[i]
          /\ events'[Len(events) + 1].seq = MaxSeq + 1
      <4>1. AppendStateEvent
        BY <2>2 DEF RequestCancel
      <4>2. QED
        BY <4>1, StateEventInserted
    <3>7. QED
      BY <3>2, <3>3, <3>4, <3>5, <3>6, EventsTyped
  <2>3. CASE wpc' # "read"
    BY <2>3 DEF ReadIsRecent
  <2>4. CASE UNCHANGED <<state, events, wpc, lastSeq>>
    BY <2>4 DEF ReadIsRecent
  <2>5. QED
    BY <2>1, <2>2, <2>3, <2>4 DEF Next, Job, Report, Stream, Lease, Mark, Recover, Crash,
       Update, StartAppend, AppendInsert, AfterAppend, AppendBusy, HandlerEnds, Flush,
       ReadJob, ReadEvents, Deliver, Reconnect, vars, jobVars, workerVars
<1>3. QED
  BY <1>1, <1>2

-----------------------------------------------------------------------------
(* The latest update.                                                       *)

(* A transition's event leaves the progress events as they are.             *)
LEMMA ProgressUntouched ==
    ASSUME TypeOK, ReplayInOrder, NumbersBounded,
           AppendStateEvent \/ UNCHANGED events
    PROVE  Progress' = Progress /\ \A p \in Progress : events'[p] = events[p]
<1>1. CASE UNCHANGED events
  BY <1>1 DEF Progress
<1>2. CASE AppendStateEvent
  <2>1. /\ DOMAIN events' = DOMAIN events \cup {Len(events) + 1}
        /\ \A i \in DOMAIN events : events'[i] = events[i]
        /\ events'[Len(events) + 1].kind = "state"
    BY <1>2, StateEventInserted
  <2>2. QED
    BY <2>1 DEF Progress
<1>3. QED
  BY <1>1, <1>2

(* Every step keeps the latest update either waiting or the newest row.     *)
LEMMA LatestStep ==
    ASSUME TypeOK, AppendsLatest, OrderInv, LatestIsKept, [Next]_vars
    PROVE  LatestIsKept'
<1> USE DEF OrderInv
<1>1. ASSUME AppendStateEvent \/ UNCHANGED events, UNCHANGED current
      PROVE  Newest(current)' <=> Newest(current)
  BY <1>1, ProgressUntouched DEF Newest
<1>2. ASSUME AppendStateEvent \/ UNCHANGED events, UNCHANGED <<current, pending>>,
             wpc' \in {wpc, "idle", "reading", "read"}
      PROVE  LatestIsKept'
  BY <1>1, <1>2 DEF LatestIsKept
<1>3. CASE Lease
  BY <1>3 DEF Lease, LatestIsKept
<1>4. CASE Update
  BY <1>4 DEF Update, StartAppend, LatestIsKept, TypeOK
<1>5. CASE Flush
  <2>1. UNCHANGED <<events, current>>
    BY <1>5 DEF Flush
  <2>2. current > 0 /\ pending = 0 => Newest(current)
    BY <1>5 DEF Flush, LatestIsKept
  <2>3. QED
    BY <1>1, <1>5, <2>1, <2>2 DEF Flush, StartAppend, LatestIsKept
<1>6. CASE AppendInsert
  <2>1. /\ wpc' \in {"working", "flushed"} /\ current' = current /\ pending' = 0
    BY <1>6 DEF AppendInsert, AfterAppend, AppendsLatest
  <2>2. /\ DOMAIN events' = DOMAIN events \cup {Len(events) + 1}
        /\ events'[Len(events) + 1].kind = "progress"
        /\ events'[Len(events) + 1].update = current
    BY <1>6, ProgressInserted
  <2>3. \A i \in DOMAIN events' : i <= Len(events) + 1
    BY <2>2, EventsTyped
  <2>4. Newest(current)'
    BY <2>1, <2>2, <2>3 DEF Newest, Progress
  <2>5. QED
    BY <2>1, <2>4 DEF LatestIsKept
<1>7. CASE RequestCancel \/ Mark \/ Recover
  BY <1>2, <1>7 DEF RequestCancel, Mark, Recover, workerVars
<1>8. CASE Crash
  BY <1>8 DEF Crash, LatestIsKept
<1>9. CASE AppendRead \/ AppendBusy \/ HandlerEnds
  BY <1>2, <1>9 DEF AppendRead, AppendBusy, HandlerEnds
<1>10. CASE Stream \/ Reconnect \/ UNCHANGED vars
  BY <1>2, <1>10 DEF Stream, ReadJob, ReadEvents, Deliver, Reconnect, vars, workerVars
<1>11. QED
  BY <1>3, <1>4, <1>5, <1>6, <1>7, <1>8, <1>9, <1>10 DEF Next, Job, Report

-----------------------------------------------------------------------------
(* The client.                                                              *)

(* A worker's event leaves the state events as they are; a transition's     *)
(* adds one above all others, of a job that has not ended.                  *)
LEMMA StateEventsSteps ==
    ASSUME TypeOK, AppendsLatest, WorkerHoldsJob, OrderInv, [Next]_vars
    PROVE  /\ \A i \in DOMAIN events : i \in DOMAIN events' /\ events'[i] = events[i]
           /\ \/ StateEvents' = StateEvents
              \/ /\ StateEvents' = StateEvents \cup {Len(events) + 1}
                 /\ \A i \in DOMAIN events : events[i].seq < events'[Len(events) + 1].seq
                 /\ state \notin Terminal
                 /\ events'[Len(events) + 1].seq \in Nat \ {0}
<1> USE DEF OrderInv
<1>1. CASE UNCHANGED events
  BY <1>1 DEF StateEvents
<1>2. CASE AppendStateEvent /\ (RequestCancel \/ Mark \/ Recover)
  <2>1. /\ DOMAIN events' = DOMAIN events \cup {Len(events) + 1}
        /\ \A i \in DOMAIN events : events'[i] = events[i]
        /\ events'[Len(events) + 1].seq = MaxSeq + 1
        /\ events'[Len(events) + 1].kind = "state"
    BY <1>2, StateEventInserted
  <2>2. /\ \A i \in DOMAIN events : events[i].seq < MaxSeq + 1
        /\ MaxSeq + 1 \in Nat \ {0}
    BY MaxSeqIsLast, EventsTyped
  <2>3. state \notin Terminal
    BY <1>2 DEF RequestCancel, Mark, Recover, WorkerHoldsJob, Terminal
  <2>4. StateEvents' = StateEvents \cup {Len(events) + 1}
    BY <2>1 DEF StateEvents
  <2>5. QED
    BY <2>1, <2>2, <2>3, <2>4
<1>3. CASE AppendInsert
  <2>1. /\ DOMAIN events' = DOMAIN events \cup {Len(events) + 1}
        /\ \A i \in DOMAIN events : events'[i] = events[i]
        /\ events'[Len(events) + 1].kind = "progress"
    BY <1>3, ProgressInserted
  <2>2. StateEvents' = StateEvents
    BY <2>1 DEF StateEvents
  <2>3. QED
    BY <2>1, <2>2
<1>4. QED
  BY <1>1, <1>2, <1>3, TableSteps

(* Ended jobs stay ended, and so does what the client saw of them.          *)
LEMMA EndedStep ==
    ASSUME WorkerHoldsJob, EndedStays, [Next]_vars
    PROVE  EndedStays' /\ (state \in Terminal => UNCHANGED state)
BY DEF WorkerHoldsJob, EndedStays, Terminal, Next, Job, Report, Stream, Lease,
       RequestCancel, Mark, Recover, Crash, Update, AppendRead, AppendInsert,
       AppendBusy, HandlerEnds, Flush, ReadJob, ReadEvents, Deliver, Reconnect, vars,
       jobVars, clientVars

(* While the client waits, its cursor and its batch stay true of the table. *)
LEMMA ClientWaits ==
    ASSUME TypeOK, AppendsLatest, WorkerHoldsJob, OrderInv, ClientInv, [Next]_vars,
           UNCHANGED clientVars
    PROVE  ClientInv'
<1>1. EndedStays' /\ (state \in Terminal => UNCHANGED state)
  BY EndedStep DEF ClientInv
<1>2. UNCHANGED <<cpc, cstate, batch, last, got>>
  BY DEF clientVars
<1>3. /\ \A i \in DOMAIN events : i \in DOMAIN events' /\ events'[i] = events[i]
      /\ \/ StateEvents' = StateEvents
         \/ /\ StateEvents' = StateEvents \cup {Len(events) + 1}
            /\ \A i \in DOMAIN events : events[i].seq < events'[Len(events) + 1].seq
            /\ state \notin Terminal
            /\ events'[Len(events) + 1].seq \in Nat \ {0}
  BY StateEventsSteps
<1>4. StateEvents \subseteq DOMAIN events /\ batch \subseteq DOMAIN events
  BY DEF StateEvents, TypeOK
<1>5. CursorIsTrue'
  <2>1. last = 0 \/ \E i \in DOMAIN events : events[i].seq = last
    BY DEF ClientInv, CursorIsTrue
  <2>2. (last = 0 \/ \E i \in DOMAIN events : events[i].seq = last)'
    BY <1>2, <1>3, <2>1
  <2>3. ASSUME NEW i \in StateEvents', events'[i].seq <= last PROVE i \in got
    <3>1. CASE i \in StateEvents
      BY <1>3, <1>4, <2>3, <3>1 DEF ClientInv, CursorIsTrue
    <3>2. CASE i \notin StateEvents
      <4>1. /\ \A k \in DOMAIN events : events[k].seq < events'[i].seq
            /\ events'[i].seq \in Nat \ {0}
        BY <1>3, <2>3, <3>2
      <4>2. QED
        BY <2>1, <2>3, <4>1, EventsTyped
    <3>3. QED
      BY <3>1, <3>2
  <2>4. QED
    BY <1>2, <2>2, <2>3 DEF CursorIsTrue
<1>6. BatchIsTrue'
  BY <1>2, <1>3, <1>4 DEF ClientInv, BatchIsTrue
<1>7. DoneIsTrue'
  BY <1>2, <1>3 DEF ClientInv, DoneIsTrue, EndedStays, Done
<1>8. QED
  BY <1>1, <1>5, <1>6, <1>7 DEF ClientInv

(* The row delivered next is the first of the batch.                        *)
LEMMA DeliverStep ==
    ASSUME TypeOK, OrderInv, ClientInv, Deliver
    PROVE  ClientInv'
<1>1. PICK i \in batch :
         /\ \A k \in batch \ {i} : Earlier(i, k)
         /\ got' = got \cup {i} /\ last' = events[i].seq /\ batch' = batch \ {i}
  BY DEF Deliver
<1>2. /\ cpc = "delivering" /\ cpc' \in {"tick", "delivering"}
      /\ UNCHANGED <<state, events, cstate>>
  BY DEF Deliver, jobVars
<1>3. i \in DOMAIN events
  BY <1>1 DEF TypeOK
<1>4. StateEvents' = StateEvents /\ StateEvents \subseteq DOMAIN events
  BY <1>2 DEF StateEvents
<1>5. CursorIsTrue'
  <2>1. ASSUME NEW k \in StateEvents, events[k].seq <= events[i].seq, k \notin got
        PROVE  k = i
    <3>1. k \in batch
      <4>1. k \in got \cup batch \/ \A b \in batch : events[b].seq < events[k].seq
        BY <1>2 DEF ClientInv, BatchIsTrue
      <4>2. ~(events[i].seq < events[k].seq)
        BY <1>3, <1>4, <2>1, EventsTyped
      <4>3. QED
        BY <1>1, <2>1, <4>1, <4>2
    <3>2. k \in DOMAIN events /\ events[k].kind = "state"
      BY DEF StateEvents
    <3>3. i < k => events[i].seq < events[k].seq
      BY <1>3, <3>2 DEF OrderInv, StateEventsAbove
    <3>4. k # i => Earlier(i, k)
      BY <1>1, <3>1
    <3>5. QED
      BY <1>3, <2>1, <3>2, <3>3, <3>4, EventsTyped DEF Earlier
  <2>2. QED
    BY <1>1, <1>2, <1>3, <1>4, <2>1 DEF CursorIsTrue
<1>6. BatchIsTrue'
  BY <1>1, <1>2, <1>4 DEF ClientInv, BatchIsTrue
<1>7. EndedStays' /\ DoneIsTrue'
  BY <1>2 DEF ClientInv, EndedStays, DoneIsTrue, Done
<1>8. QED
  BY <1>5, <1>6, <1>7 DEF ClientInv

(* A poll keeps the client's cursor behind the transitions it lacks.        *)
LEMMA ReadEventsStep ==
    ASSUME TypeOK, ClientInv, ReadEvents
    PROVE  ClientInv'
<1>1. /\ batch' = {i \in DOMAIN events : events[i].seq > last}
      /\ UNCHANGED <<state, events, cstate, last, got>>
      /\ cpc' \in {"delivering", "done", "tick"}
      /\ cpc' = "done" => batch' = {} /\ cstate \in Terminal
  BY DEF ReadEvents, jobVars
<1>2. StateEvents' = StateEvents /\ StateEvents \subseteq DOMAIN events
  BY <1>1 DEF StateEvents
<1>3. \A i \in StateEvents : i \in batch' \/ i \in got
  <2>1. \A i \in StateEvents : events[i].seq > last \/ events[i].seq <= last
    BY <1>2, EventsTyped DEF TypeOK
  <2>2. QED
    BY <1>1, <1>2, <2>1 DEF ClientInv, CursorIsTrue
<1>4. QED
  BY <1>1, <1>2, <1>3
     DEF ClientInv, EndedStays, CursorIsTrue, BatchIsTrue, DoneIsTrue, Done

(* Every step keeps the client's cursor behind the transitions it lacks.    *)
LEMMA ClientStep ==
    ASSUME TypeOK, AppendsLatest, WorkerHoldsJob, OrderInv, ClientInv, [Next]_vars
    PROVE  ClientInv'
<1>1. CASE UNCHANGED clientVars
  BY <1>1, ClientWaits
<1>2. CASE Deliver
  BY <1>2, DeliverStep
<1>3. CASE ReadEvents
  BY <1>3, ReadEventsStep
<1>4. CASE ReadJob \/ Reconnect
  <2>1. /\ UNCHANGED <<state, events, last, got>> /\ cpc' \in {"tick", "sawJob"}
        /\ cstate' \in {cstate, state}
    BY <1>4 DEF ReadJob, Reconnect, jobVars
  <2>2. StateEvents' = StateEvents
    BY <2>1 DEF StateEvents
  <2>3. QED
    BY <2>1, <2>2 DEF ClientInv, EndedStays, CursorIsTrue, BatchIsTrue, DoneIsTrue, Done
<1>5. QED
  BY <1>1, <1>2, <1>3, <1>4 DEF Next, Job, Report, Stream, Lease, RequestCancel, Mark,
     Recover, Crash, Update, AppendRead, AppendInsert, AppendBusy, HandlerEnds, Flush,
     vars, clientVars

-----------------------------------------------------------------------------
(* The invariant and what follows from it.                                  *)

(* A job in the queue, without events and clients, satisfies the invariant. *)
LEMMA Initially == Init => IInv
<1> SUFFICES ASSUME Init PROVE IInv
  OBVIOUS
<1>1. TypeOK
  BY TypeInit
<1>2. /\ events = <<>> /\ DOMAIN events = {} /\ wpc = "idle" /\ cpc = "tick"
      /\ appending = [kind |-> "none", update |-> 0] /\ cstate = "pending" /\ last = 0
  BY DEF Init, Nothing
<1>3. AppendsLatest /\ WorkerHoldsJob /\ LatestIsKept
  BY <1>2, BoundsAssumption DEF AppendsLatest, WorkerHoldsJob, LatestIsKept
<1>4. OrderInv
  BY <1>2 DEF OrderInv, ReplayInOrder, NumbersBounded, StateEventsAbove, ReadIsRecent
<1>5. ClientInv
  BY <1>2 DEF ClientInv, EndedStays, CursorIsTrue, BatchIsTrue, DoneIsTrue, Done,
              StateEvents, Terminal
<1>6. QED
  BY <1>1, <1>3, <1>4, <1>5 DEF IInv

(* The events' invariant is inductive.                                      *)
LEMMA Inductive == IInv /\ [Next]_vars => IInv'
<1> SUFFICES ASSUME IInv, [Next]_vars PROVE IInv'
  OBVIOUS
<1> USE DEF IInv
<1>1. TypeOK'
  BY TypeStep DEF OrderInv
<1>2. AppendsLatest' /\ WorkerHoldsJob'
  BY WorkerStep
<1>3. OrderInv'
  BY OrderStep
<1>4. ClientInv'
  BY ClientStep
<1>5. LatestIsKept'
  BY LatestStep
<1>6. QED
  BY <1>1, <1>2, <1>3, <1>4, <1>5

(* The inductive invariant holds in every state.                            *)
LEMMA Invariant == Spec => []IInv
BY Initially, Inductive, PTL DEF Spec

(* Every variable of the job, the reporter and the client keeps its type,   *)
(* and no number is skipped: the cursors stay within the table.             *)
THEOREM TypeCorrect == Spec => []TypeOK
BY Invariant, PTL DEF IInv

(* The rows that append_event inserts between transitions never carry a     *)
(* number below one that is there: what is replayed in the order of the     *)
(* numbers is replayed in the order of the commits.                         *)
THEOREM ReplayKeepsOrder == Spec => []ReplayInOrder
BY Invariant, PTL DEF IInv, OrderInv

(* A client told that the job is done has received every transition of it,  *)
(* however often it lost the connection and asked again.                    *)
THEOREM ClientSeesTransitions == Spec => []StateEventsSeen
<1>1. IInv => StateEventsSeen
  BY DEF IInv, ClientInv, DoneIsTrue, StateEventsSeen, StateEvents
<1>2. QED
  BY <1>1, Invariant, PTL

(* When an execution has flushed its reporter, its newest progress event is *)
(* its latest update.                                                       *)
THEOREM LatestUpdateWritten == Spec => []FinalProgressKept
<1>1. ASSUME IInv PROVE FinalProgressKept
  <2>1. SUFFICES ASSUME wpc = "flushed", current > 0
                 PROVE  events[Max(Progress)].update = current
    BY DEF FinalProgressKept
  <2>2. PICK p \in Progress : events[p].update = current /\ \A k \in Progress : k <= p
    BY <1>1, <2>1 DEF IInv, LatestIsKept, Newest
  <2>3. \A k \in Progress : k \in Nat
    BY <1>1, EventsTyped DEF Progress, IInv
  <2>4. Max(Progress) \in Progress /\ \A k \in Progress : Max(Progress) >= k
    BY <2>2, <2>3 DEF Max
  <2>5. Max(Progress) = p
    BY <2>2, <2>3, <2>4
  <2>6. QED
    BY <2>2, <2>5
<1>2. QED
  BY <1>1, Invariant, PTL

=============================================================================
