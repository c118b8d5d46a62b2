----------------------------- MODULE BundleApply -----------------------------
(***************************************************************************)
(* The execution of one ApplyRun (changes/bundle_applier.py:               *)
(* apply_review_run): preflight of the whole bundle, file after file with  *)
(* a journal row and a commit for each step, cancellation between files,   *)
(* and the rollback in reverse order after a failure.  Around it: the job  *)
(* that runs it, its death and its recovery (jobs/queue.py), and the       *)
(* requests that resume or repeat the run (services/review_apply.py).      *)
(*                                                                         *)
(* What a step does to a file is abstract: tags are rewritten, the file    *)
(* moved, the collection corrected (a change of the database alone).       *)
(* Replacement models the first of them in detail.  A file is the set of   *)
(* the steps in effect on it; the guards compare it with what the journal  *)
(* says, and fail once another program has touched it (drift).             *)
(***************************************************************************)
EXTENDS Naturals, Sequences

CONSTANTS
    NFiles,      \* files of the manifest, in the order of their ids
    Manifests,   \* the steps accepted for each file: what the user may ask for
    MaxRuns,     \* bound: ApplyRuns of the bundle
    MaxForeign,  \* bound: files that other programs touch
    MaxAborts    \* bound: exceptions that end a handler

Files == 1..NFiles
Plans == {<<"tags">>, <<"move">>, <<"tags", "move">>, <<"grouping">>}

\* start_apply_run refuses to mix grouping corrections with other steps.
ASSUME ConstantsAssumption ==
    /\ NFiles \in Nat \ {0}
    /\ Manifests \subseteq [Files -> Plans]
    /\ \A m \in Manifests : \/ \A f \in Files : m[f] = <<"grouping">>
                            \/ \A f \in Files : m[f] # <<"grouping">>
    /\ {MaxRuns, MaxForeign, MaxAborts} \subseteq Nat

Phases        == {"tags", "move", "grouping"}
JournalStates == {"writing", "done", "failed", "rolled_back"}
EntryStates   == {"pending", "applied", "failed", "rolled_back"}
Settled       == {"applied", "failed"}

VARIABLES
    plan,       \* ApplyRun.manifest["files"][f]["operation_ids"], by their kind
    run,        \* ApplyRun.state
    recovery,   \* ApplyRun.result["recovery_required"]
    told,       \* ApplyRun.result["files"], "none" where it says nothing
    entry,      \* ApplyRun.manifest["files"][f]["state"]
    credited,   \* the steps of a file whose OperationAttempts are "applied"
    log,        \* the ReviewFileJournals of a file, in the order of their ids
    disk,       \* the steps in effect on a file
    drift,      \* the files another program touched
    job,        \* the job of the run
    cancelReq,  \* what should_cancel() answers
    pc, cur, step,  \* where the handler stands: its file and its step
    applied,    \* applied_track_ids
    failing,    \* failure_track_id, 0 for none
    cancelled,  \* the local of that name
    unresolved, \* a journal was still "writing" when the loop ended
    todo,       \* the files still to roll back
    undone,     \* journals of the file in hand whose inverse is not committed
    lost,       \* the rollback failed
    replaced,   \* files that earlier runs rewrote and gave back under another inode
    runs, foreigners, aborts  \* history: for the bounds

outcome == <<run, recovery, told>>
books   == <<entry, credited>>
locals  == <<cur, step, applied, failing, cancelled, unresolved, todo, undone, lost>>
history == <<replaced, runs, foreigners, aborts>>
vars    == <<plan, outcome, books, log, disk, drift, job, cancelReq, pc, locals, history>>

Steps(f)     == {plan[f][i] : i \in DOMAIN plan[f]}
Before(f, n) == {plan[f][i] : i \in {i \in DOMAIN plan[f] : i < n}}
Grouping(f)  == plan[f] = <<"grouping">>
phase        == plan[cur][step]

In(f, state) == {i \in DOMAIN log[f] : log[f][i].state = state}
Done(f)      == {log[f][i].phase : i \in In(f, "done")}

\* The precondition of a file holds: _journal_execution_source rebuilds what
\* its committed steps left, _source_precondition_error compares the file.
SourceVerified(f) ==
    /\ credited[f] # {} => In(f, "writing") = {} /\ Done(f) = credited[f]
    /\ f \notin drift
    /\ disk[f] = credited[f]

SourcesVerified == \A f \in Files : ~Grouping(f) => SourceVerified(f)

\* The journals _rollback_applied_files would undo.
Undoable(f) ==
    {i \in DOMAIN log[f] : \/ log[f][i].state = "done"
                           \/ log[f][i].state = "writing" /\ log[f][i].phase = "move"}

Journal(state)     == [log EXCEPT ![cur] = Append(@, [phase |-> phase, state |-> state])]
JournalEnds(state) == [log EXCEPT ![cur][Len(log[cur])].state = state]

\* Mutant: every journal of the file is marked.
MarkedAll(f, js, state) ==
    [log EXCEPT ![f] = [i \in DOMAIN @ |-> [@[i] EXCEPT !.state = state]]]

Marked(f, js, state) ==
    [log EXCEPT ![f] = [i \in DOMAIN @ |-> IF i \in js THEN [@[i] EXCEPT !.state = state] ELSE @[i]]]

Idle == /\ pc' = "idle"
        /\ cur' = 1
        /\ step' = 1
        /\ applied' = {}
        /\ failing' = 0
        /\ cancelled' = FALSE
        /\ unresolved' = FALSE
        /\ todo' = {}
        /\ undone' = {}
        /\ lost' = FALSE

-----------------------------------------------------------------------------
(* Requests and the job.                                                    *)

\* enqueue_review_apply for a run without an active job: left "applying" or
\* "pending" by a job that ended early, or finished and asked for again with
\* the same idempotency key.
Resume ==
    /\ job = "none"
    /\ ~recovery
    /\ run # "applied"
    /\ run = "failed" \/ SourcesVerified
    /\ job' = "queued"
    /\ UNCHANGED <<plan, outcome, books, log, disk, drift, cancelReq, pc, locals, history>>

\* The file a rollback left is another one than the snapshot describes: tags
\* are written to a new inode and restored to a third, a rename keeps its own.
Rewritten(f) ==
    \/ f \in replaced
    \/ \E i \in In(f, "rolled_back") : log[f][i].phase = "tags"

\* _rolled_back_source_item: the last run's journals vouch for such a file when
\* none of them is open and the last of the file's first phase is rolled back.
Restored(f) ==
    /\ In(f, "writing") \union In(f, "done") = {}
    /\ LET first == {i \in DOMAIN log[f] : log[f][i].phase = plan[f][1]}
       IN  \E i \in first : /\ log[f][i].state = "rolled_back"
                            /\ \A j \in first : j <= i

\* start_apply_run after a failure that was rolled back: the run is another
\* one, the guards of the restored files are its execution sources.
NewRun ==
    /\ job = "none"
    /\ run = "failed"
    /\ ~recovery
    /\ runs < MaxRuns
    /\ \A f \in Files : ~Grouping(f) => /\ f \notin drift
                                        /\ disk[f] = {}
                                        /\ Rewritten(f) => Restored(f)
    /\ runs' = runs + 1
    /\ replaced' = {f \in Files : Rewritten(f)}
    /\ run' = "pending"
    /\ told' = [f \in Files |-> "none"]
    /\ entry' = [f \in Files |-> "pending"]
    /\ credited' = [f \in Files |-> {}]
    /\ log' = [f \in Files |-> <<>>]
    /\ job' = "queued"
    /\ UNCHANGED <<plan, recovery, disk, drift, cancelReq, pc, locals, foreigners, aborts>>

\* request_cancel: a queued job is over, a running one will see it.
RequestCancel ==
    /\ \/ job = "queued" /\ job' = "none" /\ UNCHANGED cancelReq
       \/ job = "running" /\ ~cancelReq /\ cancelReq' = TRUE /\ UNCHANGED job
    /\ UNCHANGED <<plan, outcome, books, log, disk, drift, pc, locals, history>>

\* A run that is settled is only reported again.
Begin ==
    /\ job = "queued"
    /\ job' = "running"
    /\ IF run \in Settled
       THEN UNCHANGED <<run, pc>>
       ELSE run' = "applying" /\ pc' = "preflight"
    /\ UNCHANGED <<plan, recovery, told, books, log, disk, drift, cancelReq, locals, history>>

\* The handler has returned.
JobEnds ==
    /\ job = "running"
    /\ pc = "idle"
    /\ job' = "none"
    /\ cancelReq' = FALSE
    /\ UNCHANGED <<plan, outcome, books, log, disk, drift, pc, locals, history>>

\* A commit is refused or a helper raises: the job fails, the run stays.
Abort ==
    /\ pc \in {"preflight", "loop", "check", "commit", "rollback", "conclude"}
    /\ aborts < MaxAborts
    /\ aborts' = aborts + 1
    /\ job' = "none"
    /\ cancelReq' = FALSE
    /\ Idle
    /\ UNCHANGED <<plan, outcome, books, log, disk, drift, replaced, runs, foreigners>>

Crash ==
    /\ job = "running"
    /\ job' = "dead"
    /\ cancelReq' = FALSE
    /\ Idle
    /\ UNCHANGED <<plan, outcome, books, log, disk, drift, history>>

\* _file_job_recovery keeps a settled run and fails any other closed.
Recover ==
    /\ job = "dead"
    /\ job' = "none"
    /\ IF run \in Settled
       THEN UNCHANGED outcome
       ELSE run' = "failed" /\ recovery' = TRUE /\ UNCHANGED told
    /\ UNCHANGED <<plan, books, log, disk, drift, cancelReq, pc, locals, history>>

Foreign(f) ==
    /\ foreigners < MaxForeign
    /\ foreigners' = foreigners + 1
    /\ drift' = drift \cup {f}
    /\ UNCHANGED <<plan, outcome, books, log, disk, job, cancelReq, pc, locals, replaced, runs, aborts>>

-----------------------------------------------------------------------------
(* apply_review_run: preflight and the loop over the files.                 *)

\* _bundle_preflight has an objection: to a source, or to something this
\* module does not hold (a pending decision, a collision, another run).
Refuse ==
    /\ pc = "preflight"
    /\ run' = "failed"
    /\ told' = [f \in Files |-> "failed"]
    /\ entry' = told'
    /\ credited' = [f \in Files |-> {}]
    /\ Idle
    /\ UNCHANGED <<plan, recovery, log, disk, drift, job, cancelReq, history>>

Accept ==
    /\ pc = "preflight"
    /\ SourcesVerified
    /\ pc' = "loop"
    /\ UNCHANGED <<plan, outcome, books, log, disk, drift, job, cancelReq, locals, history>>

CancelSeen ==
    /\ pc = "loop"
    /\ cur <= NFiles
    /\ cancelReq
    /\ cancelled' = TRUE
    /\ entry' = [f \in Files |-> IF entry[f] = "pending" THEN "failed" ELSE entry[f]]
    /\ pc' = "settle"
    /\ UNCHANGED <<plan, outcome, credited, log, disk, drift, job, cancelReq, cur, step, applied,
                   failing, unresolved, todo, undone, lost, history>>

\* The file was committed by an earlier execution of this run.
Skip ==
    /\ pc = "loop"
    /\ cur <= NFiles
    /\ ~cancelReq
    /\ credited[cur] = Steps(cur)
    /\ entry' = [entry EXCEPT ![cur] = "applied"]
    /\ applied' = applied \cup {cur}
    /\ cur' = cur + 1
    /\ UNCHANGED <<plan, outcome, credited, log, disk, drift, job, cancelReq, pc, step, failing,
                   cancelled, unresolved, todo, undone, lost, history>>

StartFile ==
    /\ pc = "loop"
    /\ cur <= NFiles
    /\ ~cancelReq
    /\ \E n \in DOMAIN plan[cur] :
          /\ plan[cur][n] \notin credited[cur]
          /\ Before(cur, n) \subseteq credited[cur]
          /\ step' = n
    /\ pc' = "check"
    /\ UNCHANGED <<plan, outcome, books, log, disk, drift, job, cancelReq, cur, applied, failing,
                   cancelled, unresolved, todo, undone, lost, history>>

LoopEnds ==
    /\ pc = "loop"
    /\ cur > NFiles
    /\ pc' = "settle"
    /\ UNCHANGED <<plan, outcome, books, log, disk, drift, job, cancelReq, locals, history>>

\* A precondition, a backup or a destination is refused before anything is
\* written; some refusals leave a failed journal, those of write_move none.
CheckFails ==
    /\ pc = "check"
    /\ log' \in {log} \cup IF phase = "move" THEN {} ELSE {Journal("failed")}
    /\ failing' = cur
    /\ pc' = "commit"
    /\ UNCHANGED <<plan, outcome, books, disk, drift, job, cancelReq, cur, step, applied, cancelled,
                   unresolved, todo, undone, lost, history>>

\* The journal is committed before the file is touched; the commit carries
\* the attempts of the steps before.
Intent ==
    /\ pc = "check"
    /\ ~Grouping(cur)
    /\ cur \notin drift
    /\ disk[cur] = Before(cur, step)
    /\ credited[cur] # {} => SourceVerified(cur)
    /\ log' = Journal("writing")
    /\ credited' = [credited EXCEPT ![cur] = Before(cur, step)]
    /\ pc' = "write"
    /\ UNCHANGED <<plan, outcome, entry, disk, drift, job, cancelReq, locals, history>>

Write ==
    /\ pc = "write"
    /\ cur \notin drift
    /\ disk' = [disk EXCEPT ![cur] = @ \cup {phase}]
    /\ pc' = "written"
    /\ UNCHANGED <<plan, outcome, books, log, drift, job, cancelReq, locals, history>>

\* _persist_file_journal_failure, nothing published.
WriteFails ==
    /\ pc = "write"
    /\ log' = JournalEnds("failed")
    /\ failing' = cur
    /\ pc' = "commit"
    /\ UNCHANGED <<plan, outcome, books, disk, drift, job, cancelReq, cur, step, applied, cancelled,
                   unresolved, todo, undone, lost, history>>

\* _persist_file_journal_failure, the file may or may not be the new one.
WriteUncertain ==
    /\ pc \in {"write", "written"}
    /\ disk' \in {disk, [disk EXCEPT ![cur] = @ \cup {phase}]}
    /\ failing' = cur
    /\ pc' = "commit"
    /\ UNCHANGED <<plan, outcome, books, log, drift, job, cancelReq, cur, step, applied, cancelled,
                   unresolved, todo, undone, lost, history>>

\* Mutant: the answer of the writer is not looked at.
WrittenUnchecked ==
    /\ pc \in {"write", "written"}
    /\ log' = JournalEnds("done")
    /\ step' = step + 1
    /\ pc' = IF step < Len(plan[cur]) THEN "check" ELSE "commit"
    /\ UNCHANGED <<plan, outcome, books, disk, drift, job, cancelReq, cur, applied, failing, cancelled,
                   unresolved, todo, undone, lost, history>>

Written ==
    /\ pc = "written"
    /\ log' = JournalEnds("done")
    /\ step' = step + 1
    /\ pc' = IF step < Len(plan[cur]) THEN "check" ELSE "commit"
    /\ UNCHANGED <<plan, outcome, books, disk, drift, job, cancelReq, cur, applied, failing, cancelled,
                   unresolved, todo, undone, lost, history>>

\* _apply_grouping_correction: effect, journal and entry in one transaction.
Group ==
    /\ pc = "check"
    /\ Grouping(cur)
    /\ cur \notin drift
    /\ disk' = [disk EXCEPT ![cur] = {"grouping"}]
    /\ log' = Journal("done")
    /\ credited' = [credited EXCEPT ![cur] = {"grouping"}]
    /\ entry' = [entry EXCEPT ![cur] = "applied"]
    /\ applied' = applied \cup {cur}
    /\ cur' = cur + 1
    /\ pc' = "loop"
    /\ UNCHANGED <<plan, outcome, drift, job, cancelReq, step, failing, cancelled, unresolved, todo,
                   undone, lost, history>>

FileCommit ==
    /\ pc = "commit"
    /\ credited' = [credited EXCEPT ![cur] = Before(cur, step)]
    /\ IF failing = 0
       THEN /\ entry' = [entry EXCEPT ![cur] = "applied"]
            /\ applied' = applied \cup {cur}
            /\ cur' = cur + 1
            /\ pc' = "loop"
       ELSE /\ entry' = [entry EXCEPT ![cur] = "failed"]
            /\ pc' = "settle"
            /\ UNCHANGED <<applied, cur>>
    /\ UNCHANGED <<plan, outcome, log, disk, drift, job, cancelReq, step, failing, cancelled,
                   unresolved, todo, undone, lost, history>>

-----------------------------------------------------------------------------
(* apply_review_run: the outcome; _rollback_applied_files.                  *)

Settle ==
    /\ pc = "settle"
    /\ unresolved' = \E f \in Files : In(f, "writing") # {}
    /\ todo' = IF cancelled \/ failing # 0 \/ unresolved'
               THEN applied \cup {f \in {failing} \ {0} : Undoable(f) # {}}
               ELSE {}
    /\ pc' = IF todo' = {} THEN "conclude" ELSE "rollback"
    /\ UNCHANGED <<plan, outcome, books, log, disk, drift, job, cancelReq, cur, step, applied, failing,
                   cancelled, undone, lost, history>>

\* A finished move, undone on the disk: its commit is next.
Moved(f, j) == log[f][j].phase = "move" /\ log[f][j].state = "done"

\* Mutant: the files are rolled back in the order they were applied.
First(f) == \A g \in todo : f <= g

Last(f) == \A g \in todo : g <= f

\* Files in reverse order, the journals of a file in reverse order.
NextToUndo(f, i) ==
    /\ Last(f)
    /\ i \notin undone
    /\ \A j \in Undoable(f) \ undone : j <= i
    /\ \A j \in undone : ~Moved(f, j)

\* One inverse.  The checkpoints of a restoration of tags commit what was
\* flushed before; a grouping is nothing but its commit.
Restore ==
    /\ pc = "rollback"
    /\ \E f \in todo : \E i \in Undoable(f) :
        /\ NextToUndo(f, i)
        /\ f \notin drift
        /\ disk' = [disk EXCEPT ![f] = @ \ ({log[f][i].phase} \ {"grouping"})]
        /\ IF log[f][i].phase = "tags"
           THEN log' = Marked(f, undone, "rolled_back") /\ undone' = {i}
           ELSE undone' = undone \cup {i} /\ UNCHANGED log
    /\ UNCHANGED <<plan, outcome, books, drift, job, cancelReq, pc, cur, step, applied, failing,
                   cancelled, unresolved, todo, lost, history>>

MoveRestored ==
    /\ pc = "rollback"
    /\ \E f \in todo : \E i \in undone :
        /\ Last(f)
        /\ Moved(f, i)
        /\ log' = Marked(f, undone, "rolled_back")
    /\ undone' = {}
    /\ UNCHANGED <<plan, outcome, books, disk, drift, job, cancelReq, pc, cur, step, applied, failing,
                   cancelled, unresolved, todo, lost, history>>

\* An exception: what was flushed is rolled back and the journal says
\* "writing", whether or not the file is restored.  A missing file: the
\* rollback ends and what was flushed is committed with the outcome.
RestoreFails ==
    /\ pc = "rollback"
    /\ \E f \in todo : \E i \in Undoable(f) :
        /\ NextToUndo(f, i)
        /\ \/ /\ disk' \in {disk, [disk EXCEPT ![f] = @ \ ({log[f][i].phase} \ {"grouping"})]}
              /\ \E flushed \in {{}, undone} :
                    log' = [Marked(f, flushed, "rolled_back") EXCEPT ![f][i].state = "writing"]
              /\ f \in drift => disk' = disk
           \/ /\ log[f][i].phase = "tags"
              /\ log' = Marked(f, undone, "rolled_back")
              /\ UNCHANGED disk
    /\ lost' = TRUE
    /\ undone' = {}
    /\ pc' = "conclude"
    /\ UNCHANGED <<plan, outcome, books, drift, job, cancelReq, cur, step, applied, failing, cancelled,
                   unresolved, todo, history>>

RestoreCommit ==
    /\ pc = "rollback"
    /\ \E f \in todo :
        /\ Last(f)
        /\ Undoable(f) \subseteq undone
        /\ \A j \in undone : ~Moved(f, j)
        /\ log' = Marked(f, undone, "rolled_back")
        /\ disk' = [disk EXCEPT ![f] = @ \ {log[f][i].phase : i \in undone}]
        /\ todo' = todo \ {f}
    /\ undone' = {}
    /\ pc' = IF todo' = {} THEN "conclude" ELSE "rollback"
    /\ UNCHANGED <<plan, outcome, books, drift, job, cancelReq, cur, step, applied, failing, cancelled,
                   unresolved, lost, history>>

Failed == cancelled \/ failing # 0 \/ unresolved \/ lost

EntryAtEnd(f) ==
    IF lost THEN entry[f]
    ELSE IF f = failing THEN "failed"
    ELSE IF f \in applied THEN "rolled_back"
    ELSE IF entry[f] = "pending" THEN "failed"
    ELSE entry[f]

Conclude ==
    /\ pc = "conclude"
    /\ IF Failed
       THEN /\ run' = "failed"
            /\ recovery' = (unresolved \/ lost)
            /\ entry' = [f \in Files |-> EntryAtEnd(f)]
            /\ credited' = [f \in Files |->
                                IF ~lost /\ f \in applied \cup {failing} THEN {} ELSE credited[f]]
       ELSE /\ run' = IF \A f \in Files : credited[f] = Steps(f) THEN "applied" ELSE "failed"
            /\ UNCHANGED <<recovery, books>>
    /\ told' = entry'
    /\ Idle
    /\ UNCHANGED <<plan, log, disk, drift, job, cancelReq, history>>

-----------------------------------------------------------------------------
Init ==
    /\ plan \in Manifests
    /\ run = "pending"
    /\ recovery = FALSE
    /\ told = [f \in Files |-> "none"]
    /\ entry = [f \in Files |-> "pending"]
    /\ credited = [f \in Files |-> {}]
    /\ log = [f \in Files |-> <<>>]
    /\ disk = [f \in Files |-> {}]
    /\ drift = {}
    /\ job = "queued"
    /\ cancelReq = FALSE
    /\ pc = "idle"
    /\ cur = 1 /\ step = 1
    /\ applied = {}
    /\ failing = 0
    /\ cancelled = FALSE
    /\ unresolved = FALSE
    /\ todo = {}
    /\ undone = {}
    /\ lost = FALSE
    /\ replaced = {} /\ runs = 1 /\ foreigners = 0 /\ aborts = 0

Requests == Resume \/ NewRun \/ RequestCancel
Job      == Begin \/ JobEnds \/ Abort \/ Crash \/ Recover
Loop     == \/ Refuse \/ Accept \/ CancelSeen \/ Skip \/ StartFile \/ LoopEnds
            \/ CheckFails \/ Intent \/ Write \/ WriteFails \/ WriteUncertain \/ Written
            \/ Group \/ FileCommit
Outcome  == Settle \/ Restore \/ MoveRestored \/ RestoreFails \/ RestoreCommit \/ Conclude

Next == Requests \/ Job \/ Loop \/ Outcome \/ \E f \in Files : Foreign(f)

Spec == Init /\ [][Next]_vars

-----------------------------------------------------------------------------
(* Properties.                                                              *)

TypeOK ==
    /\ plan \in Manifests
    /\ run \in {"pending", "applying"} \cup Settled
    /\ recovery \in BOOLEAN
    /\ told \in [Files -> EntryStates \cup {"none"}]
    /\ entry \in [Files -> EntryStates]
    /\ credited \in [Files -> SUBSET Phases]
    /\ log \in [Files -> Seq([phase : Phases, state : JournalStates])]
    /\ disk \in [Files -> SUBSET Phases]
    /\ drift \subseteq Files
    /\ job \in {"none", "queued", "running", "dead"}
    /\ cancelReq \in BOOLEAN
    /\ pc \in {"idle", "preflight", "loop", "check", "write", "written", "commit", "settle",
               "rollback", "conclude"}
    /\ cur \in 1..(NFiles + 1)
    /\ step \in 1..3
    /\ applied \subseteq Files
    /\ failing \in {0} \cup Files
    /\ {cancelled, unresolved, lost} \subseteq BOOLEAN
    /\ todo \subseteq Files
    /\ undone \subseteq Nat
    /\ replaced \subseteq Files
    /\ {runs, foreigners, aborts} \subseteq Nat

\* An exception can end a handler while a rollback is half committed.  A file
\* is compared with the journal when the run is resumed, a collection is not.
Uninterrupted == aborts = 0 \/ \A f \in Files : ~Grouping(f)

\* Whatever a run has in effect on a file is on record as written or being written,
\* at every moment: neither a crash nor an error can leave a change of the
\* library that no journal accounts for.
WriteAhead ==
    Uninterrupted =>
        \A f \in Files : \A p \in disk[f] :
            \E i \in DOMAIN log[f] : log[f][i].phase = p /\ log[f][i].state \in {"writing", "done"}

\* Every accepted step is in effect, each of them in a finished journal that
\* an Undo can read, and nothing is half written.
Whole == \A f \in Files : disk[f] = Steps(f) /\ Done(f) = Steps(f) /\ In(f, "writing") = {}

\* A run that says "applied" is applied as a whole: "the only accepted final
\* outcomes are fully applied, fully restored/non-applied, or an explicit
\* fail-closed recovery state" (docs/production-readiness.md:176).
AppliedIsWhole == run = "applied" /\ Uninterrupted => Whole

\* A run that says "failed" and does not ask for recovery has left nothing in
\* effect: it "never silently leaves a partially applied bundle"
\* (docs/product-spec.md:269).
FailedIsRestored ==
    run = "failed" /\ ~recovery /\ aborts = 0 => \A f \in Files : disk[f] = {}

\* A file reported as rolled back has nothing of the run in effect.
RolledBackIsTrue ==
    Uninterrupted => \A f \in Files : told[f] = "rolled_back" => disk[f] = {}

\* What a run says of itself and of its files, the library shows.
OutcomeIsTrue == AppliedIsWhole /\ FailedIsRestored /\ RolledBackIsTrue

\* The rollback goes backwards: a step is undone only when, by the journals,
\* no later step of its file or of a later file is still in effect.
UndoneInReverse ==
    \A f \in Files : \A i \in In(f, "rolled_back")' \ In(f, "rolled_back") :
       /\ \A j \in In(f, "done")' : j < i
       /\ \A g \in Files : (g > f) => (In(g, "done")' = {})

RestoresInReverse == [][aborts = 0 => UndoneInReverse]_vars

\* FailedIsRestored and AppliedIsWhole also where an exception ended a handler
\* before another execution resumed the run.
FinalIsWhole ==
    /\ run = "applied" => Whole
    /\ run = "failed" /\ ~recovery => \A f \in Files : disk[f] = {}

\* "The persistent result still identifies per-file committed, rolled-back,
\* failed, and skipped operations" (docs/product-spec.md:267): a file
\* reported as applied has its steps in effect.
AppliedIsTrue ==
    \A f \in Files : told[f] = "applied" => disk[f] = Steps(f)
=============================================================================
