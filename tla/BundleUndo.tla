----------------------------- MODULE BundleUndo -----------------------------
(***************************************************************************)
(* The Undo of an applied bundle (changes/bundle_undo.py): the request     *)
(* that freezes the inverses of the journals (services/review_undo.py),    *)
(* its job, the preflight, inverse after inverse with an intent and a      *)
(* checkpoint for each, cancellation between files, and the recovery of an *)
(* Undo that died (jobs/queue.py).  Around it: the retention sweep that    *)
(* prunes journals (pipeline/retention.py) and other programs.             *)
(*                                                                         *)
(* A step is a pair of a file and a phase; the library is the set of steps *)
(* still in effect.  "recase" is a move that changes only the case of a    *)
(* name, on a file system where both names are one entry: it goes through  *)
(* an intermediate name.  Manifests of version 1 are not modelled.         *)
(***************************************************************************)
EXTENDS Naturals, Sequences

CONSTANTS
    NFiles,     \* files of the applied bundle, in the order they were applied
    Manifests   \* the steps that were applied to each of them

UndoFiles  == 1..NFiles
StepPhases == {"tags", "move", "recase", "grouping"}

\* _journal_step: a track has one journal for each phase it went through.
ASSUME UndoConstantsAssumption ==
    /\ NFiles \in Nat \ {0}
    /\ Manifests \subseteq [UndoFiles -> Seq(StepPhases)]
    /\ \A m \in Manifests : \A f \in UndoFiles :
          \A i, j \in DOMAIN m[f] : m[f][i] = m[f][j] => i = j

NoResult == [retryable |-> FALSE, recovery |-> FALSE, cancelled |-> FALSE]

VARIABLES
    plan,       \* the phases applied to each file
    disk,       \* the steps in effect
    mid,        \* the file in hand stands under its intermediate name
    noted,      \* the journal tells of what is under way: the intermediate
                \* name, or the staged replacement
    drift,      \* the files another program touched
    kept,       \* the ReviewFileJournals retention has left
    writing,    \* those in state "writing"
    rolled,     \* those in state "rolled_back"
    undoRun,    \* ReviewUndoRun.state, "none" before there is one
    result,     \* ReviewUndoRun.result
    told,       \* ReviewUndoRun.result["files"]
    frozen,     \* manifest["files"]: the inverses to apply
    completed,  \* execution["completed_journal_ids"]
    active,     \* execution["active_journal_id"], as a set
    job,        \* the job of the run
    cancelReq,  \* what should_cancel() answers
    undoPc,     \* where the handler stands
    entered     \* the file the loop is in, 0 before the first

library  == <<disk, mid, drift>>
journals == <<kept, writing, rolled, noted>>
books    == <<frozen, completed, active>>
outcome  == <<undoRun, result, told>>
process  == <<job, cancelReq, undoPc, entered>>
undoVars == <<plan, library, journals, books, outcome, process>>

Steps(f) == {<<f, plan[f][i]>> : i \in DOMAIN plan[f]}
AllSteps == UNION {Steps(f) : f \in UndoFiles}

\* s was applied after t.
Later(s, t) ==
    \/ s[1] > t[1]
    \/ /\ s[1] = t[1]
       /\ \E i, j \in DOMAIN plan[s[1]] :
             i > j /\ plan[s[1]][i] = s[2] /\ plan[s[1]][j] = t[2]

Remaining == frozen \ completed

\* The loop takes files and steps in the order of the manifest, which lists
\* the journals by descending id.
IsNext(s) == \A t \in Remaining \ {s} : Later(s, t)

FileDone(f) == \A s \in frozen : s[1] = f => s \in completed

\* _error_result reports what the file checkpoints prove.
ToldByCheckpoints == [f \in UndoFiles |-> IF FileDone(f) THEN "undone" ELSE "failed"]

\* _check_source_journals.
JournalsAgree == frozen = kept /\ active = {} /\ writing = {} /\ rolled = completed

\* A file is where its checkpoint or, before the first, its source says.
Verified(f) == f \notin drift /\ disk \cap Steps(f) = Steps(f) \ completed

Unknown == ~JournalsAgree \/ \E f \in UndoFiles : ~Verified(f)

Idle == undoPc' = "idle" /\ entered' = 0

Fails(retryable, recovery, cancelled) ==
    /\ undoRun' = "failed"
    /\ result' = [retryable |-> retryable, recovery |-> recovery, cancelled |-> cancelled]

-----------------------------------------------------------------------------
(* Requests, retention, other programs.                                     *)

\* Every track that was applied still has a journal.
Available == \A f \in UndoFiles : \E s \in kept : s[1] = f

\* _create_run and _manifest_for_inverses: the run and its frozen inverses.
CreateRun ==
    /\ undoRun = "none"
    /\ writing = {} /\ rolled = {}
    /\ undoRun' = "pending"
    /\ frozen' = kept
    /\ UNCHANGED <<result, told, completed, active>>

\* A failed Undo is asked for again.
RetryRun ==
    /\ undoRun = "failed"
    /\ result.retryable
    /\ UNCHANGED <<outcome, books>>

\* enqueue_review_undo, in one write transaction; any other request is
\* refused or answered with the job there is.
Enqueue ==
    /\ job = "none"
    /\ Available
    /\ CreateRun \/ RetryRun
    /\ job' = "queued"
    /\ UNCHANGED <<plan, library, journals, cancelReq, undoPc, entered>>

\* request_cancel: a queued job is over, a running one will see it.
RequestCancel ==
    /\ \/ job = "queued" /\ job' = "none" /\ UNCHANGED cancelReq
       \/ job = "running" /\ ~cancelReq /\ cancelReq' = TRUE /\ UNCHANGED job
    /\ UNCHANGED <<plan, library, journals, books, outcome, undoPc, entered>>

\* Mutant: what a failed Undo may still need is not protected.
NeedsJournalsRunning == undoRun \in {"pending", "undoing"}

\* _undo_run_needs_journals.
NeedsJournals ==
    \/ undoRun \in {"pending", "undoing"}
    \/ undoRun = "failed" /\ (result.recovery \/ result.cancelled \/ result.retryable)

\* sweep_apply_journals: the age threshold falls between two journals or
\* after all of them, as the threshold of runs does.
Prune ==
    /\ ~NeedsJournals
    /\ \E oldest \in kept : kept' = {s \in kept : Later(s, oldest)}
    /\ UNCHANGED <<plan, library, writing, rolled, noted, books, outcome, process>>

Touch(f) ==
    /\ f \notin drift
    /\ drift' = drift \cup {f}
    /\ UNCHANGED <<plan, disk, mid, journals, books, outcome, process>>

-----------------------------------------------------------------------------
(* apply_review_undo_run.                                                   *)

Lease ==
    /\ job = "queued"
    /\ job' = "running"
    /\ undoPc' = "start"
    /\ UNCHANGED <<plan, library, journals, books, outcome, cancelReq, entered>>

\* The run is taken in a write transaction.  The answers to a missing run, a
\* source that is not applied or journals that expired are out of reach of a
\* run that enqueue_review_undo has let through.
Start ==
    /\ undoPc = "start"
    /\ undoRun \in {"pending", "failed"}
    /\ undoRun' = "undoing"
    /\ undoPc' = "preflight"
    /\ UNCHANGED <<plan, library, journals, books, result, told, job, cancelReq, entered>>

Accept ==
    /\ undoPc = "preflight"
    /\ ~Unknown
    /\ undoPc' = "loop"
    /\ UNCHANGED <<plan, library, journals, books, outcome, job, cancelReq, entered>>

\* _active_conflicts: another run targets one of the tracks; asked first.
RefuseBusy ==
    /\ undoPc = "preflight"
    /\ Fails(TRUE, completed # {}, FALSE)
    /\ told' = ToldByCheckpoints
    /\ Idle
    /\ UNCHANGED <<plan, library, journals, books, job, cancelReq>>

\* _validate_inverse_blobs: artwork an inverse of tags needs cannot be read.
RefuseBlob ==
    /\ undoPc = "preflight"
    /\ ~Unknown
    /\ \E s \in Remaining : s[2] = "tags"
    /\ Fails(TRUE, TRUE, FALSE)
    /\ told' = ToldByCheckpoints
    /\ Idle
    /\ UNCHANGED <<plan, library, journals, books, job, cancelReq>>

RefuseDrift ==
    /\ undoPc = "preflight"
    /\ Unknown
    /\ Fails(FALSE, TRUE, FALSE)
    /\ told' = ToldByCheckpoints
    /\ Idle
    /\ UNCHANGED <<plan, library, journals, books, job, cancelReq>>

\* should_cancel() is asked when a file is entered, not between its steps.
CancelSeen ==
    /\ undoPc = "loop"
    /\ cancelReq
    /\ \E s \in Remaining : IsNext(s) /\ s[1] # entered
    /\ Fails(TRUE, completed # {}, TRUE)
    /\ told' = ToldByCheckpoints
    /\ Idle
    /\ UNCHANGED <<plan, library, journals, books, job, cancelReq>>

\* The intent of an inverse is committed before it is applied.
Intent ==
    /\ undoPc = "loop"
    /\ \E s \in Remaining :
          /\ IsNext(s)
          /\ cancelReq => s[1] = entered
          /\ entered' = s[1]
          /\ active' = {s}
          /\ writing' = {s}
    /\ undoPc' = "effect"
    /\ UNCHANGED <<plan, library, kept, rolled, noted, frozen, completed, outcome, job, cancelReq>>

InHand(phase) == undoPc = "effect" /\ active = {<<entered, phase>>}

\* restore_from_before_blob: the old tags, lyrics and artwork are written to
\* a replacement beside the file.  Its first checkpoint ("stage_ready") puts
\* it in the journal, in the place of the replacement of the Apply, whose
\* private directory went when the Apply was done with it.
StageTags ==
    /\ InHand("tags")
    /\ entered \notin drift
    /\ noted' = TRUE
    /\ undoPc' = "staged"
    /\ UNCHANGED <<plan, library, kept, writing, rolled, books, outcome, job, cancelReq, entered>>

\* Mutant: the staged replacement is not published.
RestoreTagsUnpublished ==
    /\ undoPc = "staged"
    /\ entered \notin drift
    /\ undoPc' = "commit"
    /\ UNCHANGED <<plan, library, journals, books, outcome, job, cancelReq, entered>>

\* The staged replacement is published.
RestoreTags ==
    /\ undoPc = "staged"
    /\ entered \notin drift
    /\ disk' = disk \ active
    /\ undoPc' = "commit"
    /\ UNCHANGED <<plan, mid, drift, journals, books, outcome, job, cancelReq, entered>>

\* move_file_with_guard: one rename that never replaces an entry.
MoveBack ==
    /\ InHand("move")
    /\ entered \notin drift
    /\ disk' = disk \ active
    /\ undoPc' = "commit"
    /\ UNCHANGED <<plan, mid, drift, journals, books, outcome, job, cancelReq, entered>>

\* _move_no_clobber when both names are one entry: the intermediate name is
\* committed to the journal ("first_intent"), ...
CaseNote ==
    /\ InHand("recase")
    /\ entered \notin drift
    /\ noted' = TRUE
    /\ undoPc' = "first"
    /\ UNCHANGED <<plan, library, kept, writing, rolled, books, outcome, job, cancelReq, entered>>

\* ... the file takes it ("first_done", "final_intent") ...
CaseFirst ==
    /\ undoPc = "first"
    /\ mid' = TRUE
    /\ undoPc' = "final"
    /\ UNCHANGED <<plan, disk, drift, journals, books, outcome, job, cancelReq, entered>>

\* ... and then the old one ("final_done").
CaseFinal ==
    /\ undoPc = "final"
    /\ mid' = FALSE
    /\ disk' = disk \ active
    /\ undoPc' = "commit"
    /\ UNCHANGED <<plan, drift, journals, books, outcome, job, cancelReq, entered>>

\* _restore_grouping: nothing but a change of the database.
RestoreGrouping ==
    /\ InHand("grouping")
    /\ undoPc' = "commit"
    /\ UNCHANGED <<plan, library, journals, books, outcome, job, cancelReq, entered>>

\* _set_step_checkpoint: the step in hand is one more of the completed ones.
Checkpointed == completed' = completed \cup active /\ active' = {}

\* The journal, the checkpoint and the catalog, in one transaction.
StepCommit ==
    /\ undoPc = "commit"
    /\ disk' = disk \ {s \in active : s[2] = "grouping"}
    /\ rolled' = rolled \cup active
    /\ writing' = {}
    /\ Checkpointed
    /\ noted' = FALSE
    /\ undoPc' = "loop"
    /\ UNCHANGED <<plan, mid, drift, kept, frozen, outcome, job, cancelReq, entered>>

\* Any exception of a step, of its intent or of its commit: what is not
\* committed is rolled back and the Undo is closed.
StepFails ==
    /\ \/ undoPc = "loop" /\ Remaining # {}
       \/ undoPc \in {"effect", "staged", "first", "final", "commit"}
    /\ Fails(FALSE, TRUE, FALSE)
    /\ told' = ToldByCheckpoints
    /\ Idle
    /\ UNCHANGED <<plan, library, journals, books, job, cancelReq>>

FinishUndo ==
    /\ undoPc = "loop"
    /\ Remaining = {}
    /\ undoRun' = "undone"
    /\ result' = NoResult
    /\ told' = [f \in UndoFiles |-> "undone"]
    /\ Idle
    /\ UNCHANGED <<plan, library, journals, books, job, cancelReq>>

-----------------------------------------------------------------------------
(* The job ends, dies, is recovered.                                        *)

JobEnds ==
    /\ job = "running"
    /\ undoPc = "idle"
    /\ job' = "none"
    /\ cancelReq' = FALSE
    /\ UNCHANGED <<plan, library, journals, books, outcome, undoPc, entered>>

\* A commit of the run itself is refused (the database is locked for longer
\* than its timeout): the exception leaves the handler and the job fails.
Abort ==
    /\ undoPc # "idle"
    /\ job' = "none"
    /\ cancelReq' = FALSE
    /\ Idle
    /\ UNCHANGED <<plan, library, journals, books, outcome>>

UndoCrash ==
    /\ job = "running"
    /\ job' = "dead"
    /\ cancelReq' = FALSE
    /\ Idle
    /\ UNCHANGED <<plan, library, journals, books, outcome>>

InRecovery == job = "dead" /\ undoRun = "undoing"

\* The file of the active inverse can be told from the journal.  Before the
\* replacement of an inverse of tags is staged the journal names one that is
\* gone, and recover_publication_transition cannot open its directory.
Traceable ==
    \A s \in active :
        /\ s[1] \notin drift
        /\ mid => noted
        /\ s[2] = "tags" => noted

\* reconcile_interrupted_undo takes the active inverse back to the applied
\* state, whether it had an effect or not, and commits.
Reconcile ==
    /\ InRecovery
    /\ active # {}
    /\ Traceable
    /\ disk' = disk \cup active
    /\ mid' = FALSE
    /\ writing' = {}
    /\ active' = {}
    /\ noted' = FALSE
    /\ UNCHANGED <<plan, drift, kept, rolled, frozen, completed, outcome, process>>

\* _file_job_recovery after a reconciliation: interrupted_undo_file_results
\* verifies every checkpoint again.
RecoverReconciled ==
    /\ InRecovery
    /\ active = {}
    /\ Fails(~Unknown, TRUE, result.cancelled)
    /\ told' = [f \in UndoFiles |-> IF FileDone(f) /\ Verified(f) THEN "undone" ELSE "failed"]
    /\ job' = "none"
    /\ UNCHANGED <<plan, library, journals, books, cancelReq, undoPc, entered>>

\* The reconciliation raises; part of it may have taken place.
RecoverUncertain ==
    /\ InRecovery
    /\ active # {}
    /\ ~Traceable
    /\ disk' \in {disk, disk \cup active}
    /\ mid' \in {mid, FALSE}
    /\ Fails(FALSE, TRUE, result.cancelled)
    /\ told' = [f \in UndoFiles |-> "failed"]
    /\ job' = "none"
    /\ UNCHANGED <<plan, drift, journals, books, cancelReq, undoPc, entered>>

\* Mutant: an Undo that was never taken is left alone.
RecoverPendingNever == FALSE /\ UNCHANGED undoVars

\* An Undo that died before it was taken is closed.
RecoverPending ==
    /\ job = "dead"
    /\ undoRun = "pending"
    /\ Fails(FALSE, TRUE, FALSE)
    /\ told' = [f \in UndoFiles |-> "failed"]
    /\ job' = "none"
    /\ UNCHANGED <<plan, library, journals, books, cancelReq, undoPc, entered>>

\* What an Undo had persisted before its job died stands.
RecoverSettled ==
    /\ job = "dead"
    /\ undoRun \in {"undone", "failed"}
    /\ job' = "none"
    /\ UNCHANGED <<plan, library, journals, books, outcome, cancelReq, undoPc, entered>>

-----------------------------------------------------------------------------
UndoInit ==
    /\ plan \in Manifests
    /\ disk = AllSteps
    /\ mid = FALSE /\ noted = FALSE
    /\ drift = {}
    /\ kept = AllSteps
    /\ writing = {} /\ rolled = {}
    /\ undoRun = "none"
    /\ result = NoResult
    /\ told = [f \in UndoFiles |-> "none"]
    /\ frozen = {} /\ completed = {} /\ active = {}
    /\ job = "none"
    /\ cancelReq = FALSE
    /\ undoPc = "idle"
    /\ entered = 0

Handler == \/ Lease \/ Start \/ Accept \/ RefuseBusy \/ RefuseBlob \/ RefuseDrift
           \/ CancelSeen \/ Intent \/ StageTags \/ RestoreTags \/ MoveBack
           \/ CaseNote \/ CaseFirst \/ CaseFinal \/ RestoreGrouping
           \/ StepCommit \/ StepFails \/ FinishUndo \/ JobEnds

Recovery == \/ Reconcile \/ RecoverReconciled \/ RecoverUncertain
            \/ RecoverPending \/ RecoverSettled

UndoNext == \/ Enqueue \/ RequestCancel \/ Prune \/ Handler \/ Abort \/ UndoCrash \/ Recovery
            \/ \E f \in UndoFiles : Touch(f)

UndoSpec == UndoInit /\ [][UndoNext]_undoVars

\* The worker pool runs what is queued and goes through the handler, and its
\* recovery loop finds expired leases; requests, sweeps and failures are free.
UndoFairSpec == UndoSpec /\ WF_undoVars(Handler) /\ WF_undoVars(Recovery)

-----------------------------------------------------------------------------
(* Properties.                                                              *)

UndoTypeOK ==
    /\ plan \in Manifests
    /\ {disk, kept, writing, rolled, frozen, completed, active} \subseteq SUBSET AllSteps
    /\ {mid, noted, cancelReq} \subseteq BOOLEAN
    /\ drift \subseteq UndoFiles
    /\ undoRun \in {"none", "pending", "undoing", "undone", "failed"}
    /\ result \in [retryable : BOOLEAN, recovery : BOOLEAN, cancelled : BOOLEAN]
    /\ told \in [UndoFiles -> {"none", "undone", "failed"}]
    /\ job \in {"none", "queued", "running", "dead"}
    /\ undoPc \in {"idle", "start", "preflight", "loop", "effect", "staged", "first", "final",
                  "commit"}
    /\ entered \in 0..NFiles

\* At every moment the library is a state that Apply went through: no inverse
\* takes effect while a later step is in effect, through cancellations,
\* retries, crashes and recoveries (changes/bundle_undo.py).
InReverse ==
    \A s \in AllSteps \ disk : \A t \in frozen : Later(t, s) => t \notin disk

\* A run that says "undone" has none of its frozen steps in effect, and so has
\* every file that any report calls "undone" (changes/bundle_undo.py).
ReportsAreTrue ==
    /\ undoRun = "undone" => disk \cap frozen = {} /\ rolled = frozen
    /\ \A f \in UndoFiles : told[f] = "undone" => \A s \in disk \cap frozen : s[1] # f

\* An Undo goes backwards through the steps of Apply, and what it says of a
\* run, of a file, and of its journals is what the library is (bundle_undo.py).
UndoneIsTrue == InReverse /\ ReportsAreTrue

\* An Undo that may be tried again has a library and journals that its
\* checkpoints describe: skipping what was restored is right, and nothing
\* is applied twice (docs/code-review-2026-10-04.md:188).
CheckpointsAreTrue ==
    undoRun = "failed" /\ result.retryable =>
        /\ active = {} /\ writing = {} /\ rolled = completed /\ ~mid
        /\ disk \cap frozen = frozen \ completed

\* The journals an Undo may still have to read are not pruned
\* (docs/code-review-2026-10-04.md:295).
InverseKept ==
    \/ undoRun \in {"pending", "undoing"}
    \/ undoRun = "failed" /\ result.retryable
    => frozen \subseteq kept

\* An Undo that may be tried again has checkpoints that describe the library
\* and journals that no retention sweep has pruned (pipeline/retention.py).
RetryIsSafe == CheckpointsAreTrue /\ InverseKept

\* The Undo died between the intent of an inverse of tags and the first
\* checkpoint of its replacement.
DiedUnstaged == ~noted /\ \E s \in active : s[2] = "tags"

\* When no other program has touched a file, recovery leaves the library as
\* the checkpoints have it, under its own names, wherever the Undo died; and
\* it leaves an Undo that can be tried again, unless that Undo died with a
\* replacement of tags intended and not staged (jobs/queue.py,
\* changes/bundle_undo.py).
CrashRecovers ==
    InRecovery /\ job' = "none" /\ drift = {} =>
        /\ disk' \cap frozen = frozen \ completed
        /\ ~mid'
        /\ result'.retryable \/ DiedUnstaged

CrashIsRecoverable == [][CrashRecovers]_undoVars

\* Every Undo job comes to an end, whatever dies on the way: its row is not
\* left running, and the run can be read, retried or is closed; and a crash
\* leaves a library its checkpoints describe (jobs/queue.py).
UndoSettles == CrashIsRecoverable /\ (job = "queued" ~> job = "none")

\* What was asked for and is over is "fully applied, fully
\* restored/non-applied, or an explicit fail-closed recovery state"
\* (docs/production-readiness.md:176): no run stays "pending" or "undoing"
\* without a job.
NoRunIsStranded == job = "none" => undoRun \notin {"pending", "undoing"}

\* "Fail closed when retention has pruned journals"
\* (services/review_undo.py:232): what is undone is undone entirely.
UndoneIsAll == undoRun = "undone" => disk = {}
=============================================================================
