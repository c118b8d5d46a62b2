---------------------------- MODULE Replacement -----------------------------
(***************************************************************************)
(* The replacement of one audio file and its journal row: Apply rewrites   *)
(* the tags of a file (changes/writer.py: write_tag_fields), a rollback or *)
(* an Undo restores them (bundle_applier.py: _rollback_applied_files,      *)
(* bundle_undo.py: _apply_step), and after a crash the recovery of an Undo *)
(* brings the file back to what Apply had published                        *)
(* (reconcile_interrupted_undo).  All of them publish through              *)
(* _StagedReplacement: a private directory beside the file, no-replace     *)
(* renames, and a checkpoint in the journal row before and after each.     *)
(*                                                                         *)
(* Other programs may replace or remove the file at any moment; nobody     *)
(* else enters the private directories.  A file stands for its identity    *)
(* and its content, which is what the code compares (_file_descriptor_-    *)
(* evidence: inode, size, mtime, sha256).                                  *)
(***************************************************************************)
EXTENDS Integers, FiniteSets

CONSTANTS
    MaxOps,          \* bound: replacements of the file, Apply being number 1
    MaxForeign,      \* bound: files that other programs put in its place
    MaxCrashes,      \* bound: deaths of the worker's process
    MaxFaults,       \* bound: checkpoints the database refuses
    FinalizeMayFail  \* whether releasing the held file may meet an I/O error

ASSUME ConstantsAssumption ==
    /\ MaxOps \in Nat \ {0}
    /\ {MaxForeign, MaxCrashes, MaxFaults} \subseteq Nat
    /\ FinalizeMayFail \in BOOLEAN

\* Files: the library's own, the one staged by each operation, foreign ones.
Absent   == -1
Original == 0
Applied  == 1
Ops      == 1..MaxOps
Foreign  == (MaxOps + 1)..(MaxOps + MaxForeign)
Files    == {Original} \cup Ops \cup Foreign
Entries  == Files \cup {Absent}

VARIABLES
    public,      \* what the path of the track names
    dirs,        \* the private directory of each operation
    transition,  \* __muzilla_publication_transition of the journal row
    journal,     \* ReviewFileJournal.state
    run,         \* ApplyRun.state, then ReviewUndoRun.state and its result
    op,          \* the last operation begun
    pc,          \* where the worker, or recovery, stands
    owed,        \* history: the files Muzilla must not lose
    foreigners,  \* history: foreign files so far
    crashes,     \* history: crashes so far
    faults       \* history: refused checkpoints so far

rows    == <<transition, journal, run>>
history == <<foreigners, crashes, faults>>
vars    == <<public, dirs, rows, op, pc, owed, history>>

NoDir   == [exists |-> FALSE, staged |-> Absent, held |-> Absent, withdrawn |-> Absent]
dir     == dirs[op]
recDir  == dirs[transition.op]

Stored == {public} \cup UNION {{dirs[o].staged, dirs[o].held, dirs[o].withdrawn} : o \in Ops}

\* The file an operation is to replace: physical_before of Apply, the guard
\* recorded after it for its inverses.
Expected(o) == IF o = 1 THEN Original ELSE Applied

-----------------------------------------------------------------------------
(* Failing.                                                                 *)

\* close(): the staged file and the directory go, unless entries of others
\* may be in it.
Discarded(d) ==
    LET left == [d EXCEPT !.staged = Absent] IN
    IF left.held = Absent /\ left.withdrawn = Absent THEN NoDir ELSE left

\* write_tag_fields, _rollback_applied_files and _apply_step after an exception.
\* Only a failed Apply that touched nothing ends without recovery_required.
Fail(touched) ==
    /\ pc' = "idle"
    /\ dirs' = IF touched THEN dirs ELSE [dirs EXCEPT ![op] = Discarded(dir)]
    /\ journal' = IF op = 1 /\ ~touched THEN "failed" ELSE "writing"
    /\ run' = IF op = 1 /\ ~touched THEN "failed" ELSE "recovery_required"

-----------------------------------------------------------------------------
(* _StagedReplacement.                                                      *)

\* __init__: the copy is staged, then the guard of the source verified.
Stage ==
    /\ pc = "stage"
    /\ IF public = Expected(op)
       THEN /\ dirs' = [dirs EXCEPT ![op] = [NoDir EXCEPT !.exists = TRUE, !.staged = op]]
            /\ pc' = "verify"
            /\ UNCHANGED <<journal, run>>
       ELSE Fail(FALSE)
    /\ UNCHANGED <<public, transition, op, owed, history>>

\* verify_for_publish
VerifyForPublish ==
    /\ pc = "verify"
    /\ IF public = Expected(op)
       THEN pc' = "stage_ready" /\ UNCHANGED <<dirs, journal, run>>
       ELSE Fail(FALSE)
    /\ UNCHANGED <<public, transition, op, owed, history>>

\* Mutant: one phase is misspelt where it is tested.
AfterMisspelt ==
    [stage_ready            |-> "displace_intent",
     displace_intent        |-> "displace",
     displaced              |-> "verify_held",
     displacement_verified  |-> "publication_intent",
     publication_intent     |-> "publish",
     compensating_intent    |-> "compensate",
     published              |-> "capture"]

\* What follows the checkpoint of a phase.
After ==
    [stage_ready            |-> "displace_intent",
     displace_intent        |-> "displace",
     displaced              |-> "verify_held",
     displacement_verified  |-> "publication_intent",
     publication_intent     |-> "publish",
     compensation_intent    |-> "compensate",
     published              |-> "capture"]

\* _checkpoint: the phase, with the entry it is about, committed to the row.
Checkpoint ==
    /\ pc \in DOMAIN After
    /\ pc = "published" => public = op
    /\ transition' = [op    |-> op,
                      phase |-> pc,
                      entry |-> IF pc \in {"displaced", "displacement_verified",
                                           "compensation_intent"}
                                THEN dir.held ELSE Absent]
    /\ pc' = After[pc]
    /\ UNCHANGED <<public, dirs, journal, run, op, owed, history>>

\* The database refuses the checkpoint.
CheckpointFails ==
    /\ pc \in DOMAIN After \cup {"compensated", "commit"}
    /\ faults < MaxFaults
    /\ faults' = faults + 1
    /\ Fail(pc \notin {"stage_ready", "displace_intent"})
    /\ UNCHANGED <<public, transition, op, owed, foreigners, crashes>>

\* renameat2(RENAME_NOREPLACE) of the file into the private directory.
Displace ==
    /\ pc = "displace"
    /\ IF public # Absent
       THEN /\ dirs' = [dirs EXCEPT ![op].held = public]
            /\ public' = Absent
            /\ pc' = "displaced"
            /\ UNCHANGED <<journal, run>>
       ELSE Fail(TRUE) /\ UNCHANGED public
    /\ UNCHANGED <<transition, op, owed, history>>

\* _held_matches_source_guard
VerifyHeld ==
    /\ pc = "verify_held"
    /\ pc' = IF dir.held = Expected(op)
             THEN "displacement_verified" ELSE "compensation_intent"
    /\ UNCHANGED <<public, dirs, rows, op, owed, history>>

\* The staged file takes the path, unless another file did.
Publish ==
    /\ pc = "publish"
    /\ IF public = Absent
       THEN /\ public' = op
            /\ dirs' = [dirs EXCEPT ![op].staged = Absent]
            /\ pc' = "published"
       ELSE pc' = "compensation_intent" /\ UNCHANGED <<public, dirs>>
    /\ UNCHANGED <<rows, op, owed, history>>

\* _try_restore_holding: back to the path, or compensation_blocked.
Compensate ==
    /\ pc = "compensate"
    /\ IF public = Absent
       THEN /\ public' = dir.held
            /\ dirs' = [dirs EXCEPT ![op].held = Absent]
            /\ pc' = "compensated"
            /\ UNCHANGED rows
       ELSE /\ Fail(TRUE)
            /\ transition' = [transition EXCEPT !.phase = "compensation_blocked",
                                                !.entry = Absent]
            /\ UNCHANGED public
    /\ UNCHANGED <<op, owed, history>>

\* The restored entry is compared, then the checkpoint written.
Compensated ==
    /\ pc = "compensated"
    /\ IF public = transition.entry
       THEN Fail(FALSE) /\ transition' = [transition EXCEPT !.phase = "compensated"]
       ELSE Fail(TRUE)  /\ UNCHANGED transition
    /\ UNCHANGED <<public, op, owed, history>>

\* capture_published_guard finds another file, here or in the caller.
CaptureFails ==
    /\ pc \in {"published", "capture"}
    /\ public # op
    /\ Fail(TRUE)
    /\ UNCHANGED <<public, transition, op, owed, history>>

Capture ==
    /\ pc = "capture"
    /\ public = op
    /\ pc' = "commit"
    /\ UNCHANGED <<public, dirs, rows, op, owed, history>>

\* From here on what the operation replaced is no longer owed, what it
\* published is.
Settle == owed' = (owed \ {Expected(op)}) \cup ({op} \cap {public})

\* The journal row with the completed transition, and the catalog's Track.
Commit ==
    /\ pc = "commit"
    /\ journal' = IF op = 1 THEN "done" ELSE "rolled_back"
    /\ transition' = [transition EXCEPT !.phase = "complete"]
    /\ Settle
    /\ pc' = "finalize"
    /\ UNCHANGED <<public, dirs, run, op, history>>

\* finalize_publication_transition: the verified original is released.
Finalize ==
    /\ pc = "finalize"
    /\ pc' = "finish"
    /\ \/ /\ public = op /\ dir.held = Expected(op)
          /\ dirs' = [dirs EXCEPT ![op] = NoDir]
       \/ /\ public # op \/ dir.held # Expected(op) \/ FinalizeMayFail
          /\ UNCHANGED dirs
    /\ UNCHANGED <<public, rows, op, owed, history>>

-----------------------------------------------------------------------------
(* The operations.                                                          *)

\* write_tag_fields: the journal row is committed in state writing first.
BeginApply ==
    /\ run = "none"
    /\ run' = "applying"
    /\ journal' = "writing"
    /\ op' = 1
    /\ pc' = "stage"
    /\ UNCHANGED <<public, dirs, transition, owed, history>>

\* Another file of the bundle fails, or Apply is cancelled.
BeginRollback ==
    /\ pc = "finish" /\ op = 1
    /\ op < MaxOps
    /\ op' = op + 1
    /\ pc' = "stage"
    /\ UNCHANGED <<public, dirs, rows, owed, history>>

\* Mutant: a rolled back Apply is reported like one that succeeded.
FinishAsApplied ==
    /\ pc = "finish"
    /\ pc' = "idle"
    /\ run' = IF run = "undoing" THEN "undone" ELSE "applied"
    /\ UNCHANGED <<public, dirs, transition, journal, op, owed, history>>

\* The run reaches its terminal state.
Finish ==
    /\ pc = "finish"
    /\ pc' = "idle"
    /\ run' = CASE run = "undoing" -> "undone"
                [] run = "applying" /\ op = 1 -> "applied"
                [] OTHER -> "failed"
    /\ UNCHANGED <<public, dirs, transition, journal, op, owed, history>>

\* enqueue_review_undo and the worker's start: first Undo, or a retry.
BeginUndo ==
    /\ run \in {"applied", "retryable"}
    /\ run' = "undoing"
    /\ pc' = "preflight"
    /\ UNCHANGED <<public, dirs, transition, journal, op, owed, history>>

\* _preflight, then _apply_step marks the journal row.
Preflight ==
    /\ pc = "preflight"
    /\ \/ /\ journal = "done" /\ public = Applied
          /\ op < MaxOps
          /\ op' = op + 1
          /\ journal' = "writing"
          /\ pc' = "stage"
          /\ UNCHANGED run
       \/ /\ journal = "rolled_back" /\ public = transition.op
          /\ run' = "undone"
          /\ pc' = "idle"
          /\ UNCHANGED <<op, journal>>
       \/ /\ public # (IF journal = "done" THEN Applied ELSE transition.op)
          /\ run' = "recovery_required"
          /\ pc' = "idle"
          /\ UNCHANGED <<op, journal>>
    /\ UNCHANGED <<public, dirs, transition, owed, history>>

-----------------------------------------------------------------------------
(* Crash and recovery.                                                      *)

Crash ==
    /\ pc # "idle"
    /\ crashes < MaxCrashes
    /\ crashes' = crashes + 1
    /\ pc' = "idle"
    /\ UNCHANGED <<public, dirs, rows, op, owed, foreigners, faults>>

\* _file_job_recovery: an Apply not known to be committed is left alone.
RecoverApply ==
    /\ run = "applying" /\ pc = "idle"
    /\ run' = "recovery_required"
    /\ UNCHANGED <<public, dirs, transition, journal, op, pc, owed, history>>

\* ... and of an Undo the journal row in state writing is reconciled.
RecoverUndo ==
    /\ run = "undoing" /\ pc = "idle"
    /\ IF journal = "writing"
       THEN pc' = "inspect" /\ UNCHANGED run
       ELSE /\ run' = IF public = (IF journal = "done" THEN Applied ELSE transition.op)
                      THEN "retryable" ELSE "recovery_required"
            /\ UNCHANGED pc
    /\ UNCHANGED <<public, dirs, transition, journal, op, owed, history>>

Blocked ==
    /\ pc' = "idle"
    /\ run' = "recovery_required"

\* recover_publication_transition, the entry the record names is in place.
AlreadyRestored ==
    /\ public # Absent /\ recDir.held = Absent
    /\ \/ /\ transition.phase \in {"recovered", "compensated", "compensation_intent"}
          /\ public = transition.entry
       \/ public = Expected(transition.op)

\* The path is free: the held entry goes back.
CanRestore == public = Absent /\ recDir.held # Absent

\* The published file is withdrawn first.
CanWithdraw ==
    /\ public = transition.op /\ recDir.held = Expected(transition.op)
    /\ recDir.withdrawn = Absent

Record(phase, entry) ==
    transition' = [transition EXCEPT !.phase = phase, !.entry = entry]

Inspect ==
    /\ pc = "inspect"
    /\ \/ /\ recDir.exists /\ AlreadyRestored
          /\ Record("recovered", public)
          /\ pc' = "cleanup"
          /\ UNCHANGED run
       \/ /\ recDir.exists /\ CanRestore
          /\ Record("recovery_restore_intent", recDir.held)
          /\ pc' = "restore"
          /\ UNCHANGED run
       \/ /\ recDir.exists /\ CanWithdraw
          /\ Record("recovery_withdraw_intent", recDir.held)
          /\ pc' = "withdraw"
          /\ UNCHANGED run
       \/ /\ ~(recDir.exists /\ (AlreadyRestored \/ CanRestore \/ CanWithdraw))
          /\ Blocked
          /\ UNCHANGED transition
    /\ UNCHANGED <<public, dirs, journal, op, owed, history>>

Withdraw ==
    /\ pc = "withdraw"
    /\ IF public # Absent
       THEN /\ dirs' = [dirs EXCEPT ![transition.op].withdrawn = public]
            /\ public' = Absent
            /\ pc' = "withdrawn"
            /\ UNCHANGED run
       ELSE Blocked /\ UNCHANGED <<public, dirs>>
    /\ UNCHANGED <<transition, journal, op, owed, history>>

Withdrawn ==
    /\ pc = "withdrawn"
    /\ IF recDir.withdrawn = transition.op
       THEN Record("recovery_withdrawn", transition.entry) /\ pc' = "restore" /\ UNCHANGED run
       ELSE Blocked /\ UNCHANGED transition
    /\ UNCHANGED <<public, dirs, journal, op, owed, history>>

Restore ==
    /\ pc = "restore"
    /\ IF public = Absent
       THEN /\ public' = recDir.held
            /\ dirs' = [dirs EXCEPT ![transition.op].held = Absent]
            /\ pc' = "restored"
            /\ UNCHANGED run
       ELSE Blocked /\ UNCHANGED <<public, dirs>>
    /\ UNCHANGED <<transition, journal, op, owed, history>>

Restored ==
    /\ pc = "restored"
    /\ IF public = transition.entry
       THEN Record("recovered", public) /\ pc' = "cleanup" /\ UNCHANGED run
       ELSE Blocked /\ UNCHANGED transition
    /\ UNCHANGED <<public, dirs, journal, op, owed, history>>

\* Mutant: a foreign file withdrawn by mistake goes with the directory.
CleanupAll ==
    /\ pc = "cleanup"
    /\ pc' = "reconciled"
    /\ dirs' = [dirs EXCEPT ![transition.op] = NoDir]
    /\ UNCHANGED <<public, rows, op, owed, history>>

\* cleanup_recovered_publication_transition: only what this operation staged.
Cleanup ==
    /\ pc = "cleanup"
    /\ pc' = "reconciled"
    /\ LET mine == {Absent, transition.op}
           left == [recDir EXCEPT !.staged = Absent]
       IN dirs' = [dirs EXCEPT ![transition.op] =
                      IF recDir.withdrawn \in mine THEN NoDir ELSE left]
    /\ UNCHANGED <<public, rows, op, owed, history>>

\* verify_file_guard, then the journal row is done again.
Reconciled ==
    /\ pc = "reconciled"
    /\ IF public = Applied
       THEN journal' = "done" /\ run' = "retryable" /\ pc' = "idle"
       ELSE Blocked /\ UNCHANGED journal
    /\ UNCHANGED <<public, dirs, transition, op, owed, history>>

\* The database refuses what recovery writes: the run is marked, or found
\* undoing by the next recovery.
RecoveryFails ==
    /\ pc \in {"inspect", "withdrawn", "restored", "reconciled"}
    /\ faults < MaxFaults
    /\ faults' = faults + 1
    /\ pc' = "idle"
    /\ run' \in {run, "recovery_required"}
    /\ UNCHANGED <<public, dirs, transition, journal, op, owed, foreigners, crashes>>

-----------------------------------------------------------------------------
(* Other programs.                                                          *)

ForeignReplace ==
    /\ foreigners < MaxForeign
    /\ foreigners' = foreigners + 1
    /\ public' = MaxOps + foreigners'
    /\ owed' = (owed \ {public}) \cup {public'}
    /\ UNCHANGED <<dirs, rows, op, pc, crashes, faults>>

ForeignRemove ==
    /\ foreigners < MaxForeign
    /\ foreigners' = foreigners + 1
    /\ public' = Absent
    /\ owed' = owed \ {public}
    /\ UNCHANGED <<dirs, rows, op, pc, crashes, faults>>

-----------------------------------------------------------------------------
Init ==
    /\ public = Original
    /\ dirs = [o \in Ops |-> NoDir]
    /\ transition = [op |-> 1, phase |-> "none", entry |-> Absent]
    /\ journal = "none" /\ run = "none"
    /\ op = 1 /\ pc = "idle"
    /\ owed = {Original}
    /\ foreigners = 0 /\ crashes = 0 /\ faults = 0

Replace ==
    \/ Stage \/ VerifyForPublish \/ Checkpoint \/ CheckpointFails
    \/ Displace \/ VerifyHeld \/ Publish
    \/ Compensate \/ Compensated \/ CaptureFails \/ Capture
    \/ Commit \/ Finalize

Recover ==
    \/ RecoverApply \/ RecoverUndo
    \/ Inspect \/ Withdraw \/ Withdrawn \/ Restore \/ Restored
    \/ Cleanup \/ Reconciled \/ RecoveryFails

Next ==
    \/ BeginApply \/ BeginRollback \/ Finish \/ BeginUndo \/ Preflight
    \/ Replace \/ Crash \/ Recover
    \/ ForeignReplace \/ ForeignRemove

Spec == Init /\ [][Next]_vars

-----------------------------------------------------------------------------
(* Properties.                                                              *)

Phases == DOMAIN After \cup
    {"none", "complete", "compensated", "compensation_blocked", "recovered",
     "recovery_restore_intent", "recovery_withdraw_intent", "recovery_withdrawn"}

Pcs == DOMAIN After \cup
    {"idle", "stage", "verify", "displace", "verify_held", "publish", "compensate",
     "compensated", "capture", "commit", "finalize", "finish", "preflight", "inspect",
     "withdraw", "withdrawn", "restore", "restored", "cleanup", "reconciled"}

Dirs == [exists : BOOLEAN, staged : Entries, held : Entries, withdrawn : Entries]

Transitions == [op : Ops, phase : Phases, entry : Entries]

\* Every variable holds a value the code can store there.
TypeOK ==
    /\ public \in Entries
    /\ dirs \in [Ops -> Dirs]
    /\ transition \in Transitions
    /\ journal \in {"none", "writing", "done", "failed", "rolled_back"}
    /\ run \in {"none", "applying", "applied", "failed", "undoing", "undone",
                "retryable", "recovery_required"}
    /\ op \in Ops
    /\ pc \in Pcs
    /\ owed \in SUBSET Files
    /\ foreigners \in 0..MaxForeign /\ crashes \in 0..MaxCrashes /\ faults \in 0..MaxFaults

\* No file is ever lost: neither the library's own before Apply is committed,
\* nor Apply's before it is undone, nor any that another program put there is
\* overwritten or deleted by a replacement, a compensation or a recovery.
NothingLost == owed \subseteq Stored

Settled == run \in {"applied", "failed", "undone"}

\* A run that ended without recovery_required keeps no file it owes as a held
\* or staged entry: it is where the user looks for it, or at least was
\* withdrawn by a recovery (see ForeignDetected).
SettledVisible ==
    Settled => owed \subseteq {public} \cup {dirs[o].withdrawn : o \in Ops}

\* What a run says is what the file is, unless another program was at work, and
\* no settled run keeps a file out of sight.
OutcomeTold ==
    /\ SettledVisible
    /\ foreigners = 0 =>
          /\ run = "applied" => public = Applied
          /\ run = "undone" => public \in Ops \ {Applied}
          /\ run = "retryable" => public \in Ops
          /\ run = "failed" => public # Applied

\* The applied file remains when Undo fails closed.
AppliedRemains ==
    (run = "recovery_required" /\ journal = "writing" /\ op > 1 /\ foreigners = 0)
        => Applied \in Stored

\* A file that another program put in place is seen by Muzilla: no run ends
\* as if it were not there, with the file out of sight.
ForeignDetected == Settled => owed \subseteq {public}

=============================================================================
