--------------------------- MODULE ChangesProofs ---------------------------
(***************************************************************************)
(* Proofs about the components that undo, name and illustrate files.       *)
(*                                                                         *)
(* BundleUndo, for every number of files and every manifest: an Undo goes  *)
(* backwards, its reports are true, a retry starts from checkpoints that   *)
(* describe the library and finds its journals, and recovery leaves the    *)
(* library they describe.  Renames, for every library and every batch: no  *)
(* move lands on a file, and a preview without a flag is distinct.  Blobs, *)
(* for every number of pictures, files and reviews: a row has its bytes    *)
(* and an inverse what it puts back, which is a count of references.  At   *)
(* the end the types of these and of Replacement together.                 *)
(***************************************************************************)
EXTENDS Changes, ReplacementProofs, FiniteSetTheorems

-----------------------------------------------------------------------------
(* BundleUndo: the inductive invariant.                                    *)

\* The journals say what the execution record says: the two are committed
\* together, there is one step in hand at most, and the intermediate name of a
\* case-only move is on record before the file takes it.
JournalsMatch ==
    /\ writing = active
    /\ rolled = completed
    /\ mid => noted
    /\ noted => active # {}
    /\ \A s, t \in active : s = t

\* The steps that were undone and the one in hand.
Touched == completed \cup active

\* The library is what the checkpoints say, the step in hand aside, and tags
\* are not restored before their replacement is in the journal.
LibraryMatches ==
    /\ completed \cap disk = {}
    /\ AllSteps \ disk \subseteq Touched
    /\ Touched \subseteq frozen
    /\ active \cap completed = {}
    /\ \A s \in active \ disk : s[2] = "tags" => noted

\* What was undone is later than what was not.
Ordered ==
    /\ \A s \in completed : \A t \in frozen \ completed : Later(s, t)
    /\ \A s \in active : \A t \in Remaining \ {s} : Later(s, t)

\* An Undo that is waiting, or that may be asked for, has nothing in hand.
AtRest ==
    \/ undoRun \in {"none", "pending"}
    \/ undoRun = "failed" /\ result.retryable
    \/ undoPc \in {"start", "preflight", "loop"}

\* An Undo that may still have to read its journals.
Owes ==
    \/ undoRun \in {"pending", "undoing"}
    \/ undoRun = "failed" /\ result.retryable

\* Where the handler stands goes with its run and with its job.
UndoControl ==
    /\ undoPc # "idle" => job = "running"
    /\ undoPc \notin {"idle", "start"} => undoRun = "undoing"
    /\ job = "queued" \/ undoPc = "start" =>
          undoRun = "pending" \/ (undoRun = "failed" /\ result.retryable)
    /\ undoPc \in {"effect", "staged", "commit"} => ~mid
    /\ undoPc \in {"staged", "first"} => noted
    /\ undoPc = "commit" => \A s \in active \cap disk : s[2] = "grouping"
    /\ undoPc = "staged" => \A s \in active : s[2] = "tags"
    /\ undoPc \in {"first", "final"} => \A s \in active : s[2] = "recase"

\* Before there is a run nothing is frozen and nothing was told; a file is
\* told "undone" when its steps are among the completed.
Told ==
    /\ undoRun = "none" => frozen = {} /\ \A f \in UndoFiles : told[f] = "none"
    /\ \A f \in UndoFiles : told[f] = "undone" => FileDone(f)
    /\ undoRun = "undone" => Remaining = {}

\* The inductive invariant of an Undo.
UndoInv ==
    /\ UndoTypeOK
    /\ JournalsMatch
    /\ LibraryMatches
    /\ Ordered
    /\ AtRest => active = {}
    /\ Owes => frozen = kept
    /\ UndoControl
    /\ Told

-----------------------------------------------------------------------------
(* The steps of a bundle and their order.                                   *)

\* The plan of a bundle never changes, and with it its steps and their order.
LEMMA PlanFixed ==
    ASSUME plan' = plan
    PROVE  /\ AllSteps' = AllSteps
           /\ \A f : Steps(f)' = Steps(f)
           /\ \A s, t : Later(s, t)' <=> Later(s, t)
BY DEF AllSteps, Steps, Later

\* A step is a file with one of its phases.
LEMMA StepsTyped ==
    ASSUME plan \in Manifests
    PROVE  \A s \in AllSteps : s[1] \in UndoFiles /\ s \in Steps(s[1])
BY DEF AllSteps, Steps

\* No two steps are each later than the other: the phases of a file differ.
LEMMA LaterAsymmetric ==
    ASSUME plan \in Manifests, NEW s \in AllSteps, NEW t \in AllSteps,
           Later(s, t), Later(t, s)
    PROVE  FALSE
<1>1. s[1] \in Nat /\ t[1] \in Nat /\ s[1] \in UndoFiles
    BY StepsTyped, UndoConstantsAssumption DEF UndoFiles
<1>2. s[1] = t[1] /\ ~(s[1] > t[1]) /\ ~(t[1] > s[1])
    BY <1>1 DEF Later
<1>3. PICK i, j \in DOMAIN plan[s[1]] : i > j /\ plan[s[1]][i] = s[2] /\ plan[s[1]][j] = t[2]
    BY <1>2 DEF Later
<1>4. PICK k, l \in DOMAIN plan[s[1]] : k > l /\ plan[s[1]][k] = t[2] /\ plan[s[1]][l] = s[2]
    BY <1>2 DEF Later
<1>5. /\ plan[s[1]] \in Seq(StepPhases)
      /\ \A m, n \in DOMAIN plan[s[1]] : plan[s[1]][m] = plan[s[1]][n] => m = n
    BY <1>1, UndoConstantsAssumption
<1>6. i = l /\ j = k
    BY <1>3, <1>4, <1>5
<1>7. i \in Nat /\ j \in Nat
    BY <1>3, <1>5
<1>. QED
    BY <1>3, <1>4, <1>6, <1>7

\* The file in hand, or none, is a number the loop may stand at.
LEMMA PlaceTyped == 0 \in 0 .. NFiles /\ UndoFiles \subseteq 0 .. NFiles
BY UndoConstantsAssumption DEF UndoFiles

\* What a run that failed, or one that did not, reports.
LEMMA ResultTyped ==
    ASSUME NEW a \in BOOLEAN, NEW b \in BOOLEAN, NEW c \in BOOLEAN
    PROVE  [retryable |-> a, recovery |-> b, cancelled |-> c]
               \in [retryable : BOOLEAN, recovery : BOOLEAN, cancelled : BOOLEAN]
OBVIOUS

-----------------------------------------------------------------------------
(* The initial states, and the requests.                                    *)

\* Before there is a run everything is in effect and nothing is in hand.
LEMMA UndoInitInv == UndoInit => UndoInv
<1>. SUFFICES ASSUME UndoInit PROVE UndoInv
    OBVIOUS
<1>1. UndoTypeOK
  <2>1. entered \in 0 .. NFiles
    BY UndoConstantsAssumption DEF UndoInit
  <2>2. result \in [retryable : BOOLEAN, recovery : BOOLEAN, cancelled : BOOLEAN]
    BY DEF UndoInit, NoResult
  <2>3. {disk, kept, writing, rolled, frozen, completed, active} \subseteq SUBSET AllSteps
    BY DEF UndoInit
  <2>. QED
    BY <2>1, <2>2, <2>3 DEF UndoInit, UndoTypeOK
<1>. QED
    BY <1>1 DEF UndoInit, UndoInv, JournalsMatch, LibraryMatches, Touched, Ordered, Remaining,
                AtRest, Owes, UndoControl, Told, FileDone

\* A request freezes what the journals hold, or takes up a failed run.
LEMMA EnqueueKeeps ==
    ASSUME UndoInv, Enqueue
    PROVE  UndoInv'
<1>. USE DEF Enqueue, CreateRun, RetryRun, library, journals, books, outcome, process
<1>1. UndoTypeOK'
    BY PlanFixed DEF UndoInv, UndoTypeOK
<1>. QED
    BY <1>1, PlanFixed
       DEF UndoInv, JournalsMatch, LibraryMatches, Touched, Ordered, Remaining,
           AtRest, Owes, UndoControl, Told, FileDone

\* A cancel changes the job, never the books.
LEMMA CancelKeeps ==
    ASSUME UndoInv, RequestCancel
    PROVE  UndoInv'
<1>. USE DEF RequestCancel, library, journals, books, outcome, process
<1>1. UndoTypeOK'
    BY PlanFixed DEF UndoInv, UndoTypeOK
<1>. QED
    BY <1>1, PlanFixed
       DEF UndoInv, JournalsMatch, LibraryMatches, Touched, Ordered, Remaining,
           AtRest, Owes, UndoControl, Told, FileDone

\* Retention prunes no journal that an Undo still owes a look.
LEMMA PruneKeeps ==
    ASSUME UndoInv, Prune
    PROVE  UndoInv'
<1>. USE DEF Prune, NeedsJournals, library, journals, books, outcome, process
<1>1. UndoTypeOK'
    BY PlanFixed DEF UndoInv, UndoTypeOK
<1>. QED
    BY <1>1, PlanFixed
       DEF UndoInv, JournalsMatch, LibraryMatches, Touched, Ordered, Remaining,
           AtRest, Owes, UndoControl, Told, FileDone

\* Another program changes what is on disk, not what is on record.
LEMMA TouchKeeps ==
    ASSUME UndoInv, NEW f \in UndoFiles, Touch(f)
    PROVE  UndoInv'
<1>. USE DEF Touch, library, journals, books, outcome, process
<1>1. UndoTypeOK'
    BY PlanFixed DEF UndoInv, UndoTypeOK
<1>. QED
    BY <1>1, PlanFixed
       DEF UndoInv, JournalsMatch, LibraryMatches, Touched, Ordered, Remaining,
           AtRest, Owes, UndoControl, Told, FileDone

-----------------------------------------------------------------------------
(* The handler.                                                             *)

\* A worker takes the job.
LEMMA LeaseKeeps ==
    ASSUME UndoInv, Lease
    PROVE  UndoInv'
<1>. USE DEF Lease, library, journals, books, outcome, process
<1>1. UndoTypeOK'
    BY PlanFixed DEF UndoInv, UndoTypeOK
<1>. QED
    BY <1>1, PlanFixed
       DEF UndoInv, JournalsMatch, LibraryMatches, Touched, Ordered, Remaining,
           AtRest, Owes, UndoControl, Told, FileDone

\* The run is taken: nothing is in hand yet.
LEMMA StartKeeps ==
    ASSUME UndoInv, Start
    PROVE  UndoInv'
<1>. USE DEF Start, library, journals, books, outcome, process
<1>1. UndoTypeOK'
    BY PlanFixed DEF UndoInv, UndoTypeOK
<1>. QED
    BY <1>1, PlanFixed
       DEF UndoInv, JournalsMatch, LibraryMatches, Touched, Ordered, Remaining,
           AtRest, Owes, UndoControl, Told, FileDone

\* The preflight found the library as the checkpoints say.
LEMMA AcceptKeeps ==
    ASSUME UndoInv, Accept
    PROVE  UndoInv'
<1>. USE DEF Accept, library, journals, books, outcome, process
<1>1. UndoTypeOK'
    BY PlanFixed DEF UndoInv, UndoTypeOK
<1>. QED
    BY <1>1, PlanFixed
       DEF UndoInv, JournalsMatch, LibraryMatches, Touched, Ordered, Remaining,
           AtRest, Owes, UndoControl, Told, FileDone

\* Another run holds a track: what was undone stays undone and is told.
LEMMA RefuseBusyKeeps ==
    ASSUME UndoInv, RefuseBusy
    PROVE  UndoInv'
<1>. USE DEF RefuseBusy, Fails, Idle, ToldByCheckpoints, library, journals, books, outcome, process
<1>1. UndoTypeOK'
    BY PlanFixed, PlaceTyped, ResultTyped DEF UndoInv, UndoTypeOK
<1>. QED
    BY <1>1, PlanFixed
       DEF UndoInv, JournalsMatch, LibraryMatches, Touched, Ordered, Remaining,
           AtRest, Owes, UndoControl, Told, FileDone

\* Artwork is missing: what was undone stays undone and is told.
LEMMA RefuseBlobKeeps ==
    ASSUME UndoInv, RefuseBlob
    PROVE  UndoInv'
<1>. USE DEF RefuseBlob, Fails, Idle, ToldByCheckpoints, library, journals, books, outcome, process
<1>1. UndoTypeOK'
    BY PlanFixed, PlaceTyped, ResultTyped DEF UndoInv, UndoTypeOK
<1>. QED
    BY <1>1, PlanFixed
       DEF UndoInv, JournalsMatch, LibraryMatches, Touched, Ordered, Remaining,
           AtRest, Owes, UndoControl, Told, FileDone

\* The library is not what the checkpoints say: the Undo is closed.
LEMMA RefuseDriftKeeps ==
    ASSUME UndoInv, RefuseDrift
    PROVE  UndoInv'
<1>. USE DEF RefuseDrift, Fails, Idle, ToldByCheckpoints, library, journals, books, outcome, process
<1>1. UndoTypeOK'
    BY PlanFixed, PlaceTyped, ResultTyped DEF UndoInv, UndoTypeOK
<1>. QED
    BY <1>1, PlanFixed
       DEF UndoInv, JournalsMatch, LibraryMatches, Touched, Ordered, Remaining,
           AtRest, Owes, UndoControl, Told, FileDone

\* A cancel is seen between two files: nothing is in hand.
LEMMA CancelSeenKeeps ==
    ASSUME UndoInv, CancelSeen
    PROVE  UndoInv'
<1>. USE DEF CancelSeen, Fails, Idle, ToldByCheckpoints, library, journals, books, outcome, process
<1>1. UndoTypeOK'
    BY PlanFixed, PlaceTyped, ResultTyped DEF UndoInv, UndoTypeOK
<1>. QED
    BY <1>1, PlanFixed
       DEF UndoInv, JournalsMatch, LibraryMatches, Touched, Ordered, Remaining,
           AtRest, Owes, UndoControl, Told, FileDone

\* The latest of the remaining steps is taken in hand.
LEMMA IntentKeeps ==
    ASSUME UndoInv, Intent
    PROVE  UndoInv'
<1>. USE DEF Intent, IsNext, library, journals, books, outcome, process
<1>1. PICK s \in Remaining : /\ \A t \in Remaining \ {s} : Later(s, t)
                            /\ entered' = s[1] /\ active' = {s} /\ writing' = {s}
    OBVIOUS
<1>2. plan \in Manifests /\ s \in AllSteps /\ s[1] \in UndoFiles
    BY <1>1, StepsTyped DEF UndoInv, UndoTypeOK, Remaining
<1>3. UndoTypeOK'
    BY ZenonT(40), <1>1, <1>2, PlanFixed, PlaceTyped DEF UndoInv, UndoTypeOK
<1>4. active = {} /\ s \in disk
    BY <1>1, <1>2 DEF UndoInv, AtRest, LibraryMatches, Touched, Remaining
<1>. QED
    BY <1>1, <1>3, <1>4, PlanFixed
       DEF UndoInv, JournalsMatch, LibraryMatches, Touched, Ordered, Remaining,
           AtRest, Owes, UndoControl, Told, FileDone

\* The replacement of the step in hand is staged.
LEMMA StageKeeps ==
    ASSUME UndoInv, StageTags
    PROVE  UndoInv'
<1>. USE DEF StageTags, InHand, library, journals, books, outcome, process
<1>1. UndoTypeOK'
    BY PlanFixed DEF UndoInv, UndoTypeOK
<1>. QED
    BY <1>1, PlanFixed
       DEF UndoInv, JournalsMatch, LibraryMatches, Touched, Ordered, Remaining,
           AtRest, Owes, UndoControl, Told, FileDone

\* The tags of the step in hand are restored.
LEMMA RestoreTagsKeeps ==
    ASSUME UndoInv, RestoreTags
    PROVE  UndoInv'
<1>. USE DEF RestoreTags, InHand, library, journals, books, outcome, process
<1>1. UndoTypeOK'
    BY PlanFixed DEF UndoInv, UndoTypeOK
<1>. QED
    BY <1>1, PlanFixed
       DEF UndoInv, JournalsMatch, LibraryMatches, Touched, Ordered, Remaining,
           AtRest, Owes, UndoControl, Told, FileDone

\* The move in hand is taken back.
LEMMA MoveBackKeeps ==
    ASSUME UndoInv, MoveBack
    PROVE  UndoInv'
<1>. USE DEF MoveBack, InHand, library, journals, books, outcome, process
<1>1. UndoTypeOK'
    BY PlanFixed DEF UndoInv, UndoTypeOK
<1>. QED
    BY <1>1, PlanFixed
       DEF UndoInv, JournalsMatch, LibraryMatches, Touched, Ordered, Remaining,
           AtRest, Owes, UndoControl, Told, FileDone

\* The intermediate name is put on record.
LEMMA CaseNoteKeeps ==
    ASSUME UndoInv, CaseNote
    PROVE  UndoInv'
<1>. USE DEF CaseNote, InHand, library, journals, books, outcome, process
<1>1. UndoTypeOK'
    BY PlanFixed DEF UndoInv, UndoTypeOK
<1>. QED
    BY <1>1, PlanFixed
       DEF UndoInv, JournalsMatch, LibraryMatches, Touched, Ordered, Remaining,
           AtRest, Owes, UndoControl, Told, FileDone

\* The file takes the intermediate name, which is on record.
LEMMA CaseFirstKeeps ==
    ASSUME UndoInv, CaseFirst
    PROVE  UndoInv'
<1>. USE DEF CaseFirst, library, journals, books, outcome, process
<1>1. UndoTypeOK'
    BY PlanFixed DEF UndoInv, UndoTypeOK
<1>. QED
    BY <1>1, PlanFixed
       DEF UndoInv, JournalsMatch, LibraryMatches, Touched, Ordered, Remaining,
           AtRest, Owes, UndoControl, Told, FileDone

\* The file takes the old name.
LEMMA CaseFinalKeeps ==
    ASSUME UndoInv, CaseFinal
    PROVE  UndoInv'
<1>. USE DEF CaseFinal, library, journals, books, outcome, process
<1>1. UndoTypeOK'
    BY ZenonT(40), PlanFixed DEF UndoInv, UndoTypeOK
<1>. QED
    BY <1>1, PlanFixed
       DEF UndoInv, JournalsMatch, LibraryMatches, Touched, Ordered, Remaining,
           AtRest, Owes, UndoControl, Told, FileDone

\* A step of collections has no effect on disk before its commit.
LEMMA RestoreGroupingKeeps ==
    ASSUME UndoInv, RestoreGrouping
    PROVE  UndoInv'
<1>. USE DEF RestoreGrouping, InHand, library, journals, books, outcome, process
<1>1. UndoTypeOK'
    BY PlanFixed DEF UndoInv, UndoTypeOK
<1>. QED
    BY <1>1, PlanFixed
       DEF UndoInv, JournalsMatch, LibraryMatches, Touched, Ordered, Remaining,
           AtRest, Owes, UndoControl, Told, FileDone

\* The step in hand becomes one of the completed.
LEMMA StepCommitKeeps ==
    ASSUME UndoInv, StepCommit
    PROVE  UndoInv'
<1>. USE DEF StepCommit, Checkpointed, library, journals, books, outcome, process
<1>1. UndoTypeOK'
    BY ZenonT(40), PlanFixed DEF UndoInv, UndoTypeOK
<1>. QED
    BY <1>1, PlanFixed
       DEF UndoInv, JournalsMatch, LibraryMatches, Touched, Ordered, Remaining,
           AtRest, Owes, UndoControl, Told, FileDone

\* A step fails: it stays in hand and the Undo is closed.
LEMMA StepFailsKeeps ==
    ASSUME UndoInv, StepFails
    PROVE  UndoInv'
<1>. USE DEF StepFails, Fails, Idle, ToldByCheckpoints, library, journals, books, outcome, process
<1>1. UndoTypeOK'
    BY PlanFixed, PlaceTyped, ResultTyped DEF UndoInv, UndoTypeOK
<1>. QED
    BY <1>1, PlanFixed
       DEF UndoInv, JournalsMatch, LibraryMatches, Touched, Ordered, Remaining,
           AtRest, Owes, UndoControl, Told, FileDone

\* No step remains: every file is undone.
LEMMA FinishKeeps ==
    ASSUME UndoInv, FinishUndo
    PROVE  UndoInv'
<1>. USE DEF FinishUndo, NoResult, Idle, library, journals, books, outcome, process
<1>1. UndoTypeOK'
    BY PlanFixed, PlaceTyped, ResultTyped DEF UndoInv, UndoTypeOK
<1>. QED
    BY <1>1, PlanFixed
       DEF UndoInv, JournalsMatch, LibraryMatches, Touched, Ordered, Remaining,
           AtRest, Owes, UndoControl, Told, FileDone

\* The job ends after its handler.
LEMMA JobEndsKeeps ==
    ASSUME UndoInv, JobEnds
    PROVE  UndoInv'
<1>. USE DEF JobEnds, library, journals, books, outcome, process
<1>1. UndoTypeOK'
    BY PlanFixed DEF UndoInv, UndoTypeOK
<1>. QED
    BY <1>1, PlanFixed
       DEF UndoInv, JournalsMatch, LibraryMatches, Touched, Ordered, Remaining,
           AtRest, Owes, UndoControl, Told, FileDone

-----------------------------------------------------------------------------
(* Death and recovery.                                                      *)

\* The handler is left by an exception: the books stay.
LEMMA AbortKeeps ==
    ASSUME UndoInv, Abort
    PROVE  UndoInv'
<1>. USE DEF Abort, Idle, library, journals, books, outcome, process
<1>1. UndoTypeOK'
    BY PlanFixed, PlaceTyped DEF UndoInv, UndoTypeOK
<1>. QED
    BY <1>1, PlanFixed
       DEF UndoInv, JournalsMatch, LibraryMatches, Touched, Ordered, Remaining,
           AtRest, Owes, UndoControl, Told, FileDone

\* The process dies: the books stay.
LEMMA UndoCrashKeeps ==
    ASSUME UndoInv, UndoCrash
    PROVE  UndoInv'
<1>. USE DEF UndoCrash, Idle, library, journals, books, outcome, process
<1>1. UndoTypeOK'
    BY PlanFixed, PlaceTyped DEF UndoInv, UndoTypeOK
<1>. QED
    BY <1>1, PlanFixed
       DEF UndoInv, JournalsMatch, LibraryMatches, Touched, Ordered, Remaining,
           AtRest, Owes, UndoControl, Told, FileDone

\* The step in hand is in effect again and no longer in hand.
LEMMA ReconcileKeeps ==
    ASSUME UndoInv, Reconcile
    PROVE  UndoInv'
<1>. USE DEF Reconcile, InRecovery, Traceable, library, journals, books, outcome, process
<1>1. UndoTypeOK'
    BY ZenonT(40), PlanFixed DEF UndoInv, UndoTypeOK
<1>. QED
    BY <1>1, PlanFixed
       DEF UndoInv, JournalsMatch, LibraryMatches, Touched, Ordered, Remaining,
           AtRest, Owes, UndoControl, Told, FileDone

\* What may be retried has nothing in hand and all its journals.
LEMMA RecoverReconciledKeeps ==
    ASSUME UndoInv, RecoverReconciled
    PROVE  UndoInv'
<1>. USE DEF RecoverReconciled, InRecovery, Fails, Unknown, JournalsAgree,
            library, journals, books, outcome, process
<1>1. UndoTypeOK'
    BY PlanFixed, ResultTyped DEF UndoInv, UndoTypeOK
<1>. QED
    BY <1>1, PlanFixed
       DEF UndoInv, JournalsMatch, LibraryMatches, Touched, Ordered, Remaining,
           AtRest, Owes, UndoControl, Told, FileDone

\* A step that cannot be traced stays in hand and closes the Undo.
LEMMA RecoverUncertainKeeps ==
    ASSUME UndoInv, RecoverUncertain
    PROVE  UndoInv'
<1>. USE DEF RecoverUncertain, InRecovery, Fails, library, journals, books, outcome, process
<1>1. /\ disk \subseteq AllSteps /\ active \subseteq AllSteps
      /\ mid \in BOOLEAN /\ result.cancelled \in BOOLEAN
    BY DEF UndoInv, UndoTypeOK
<1>2. disk' \subseteq AllSteps /\ mid' \in BOOLEAN /\ (mid' => mid)
  <2>1. disk' = disk \/ disk' = disk \cup active
    OBVIOUS
  <2>2. mid' = mid \/ mid' = FALSE
    OBVIOUS
  <2>3. disk' \subseteq AllSteps
    BY <1>1, <2>1
  <2>4. mid' \in BOOLEAN
    BY <1>1, <2>2
  <2>5. mid' => mid
    BY <2>2
  <2>. QED
    BY <2>3, <2>4, <2>5
<1>3. UndoTypeOK'
    BY <1>1, <1>2, PlanFixed, ResultTyped DEF UndoInv, UndoTypeOK
<1>4. JournalsMatch' /\ Ordered' /\ Told'
    BY <1>2, PlanFixed DEF UndoInv, JournalsMatch, Ordered, Remaining, Told, FileDone
<1>5. LibraryMatches'
    BY PlanFixed DEF UndoInv, LibraryMatches, Touched
<1>6. ~AtRest' /\ ~Owes' /\ UndoControl'
    BY DEF UndoInv, AtRest, Owes, UndoControl
<1>. QED
    BY <1>3, <1>4, <1>5, <1>6, PlanFixed DEF UndoInv

\* An Undo that never started is closed.
LEMMA RecoverPendingKeeps ==
    ASSUME UndoInv, RecoverPending
    PROVE  UndoInv'
<1>. USE DEF RecoverPending, Fails, library, journals, books, outcome, process
<1>1. UndoTypeOK'
    BY PlanFixed, ResultTyped DEF UndoInv, UndoTypeOK
<1>. QED
    BY <1>1, PlanFixed
       DEF UndoInv, JournalsMatch, LibraryMatches, Touched, Ordered, Remaining,
           AtRest, Owes, UndoControl, Told, FileDone

\* What had been persisted stands.
LEMMA RecoverSettledKeeps ==
    ASSUME UndoInv, RecoverSettled
    PROVE  UndoInv'
<1>. USE DEF RecoverSettled, library, journals, books, outcome, process
<1>1. UndoTypeOK'
    BY PlanFixed DEF UndoInv, UndoTypeOK
<1>. QED
    BY <1>1, PlanFixed
       DEF UndoInv, JournalsMatch, LibraryMatches, Touched, Ordered, Remaining,
           AtRest, Owes, UndoControl, Told, FileDone

-----------------------------------------------------------------------------
(* The theorems.                                                            *)

\* A step of the specification keeps the inductive invariant.
LEMMA UndoStepKeeps ==
    ASSUME UndoInv, [UndoNext]_undoVars
    PROVE  UndoInv'
<1>1. CASE UNCHANGED undoVars
  <2>. USE <1>1 DEF undoVars, library, journals, books, outcome, process
  <2>1. UndoTypeOK'
    BY PlanFixed DEF UndoInv, UndoTypeOK
  <2>. QED
    BY <2>1, PlanFixed
       DEF UndoInv, JournalsMatch, LibraryMatches, Touched, Ordered, Remaining,
           AtRest, Owes, UndoControl, Told, FileDone
<1>2. CASE Enqueue \/ RequestCancel \/ Prune \/ \E f \in UndoFiles : Touch(f)
    BY <1>2, EnqueueKeeps, CancelKeeps, PruneKeeps, TouchKeeps
<1>3. CASE Lease \/ Start \/ Accept \/ JobEnds
    BY <1>3, LeaseKeeps, StartKeeps, AcceptKeeps, JobEndsKeeps
<1>4. CASE RefuseBusy \/ RefuseBlob \/ RefuseDrift \/ CancelSeen \/ StepFails \/ FinishUndo
    BY <1>4, RefuseBusyKeeps, RefuseBlobKeeps, RefuseDriftKeeps, CancelSeenKeeps,
       StepFailsKeeps, FinishKeeps
<1>5. CASE Intent \/ StepCommit
    BY <1>5, IntentKeeps, StepCommitKeeps
<1>6. CASE StageTags \/ RestoreTags \/ MoveBack \/ CaseNote \/ CaseFirst \/ CaseFinal \/ RestoreGrouping
    BY <1>6, StageKeeps, RestoreTagsKeeps, MoveBackKeeps, CaseNoteKeeps, CaseFirstKeeps, CaseFinalKeeps,
       RestoreGroupingKeeps
<1>7. CASE Abort \/ UndoCrash
    BY <1>7, AbortKeeps, UndoCrashKeeps
<1>8. CASE Recovery
    BY <1>8, ReconcileKeeps, RecoverReconciledKeeps, RecoverUncertainKeeps,
       RecoverPendingKeeps, RecoverSettledKeeps DEF Recovery
<1>. QED
    BY <1>1, <1>2, <1>3, <1>4, <1>5, <1>6, <1>7, <1>8 DEF UndoNext, Handler

\* The inductive invariant holds of every state of every Undo.
LEMMA UndoInvariance == UndoSpec => []UndoInv
<1>1. UndoInv /\ [UndoNext]_undoVars => UndoInv'
    BY UndoStepKeeps
<1>. QED
    BY UndoInitInv, <1>1, PTL DEF UndoSpec

\* Every variable of an Undo keeps its type (changes/bundle_undo.py).
THEOREM UndoTypeCorrect == UndoSpec => []UndoTypeOK
<1>1. UndoInv => UndoTypeOK
    BY DEF UndoInv
<1>. QED
    BY UndoInvariance, <1>1, PTL

\* A step that is not in effect was undone or is in hand, and what is later
\* than either was undone before it.
LEMMA BackwardsHolds == UndoInv => InReverse
<1>. SUFFICES ASSUME UndoInv, NEW s \in AllSteps \ disk, NEW t \in frozen, Later(t, s)
             PROVE  t \in completed
    BY DEF InReverse, UndoInv, LibraryMatches
<1>1. plan \in Manifests /\ s \in AllSteps /\ t \in AllSteps
    BY DEF UndoInv, UndoTypeOK
<1>2. ~Later(s, t)
    BY <1>1, LaterAsymmetric
<1>3. s \in completed \/ s \in active
    BY DEF UndoInv, LibraryMatches, Touched
<1>4. s # t
    BY <1>2
<1>. QED
    BY <1>2, <1>3, <1>4 DEF UndoInv, Ordered, Remaining

\* A completed step is not in effect, and "undone" is told when all are.
LEMMA ReportsHold == UndoInv => ReportsAreTrue
BY StepsTyped DEF UndoInv, JournalsMatch, LibraryMatches, Touched, Told, FileDone, Remaining,
                  ReportsAreTrue, UndoTypeOK

\* What may be retried has nothing in hand, so its checkpoints tell all.
LEMMA CheckpointsHold == UndoInv => CheckpointsAreTrue
BY DEF UndoInv, JournalsMatch, LibraryMatches, Touched, AtRest, CheckpointsAreTrue, UndoTypeOK

\* What may be retried, or is under way, still has the journals it froze.
LEMMA JournalsHold == UndoInv => InverseKept
BY DEF UndoInv, Owes, InverseKept

\* Whatever is cancelled, retried, pruned, interrupted or recovered, an Undo
\* goes backwards through the steps of Apply and its reports are true, for
\* every number of files and every manifest (changes/bundle_undo.py).
THEOREM UndoIsTold == UndoSpec => []UndoneIsTrue
<1>1. UndoInv => UndoneIsTrue
    BY BackwardsHolds, ReportsHold DEF UndoneIsTrue
<1>. QED
    BY UndoInvariance, <1>1, PTL

\* An Undo that may be tried again starts from checkpoints that describe the
\* library, and finds the journals it froze (services/review_undo.py).
THEOREM RetryStartsClean == UndoSpec => []RetryIsSafe
<1>1. UndoInv => RetryIsSafe
    BY CheckpointsHold, JournalsHold DEF RetryIsSafe
<1>. QED
    BY UndoInvariance, <1>1, PTL

\* The recovery of a dead Undo can trace the step in hand unless another
\* program touched its file or its replacement was never staged; either way
\* the library is then what the checkpoints say.
LEMMA RecoveryDecides ==
    ASSUME UndoInv, [UndoNext]_undoVars
    PROVE  CrashRecovers
<1>. SUFFICES ASSUME InRecovery, job' = "none", drift = {}
             PROVE  /\ disk' \cap frozen = frozen \ completed
                    /\ ~mid'
                    /\ result'.retryable \/ DiedUnstaged
    BY DEF CrashRecovers
<1>1. active = {} => ~Unknown
  <2>. SUFFICES ASSUME active = {}
               PROVE  ~Unknown
    OBVIOUS
  <2>1. JournalsAgree
    BY DEF InRecovery, UndoInv, JournalsMatch, Owes, JournalsAgree
  <2>2. \A f \in UndoFiles : Steps(f) \subseteq AllSteps
    BY DEF AllSteps
  <2>3. \A f \in UndoFiles : Verified(f)
    BY <2>2 DEF Verified, UndoInv, LibraryMatches, Touched
  <2>. QED
    BY <2>1, <2>3 DEF Unknown
<1>2. active \subseteq disk => disk \cap frozen = frozen \ completed
    BY DEF UndoInv, UndoTypeOK, LibraryMatches, Touched
<1>3. CASE RecoverReconciled
  <2>1. active = {} /\ disk' = disk /\ mid' = mid /\ result'.retryable
    BY <1>1, <1>3 DEF RecoverReconciled, Fails, library
  <2>. QED
    BY <1>2, <2>1 DEF UndoInv, JournalsMatch
<1>4. CASE RecoverUncertain
  <2>1. PICK s \in active : ~(mid => noted) \/ ~(s[2] = "tags" => noted)
    BY <1>4 DEF RecoverUncertain, Traceable
  <2>2. ~noted /\ ~mid /\ s[2] = "tags"
    BY <2>1 DEF UndoInv, JournalsMatch
  <2>3. active \subseteq disk
    BY <2>1, <2>2 DEF UndoInv, JournalsMatch, LibraryMatches
  <2>4. disk' = disk
    BY <1>4, <2>3 DEF RecoverUncertain
  <2>5. ~mid'
    BY <1>4, <2>2 DEF RecoverUncertain
  <2>. QED
    BY <1>2, <2>1, <2>2, <2>3, <2>4, <2>5 DEF DiedUnstaged
<1>5. RecoverReconciled \/ RecoverUncertain
  <2>. USE DEF InRecovery, library, journals, books, outcome, process
  <2>1. /\ ~Enqueue /\ ~RequestCancel /\ ~Prune /\ ~UndoCrash
        /\ \A f \in UndoFiles : ~Touch(f)
    BY DEF Enqueue, RequestCancel, Prune, UndoCrash, Touch
  <2>2. undoPc = "idle" /\ job # "running"
    BY DEF UndoInv, UndoControl
  <2>3. ~Handler /\ ~Abort
    BY <2>2 DEF Handler, Abort, Lease, Start, Accept, RefuseBusy, RefuseBlob, RefuseDrift,
                CancelSeen, Intent, StageTags, RestoreTags, MoveBack, CaseNote, CaseFirst,
                CaseFinal, RestoreGrouping, InHand, StepCommit, StepFails, FinishUndo, JobEnds
  <2>4. ~Reconcile /\ ~RecoverPending /\ ~RecoverSettled /\ ~UNCHANGED undoVars
    BY DEF Reconcile, RecoverPending, RecoverSettled, undoVars
  <2>. QED
    BY <2>1, <2>3, <2>4 DEF UndoNext, Recovery
<1>. QED
    BY <1>3, <1>4, <1>5

\* Wherever an Undo dies, what recovery leaves behind is what the checkpoints
\* say, and it can be tried again unless the Undo died with a replacement of
\* tags intended and not staged (jobs/queue.py, changes/bundle_undo.py).
THEOREM CrashLeavesCheckpoints == UndoSpec => CrashIsRecoverable
<1>1. UndoInv /\ [UndoNext]_undoVars => [CrashRecovers]_undoVars
    BY RecoveryDecides
<1>. QED
    BY UndoInvariance, <1>1, PTL DEF UndoSpec, CrashIsRecoverable

-----------------------------------------------------------------------------
(* Renames: the moves of a revision.                                       *)

\* The moves of a revision are those of the values it proposes, in the library
\* as it was known when they were computed.
PreviewOf(t) ==
    [to |-> proposed[t],
     errors |-> proposed[t] = Unrenderable,
     collision |-> IF t \in Rendered(proposed)
                   THEN {u \in Rendered(proposed) \ {t} : Norm(proposed[u]) = Norm(proposed[t])}
                        \cup {u \in AllTracks \ Batch : Norm(known[u]) = Norm(proposed[t])}
                   ELSE {}]

\* The inductive invariant of a revision: its moves are that preview.
MovesInv ==
    /\ RenamesTypeOK
    /\ NoClobber
    /\ renaming = "open" => \A t \in Batch : move[t] = PreviewOf(t)

\* A preview has a destination, a flag, and the tracks it collides with.
LEMMA PreviewTyped ==
    ASSUME NEW values \in [Batch -> Values], NEW t \in Batch
    PROVE  Previewed(t, values) \in [to : Values, errors : BOOLEAN, collision : SUBSET AllTracks]
BY RenamesConstantsAssumption DEF Previewed, Conflicts, Rendered

\* No two files of the library have a name in common, whatever its spelling.
LEMMA MovesInitInv == RenamesInit => MovesInv
<1>. SUFFICES ASSUME RenamesInit PROVE MovesInv
  OBVIOUS
<1>1. path \in [AllTracks -> Paths]
  BY DEF RenamesInit, Paths
<1>2. move \in [Batch -> [to : Values, errors : BOOLEAN, collision : SUBSET AllTracks]]
  BY DEF RenamesInit, Values
<1>. QED
  BY <1>1, <1>2, RenamesConstantsAssumption
     DEF MovesInv, RenamesInit, RenamesTypeOK, NoClobber, Values, Decisions

\* Recomputing the moves in the library as it is now makes them the preview of it.
LEMMA Recomputes ==
    ASSUME RenamesTypeOK, NEW values \in [Batch -> Values],
           move' = Moves(values), proposed' = values, known' = path
    PROVE  /\ \A t \in Batch : move'[t] = PreviewOf(t)'
           /\ move' \in [Batch -> [to : Values, errors : BOOLEAN, collision : SUBSET AllTracks]]
<1>1. ASSUME NEW t \in Batch PROVE move'[t] = PreviewOf(t)'
  <2>1. move'[t] = Previewed(t, values)
    BY DEF Moves
  <2>2. Rendered(proposed') = Rendered(values) /\ known' = path
    OBVIOUS
  <2>3. PreviewOf(t)' = [to |-> values[t],
     errors |-> values[t] = Unrenderable,
     collision |-> IF t \in Rendered(values)
                   THEN {u \in Rendered(values) \ {t} : Norm(values[u]) = Norm(values[t])}
                        \cup {u \in AllTracks \ Batch : Norm(path[u]) = Norm(values[t])}
                   ELSE {}]
    BY DEF PreviewOf, Rendered, Norm
  <2>. QED
    BY <2>1, <2>3 DEF Previewed, Conflicts
<1>2. move' \in [Batch -> [to : Values, errors : BOOLEAN, collision : SUBSET AllTracks]]
  BY PreviewTyped DEF Moves
<1>. QED
  BY <1>1, <1>2

\* A decision carried over a recomputation is one of the decisions.
LEMMA CarriedTyped ==
    ASSUME RenamesTypeOK, NEW moves, NEW t \in Batch
    PROVE  Carried(moves, t) \in Decisions
BY DEF Carried, RenamesTypeOK, Decisions

\* Every step of a revision keeps its invariant.
LEMMA MovesStepKeeps ==
    ASSUME MovesInv, [RenamesNext]_renamesVars
    PROVE  MovesInv'
<1>. USE DEF MovesInv
<1>1. ASSUME NEW values \in [Batch -> Values], Compose(values) PROVE MovesInv'
  <2>1. /\ \A t \in Batch : move'[t] = PreviewOf(t)'
        /\ move' \in [Batch -> [to : Values, errors : BOOLEAN, collision : SUBSET AllTracks]]
    BY <1>1, Recomputes DEF Compose
  <2>2. RenamesTypeOK'
    BY <1>1, <2>1 DEF Compose, RenamesTypeOK, Decisions
  <2>. QED
    BY <1>1, <2>1, <2>2 DEF Compose, NoClobber
<1>2. ASSUME NEW t \in Batch, NEW v \in Values, Edit(t, v) PROVE MovesInv'
  <2>. DEFINE values == [proposed EXCEPT ![t] = v]
  <2>0. values \in [Batch -> Values]
    BY DEF RenamesTypeOK
  <2>1. /\ \A u \in Batch : move'[u] = PreviewOf(u)'
        /\ move' \in [Batch -> [to : Values, errors : BOOLEAN, collision : SUBSET AllTracks]]
    <3>1. move' = Moves(values) /\ proposed' = values /\ known' = path
      BY <1>2 DEF Edit, Recomputed
    <3>. HIDE DEF values
    <3>. QED BY <2>0, <3>1, Recomputes
  <2>2. decision' \in [Batch -> Decisions]
    BY <1>2, CarriedTyped DEF Edit
  <2>3. edits' \in 0 .. MaxEdits
    BY <1>2, RenamesConstantsAssumption DEF Edit, RenamesTypeOK
  <2>4. RenamesTypeOK'
    BY <1>2, <2>0, <2>1, <2>2, <2>3 DEF Edit, RenamesTypeOK
  <2>. QED
    BY <1>2, <2>1, <2>4 DEF Edit, NoClobber
<1>3. CASE Refresh
  <2>1. /\ \A u \in Batch : move'[u] = PreviewOf(u)'
        /\ move' \in [Batch -> [to : Values, errors : BOOLEAN, collision : SUBSET AllTracks]]
    BY <1>3, Recomputes DEF Refresh, RenamesTypeOK
  <2>2. decision' \in [Batch -> Decisions]
    BY <1>3, CarriedTyped DEF Refresh
  <2>3. edits' \in 0 .. MaxEdits
    BY <1>3, RenamesConstantsAssumption DEF Refresh, RenamesTypeOK
  <2>4. RenamesTypeOK'
    BY <1>3, <2>1, <2>2, <2>3 DEF Refresh, RenamesTypeOK
  <2>. QED
    BY <1>3, <2>1, <2>4 DEF Refresh, NoClobber
<1>4. ASSUME NEW t \in Batch, NEW d \in Decisions, Decide(t, d) PROVE MovesInv'
  BY <1>4 DEF Decide, PreviewOf, Rendered, RenamesTypeOK, NoClobber
<1>5. ASSUME NEW u \in AllTracks, NEW p \in Paths, OtherMoves(u, p) PROVE MovesInv'
  BY <1>5 DEF OtherMoves, PreviewOf, Rendered, RenamesTypeOK, NoClobber
<1>6. CASE Apply
  BY <1>6, RenamesConstantsAssumption
     DEF Apply, RenamesTypeOK, NoClobber, Flagged, Accepted, Occupied, Duplicated, PreviewOf,
         Values, Norm, Decided
<1>7. CASE UNCHANGED renamesVars
  BY <1>7 DEF renamesVars, PreviewOf, Rendered, RenamesTypeOK, NoClobber
<1>. QED BY <1>1, <1>2, <1>3, <1>4, <1>5, <1>6, <1>7 DEF RenamesNext

\* The preview is of the library that was known, so that a preview without a
\* flag has compared every pair with a track of the batch.
LEMMA MovesInvIsSafe == MovesInv => MovesAreSafe
<1>. SUFFICES ASSUME MovesInv PROVE MovesAreSafe
  OBVIOUS
<1>1. MovesFollowTags
  <2>. SUFFICES ASSUME renaming = "open", NEW t \in Batch PROVE move[t].to = proposed[t]
    BY DEF MovesFollowTags
  <2>1. move[t] = PreviewOf(t)
    BY DEF MovesInv
  <2>. QED
    BY <2>1 DEF PreviewOf
<1>2. CleanPreviewIsDistinct
  BY RenamesConstantsAssumption
     DEF MovesInv, CleanPreviewIsDistinct, PreviewOf, Flagged, Rendered, Norm, RenamesTypeOK
<1>3. NoClobber
  BY DEF MovesInv
<1>. QED BY <1>1, <1>2, <1>3 DEF MovesAreSafe

\* Types of a revision of file names.
THEOREM MovesTypeCorrect == RenamesSpec => []RenamesTypeOK
<1>1. MovesInv => RenamesTypeOK
  BY DEF MovesInv
<1>. QED BY <1>1, MovesInitInv, MovesStepKeeps, PTL DEF RenamesSpec

\* No rename lands on a file, a preview without a flag is distinct, and the names
\* proposed follow the tags proposed, for every library, batch and set of names,
\* over any number of edits, refreshes and foreign moves (pipeline/paths.py).
THEOREM MovesKeptSafe == RenamesSpec => []MovesAreSafe
BY MovesInitInv, MovesStepKeeps, MovesInvIsSafe, PTL DEF RenamesSpec

-----------------------------------------------------------------------------
(* Blobs: every use of an artwork is a place, and has a reference.         *)

\* What stands at each place of a track: its cover, and below it the covers
\* that its journals replaced.
Places == Tracks \X (0..MaxWrites)

At(p) ==
    IF p[2] = 0 THEN cover[p[1]]
    ELSE IF p[2] \in DOMAIN inverse[p[1]] THEN inverse[p[1]][p[2]].catalog ELSE None

\* What the file of a track held before each of its journals.
Held(p) == IF p[2] \in DOMAIN inverse[p[1]] THEN inverse[p[1]][p[2]].entries ELSE None

\* Each of them is a reference to the artwork.
Uses(b) == {p \in Places : At(p) = b}
Keeps(b) == {p \in Places : Held(p) = b}

\* A release under way removed the bytes of this artwork and not yet its row.
Going(b) ==
    /\ row[b] = 1
    /\ write.step = "releasing" \/ (write.step = "restored" /\ b \in torn)
    /\ b = cover[write.at]
    /\ Releases(write.at)

\* Every reference is counted.
Counted ==
    \A b \in Art :
        /\ Exists(b) => row[b] >= Cardinality(Uses(b)) + Cardinality(Keeps(b))
        /\ ~Exists(b) => Uses(b) = {} /\ Keeps(b) = {}

\* Artwork that put() did not find, and another has stored since, has a
\* reference that no restore takes back.
PutIsSafe ==
    put.step # "idle" =>
        /\ put.of \in Art
        /\ put.for \in Reviews
        /\ ~put.known /\ Exists(put.of) => row[put.of] > Cardinality(Uses(put.of))
        /\ ~put.known /\ put.step = "synced" => file[put.of] = "durable"

\* A row has its bytes but for the one whose release is under way.
BytesFollow ==
    /\ \A b \in Art : Exists(b) => file[b] = "durable" \/ Going(b)
    /\ \A b \in torn : Going(b)
    /\ \A b \in Art : Going(b) => file[b] = "none"

\* The journal of the write under way is the last of its track.
WriteHasJournal ==
    /\ write.step # "idle" =>
           write.at \in Tracks /\ write.by \in Reviews /\ inverse[write.at] # <<>>
    /\ write.step = "writing" => review[write.by].proposes \in Art
    /\ write.step = "releasing" => Releases(write.at)

\* The bounds of the counts.
Bounded ==
    /\ \A t \in Tracks : Len(inverse[t]) <= writes
    /\ \A b \in Art : row[b] <= 3 * writes
    /\ write.step = "writing" => writes > 0 /\ \A b \in Art : row[b] < 3 * writes

\* The inductive invariant of the artwork store.
ArtInv == BlobsTypeOK /\ Counted /\ PutIsSafe /\ BytesFollow /\ WriteHasJournal /\ Bounded

-----------------------------------------------------------------------------
\* A set that grows by at most one element.
LEMMA GrowsByOne ==
    ASSUME NEW S, NEW T, NEW x, IsFiniteSet(S), T \subseteq S \cup {x}
    PROVE  IsFiniteSet(T) /\ Cardinality(T) <= Cardinality(S) + 1
<1>1. /\ IsFiniteSet(S \cup {x}) /\ Cardinality(S) \in Nat
      /\ Cardinality(S \cup {x}) = Cardinality(S) \/ Cardinality(S \cup {x}) = Cardinality(S) + 1
    BY FS_AddElement, FS_CardinalityType
<1>2. /\ IsFiniteSet(T) /\ Cardinality(T) \in Nat
      /\ Cardinality(T) <= Cardinality(S \cup {x})
    BY <1>1, FS_Subset, FS_CardinalityType
<1>. QED
    BY <1>1, <1>2

\* A set that loses an element.
LEMMA LosesOne ==
    ASSUME NEW S, NEW T, NEW x \in S, IsFiniteSet(S), T \subseteq S \ {x}
    PROVE  IsFiniteSet(T) /\ Cardinality(T) + 1 <= Cardinality(S)
<1>1. /\ IsFiniteSet(S \ {x}) /\ Cardinality(S) \in Nat
      /\ Cardinality(S \ {x}) = Cardinality(S) - 1
    BY FS_RemoveElement, FS_CardinalityType
<1>2. /\ IsFiniteSet(T) /\ Cardinality(T) \in Nat
      /\ Cardinality(T) <= Cardinality(S \ {x})
    BY <1>1, FS_Subset, FS_CardinalityType
<1>. QED
    BY <1>1, <1>2

\* A set that exchanges an element for another.
LEMMA ExchangesOne ==
    ASSUME NEW S, NEW T, NEW x \in S, NEW y, IsFiniteSet(S), T \subseteq (S \ {x}) \cup {y}
    PROVE  IsFiniteSet(T) /\ Cardinality(T) <= Cardinality(S)
<1>1. IsFiniteSet(S \ {x}) /\ Cardinality(S \ {x}) + 1 <= Cardinality(S)
    BY LosesOne
<1>2. IsFiniteSet(T) /\ Cardinality(T) <= Cardinality(S \ {x}) + 1
    BY <1>1, GrowsByOne
<1>3. /\ Cardinality(T) \in Nat /\ Cardinality(S) \in Nat
      /\ Cardinality(S \ {x}) \in Nat
    BY <1>1, <1>2, FS_CardinalityType
<1>. QED
    BY <1>1, <1>2, <1>3

\* There are finitely many places.
LEMMA UsesFinite ==
    ASSUME NEW b
    PROVE  /\ IsFiniteSet(Uses(b)) /\ Cardinality(Uses(b)) \in Nat
           /\ IsFiniteSet(Keeps(b)) /\ Cardinality(Keeps(b)) \in Nat
<1>1. IsFiniteSet(0..MaxWrites)
    BY FS_Interval, BlobsConstantsAssumption
<1>2. IsFiniteSet(Places)
    BY <1>1, FS_Product, BlobsConstantsAssumption DEF Places
<1>3. Uses(b) \subseteq Places /\ Keeps(b) \subseteq Places
    BY DEF Uses, Keeps
<1>. QED
    BY <1>2, <1>3, FS_Subset, FS_CardinalityType

\* Covers and journals that stay keep every reference where it is.
LEMMA SameUses ==
    ASSUME cover' = cover, inverse' = inverse
    PROVE  /\ \A b : Uses(b)' = Uses(b)
           /\ \A b : Keeps(b)' = Keeps(b)
           /\ \A t : Releases(t)' <=>
                        cover[t] \notin {None, Journal(t).catalog} /\ Exists(cover[t])'
           /\ \A t : Journal(t)' = Journal(t)
BY DEF Uses, Keeps, At, Held, Releases, Journal, Exists

\* An empty store counts nothing.
LEMMA ArtInitInv == BlobsInit => ArtInv
<1>. SUFFICES ASSUME BlobsInit PROVE ArtInv
    OBVIOUS
<1>1. BlobsTypeOK
  <2>1. /\ embedded \in [Tracks -> Art \cup {None}] /\ cover \in [Tracks -> Art \cup {None}]
        /\ inverse \in [Tracks -> Seq(Journals)]
    BY DEF BlobsInit
  <2>2. \A t \in Tracks : Len(inverse[t]) <= MaxWrites
    BY BlobsConstantsAssumption DEF BlobsInit
  <2>3. 0 \in 0..MaxWrites
    BY BlobsConstantsAssumption
  <2>. QED
    BY <2>1, <2>2, <2>3 DEF BlobsInit, BlobsTypeOK, Resting
<1>2. \A b \in Art : Uses(b) = {} /\ Keeps(b) = {}
    BY BlobsConstantsAssumption DEF BlobsInit, Uses, Keeps, At, Held, Places
<1>. QED
    BY <1>1, <1>2
       DEF ArtInv, BlobsInit, Counted, PutIsSafe, BytesFollow, WriteHasJournal, Bounded, Exists,
           NoRow, Resting

\* The last journal of a track is one of its journals.
LEMMA JournalTyped ==
    ASSUME BlobsTypeOK, NEW t \in Tracks, inverse[t] # <<>>
    PROVE  /\ Len(inverse[t]) \in 1..MaxWrites /\ Len(inverse[t]) \in DOMAIN inverse[t]
           /\ Journal(t) \in Journals
<1>1. inverse[t] \in Seq(Journals) /\ Len(inverse[t]) <= MaxWrites
    BY DEF BlobsTypeOK
<1>2. Len(inverse[t]) \in Nat /\ Len(inverse[t]) > 0 /\ MaxWrites \in Nat
    BY <1>1, BlobsConstantsAssumption
<1>. QED
    BY <1>1, <1>2 DEF Journal

\* The cover of a track is one of the uses of its artwork.
LEMMA CoverUsed ==
    ASSUME NEW t \in Tracks, cover[t] \in Art
    PROVE  <<t, 0>> \in Uses(cover[t]) /\ Cardinality(Uses(cover[t])) > 0
<1>1. <<t, 0>> \in Uses(cover[t])
    BY BlobsConstantsAssumption DEF Uses, Places, At
<1>2. Cardinality(Uses(cover[t])) # 0
    BY <1>1, UsesFinite, FS_EmptySet
<1>. QED
    BY <1>1, <1>2, UsesFinite

\* Artwork whose row goes was found by put(), if put() is at it at all.
LEMMA GoingIsKnown ==
    ASSUME ArtInv, NEW b \in Art, Going(b), put.step # "idle", put.of = b
    PROVE  put.known
<1>1. Cardinality(Uses(b)) > 0
    BY CoverUsed DEF ArtInv, WriteHasJournal, Going
<1>. QED
    BY <1>1, UsesFinite DEF ArtInv, PutIsSafe, Going, Exists, NoRow, BlobsTypeOK

\* put() looks for a row of the digest.
LEMMA LookKeeps ==
    ASSUME ArtInv, NEW r \in Reviews, NEW b \in Art, Look(r, b)
    PROVE  ArtInv'
<1>. USE DEF Look
<1>1. BlobsTypeOK'
    BY BlobsConstantsAssumption DEF ArtInv, BlobsTypeOK, Resting, Exists
<1>2. Counted' /\ PutIsSafe'
    BY ZenonT(40), SameUses, UsesFinite
       DEF ArtInv, BlobsTypeOK, Counted, PutIsSafe, Exists, Resting, Intact, NoRow
<1>3. BytesFollow' /\ WriteHasJournal' /\ Bounded'
    BY SameUses
       DEF ArtInv, BlobsTypeOK, BytesFollow, WriteHasJournal, Bounded, Going, Releases, Exists,
           Resting, NoRow
<1>. QED
    BY <1>1, <1>2, <1>3 DEF ArtInv

\* The bytes are linked under the digest.
LEMMA PublishKeeps ==
    ASSUME ArtInv, PublishArt
    PROVE  ArtInv'
<1>. USE DEF PublishArt
<1>1. BlobsTypeOK'
    BY BlobsConstantsAssumption DEF ArtInv, BlobsTypeOK, Resting
<1>2. Counted' /\ PutIsSafe'
    BY SameUses, UsesFinite
       DEF ArtInv, BlobsTypeOK, Counted, PutIsSafe, Exists, Resting, Intact, NoRow
<1>3. BytesFollow' /\ WriteHasJournal' /\ Bounded'
  <2>1. put.of \in Art /\ ~Going(put.of)
    BY GoingIsKnown DEF ArtInv, PutIsSafe
  <2>2. \A b : Going(b)' <=> Going(b)
    BY SameUses DEF Going, Releases, Exists
  <2>3. BytesFollow'
    BY <2>1, <2>2 DEF ArtInv, BlobsTypeOK, BytesFollow, Exists
  <2>4. WriteHasJournal' /\ Bounded'
    BY SameUses DEF ArtInv, BlobsTypeOK, WriteHasJournal, Bounded, Releases, Exists
  <2>. QED
    BY <2>3, <2>4
<1>. QED
    BY <1>1, <1>2, <1>3 DEF ArtInv

\* The bytes are durable.
LEMMA SyncKeeps ==
    ASSUME ArtInv, Sync
    PROVE  ArtInv'
<1>. USE DEF Sync
<1>1. BlobsTypeOK'
    BY BlobsConstantsAssumption DEF ArtInv, BlobsTypeOK, Resting
<1>2. Counted' /\ PutIsSafe'
    BY SameUses, UsesFinite
       DEF ArtInv, BlobsTypeOK, Counted, PutIsSafe, Exists, Resting, Intact, NoRow
<1>3. BytesFollow' /\ WriteHasJournal' /\ Bounded'
    BY SameUses
       DEF ArtInv, BlobsTypeOK, BytesFollow, WriteHasJournal, Bounded, Going, Releases, Exists,
           Resting, NoRow
<1>. QED
    BY <1>1, <1>2, <1>3 DEF ArtInv

\* The row is there, and its bytes are.
LEMMA RegisterKeeps ==
    ASSUME ArtInv, Register
    PROVE  ArtInv'
<1>. USE DEF Register, MayInsert
<1>0. /\ put.of \in Art /\ put.for \in Reviews
      /\ 0 \in 0..3 * MaxWrites
    BY BlobsConstantsAssumption DEF ArtInv, PutIsSafe
<1>1. BlobsTypeOK'
  <2>1. row' \in [Art -> (0..3 * MaxWrites) \cup {NoRow}]
    BY <1>0 DEF ArtInv, BlobsTypeOK
  <2>2. review' \in [Reviews -> [state : {"open", "applied", "undone", "failed"},
                                 proposes : Art \cup {None}]]
    BY ZenonT(40), <1>0 DEF ArtInv, BlobsTypeOK
  <2>3. put' \in [step : {"idle", "looked", "linked", "synced"}, of : Art \cup {None},
                  for  : Reviews \cup {None}, known : BOOLEAN]
    BY DEF Resting
  <2>. QED
    BY <2>1, <2>2, <2>3 DEF ArtInv, BlobsTypeOK
<1>4. \A b \in Art : /\ Exists(b) => row'[b] = row[b]
                     /\ ~Exists(b) => row'[b] = row[b] \/ (b = put.of /\ row'[b] = 0)
    BY DEF ArtInv, BlobsTypeOK, Exists
<1>2. Counted' /\ PutIsSafe'
  <2>1. PutIsSafe'
    BY DEF PutIsSafe, Resting
  <2>2. Cardinality({}) = 0
    BY FS_EmptySet
  <2>3. ASSUME NEW b \in Art
        PROVE  /\ Exists(b)' => row'[b] >= Cardinality(Uses(b)) + Cardinality(Keeps(b))
               /\ ~Exists(b)' => Uses(b) = {} /\ Keeps(b) = {}
    <3>1. CASE Exists(b)
        BY <1>4, <3>1 DEF ArtInv, Counted, Exists
    <3>2. CASE ~Exists(b) /\ row'[b] = row[b]
        BY <3>2 DEF ArtInv, Counted, Exists
    <3>3. CASE ~Exists(b) /\ row'[b] = 0
      <4>1. Uses(b) = {} /\ Keeps(b) = {}
        BY <3>3 DEF ArtInv, Counted
      <4>. QED
        BY <2>2, <3>3, <4>1
    <3>. QED
        BY <1>4, <3>1, <3>2, <3>3
  <2>. QED
    BY <2>1, <2>3, SameUses DEF Counted
<1>3. BytesFollow' /\ WriteHasJournal' /\ Bounded'
  <2>1. ASSUME NEW b \in Art, Going(b)
        PROVE  Going(b)'
    BY <1>4, <2>1, SameUses DEF Going, Releases, Exists, NoRow
  <2>2. \A b \in Art : Exists(b)' => file'[b] = "durable" \/ Going(b)
    BY <1>4 DEF ArtInv, PutIsSafe, BytesFollow, Exists
  <2>6. ASSUME NEW b \in Art, Going(b)'
        PROVE  Going(b)
    BY <1>4, <2>6, SameUses DEF ArtInv, BlobsTypeOK, Going, Releases, Exists, NoRow
  <2>3. BytesFollow'
    BY <2>1, <2>2, <2>6 DEF ArtInv, BytesFollow, BlobsTypeOK
  <2>4. WriteHasJournal'
    BY <1>0, <1>4, SameUses DEF ArtInv, WriteHasJournal, Releases, BlobsTypeOK, Exists, NoRow
  <2>5. Bounded'
    <3>1. writes \in Nat
        BY BlobsConstantsAssumption DEF ArtInv, BlobsTypeOK
    <3>2. \A b \in Art : row'[b] = row[b] \/ row'[b] = 0
        BY <1>4
    <3>. QED
        BY <3>1, <3>2 DEF ArtInv, Bounded, BlobsTypeOK
  <2>. QED
    BY <2>3, <2>4, <2>5
<1>. QED
    BY <1>1, <1>2, <1>3 DEF ArtInv

\* What was published stays.
LEMMA PutFailsKeeps ==
    ASSUME ArtInv, PutFails
    PROVE  ArtInv'
<1>. USE DEF PutFails
<1>1. BlobsTypeOK'
    BY BlobsConstantsAssumption DEF ArtInv, BlobsTypeOK, Resting
<1>2. Counted' /\ PutIsSafe'
    BY SameUses, UsesFinite
       DEF ArtInv, BlobsTypeOK, Counted, PutIsSafe, Exists, Resting, Intact, NoRow
<1>3. BytesFollow' /\ WriteHasJournal' /\ Bounded'
    BY SameUses
       DEF ArtInv, BlobsTypeOK, BytesFollow, WriteHasJournal, Bounded, Going, Releases, Exists,
           Resting, NoRow
<1>. QED
    BY <1>1, <1>2, <1>3 DEF ArtInv

\* The file has its own artwork back.
LEMMA RestoreFileKeeps ==
    ASSUME ArtInv, NEW t \in Tracks, NEW rollback \in BOOLEAN, RestoreFile(t, rollback)
    PROVE  ArtInv'
<1>. USE DEF RestoreFile
<1>0. Journal(t) \in Journals
    BY JournalTyped DEF ArtInv
<1>1. BlobsTypeOK'
  <2>1. embedded' \in [Tracks -> Art \cup {None}]
    BY <1>0 DEF ArtInv, BlobsTypeOK, Journals
  <2>2. write' \in [step : {"idle", "writing", "restored", "releasing"},
                    at : Tracks \cup {None}, by : Reviews \cup {None}, undoes : BOOLEAN]
    BY <1>0 DEF Journals
  <2>. QED
    BY <2>1, <2>2 DEF ArtInv, BlobsTypeOK
<1>2. Counted' /\ PutIsSafe'
    BY SameUses, UsesFinite
       DEF ArtInv, BlobsTypeOK, Counted, PutIsSafe, Exists, Resting, Intact, NoRow
<1>3. BytesFollow' /\ WriteHasJournal' /\ Bounded'
  <2>1. torn = {} /\ \A b \in Art : ~Going(b)
    BY DEF ArtInv, BytesFollow, Going, BlobsTypeOK
  <2>2. BytesFollow'
    BY <2>1 DEF ArtInv, BytesFollow, Exists, Going
  <2>3. WriteHasJournal' /\ Bounded'
    BY <1>0 DEF ArtInv, WriteHasJournal, Bounded, Journals
  <2>. QED
    BY <2>2, <2>3
<1>. QED
    BY <1>1, <1>2, <1>3 DEF ArtInv

\* The bytes of a last reference are removed.
LEMMA UnlinkKeeps ==
    ASSUME ArtInv, Unlink
    PROVE  ArtInv'
<1>. USE DEF Unlink
<1>1. BlobsTypeOK'
    BY DEF ArtInv, BlobsTypeOK
<1>2. /\ write.at \in Tracks /\ cover[write.at] \in Art
      /\ Exists(cover[write.at])
      /\ Cardinality(Uses(cover[write.at])) > 0
    BY CoverUsed DEF ArtInv, BlobsTypeOK, WriteHasJournal, Releases
<1>3. Counted' /\ PutIsSafe'
  <2>1. Counted'
    BY SameUses DEF ArtInv, Counted, Exists
  <2>2. PutIsSafe'
    BY <1>2, SameUses, UsesFinite DEF ArtInv, BlobsTypeOK, PutIsSafe, Exists, NoRow
  <2>. QED
    BY <2>1, <2>2
<1>4. BytesFollow'
  <2>1. \A b \in Art : Going(b)' <=> row[b] = 1 /\ b = cover[write.at]
    BY SameUses DEF Going, Releases, Exists
  <2>. QED
    BY <1>2, <2>1 DEF ArtInv, BlobsTypeOK, BytesFollow, Going, Exists
<1>5. WriteHasJournal' /\ Bounded'
    BY SameUses DEF ArtInv, WriteHasJournal, Bounded, Releases, Exists
<1>. QED
    BY <1>1, <1>3, <1>4, <1>5 DEF ArtInv

\* A new journal adds the cover and the contents of the file it is about.
LEMMA CaptureUses ==
    ASSUME ArtInv, NEW r \in Reviews, NEW t \in Tracks, CaptureArt(r, t)
    PROVE  LET p == <<t, Len(inverse[t]) + 1>>
           IN  /\ p \in Places
               /\ \A b \in Art :
                     /\ Uses(b)' \subseteq Uses(b) \cup {p}
                     /\ b # cover[t] => Uses(b)' \subseteq Uses(b)
                     /\ Keeps(b)' \subseteq Keeps(b) \cup {p}
                     /\ b # embedded[t] => Keeps(b)' \subseteq Keeps(b)
<1>. USE DEF CaptureArt
<1>0. PICK n \in Nat : n = Len(inverse[t]) + 1
    BY DEF ArtInv, BlobsTypeOK
<1>. DEFINE p == <<t, n>>
<1>1. /\ inverse[t] \in Seq(Journals) /\ n \in 1..MaxWrites
      /\ inverse' = [inverse EXCEPT ![t] =
             Append(@, [catalog |-> cover[t], entries |-> embedded[t], by |-> r])]
    BY <1>0, BlobsConstantsAssumption DEF ArtInv, BlobsTypeOK, Bounded
<1>2. /\ DOMAIN inverse'[t] = DOMAIN inverse[t] \cup {n}
      /\ n \notin DOMAIN inverse[t]
      /\ inverse'[t][n].catalog = cover[t] /\ inverse'[t][n].entries = embedded[t]
      /\ \A i \in DOMAIN inverse[t] : inverse'[t][i] = inverse[t][i]
    BY <1>0, <1>1 DEF ArtInv, BlobsTypeOK
<1>3. \A u \in Tracks \ {t} : inverse'[u] = inverse[u]
    BY <1>1 DEF ArtInv, BlobsTypeOK
<1>4. p \in Places
    BY <1>1 DEF Places
<1>5. \A q \in Places : /\ q # p => At(q)' = At(q) /\ Held(q)' = Held(q)
                        /\ At(p)' = cover[t] /\ Held(p)' = embedded[t]
  <2>1. ASSUME NEW u \in Tracks, NEW i \in 0..MaxWrites, <<u, i>> # p
        PROVE  At(<<u, i>>)' = At(<<u, i>>) /\ Held(<<u, i>>)' = Held(<<u, i>>)
    <3>1. CASE u = t
      BY <1>2, <2>1, <3>1 DEF At, Held
    <3>2. CASE u # t
      BY <1>3, <3>2 DEF At, Held
    <3>. QED
      BY <3>1, <3>2
  <2>2. At(p)' = cover[t] /\ Held(p)' = embedded[t]
    BY <1>1, <1>2 DEF At, Held
  <2>. QED
    BY <2>1, <2>2 DEF Places
<1>. QED
    BY <1>0, <1>4, <1>5 DEF Uses, Keeps

\* What is replaced is in the store, with a reference for each of its uses.
LEMMA CaptureKeeps ==
    ASSUME ArtInv, NEW r \in Reviews, NEW t \in Tracks, CaptureArt(r, t)
    PROVE  ArtInv'
<1>0. PICK n \in Nat : n = Len(inverse[t]) + 1
    BY DEF ArtInv, BlobsTypeOK
<1>. DEFINE p == <<t, n>>
<1>1. /\ writes \in Nat /\ writes' = writes + 1 /\ writes' <= MaxWrites /\ MaxWrites \in Nat
      /\ write.step = "idle"
      /\ row' = Captured(t) /\ put' = put
    BY BlobsConstantsAssumption DEF CaptureArt, ArtInv, BlobsTypeOK
<1>2. /\ \A b \in Art : Uses(b)' \subseteq Uses(b) \cup {p} /\ Keeps(b)' \subseteq Keeps(b) \cup {p}
      /\ \A b \in Art : b # cover[t] => Uses(b)' \subseteq Uses(b)
      /\ \A b \in Art : b # embedded[t] => Keeps(b)' \subseteq Keeps(b)
    BY <1>0, CaptureUses
<1>3. ASSUME NEW b \in Art
      PROVE  /\ Cardinality(Uses(b)') <= Cardinality(Uses(b)) + (IF b = cover[t] THEN 1 ELSE 0)
             /\ Cardinality(Keeps(b)') <= Cardinality(Keeps(b)) + (IF b = embedded[t] THEN 1 ELSE 0)
             /\ Cardinality(Uses(b)') \in Nat /\ Cardinality(Keeps(b)') \in Nat
  <2>1. IsFiniteSet(Uses(b)') /\ IsFiniteSet(Keeps(b)')
    BY <1>2, UsesFinite, GrowsByOne
  <2>2. Cardinality(Uses(b)') \in Nat /\ Cardinality(Keeps(b)') \in Nat
    BY <2>1, FS_CardinalityType
  <2>3. Cardinality(Uses(b)') <= Cardinality(Uses(b)) + (IF b = cover[t] THEN 1 ELSE 0)
    <3>1. CASE b = cover[t]
      BY <1>2, <3>1, UsesFinite, GrowsByOne
    <3>2. CASE b # cover[t]
      <4>1. Uses(b)' \subseteq Uses(b)
        BY <1>2, <3>2
      <4>2. Cardinality(Uses(b)') <= Cardinality(Uses(b))
        BY <4>1, UsesFinite, FS_Subset
      <4>. QED
        BY <2>2, <3>2, <4>2, UsesFinite
    <3>. QED
      BY <3>1, <3>2
  <2>4. Cardinality(Keeps(b)') <= Cardinality(Keeps(b)) + (IF b = embedded[t] THEN 1 ELSE 0)
    <3>1. CASE b = embedded[t]
      BY <1>2, <3>1, UsesFinite, GrowsByOne
    <3>2. CASE b # embedded[t]
      <4>1. Keeps(b)' \subseteq Keeps(b)
        BY <1>2, <3>2
      <4>2. Cardinality(Keeps(b)') <= Cardinality(Keeps(b))
        BY <4>1, UsesFinite, FS_Subset
      <4>. QED
        BY <2>2, <3>2, <4>2, UsesFinite
    <3>. QED
      BY <3>1, <3>2
  <2>. QED
    BY <2>2, <2>3, <2>4
<1>4. ASSUME NEW b \in Art
      PROVE  /\ b \in {cover[t], embedded[t]} =>
                   /\ row'[b] = (IF Exists(b) THEN row[b] ELSE 0)
                                    + (IF b = cover[t] THEN 1 ELSE 0)
                                    + (IF b = embedded[t] THEN 1 ELSE 0)
                   /\ file'[b] = "durable"
             /\ b \notin {cover[t], embedded[t]} => row'[b] = row[b] /\ file'[b] = file[b]
             /\ b = cover[t] => Exists(b)
             /\ row[b] \in Int /\ (Exists(b) => row[b] >= 0)
    BY SMTT(30), BlobsConstantsAssumption
       DEF CaptureArt, Captured, Replaced, References, ArtInv, BlobsTypeOK, Exists, NoRow
<1>5. BlobsTypeOK'
  <2>1. row' \in [Art -> (0..3 * MaxWrites) \cup {NoRow}]
    <3>1. \A b \in Art : row'[b] \in (0..3 * MaxWrites) \cup {NoRow}
      <4>1. \A b \in Art : row[b] <= 3 * writes /\ row[b] \in (0..3 * MaxWrites) \cup {NoRow}
        BY DEF ArtInv, Bounded, BlobsTypeOK
      <4>. QED
        BY <1>1, <1>4, <4>1 DEF Exists, NoRow
    <3>. QED
      BY <1>1, <3>1 DEF Captured
  <2>2. file' \in [Art -> {"none", "linked", "durable"}]
    BY DEF CaptureArt, ArtInv, BlobsTypeOK
  <2>3. [catalog |-> cover[t], entries |-> embedded[t], by |-> r] \in Journals
    BY DEF ArtInv, BlobsTypeOK, Journals
  <2>4. inverse' \in [Tracks -> Seq(Journals)] /\ \A u \in Tracks : Len(inverse'[u]) <= writes'
    BY <1>1, <2>3 DEF CaptureArt, ArtInv, BlobsTypeOK, Bounded
  <2>5. \A u \in Tracks : Len(inverse'[u]) \in Nat
    BY <2>4
  <2>6. write' \in [step : {"idle", "writing", "restored", "releasing"},
                    at : Tracks \cup {None}, by : Reviews \cup {None}, undoes : BOOLEAN]
    BY DEF CaptureArt
  <2>. QED
    BY <1>1, <2>1, <2>2, <2>4, <2>5, <2>6 DEF CaptureArt, ArtInv, BlobsTypeOK
<1>6. Counted'
  <2>. SUFFICES ASSUME NEW b \in Art
                PROVE  /\ Exists(b)' => row'[b] >= Cardinality(Uses(b)') + Cardinality(Keeps(b)')
                       /\ ~Exists(b)' => Uses(b)' = {} /\ Keeps(b)' = {}
    BY DEF Counted
  <2>1. CASE Exists(b)
    BY <1>3, <1>4, <2>1, UsesFinite DEF ArtInv, Counted, Exists, NoRow
  <2>2. CASE ~Exists(b)
    <3>1. Uses(b) = {} /\ Keeps(b) = {} /\ Cardinality({}) = 0
      BY <2>2, FS_EmptySet DEF ArtInv, Counted
    <3>2. CASE b \in {cover[t], embedded[t]}
      <4>1. row'[b] = (IF b = cover[t] THEN 1 ELSE 0) + (IF b = embedded[t] THEN 1 ELSE 0)
        BY <1>4, <2>2, <3>2
      <4>2. /\ Cardinality(Uses(b)') <= IF b = cover[t] THEN 1 ELSE 0
            /\ Cardinality(Keeps(b)') <= IF b = embedded[t] THEN 1 ELSE 0
            /\ Cardinality(Uses(b)') \in Nat /\ Cardinality(Keeps(b)') \in Nat
        <5>1. Cardinality(Uses(b)) = 0 /\ Cardinality(Keeps(b)) = 0
          BY <3>1
        <5>. QED
          BY <1>3, <5>1
      <4>3. row'[b] >= Cardinality(Uses(b)') + Cardinality(Keeps(b)') /\ row'[b] >= 0
        BY <4>1, <4>2
      <4>. QED
        BY <4>3 DEF Exists, NoRow
    <3>3. CASE b \notin {cover[t], embedded[t]}
      BY <1>2, <1>4, <2>2, <3>1, <3>3 DEF Exists
    <3>. QED
      BY <3>2, <3>3
  <2>. QED
    BY <2>1, <2>2
<1>7. PutIsSafe'
  <2>. SUFFICES ASSUME put.step # "idle", NEW b, b = put.of
                PROVE  /\ b \in Art /\ put.for \in Reviews
                       /\ ~put.known /\ Exists(b)' => row'[b] > Cardinality(Uses(b)')
                       /\ ~put.known /\ put.step = "synced" => file'[b] = "durable"
    BY <1>1 DEF PutIsSafe, Exists, Uses
  <2>1. b \in Art /\ put.for \in Reviews
    BY DEF ArtInv, PutIsSafe
  <2>2. ~put.known /\ put.step = "synced" => file'[b] = "durable"
    BY <1>4, <2>1 DEF ArtInv, PutIsSafe
  <2>3. ASSUME ~put.known, Exists(b)'
        PROVE  row'[b] > Cardinality(Uses(b)')
    <3>1. CASE Exists(b)
      BY <1>3, <1>4, <2>1, <2>3, <3>1, UsesFinite DEF ArtInv, PutIsSafe
    <3>2. CASE ~Exists(b)
      <4>1. Uses(b) = {} /\ Cardinality({}) = 0
        BY <2>1, <3>2, FS_EmptySet DEF ArtInv, Counted
      <4>2. b # cover[t] /\ b = embedded[t]
        BY <1>4, <2>1, <2>3, <3>2 DEF Exists
      <4>. QED
        BY <1>3, <1>4, <2>1, <3>2, <4>1, <4>2
    <3>. QED
      BY <3>1, <3>2
  <2>. QED
    BY <2>1, <2>2, <2>3
<1>8. BytesFollow'
  <2>1. torn = {} /\ \A b \in Art : ~Going(b)
    BY <1>1 DEF ArtInv, BytesFollow, BlobsTypeOK, Going
  <2>2. torn' = {} /\ \A b \in Art : ~Going(b)'
    BY <2>1 DEF CaptureArt, Going
  <2>. QED
    BY <1>4, <2>1, <2>2 DEF ArtInv, BytesFollow, Exists
<1>9. WriteHasJournal' /\ Bounded'
  <2>1. WriteHasJournal'
    <3>1. inverse'[t] =
              Append(inverse[t], [catalog |-> cover[t], entries |-> embedded[t], by |-> r])
      BY DEF CaptureArt, ArtInv, BlobsTypeOK
    <3>2. inverse[t] \in Seq(Journals)
          /\ [catalog |-> cover[t], entries |-> embedded[t], by |-> r] \in Journals
      BY DEF ArtInv, BlobsTypeOK, Journals
    <3>3. inverse'[t] # <<>>
      BY <3>1, <3>2
    <3>4. review[r].proposes \in Art
      BY DEF CaptureArt, ArtInv, BlobsTypeOK
    <3>. QED
      BY <3>3, <3>4 DEF CaptureArt, WriteHasJournal
  <2>2. \A u \in Tracks : Len(inverse'[u]) <= writes'
    BY <1>1 DEF CaptureArt, ArtInv, BlobsTypeOK, Bounded, Journals
  <2>3. \A b \in Art : row'[b] < 3 * writes'
    <3>1. \A b \in Art : row[b] <= 3 * writes
      BY DEF ArtInv, Bounded
    <3>. QED
      BY <1>1, <1>4, <3>1 DEF Exists, NoRow
  <2>4. \A b \in Art : row'[b] \in Int
    BY <1>1, <1>4
  <2>5. writes' > 0 /\ writes' \in Nat /\ \A b \in Art : row'[b] <= 3 * writes'
    BY <1>1, <2>3, <2>4
  <2>. QED
    BY <2>1, <2>2, <2>3, <2>5 DEF Bounded
<1>. QED
    BY <1>5, <1>6, <1>7, <1>8, <1>9 DEF ArtInv

\* The track takes a reference to its new cover.
LEMMA WrittenKeeps ==
    ASSUME ArtInv, Written
    PROVE  ArtInv'
<1>. USE DEF Written
<1>1. PICK t \in Tracks, b \in Art :
          /\ t = write.at /\ b = review[write.by].proposes
          /\ Exists(b) /\ file[b] # "none"
          /\ embedded' = [embedded EXCEPT ![t] = b]
          /\ row' = [row EXCEPT ![b] = @ + 1]
          /\ cover' = [cover EXCEPT ![t] = b]
    BY DEF ArtInv, WriteHasJournal, Intact
<1>2. /\ write.by \in Reviews /\ write.step = "writing" /\ writes \in Nat
      /\ row[b] \in Nat /\ row[b] < 3 * writes /\ writes <= MaxWrites /\ MaxWrites \in Nat
    BY <1>1, BlobsConstantsAssumption
       DEF ArtInv, WriteHasJournal, BlobsTypeOK, Bounded, Exists, NoRow
<1>3. BlobsTypeOK'
  <2>1. row' \in [Art -> (0..3 * MaxWrites) \cup {NoRow}]
    BY <1>1, <1>2 DEF ArtInv, BlobsTypeOK
  <2>2. review' \in [Reviews -> [state : {"open", "applied", "undone", "failed"},
                                 proposes : Art \cup {None}]]
    BY <1>2 DEF ArtInv, BlobsTypeOK
  <2>3. write' \in [step : {"idle", "writing", "restored", "releasing"},
                    at : Tracks \cup {None}, by : Reviews \cup {None}, undoes : BOOLEAN]
    BY DEF ArtInv, BlobsTypeOK
  <2>. QED
    BY <1>1, <2>1, <2>2, <2>3 DEF ArtInv, BlobsTypeOK
<1>4. ASSUME NEW a \in Art
      PROVE  /\ Keeps(a)' = Keeps(a)
             /\ Uses(a)' \subseteq Uses(a) \cup {<<t, 0>>}
             /\ a # b => Uses(a)' \subseteq Uses(a)
  <2>1. \A q \in Places : Held(q)' = Held(q)
    BY DEF Held
  <2>2. ASSUME NEW u \in Tracks, NEW i \in 0..MaxWrites
        PROVE  At(<<u, i>>)' = IF u = t /\ i = 0 THEN b ELSE At(<<u, i>>)
    BY <1>1 DEF At, ArtInv, BlobsTypeOK
  <2>. QED
    BY <2>1, <2>2 DEF Uses, Keeps, Places
<1>5. ASSUME NEW a \in Art
      PROVE  /\ Cardinality(Uses(a)') \in Nat
             /\ Cardinality(Uses(a)') <= Cardinality(Uses(a)) + (IF a = b THEN 1 ELSE 0)
             /\ ~Exists(a) => Uses(a)' = {}
  <2>1. IsFiniteSet(Uses(a)') /\ Cardinality(Uses(a)') <= Cardinality(Uses(a)) + 1
    BY <1>4, UsesFinite, GrowsByOne
  <2>2. a # b => Cardinality(Uses(a)') <= Cardinality(Uses(a))
    BY <1>4, UsesFinite, FS_Subset
  <2>3. ~Exists(a) => Uses(a)' = {}
    BY <1>1, <1>4 DEF ArtInv, Counted
  <2>. QED
    BY <2>1, <2>2, <2>3, UsesFinite, FS_CardinalityType
<1>6. \A a \in Art : /\ Exists(a)' <=> Exists(a)
                     /\ row'[a] = (IF a = b THEN row[a] + 1 ELSE row[a])
    BY <1>1, <1>2 DEF ArtInv, BlobsTypeOK, Exists, NoRow
<1>7. Counted'
  <2>. SUFFICES ASSUME NEW a \in Art
                PROVE  /\ Exists(a)' => row'[a] >= Cardinality(Uses(a)') + Cardinality(Keeps(a)')
                       /\ ~Exists(a)' => Uses(a)' = {} /\ Keeps(a)' = {}
    BY DEF Counted
  <2>1. row[a] \in Int
    BY BlobsConstantsAssumption DEF ArtInv, BlobsTypeOK, NoRow
  <2>. QED
    BY <1>4, <1>5, <1>6, <2>1, UsesFinite DEF ArtInv, Counted
<1>8. PutIsSafe'
  <2>. SUFFICES ASSUME put.step # "idle", NEW a, a = put.of
                PROVE  /\ a \in Art /\ put.for \in Reviews
                       /\ ~put.known /\ Exists(a)' => row'[a] > Cardinality(Uses(a)')
                       /\ ~put.known /\ put.step = "synced" => file[a] = "durable"
    BY DEF PutIsSafe, Exists, Uses
  <2>1. a \in Art /\ row[a] \in Int
    BY BlobsConstantsAssumption DEF ArtInv, BlobsTypeOK, PutIsSafe, NoRow
  <2>. QED
    BY <1>5, <1>6, <2>1, UsesFinite DEF ArtInv, PutIsSafe
<1>9. BytesFollow' /\ WriteHasJournal' /\ Bounded'
  <2>1. torn = {} /\ \A a \in Art : ~Going(a)
    BY <1>2 DEF ArtInv, BytesFollow, BlobsTypeOK, Going
  <2>2. \A a \in Art : ~Going(a)'
    BY DEF Going
  <2>3. BytesFollow'
    BY <1>6, <2>1, <2>2 DEF ArtInv, BytesFollow
  <2>4. WriteHasJournal'
    BY DEF WriteHasJournal
  <2>5. Bounded'
    BY <1>2, <1>6, BlobsConstantsAssumption DEF ArtInv, Bounded, BlobsTypeOK, NoRow
  <2>. QED
    BY <2>3, <2>4, <2>5
<1>. QED
    BY <1>3, <1>7, <1>8, <1>9 DEF ArtInv

\* A journal that goes takes its own uses with it.
LEMMA PopUses ==
    ASSUME ArtInv, NEW t \in Tracks, inverse[t] # <<>>,
           inverse' = [inverse EXCEPT ![t] = SubSeq(@, 1, Len(@) - 1)]
    PROVE  /\ inverse' \in [Tracks -> Seq(Journals)]
           /\ \A u \in Tracks : Len(inverse'[u]) <= Len(inverse[u]) /\ Len(inverse'[u]) \in Nat
           /\ \A u \in Tracks, i \in Nat :
                 IF <<u, i>> = <<t, Len(inverse[t])>>
                 THEN i \notin DOMAIN inverse'[u]
                 ELSE /\ i \in DOMAIN inverse'[u] <=> i \in DOMAIN inverse[u]
                      /\ i \in DOMAIN inverse[u] => inverse'[u][i] = inverse[u][i]
<1>1. PICK n \in Nat : n + 1 = Len(inverse[t])
  <2>1. Len(inverse[t]) \in 1..MaxWrites /\ MaxWrites \in Nat
    BY JournalTyped, BlobsConstantsAssumption DEF ArtInv
  <2>2. Len(inverse[t]) - 1 \in Nat /\ (Len(inverse[t]) - 1) + 1 = Len(inverse[t])
    BY <2>1
  <2>. QED
    BY <2>2
<1>2. inverse[t] \in Seq(Journals) /\ inverse \in [Tracks -> Seq(Journals)]
    BY DEF ArtInv, BlobsTypeOK
<1>3. inverse'[t] = SubSeq(inverse[t], 1, n) /\ \A u \in Tracks \ {t} : inverse'[u] = inverse[u]
    BY <1>1, <1>2
<1>4. /\ inverse'[t] \in Seq(Journals) /\ Len(inverse'[t]) = n /\ DOMAIN inverse'[t] = 1..n
      /\ DOMAIN inverse[t] = 1..(n + 1)
      /\ \A i \in 1..n : inverse'[t][i] = inverse[t][i]
    BY <1>1, <1>2, <1>3
<1>5. inverse' \in [Tracks -> Seq(Journals)]
    BY <1>2, <1>4
<1>6. \A u \in Tracks : Len(inverse'[u]) <= Len(inverse[u]) /\ Len(inverse'[u]) \in Nat
    BY <1>1, <1>2, <1>3, <1>4
<1>7. ASSUME NEW u \in Tracks, NEW i \in Nat
      PROVE  IF <<u, i>> = <<t, Len(inverse[t])>>
             THEN i \notin DOMAIN inverse'[u]
             ELSE /\ i \in DOMAIN inverse'[u] <=> i \in DOMAIN inverse[u]
                  /\ i \in DOMAIN inverse[u] => inverse'[u][i] = inverse[u][i]
    BY <1>1, <1>3, <1>4
<1>. QED
    BY <1>5, <1>6, <1>7

\* The catalog names what its journal says, and a cover that is not that
\* loses the reference of the track.
LEMMA RestoreCatalogKeeps ==
    ASSUME ArtInv, RestoreCatalog
    PROVE  ArtInv'
<1>0. PICK t \in Tracks, c \in Art \cup {None}, n \in Nat :
          /\ t = write.at /\ c = Journal(t).catalog /\ n = Len(inverse[t]) /\ n \in 1..MaxWrites
          /\ inverse[t] # <<>> /\ n \in DOMAIN inverse[t] /\ inverse[t][n].catalog = c
  <2>1. write.at \in Tracks /\ inverse[write.at] # <<>>
    BY DEF RestoreCatalog, ArtInv, WriteHasJournal
  <2>2. /\ Len(inverse[write.at]) \in 1..MaxWrites
        /\ Len(inverse[write.at]) \in DOMAIN inverse[write.at]
        /\ Journal(write.at) \in Journals
    BY <2>1, JournalTyped DEF ArtInv
  <2>3. Len(inverse[write.at]) \in Nat /\ Journal(write.at).catalog \in Art \cup {None}
    BY <2>2, BlobsConstantsAssumption DEF Journals
  <2>. QED
    BY <2>1, <2>2, <2>3 DEF Journal
<1>1. PICK e \in Art \cup {None} : e = cover[t]
    BY DEF ArtInv, BlobsTypeOK
<1>2. /\ write.step \in {"restored", "releasing"} /\ write.by \in Reviews
      /\ inverse' = [inverse EXCEPT ![t] = SubSeq(@, 1, Len(@) - 1)]
      /\ cover' = [cover EXCEPT ![t] = c]
      /\ review' = [review EXCEPT ![write.by].state = IF write.undoes THEN "undone" ELSE "failed"]
      /\ write' = [write EXCEPT !.step = "idle"]
      /\ UNCHANGED <<file, embedded, put, writes>>
    BY <1>0 DEF RestoreCatalog, ArtInv, WriteHasJournal
<1>3. e \in Art => Exists(e) /\ Cardinality(Uses(e)) > 0 /\ row[e] > 0 /\ <<t, 0>> \in Uses(e)
  <2>. SUFFICES ASSUME e \in Art
                PROVE  Exists(e) /\ Cardinality(Uses(e)) > 0 /\ row[e] > 0 /\ <<t, 0>> \in Uses(e)
    OBVIOUS
  <2>1. <<t, 0>> \in Uses(e) /\ Cardinality(Uses(e)) > 0
    BY <1>1, CoverUsed
  <2>2. Exists(e)
    BY <2>1 DEF ArtInv, Counted
  <2>3. row[e] >= Cardinality(Uses(e)) + Cardinality(Keeps(e)) /\ row[e] \in Int
    BY <2>2, BlobsConstantsAssumption DEF ArtInv, Counted, BlobsTypeOK, NoRow
  <2>. QED
    BY <2>1, <2>2, <2>3, UsesFinite
<1>4. /\ Releases(t) <=> e \in Art /\ e # c
      /\ \A b \in Art : row'[b] = IF b = e /\ e # c
                                  THEN (IF row[b] = 1 THEN NoRow ELSE row[b] - 1) ELSE row[b]
      /\ row' \in [Art -> Int]
      /\ torn' = IF e \in Art /\ e # c THEN torn \ {e} ELSE torn
  <2>1. Releases(t) <=> e \in Art /\ e # c
    BY <1>0, <1>1, <1>3, BlobsConstantsAssumption DEF Releases
  <2>2. row \in [Art -> Int]
    BY BlobsConstantsAssumption DEF ArtInv, BlobsTypeOK, NoRow
  <2>3. row' = IF ~Releases(t) \/ row[e] = 0 THEN row
               ELSE [row EXCEPT ![e] = IF @ = 1 THEN NoRow ELSE @ - 1]
    BY <1>0, <1>1 DEF RestoreCatalog
  <2>4. torn' = IF Releases(t) THEN torn \ {e} ELSE torn
    BY <1>0, <1>1 DEF RestoreCatalog
  <2>5. CASE e \in Art /\ e # c
    BY <1>3, <2>1, <2>2, <2>3, <2>4, <2>5 DEF NoRow
  <2>6. CASE ~(e \in Art /\ e # c)
    BY <2>1, <2>2, <2>3, <2>4, <2>6
  <2>. QED
    BY <2>5, <2>6
<1>5. /\ \A q \in Places : At(q)' = IF q = <<t, 0>> THEN c
                                    ELSE IF q = <<t, n>> THEN None ELSE At(q)
      /\ \A q \in Places : Held(q)' = IF q = <<t, n>> THEN None ELSE Held(q)
      /\ At(<<t, n>>) = c /\ At(<<t, 0>>) = e
      /\ <<t, n>> \in Places /\ <<t, 0>> \in Places
  <2>1. ASSUME NEW u \in Tracks, NEW i \in 0..MaxWrites
        PROVE  /\ At(<<u, i>>)' = IF <<u, i>> = <<t, 0>> THEN c
                                  ELSE IF <<u, i>> = <<t, n>> THEN None ELSE At(<<u, i>>)
               /\ Held(<<u, i>>)' = IF <<u, i>> = <<t, n>> THEN None ELSE Held(<<u, i>>)
    <3>1. i \in Nat /\ 0 \notin DOMAIN inverse[u] /\ 0 \notin DOMAIN inverse'[u]
      BY <1>0, <1>2, PopUses DEF ArtInv, BlobsTypeOK
    <3>2. cover'[u] = IF u = t THEN c ELSE cover[u]
      BY <1>2 DEF ArtInv, BlobsTypeOK
    <3>3. IF <<u, i>> = <<t, n>>
          THEN i \notin DOMAIN inverse'[u]
          ELSE /\ i \in DOMAIN inverse'[u] <=> i \in DOMAIN inverse[u]
               /\ i \in DOMAIN inverse[u] => inverse'[u][i] = inverse[u][i]
      <4>1. \A v \in Tracks, j \in Nat :
                 IF <<v, j>> = <<t, Len(inverse[t])>>
                 THEN j \notin DOMAIN inverse'[v]
                 ELSE /\ j \in DOMAIN inverse'[v] <=> j \in DOMAIN inverse[v]
                      /\ j \in DOMAIN inverse[v] => inverse'[v][j] = inverse[v][j]
        BY <1>0, <1>2, PopUses
      <4>2. n = Len(inverse[t])
        BY <1>0
      <4>. QED
        BY <3>1, <4>1, <4>2
    <3>4. n # 0
      BY <1>0
    <3>. QED
      BY <3>1, <3>2, <3>3, <3>4 DEF At, Held
  <2>2. At(<<t, n>>) = c /\ At(<<t, 0>>) = e
    BY <1>0, <1>1 DEF At
  <2>3. <<t, n>> \in Places /\ <<t, 0>> \in Places
    BY <1>0, BlobsConstantsAssumption DEF Places
  <2>. QED
    BY <2>1, <2>2, <2>3 DEF Places
<1>6. ASSUME NEW b \in Art
      PROVE  /\ Keeps(b)' \subseteq Keeps(b)
             /\ b = c => /\ <<t, n>> \in Uses(b)
                         /\ Uses(b)' \subseteq (Uses(b) \ {<<t, n>>}) \cup {<<t, 0>>}
             /\ b = e /\ b # c => <<t, 0>> \in Uses(b) /\ Uses(b)' \subseteq Uses(b) \ {<<t, 0>>}
             /\ b # e /\ b # c => Uses(b)' \subseteq Uses(b)
    BY <1>5, BlobsConstantsAssumption DEF Uses, Keeps
<1>7. ASSUME NEW b \in Art
      PROVE  /\ Cardinality(Uses(b)') \in Nat /\ Cardinality(Keeps(b)') \in Nat
             /\ Cardinality(Keeps(b)') <= Cardinality(Keeps(b))
             /\ Cardinality(Uses(b)') + (IF b = e /\ b # c THEN 1 ELSE 0) <= Cardinality(Uses(b))
  <2>1. IsFiniteSet(Uses(b)') /\ IsFiniteSet(Keeps(b)')
    <3>1. Uses(b)' \subseteq Uses(b) \cup {<<t, 0>>}
      BY <1>6
    <3>. QED
      BY <1>6, <3>1, UsesFinite, GrowsByOne, FS_Subset
  <2>2. Cardinality(Keeps(b)') <= Cardinality(Keeps(b))
    BY <1>6, UsesFinite, FS_Subset
  <2>3. CASE b = c
    <3>1. Cardinality(Uses(b)') <= Cardinality(Uses(b))
      <4>1. <<t, n>> \in Uses(b) /\ Uses(b)' \subseteq (Uses(b) \ {<<t, n>>}) \cup {<<t, 0>>}
        BY <1>6, <2>3
      <4>. QED
        BY <4>1, UsesFinite, ExchangesOne
    <3>. QED
      BY <2>1, <2>2, <2>3, <3>1, FS_CardinalityType, UsesFinite
  <2>4. CASE b = e /\ b # c
    BY <1>6, <2>1, <2>2, <2>4, UsesFinite, LosesOne, FS_CardinalityType
  <2>5. CASE b # e /\ b # c
    <3>1. Cardinality(Uses(b)') <= Cardinality(Uses(b))
      BY <1>6, <2>5, UsesFinite, FS_Subset
    <3>. QED
      BY <2>1, <2>2, <2>5, <3>1, FS_CardinalityType, UsesFinite
  <2>. QED
    BY <2>3, <2>4, <2>5
<1>8. Counted'
  <2>. SUFFICES ASSUME NEW b \in Art
                PROVE  /\ Exists(b)' => row'[b] >= Cardinality(Uses(b)') + Cardinality(Keeps(b)')
                       /\ ~Exists(b)' => Uses(b)' = {} /\ Keeps(b)' = {}
    BY DEF Counted
  <2>1. row[b] \in Int /\ (Exists(b) => row[b] >= Cardinality(Uses(b)) + Cardinality(Keeps(b)))
    BY BlobsConstantsAssumption DEF ArtInv, BlobsTypeOK, Counted, NoRow
  <2>2. CASE b = e /\ b # c
    <3>1. Exists(b) /\ row[b] > 0
      BY <1>3, <2>2
    <3>2. CASE row[b] = 1
      <4>1. Cardinality(Uses(b)') = 0 /\ Cardinality(Keeps(b)') = 0
        BY <1>7, <2>1, <2>2, <3>1, <3>2, UsesFinite
      <4>2. IsFiniteSet(Uses(b)') /\ IsFiniteSet(Keeps(b)')
        BY <1>6, <2>2, UsesFinite, FS_Subset
      <4>3. Uses(b)' = {} /\ Keeps(b)' = {}
        BY <4>1, <4>2, FS_EmptySet
      <4>4. ~Exists(b)'
        BY <1>4, <2>2, <3>2 DEF Exists
      <4>. QED
        BY <4>3, <4>4
    <3>3. CASE row[b] # 1
      BY <1>4, <1>7, <2>1, <2>2, <3>1, <3>3, UsesFinite DEF Exists, NoRow
    <3>. QED
      BY <3>2, <3>3
  <2>3. CASE ~(b = e /\ b # c)
    <3>1. row'[b] = row[b] /\ (Exists(b)' <=> Exists(b))
      BY <1>4, <2>3 DEF Exists
    <3>2. CASE Exists(b)
      BY <1>7, <2>1, <2>3, <3>1, <3>2, UsesFinite
    <3>3. CASE ~Exists(b)
      BY <1>6, <2>3, <3>1, <3>3 DEF ArtInv, Counted
    <3>. QED
      BY <3>2, <3>3
  <2>. QED
    BY <2>2, <2>3
<1>9. PutIsSafe'
  <2>. SUFFICES ASSUME put.step # "idle", NEW b, b = put.of
                PROVE  /\ b \in Art /\ put.for \in Reviews
                       /\ ~put.known /\ Exists(b)' => row'[b] > Cardinality(Uses(b)')
                       /\ ~put.known /\ put.step = "synced" => file[b] = "durable"
    BY <1>2 DEF PutIsSafe, Exists, Uses
  <2>1. b \in Art /\ row[b] \in Int
    BY BlobsConstantsAssumption DEF ArtInv, BlobsTypeOK, PutIsSafe, NoRow
  <2>2. ASSUME ~put.known, Exists(b)'
        PROVE  row'[b] > Cardinality(Uses(b)')
    <3>1. Exists(b)
      BY <1>3, <1>4, <2>1, <2>2 DEF Exists
    <3>2. row[b] > Cardinality(Uses(b))
      BY <2>2, <3>1 DEF ArtInv, PutIsSafe
    <3>3. CASE b = e /\ b # c
      BY <1>4, <1>7, <2>1, <2>2, <3>2, <3>3, UsesFinite DEF Exists
    <3>4. CASE ~(b = e /\ b # c)
      BY <1>4, <1>7, <2>1, <3>2, <3>4, UsesFinite
    <3>. QED
      BY <3>3, <3>4
  <2>. QED
    BY <2>1, <2>2 DEF ArtInv, PutIsSafe
<1>10. BytesFollow'
  <2>1. ASSUME NEW b \in Art, Going(b)
        PROVE  b = e /\ e # c /\ row[b] = 1
    BY <1>0, <1>1, <1>4, <2>1 DEF Going
  <2>2. torn' = {}
    BY <1>4, <2>1 DEF ArtInv, BytesFollow, BlobsTypeOK
  <2>3. \A b \in Art : ~Going(b)'
    BY <1>2 DEF Going, ArtInv, BlobsTypeOK
  <2>4. ASSUME NEW b \in Art, Exists(b)'
        PROVE  file'[b] = "durable"
    <3>1. Exists(b) /\ ~Going(b)
      BY <1>3, <1>4, <2>1, <2>4 DEF Exists
    <3>. QED
      BY <1>2, <3>1 DEF ArtInv, BytesFollow
  <2>. QED
    BY <2>2, <2>3, <2>4 DEF BytesFollow
<1>11. WriteHasJournal' /\ Bounded'
  <2>1. WriteHasJournal'
    BY <1>2 DEF WriteHasJournal, ArtInv, BlobsTypeOK
  <2>2. \A b \in Art : row'[b] <= 3 * writes' /\ row'[b] \in Int
    <3>1. /\ \A b \in Art : row[b] <= 3 * writes /\ row[b] \in Int
          /\ writes \in Nat /\ writes' = writes
      BY <1>2, BlobsConstantsAssumption DEF ArtInv, BlobsTypeOK, Bounded, NoRow
    <3>. QED
      BY <1>4, <3>1 DEF NoRow
  <2>3. \A u \in Tracks : Len(inverse'[u]) <= writes'
    <3>1. writes' = writes /\ \A u \in Tracks : Len(inverse[u]) <= writes /\ Len(inverse[u]) \in Nat
      BY <1>2 DEF ArtInv, Bounded, BlobsTypeOK
    <3>2. writes \in Nat
      BY BlobsConstantsAssumption DEF ArtInv, BlobsTypeOK
    <3>. QED
      BY <1>0, <1>2, <3>1, <3>2, PopUses
  <2>. QED
    BY <1>2, <2>1, <2>2, <2>3 DEF Bounded, ArtInv, BlobsTypeOK
<1>12. BlobsTypeOK'
  <2>1. row' \in [Art -> (0..3 * MaxWrites) \cup {NoRow}]
    <3>1. \A b \in Art : row[b] \in (0..3 * MaxWrites) \cup {NoRow}
      BY DEF ArtInv, BlobsTypeOK
    <3>2. \A b \in Art : row'[b] \in (0..3 * MaxWrites) \cup {NoRow}
      BY <1>3, <1>4, <3>1, BlobsConstantsAssumption DEF NoRow
    <3>. QED
      BY <1>4, <3>2
  <2>2. /\ inverse' \in [Tracks -> Seq(Journals)]
        /\ \A u \in Tracks : Len(inverse'[u]) <= MaxWrites
    <3>1. \A u \in Tracks : Len(inverse[u]) <= MaxWrites /\ Len(inverse[u]) \in Nat
      BY DEF ArtInv, BlobsTypeOK
    <3>2. /\ inverse' \in [Tracks -> Seq(Journals)]
          /\ \A u \in Tracks : Len(inverse'[u]) <= Len(inverse[u]) /\ Len(inverse'[u]) \in Nat
      BY <1>0, <1>2, PopUses
    <3>. QED
      BY <3>1, <3>2, BlobsConstantsAssumption
  <2>3. cover' \in [Tracks -> Art \cup {None}] /\ torn' \subseteq Art
    BY <1>2, <1>4 DEF ArtInv, BlobsTypeOK
  <2>4. review' \in [Reviews -> [state : {"open", "applied", "undone", "failed"},
                                 proposes : Art \cup {None}]]
    <3>1. PICK s \in {"undone", "failed"} : review' = [review EXCEPT ![write.by].state = s]
      <4>1. (IF write.undoes THEN "undone" ELSE "failed") \in {"undone", "failed"}
        OBVIOUS
      <4>. QED
        BY <1>2, <4>1
    <3>. QED
      BY ZenonT(40), <1>2, <3>1 DEF ArtInv, BlobsTypeOK
  <2>5. write' \in [step : {"idle", "writing", "restored", "releasing"},
                    at : Tracks \cup {None}, by : Reviews \cup {None}, undoes : BOOLEAN]
    BY <1>2 DEF ArtInv, BlobsTypeOK
  <2>. QED
    BY <1>2, <2>1, <2>2, <2>3, <2>4, <2>5 DEF ArtInv, BlobsTypeOK
<1>. QED
    BY <1>8, <1>9, <1>10, <1>11, <1>12 DEF ArtInv

\* A crash loses what was not synced and what was not committed; a release that
\* had removed its bytes is the one row it leaves without them.
LEMMA ArtCrashKeeps ==
    ASSUME ArtInv, BlobsCrash
    PROVE  ArtInv'
<1>1. PICK s \in {"restored", "idle"} :
          /\ write' = [write EXCEPT !.step = s]
          /\ s = "restored" <=> write.step \in {"restored", "releasing"}
    BY DEF BlobsCrash
<1>2. /\ UNCHANGED <<row, embedded, cover, review, writes>>
      /\ put' = Resting
      /\ file' \in [Art -> {"none", "durable"}]
      /\ \A b \in Art : file[b] # "linked" => file'[b] = file[b]
    BY DEF BlobsCrash
<1>3. write' \in [step : {"idle", "writing", "restored", "releasing"},
                  at : Tracks \cup {None}, by : Reviews \cup {None}, undoes : BOOLEAN]
      /\ write'.step = s /\ write'.at = write.at /\ write'.by = write.by
    BY <1>1 DEF ArtInv, BlobsTypeOK
<1>4. /\ inverse' \in [Tracks -> Seq(Journals)]
      /\ \A u \in Tracks : Len(inverse'[u]) <= Len(inverse[u]) /\ Len(inverse'[u]) \in Nat
      /\ s = "restored" => inverse' = inverse
      /\ \A q \in Places : /\ At(q)' \in {At(q), None}
                           /\ Held(q)' \in {Held(q), None}
  <2>1. CASE write.step # "writing"
    <3>1. inverse' = inverse
      BY <2>1 DEF BlobsCrash
    <3>. QED
      BY <1>2, <3>1 DEF ArtInv, BlobsTypeOK, At, Held
  <2>2. CASE write.step = "writing"
    <3>1. PICK t \in Tracks : t = write.at /\ inverse[t] # <<>>
      BY <2>2 DEF ArtInv, WriteHasJournal
    <3>2. inverse' = [inverse EXCEPT ![t] = SubSeq(@, 1, Len(@) - 1)]
      BY <2>2, <3>1 DEF BlobsCrash
    <3>3. /\ inverse' \in [Tracks -> Seq(Journals)]
          /\ \A u \in Tracks : Len(inverse'[u]) <= Len(inverse[u]) /\ Len(inverse'[u]) \in Nat
          /\ \A u \in Tracks, i \in Nat :
                IF <<u, i>> = <<t, Len(inverse[t])>>
                THEN i \notin DOMAIN inverse'[u]
                ELSE /\ i \in DOMAIN inverse'[u] <=> i \in DOMAIN inverse[u]
                     /\ i \in DOMAIN inverse[u] => inverse'[u][i] = inverse[u][i]
      BY <3>1, <3>2, PopUses
    <3>4. ASSUME NEW u \in Tracks, NEW i \in 0..MaxWrites
          PROVE  /\ At(<<u, i>>)' \in {At(<<u, i>>), None}
                 /\ Held(<<u, i>>)' \in {Held(<<u, i>>), None}
      <4>1. i \in Nat
        OBVIOUS
      <4>2. \/ i \notin DOMAIN inverse'[u]
            \/ /\ i \in DOMAIN inverse[u]
               /\ inverse'[u][i] = inverse[u][i]
        BY <3>3, <4>1
      <4>. QED
        BY <1>2, <4>2 DEF At, Held
    <3>. QED
      BY <1>1, <2>2, <3>3, <3>4 DEF Places
  <2>. QED
    BY <2>1, <2>2
<1>5. ASSUME NEW b \in Art
      PROVE  /\ Uses(b)' \subseteq Uses(b) /\ Keeps(b)' \subseteq Keeps(b)
             /\ Cardinality(Uses(b)') \in Nat /\ Cardinality(Uses(b)') <= Cardinality(Uses(b))
             /\ Cardinality(Keeps(b)') \in Nat /\ Cardinality(Keeps(b)') <= Cardinality(Keeps(b))
  <2>1. Uses(b)' \subseteq Uses(b) /\ Keeps(b)' \subseteq Keeps(b)
    BY <1>4, BlobsConstantsAssumption DEF Uses, Keeps
  <2>2. IsFiniteSet(Uses(b)') /\ IsFiniteSet(Keeps(b)')
    BY <2>1, UsesFinite, FS_Subset
  <2>. QED
    BY <2>1, <2>2, UsesFinite, FS_Subset, FS_CardinalityType
<1>6. Counted' /\ PutIsSafe'
  <2>1. \A b \in Art : row[b] \in Int /\ (Exists(b)' <=> Exists(b)) /\ row'[b] = row[b]
    BY <1>2, BlobsConstantsAssumption DEF ArtInv, BlobsTypeOK, Exists, NoRow
  <2>2. Counted'
    <3>. SUFFICES ASSUME NEW b \in Art
                  PROVE  /\ Exists(b)' => row'[b] >= Cardinality(Uses(b)') + Cardinality(Keeps(b)')
                         /\ ~Exists(b)' => Uses(b)' = {} /\ Keeps(b)' = {}
      BY DEF Counted
    <3>1. CASE Exists(b)
      BY <1>5, <2>1, <3>1, UsesFinite DEF ArtInv, Counted
    <3>2. CASE ~Exists(b)
      BY <1>5, <2>1, <3>2 DEF ArtInv, Counted
    <3>. QED
      BY <3>1, <3>2
  <2>3. PutIsSafe'
    BY <1>2 DEF PutIsSafe, Resting
  <2>. QED
    BY <2>2, <2>3
<1>7. ASSUME s = "restored"
      PROVE  \A t \in Tracks : Releases(t)' <=> Releases(t)
    BY <1>2, <1>4, <1>7, SameUses DEF Releases, Exists
<1>8. torn' = IF write.step = "releasing" /\ file[cover[write.at]] = "none"
              THEN torn \cup {cover[write.at]} ELSE torn
    BY DEF BlobsCrash
<1>9. ASSUME NEW b \in Art, Going(b)
      PROVE  b \in torn' /\ Going(b)' /\ file'[b] = "none"
  <2>1. file[b] = "none" /\ file'[b] = "none"
    BY <1>2, <1>9 DEF ArtInv, BytesFollow
  <2>2. s = "restored" /\ write.at \in Tracks
    BY <1>1, <1>9 DEF Going, ArtInv, WriteHasJournal
  <2>3. b \in torn'
    BY <1>8, <1>9, <2>1 DEF Going
  <2>4. Releases(write.at)'
    BY <1>3, <1>7, <1>9, <2>2 DEF Going
  <2>5. Going(b)'
    BY <1>2, <1>3, <1>9, <2>2, <2>3, <2>4 DEF Going
  <2>. QED
    BY <2>1, <2>3, <2>5
<1>10. ASSUME NEW b \in torn'
       PROVE  b \in Art /\ Going(b)
  <2>1. CASE b \in torn
    BY <2>1 DEF ArtInv, BlobsTypeOK, BytesFollow
  <2>2. CASE b \notin torn
    <3>1. write.step = "releasing" /\ b = cover[write.at] /\ file[b] = "none"
      BY <1>8, <1>10, <2>2
    <3>2. write.at \in Tracks /\ Releases(write.at)
      BY <3>1 DEF ArtInv, WriteHasJournal
    <3>3. b \in Art /\ Exists(b)
      BY <3>1, <3>2 DEF Releases, ArtInv, BlobsTypeOK
    <3>. QED
      BY <3>1, <3>3 DEF ArtInv, BytesFollow
  <2>. QED
    BY <2>1, <2>2
<1>11. BytesFollow'
  <2>1. \A b \in Art : Exists(b)' => file'[b] = "durable" \/ Going(b)'
    BY <1>2, <1>9 DEF ArtInv, BytesFollow, Exists
  <2>2. \A b \in torn' : Going(b)'
    BY <1>9, <1>10
  <2>3. ASSUME NEW b \in Art, Going(b)'
        PROVE  file'[b] = "none"
    <3>1. b \in torn'
      BY <1>3, <2>3 DEF Going
    <3>. QED
      BY <1>9, <1>10, <3>1
  <2>. QED
    BY <2>1, <2>2, <2>3 DEF BytesFollow
<1>12. WriteHasJournal' /\ Bounded'
  <2>1. WriteHasJournal'
    BY <1>1, <1>3, <1>4 DEF ArtInv, WriteHasJournal
  <2>2. \A u \in Tracks : Len(inverse'[u]) <= writes'
    <3>1. writes \in Nat /\ \A u \in Tracks : Len(inverse[u]) <= writes /\ Len(inverse[u]) \in Nat
      BY BlobsConstantsAssumption DEF ArtInv, Bounded, BlobsTypeOK
    <3>. QED
      BY <1>2, <1>4, <3>1
  <2>3. \A b \in Art : row'[b] <= 3 * writes'
    BY <1>2 DEF ArtInv, Bounded
  <2>. QED
    BY <1>3, <2>1, <2>2, <2>3 DEF Bounded
<1>13. BlobsTypeOK'
  <2>1. \A u \in Tracks : Len(inverse'[u]) <= MaxWrites
    <3>1. /\ MaxWrites \in Nat
          /\ \A u \in Tracks : Len(inverse[u]) <= MaxWrites /\ Len(inverse[u]) \in Nat
      BY BlobsConstantsAssumption DEF ArtInv, BlobsTypeOK
    <3>. QED
      BY <1>4, <3>1
  <2>2. torn' \subseteq Art
    BY <1>10
  <2>3. put' \in [step : {"idle", "looked", "linked", "synced"}, of : Art \cup {None},
                  for  : Reviews \cup {None}, known : BOOLEAN]
    BY <1>2 DEF Resting
  <2>4. file' \in [Art -> {"none", "linked", "durable"}]
    BY <1>2
  <2>. QED
    BY <1>2, <1>3, <1>4, <2>1, <2>2, <2>3, <2>4 DEF ArtInv, BlobsTypeOK
<1>. QED
    BY <1>6, <1>11, <1>12, <1>13 DEF ArtInv

\* A step that changes nothing.
LEMMA ArtStutters ==
    ASSUME ArtInv, UNCHANGED blobsVars
    PROVE  ArtInv'
<1>. USE DEF blobsVars
<1>1. BlobsTypeOK' /\ Counted' /\ PutIsSafe'
    BY SameUses DEF ArtInv, BlobsTypeOK, Counted, PutIsSafe, Exists
<1>2. BytesFollow' /\ WriteHasJournal' /\ Bounded'
    BY SameUses DEF ArtInv, BytesFollow, WriteHasJournal, Bounded, Going, Releases, Exists
<1>. QED
    BY <1>1, <1>2 DEF ArtInv

\* Every step of the artwork store keeps its invariant.
LEMMA ArtStepKeeps ==
    ASSUME ArtInv, [BlobsNext]_blobsVars
    PROVE  ArtInv'
<1>1. ASSUME NEW r \in Reviews, NEW b \in Art, Look(r, b) PROVE ArtInv'
    BY <1>1, LookKeeps
<1>2. ASSUME NEW r \in Reviews, NEW t \in Tracks, CaptureArt(r, t) PROVE ArtInv'
    BY <1>2, CaptureKeeps
<1>3. ASSUME NEW t \in Tracks, NEW rollback \in BOOLEAN, RestoreFile(t, rollback) PROVE ArtInv'
    BY <1>3, RestoreFileKeeps
<1>. QED
    BY <1>1, <1>2, <1>3, PublishKeeps, SyncKeeps, RegisterKeeps, PutFailsKeeps, WrittenKeeps,
       UnlinkKeeps, RestoreCatalogKeeps, ArtCrashKeeps, ArtStutters DEF BlobsNext

\* What an inverse needs has two references while its release is under way: the
\* cover that goes and the journal that stays.
LEMMA ArtInvIsSafe == ArtInv => BytesKept
<1>. SUFFICES ASSUME ArtInv PROVE BytesKept
    OBVIOUS
<1>1. RowHasBytes
    BY DEF ArtInv, BytesFollow, RowHasBytes, Going
<1>2. ASSUME NEW t \in Tracks, NEW i \in DOMAIN inverse[t],
             NEW b \in {inverse[t][i].catalog, inverse[t][i].entries} \ {None}
      PROVE  Exists(b) /\ file[b] = "durable"
  <2>1. /\ inverse[t] \in Seq(Journals) /\ Len(inverse[t]) \in Nat /\ Len(inverse[t]) <= MaxWrites
        /\ MaxWrites \in Nat
    BY BlobsConstantsAssumption DEF ArtInv, BlobsTypeOK
  <2>2. i \in 1..MaxWrites /\ inverse[t][i] \in Journals
    BY <2>1
  <2>3. b \in Art /\ row[b] \in Int
    BY <2>2, BlobsConstantsAssumption DEF Journals, ArtInv, BlobsTypeOK, NoRow
  <2>4. <<t, i>> \in Uses(b) \/ <<t, i>> \in Keeps(b)
    BY <2>2 DEF Uses, Keeps, Places, At, Held
  <2>5. Exists(b)
    BY <2>3, <2>4 DEF ArtInv, Counted
  <2>6. row[b] >= Cardinality(Uses(b)) + Cardinality(Keeps(b))
    BY <2>3, <2>5 DEF ArtInv, Counted
  <2>7. ASSUME Going(b)
        PROVE  FALSE
    <3>1. PICK u \in Tracks : u = write.at /\ cover[u] = b
      BY <2>7 DEF Going, ArtInv, WriteHasJournal
    <3>2. <<u, 0>> \in Uses(b) /\ Cardinality(Uses(b)) > 0
      BY <2>3, <3>1, CoverUsed
    <3>3. CASE <<t, i>> \in Keeps(b)
      <4>1. Cardinality(Keeps(b)) # 0
        BY <3>3, UsesFinite, FS_EmptySet
      <4>. QED
        BY <2>3, <2>6, <2>7, <3>2, <4>1, UsesFinite DEF Going
    <3>4. CASE <<t, i>> \in Uses(b)
      <4>1. <<t, i>> # <<u, 0>>
        BY <2>2
      <4>2. Cardinality({<<t, i>>}) + 1 <= Cardinality(Uses(b))
        BY <3>2, <3>4, <4>1, UsesFinite, LosesOne
      <4>3. Cardinality({<<t, i>>}) = 1
        BY FS_Singleton
      <4>. QED
        BY <2>3, <2>6, <2>7, <4>2, <4>3, UsesFinite DEF Going
    <3>. QED
      BY <2>4, <3>3, <3>4
  <2>. QED
    BY <2>3, <2>5, <2>7 DEF ArtInv, BytesFollow
<1>. QED
    BY <1>1, <1>2 DEF BytesKept, ArtKept

\* Types of the artwork store, and the bound of its counts: three references
\* for each applied cover (changes/blobstore.py).
THEOREM ArtTypeCorrect == BlobsSpec => []BlobsTypeOK
<1>1. ArtInv => BlobsTypeOK
    BY DEF ArtInv
<1>. QED
    BY <1>1, ArtInitInv, ArtStepKeeps, PTL DEF BlobsSpec

\* A row has its bytes but for a release that was cut short, and what a journal
\* needs to put a file back is in the store, for every interleaving of puts,
\* applies, restores and crashes: every use has a reference, so that the release
\* of a last reference can take nothing a journal names (changes/blobstore.py).
THEOREM ArtIsKept == BlobsSpec => []BytesKept
    BY ArtInitInv, ArtStepKeeps, ArtInvIsSafe, PTL DEF BlobsSpec

-----------------------------------------------------------------------------
(* The four components together.                                           *)

\* A replacement, an Undo, the store of artwork and the names of a review keep the types of
\* what they store, for every file, manifest, picture and library: in particular a journal's
\* state is one that recovery knows, and a reference count stays within its bound.
THEOREM ChangesTypeCorrect == Spec /\ UndoSpec /\ BlobsSpec /\ RenamesSpec => []TypesOK
<1>1. TypeOK /\ UndoTypeOK /\ BlobsTypeOK /\ RenamesTypeOK => TypesOK
    BY DEF TypesOK
<1>. QED
    BY <1>1, TypeCorrect, UndoTypeCorrect, ArtTypeCorrect, MovesTypeCorrect, PTL
=============================================================================
