------------------------- MODULE ReplacementProofs --------------------------
(***************************************************************************)
(* Proofs about Replacement for every number of operations, files of other *)
(* programs, crashes and refused checkpoints, as long as the release of a  *)
(* held file never meets an I/O error (FinalizeMayFail): when it does, the *)
(* recovery of an Undo may take Apply's own transition for an interrupted  *)
(* one, and the invariants below do not hold.                              *)
(***************************************************************************)
EXTENDS Replacement, TLAPS

-----------------------------------------------------------------------------
(* The phases of an operation, by what has happened to the file.            *)

\* Nothing is displaced yet,
Before  == {"stage", "verify", "stage_ready", "displace_intent", "displace"}
\* the file is held, and the path free or taken by others,
Holding == {"displaced", "verify_held", "displacement_verified", "publication_intent",
            "publish", "compensation_intent", "compensate"}
\* the file is back,
Back    == {"compensated"}
\* the new one is published.
Public  == {"published", "capture", "commit"}

Replacing  == Before \cup Holding \cup Back \cup Public
Recovering == {"inspect", "withdraw", "withdrawn", "restore", "restored", "cleanup",
               "reconciled"}
Undoing    == {"withdraw", "withdrawn", "restore", "restored", "cleanup"}

-----------------------------------------------------------------------------
(* The inductive invariant.                                                 *)

\* The rows tell what the process that works on them, or died, was about.
Control ==
    /\ pc \in Replacing =>
          \/ run = "applying" /\ op = 1 /\ journal = "writing"
          \/ run = "applying" /\ op > 1 /\ journal = "done"
          \/ run = "undoing"  /\ op > 1 /\ journal = "writing"
    /\ pc \in {"finalize", "finish"} =>
          \/ run = "applying" /\ op = 1 /\ journal = "done"
          \/ run \in {"applying", "undoing"} /\ op > 1 /\ journal = "rolled_back"
    /\ pc = "preflight" => run = "undoing" /\ journal \in {"done", "rolled_back"}
    /\ pc \in Recovering => run = "undoing" /\ journal = "writing"
    /\ run \notin {"applying", "undoing"} => pc = "idle"
    /\ run = "applied" => op = 1
    /\ run \in {"applied", "retryable"} => journal \in {"done", "rolled_back"}
    /\ run = "undoing" => journal \in {"done", "rolled_back"} \/ (journal = "writing" /\ op > 1)
    /\ run = "none" => op = 1 /\ journal = "none"
    /\ transition.op <= op
    /\ pc \in Replacing \ {"stage", "verify", "stage_ready"} => transition.op = op
    /\ journal = "rolled_back" => transition.op > 1
    /\ pc \in Undoing => transition.op > 1

\* A directory is that of its operation, and empty before it begins.
DirsAreOwn ==
    /\ \A o \in Ops : dirs[o].staged \in {Absent, o}
    /\ \A o \in Ops :
          o > op \/ (o = op /\ (pc = "stage" \/ run = "none")) => dirs[o] = NoDir

\* What stands in the directory that is worked on.
DirInStep ==
    /\ pc \in Replacing \cup {"finalize"} => dir.withdrawn = Absent
    /\ pc \in Before \cup Back => dir.held = Absent
    /\ pc \in Public \cup {"displacement_verified", "publication_intent", "publish",
                         "finalize"} =>
          dir.held = Expected(op)
    /\ pc \in Public => dir.staged = Absent
    /\ pc = "withdraw" => recDir.withdrawn = Absent
    /\ pc \in {"restored", "cleanup", "reconciled"} => recDir.held = Absent

\* An operation's file is new: it is nowhere to be seen before it is published.
Seen(e) == e <= op \/ (MaxOps < e /\ e <= MaxOps + foreigners)

NewFiles ==
    /\ Seen(public)
    /\ \A o \in Ops : Seen(dirs[o].held) /\ Seen(dirs[o].withdrawn)
    /\ run = "none" => public # op
    /\ pc \in Before \cup Holding \cup Back => public # op
    /\ pc \in Replacing => \A o \in Ops : dirs[o].held # op

\* What is owed of the library's own files follows the journal.
OwedByJournal ==
    /\ \A o \in Ops : o \in owed =>
          /\ dirs[o].staged = Absent
          /\ IF o = 1 THEN op > 1 \/ journal = "done" ELSE journal = "rolled_back"
    /\ pc = "finalize" => Expected(op) \notin owed

\* The directory of Apply is gone when Undo works, or the applied file is.
ApplyReleased ==
    /\ op > 1 /\ (run \in {"undoing", "retryable"} \/ pc \in Replacing \ {"stage"})
          => dirs[1] = NoDir
    /\ dirs[1] # NoDir
       /\ \/ op = 1 /\ (pc = "finish" \/ run \in {"applied", "undoing", "retryable"})
          \/ op > 1 /\ pc = "stage"
          => public # Applied

\* A file owed is held only by the operation in progress, or the one to recover.
HeldInProgress ==
    \A o \in Ops : dirs[o].held \in owed =>
        /\ run \in {"applying", "undoing", "recovery_required"}
        /\ pc \notin {"finalize", "finish", "preflight"}
        /\ pc \in Replacing => o = op
        /\ run = "undoing" => journal = "writing"
        /\ run = "undoing" /\ pc \notin Replacing => o = transition.op

\* Left alone, what was published is there.
Undisturbed == foreigners = 0 /\ pc \in {"commit", "finalize", "finish"} => public = op

IInv ==
    /\ TypeOK /\ Control /\ DirsAreOwn /\ DirInStep /\ NewFiles
    /\ OwedByJournal /\ ApplyReleased /\ HeldInProgress /\ Undisturbed
    /\ NothingLost /\ OutcomeTold

-----------------------------------------------------------------------------
(* Constants and directories.                                               *)

(* The library's own files and the operations are among the files, and      *)
(* other programs' come after them.                                         *)
LEMMA Numbers ==
    /\ MaxOps \in Nat /\ 1 <= MaxOps /\ 1 \in Ops
    /\ Ops \subseteq Files /\ Original \in Files /\ Applied \in Files
    /\ Files \subseteq Entries /\ Absent \in Entries /\ Absent \notin Files
    /\ Entries \subseteq Int
    /\ \A o \in Ops : o \in Int /\ 1 <= o /\ o <= MaxOps
    /\ \A o \in Ops : Expected(o) \in Files /\ Expected(o) < o /\ Expected(o) <= 1
    /\ Absent = -1 /\ Original = 0 /\ Applied = 1
    /\ \A e \in Files : e > MaxOps \/ e \in Ops \/ e = Original
BY ConstantsAssumption
   DEF Ops, Files, Foreign, Entries, Original, Applied, Absent, Expected

(* The bounds are numbers.                                                  *)
LEMMA Bounds == MaxForeign \in Nat /\ MaxCrashes \in Nat /\ MaxFaults \in Nat
BY ConstantsAssumption

(* The table of what follows a checkpoint.                                  *)
LEMMA AfterTable ==
    /\ DOMAIN After = {"stage_ready", "displace_intent", "displaced",
                       "displacement_verified", "publication_intent",
                       "compensation_intent", "published"}
    /\ After["stage_ready"] = "displace_intent" /\ After["displace_intent"] = "displace"
    /\ After["displaced"] = "verify_held"
    /\ After["displacement_verified"] = "publication_intent"
    /\ After["publication_intent"] = "publish"
    /\ After["compensation_intent"] = "compensate"
    /\ After["published"] = "capture"
BY DEF After

(* Every place the worker stands at is one of the phases.                   *)
LEMMA PcsByPhase ==
    Pcs = Replacing \cup Recovering \cup {"idle", "finalize", "finish", "preflight"}
BY AfterTable DEF Pcs, Replacing, Before, Holding, Back, Public, Recovering

(* Updates of a directory.                                                  *)
LEMMA DirUpdates ==
    ASSUME NEW d \in Dirs, NEW e \in Entries
    PROVE  /\ NoDir \in Dirs
           /\ NoDir.exists = FALSE /\ NoDir.staged = Absent
           /\ NoDir.held = Absent /\ NoDir.withdrawn = Absent
           /\ [d EXCEPT !.staged = e] \in Dirs
           /\ [d EXCEPT !.held = e] \in Dirs
           /\ [d EXCEPT !.withdrawn = e] \in Dirs
           /\ [d EXCEPT !.staged = e].staged = e
           /\ [d EXCEPT !.staged = e].held = d.held
           /\ [d EXCEPT !.staged = e].withdrawn = d.withdrawn
           /\ [d EXCEPT !.held = e].staged = d.staged
           /\ [d EXCEPT !.held = e].held = e
           /\ [d EXCEPT !.held = e].withdrawn = d.withdrawn
           /\ [d EXCEPT !.withdrawn = e].staged = d.staged
           /\ [d EXCEPT !.withdrawn = e].held = d.held
           /\ [d EXCEPT !.withdrawn = e].withdrawn = e
BY Numbers DEF Dirs, NoDir

(* An empty directory is a directory.                                       *)
LEMMA NoDirTyped == NoDir \in Dirs
BY Numbers DEF Dirs, NoDir

(* Discarding the staged file leaves the rest of the directory.             *)
LEMMA DiscardedDir ==
    ASSUME NEW d \in Dirs
    PROVE  /\ Discarded(d) \in Dirs
           /\ Discarded(d).staged = Absent
           /\ Discarded(d).held = d.held
           /\ Discarded(d).withdrawn = d.withdrawn
           /\ d = NoDir => Discarded(d) = NoDir
<1>1. Absent \in Entries
  BY Numbers
<1>2. /\ [d EXCEPT !.staged = Absent] \in Dirs
      /\ [d EXCEPT !.staged = Absent].staged = Absent
      /\ [d EXCEPT !.staged = Absent].held = d.held
      /\ [d EXCEPT !.staged = Absent].withdrawn = d.withdrawn
      /\ NoDir \in Dirs /\ NoDir.staged = Absent
      /\ NoDir.held = Absent /\ NoDir.withdrawn = Absent
  BY <1>1, DirUpdates
<1>3. QED
  BY <1>2 DEF Discarded

(* One directory changes, the others stay.                                  *)
LEMMA OneDir ==
    ASSUME dirs \in [Ops -> Dirs], NEW x \in Ops, NEW d \in Dirs,
           dirs' = [dirs EXCEPT ![x] = d]
    PROVE  /\ dirs' \in [Ops -> Dirs] /\ dirs'[x] = d
           /\ \A o \in Ops \ {x} : dirs'[o] = dirs[o]
OBVIOUS

(* What a failed operation leaves: staged files may go, nothing else.       *)
LEMMA FailLeaves ==
    ASSUME TypeOK, NEW touched \in BOOLEAN, Fail(touched)
    PROVE  /\ dirs' \in [Ops -> Dirs]
           /\ \A o \in Ops : /\ dirs'[o].held = dirs[o].held
                             /\ dirs'[o].withdrawn = dirs[o].withdrawn
                             /\ dirs'[o].staged \in {dirs[o].staged, Absent}
                             /\ dirs[o] = NoDir => dirs'[o] = NoDir
           /\ pc' = "idle" /\ run' \in {"failed", "recovery_required"}
           /\ run' = "failed" <=> (op = 1 /\ ~touched)
           /\ journal' = IF op = 1 /\ ~touched THEN "failed" ELSE "writing"
<1>1. dirs \in [Ops -> Dirs] /\ op \in Ops /\ dir \in Dirs
  BY DEF TypeOK, dir
<1>2. CASE touched
  BY <1>1, <1>2 DEF Fail
<1>3. CASE ~touched
  <2>1. dirs' = [dirs EXCEPT ![op] = Discarded(dir)]
    BY <1>3 DEF Fail
  <2>2. Discarded(dir) \in Dirs
    BY <1>1, DiscardedDir
  <2>3. /\ dirs' \in [Ops -> Dirs] /\ dirs'[op] = Discarded(dir)
        /\ \A o \in Ops \ {op} : dirs'[o] = dirs[o]
    BY <1>1, <2>1, <2>2, OneDir
  <2>4. /\ dirs'[op].held = dirs[op].held /\ dirs'[op].withdrawn = dirs[op].withdrawn
        /\ dirs'[op].staged = Absent
        /\ dirs[op] = NoDir => dirs'[op] = NoDir
    BY <1>1, <2>3, DiscardedDir DEF dir
  <2>5. QED
    BY <1>1, <1>3, <2>3, <2>4 DEF Fail
<1>4. QED
  BY <1>2, <1>3

-----------------------------------------------------------------------------
(* Types.                                                                   *)

(* A checkpoint updated is a checkpoint, of the same operation.             *)
LEMMA TransitionUpdates ==
    ASSUME TypeOK, NEW ph \in Phases, NEW e \in Entries
    PROVE  /\ [transition EXCEPT !.phase = ph] \in Transitions
           /\ [transition EXCEPT !.phase = ph, !.entry = e] \in Transitions
           /\ [transition EXCEPT !.phase = ph].op = transition.op
           /\ [transition EXCEPT !.phase = ph, !.entry = e].op = transition.op
           /\ [transition EXCEPT !.phase = ph, !.entry = e].entry = e
           /\ transition.op \in Ops /\ transition.entry \in Entries
BY DEF TypeOK, Transitions

(* The phases that recovery records are phases.                             *)
LEMMA RecordedPhases ==
    {"complete", "compensated", "compensation_blocked", "recovered",
     "recovery_restore_intent", "recovery_withdraw_intent", "recovery_withdrawn"}
        \subseteq Phases
BY DEF Phases

(* The fields of a directory in the table.                                  *)
LEMMA FieldsTyped ==
    ASSUME TypeOK
    PROVE  /\ op \in Ops /\ transition.op \in Ops /\ transition.entry \in Entries
           /\ dir = dirs[op] /\ recDir = dirs[transition.op]
           /\ \A o \in Ops : /\ dirs[o] \in Dirs
                             /\ dirs[o].staged \in Entries /\ dirs[o].held \in Entries
                             /\ dirs[o].withdrawn \in Entries
BY DEF TypeOK, Transitions, Dirs, dir, recDir

(* What stands in a directory is a number.                                  *)
LEMMA DirNumbers ==
    ASSUME TypeOK
    PROVE  \A o \in Ops : dirs[o].held \in Int /\ dirs[o].withdrawn \in Int
<1>1. \A e \in Entries : e \in Int
  BY Numbers
<1>2. QED
  BY <1>1, FieldsTyped

(* The initial state is well typed.                                         *)
LEMMA TypeInit == Init => TypeOK
<1> SUFFICES ASSUME Init PROVE TypeOK
  OBVIOUS
<1>1. public \in Entries /\ owed \in SUBSET Files /\ op \in Ops
  BY Numbers DEF Init
<1>2. dirs \in [Ops -> Dirs]
  BY Numbers DEF Init, NoDir, Dirs
<1>3. transition \in Transitions
  BY Numbers DEF Init, Transitions, Phases
<1>4. foreigners \in 0..MaxForeign /\ crashes \in 0..MaxCrashes /\ faults \in 0..MaxFaults
  BY ConstantsAssumption DEF Init
<1>5. QED
  BY <1>1, <1>2, <1>3, <1>4 DEF Init, TypeOK, Pcs

(* The steps that change a directory, each by what it leaves there.         *)
LEMMA StageEffect ==
    ASSUME TypeOK, Stage, public = Expected(op)
    PROVE  /\ dirs' \in [Ops -> Dirs]
           /\ \A o \in Ops \ {op} : dirs'[o] = dirs[o]
           /\ dirs'[op].staged = op
           /\ dirs'[op].held = Absent
           /\ dirs'[op].withdrawn = Absent
           /\ pc' = "verify" /\ UNCHANGED public
           /\ UNCHANGED <<transition, journal, run, op, owed, foreigners>>
<1>1. dirs \in [Ops -> Dirs] /\ op \in Ops /\ dir \in Dirs /\ dir = dirs[op]
  BY FieldsTyped DEF TypeOK
<1>2. dirs' = [dirs EXCEPT ![op] = [NoDir EXCEPT !.exists = TRUE, !.staged = op]]
  BY <1>1 DEF Stage, dir
<1>3. /\ [NoDir EXCEPT !.exists = TRUE, !.staged = op] \in Dirs
      /\ [NoDir EXCEPT !.exists = TRUE, !.staged = op].staged = op
      /\ [NoDir EXCEPT !.exists = TRUE, !.staged = op].held = Absent
      /\ [NoDir EXCEPT !.exists = TRUE, !.staged = op].withdrawn = Absent
  BY ZenonT(40), <1>1, FieldsTyped, Numbers, DirUpdates, NoDirTyped DEF NoDir, Dirs, TypeOK
<1>4. /\ dirs' \in [Ops -> Dirs] /\ dirs'[op] = [NoDir EXCEPT !.exists = TRUE, !.staged = op]
      /\ \A o \in Ops \ {op} : dirs'[o] = dirs[o]
  BY <1>1, <1>2, <1>3, OneDir
<1>5. /\ pc' = "verify" /\ UNCHANGED public
      /\ UNCHANGED <<transition, journal, run, op, owed, foreigners>>
  BY DEF Stage, rows, history
<1>6. QED
  BY <1>3, <1>4, <1>5

(* The file is held.                                                        *)
LEMMA DisplaceEffect ==
    ASSUME TypeOK, Displace, public # Absent
    PROVE  /\ dirs' \in [Ops -> Dirs]
           /\ \A o \in Ops \ {op} : dirs'[o] = dirs[o]
           /\ dirs'[op].staged = dirs[op].staged
           /\ dirs'[op].held = public
           /\ dirs'[op].withdrawn = dirs[op].withdrawn
           /\ pc' = "displaced" /\ public' = Absent
           /\ UNCHANGED <<transition, journal, run, op, owed, foreigners>>
<1>1. dirs \in [Ops -> Dirs] /\ op \in Ops /\ dir \in Dirs /\ dir = dirs[op]
  BY FieldsTyped DEF TypeOK
<1>2. dirs' = [dirs EXCEPT ![op] = [dir EXCEPT !.held = public]]
  BY <1>1 DEF Displace, dir
<1>3. Absent \in Entries /\ public \in Entries
  BY Numbers DEF TypeOK
<1>4. /\ [dir EXCEPT !.held = public] \in Dirs
      /\ [dir EXCEPT !.held = public].staged = dirs[op].staged
      /\ [dir EXCEPT !.held = public].held = public
      /\ [dir EXCEPT !.held = public].withdrawn = dirs[op].withdrawn
  BY <1>1, <1>3 DEF Dirs
<1>5. /\ dirs' \in [Ops -> Dirs] /\ dirs'[op] = [dir EXCEPT !.held = public]
      /\ \A o \in Ops \ {op} : dirs'[o] = dirs[o]
  BY <1>1, <1>2, <1>4, OneDir
<1>6. /\ pc' = "displaced" /\ public' = Absent
      /\ UNCHANGED <<transition, journal, run, op, owed, foreigners>>
  BY DEF Displace, rows, history
<1>7. QED
  BY <1>4, <1>5, <1>6

(* The staged file is published.                                            *)
LEMMA PublishEffect ==
    ASSUME TypeOK, Publish, public = Absent
    PROVE  /\ dirs' \in [Ops -> Dirs]
           /\ \A o \in Ops \ {op} : dirs'[o] = dirs[o]
           /\ dirs'[op].staged = Absent
           /\ dirs'[op].held = dirs[op].held
           /\ dirs'[op].withdrawn = dirs[op].withdrawn
           /\ pc' = "published" /\ public' = op
           /\ UNCHANGED <<transition, journal, run, op, owed, foreigners>>
<1>1. dirs \in [Ops -> Dirs] /\ op \in Ops /\ dir \in Dirs /\ dir = dirs[op]
  BY FieldsTyped DEF TypeOK
<1>2. dirs' = [dirs EXCEPT ![op] = [dir EXCEPT !.staged = Absent]]
  BY <1>1 DEF Publish, dir
<1>3. Absent \in Entries /\ public \in Entries
  BY Numbers DEF TypeOK
<1>4. /\ [dir EXCEPT !.staged = Absent] \in Dirs
      /\ [dir EXCEPT !.staged = Absent].staged = Absent
      /\ [dir EXCEPT !.staged = Absent].held = dirs[op].held
      /\ [dir EXCEPT !.staged = Absent].withdrawn = dirs[op].withdrawn
  BY <1>1, <1>3 DEF Dirs
<1>5. /\ dirs' \in [Ops -> Dirs] /\ dirs'[op] = [dir EXCEPT !.staged = Absent]
      /\ \A o \in Ops \ {op} : dirs'[o] = dirs[o]
  BY <1>1, <1>2, <1>4, OneDir
<1>6. /\ pc' = "published" /\ public' = op
      /\ UNCHANGED <<transition, journal, run, op, owed, foreigners>>
  BY DEF Publish, rows, history
<1>7. QED
  BY <1>4, <1>5, <1>6

(* The held file is put back.                                               *)
LEMMA CompensateEffect ==
    ASSUME TypeOK, Compensate, public = Absent
    PROVE  /\ dirs' \in [Ops -> Dirs]
           /\ \A o \in Ops \ {op} : dirs'[o] = dirs[o]
           /\ dirs'[op].staged = dirs[op].staged
           /\ dirs'[op].held = Absent
           /\ dirs'[op].withdrawn = dirs[op].withdrawn
           /\ pc' = "compensated" /\ public' = dirs[op].held
           /\ UNCHANGED <<transition, journal, run, op, owed, foreigners>>
<1>1. dirs \in [Ops -> Dirs] /\ op \in Ops /\ dir \in Dirs /\ dir = dirs[op]
  BY FieldsTyped DEF TypeOK
<1>2. dirs' = [dirs EXCEPT ![op] = [dir EXCEPT !.held = Absent]]
  BY <1>1 DEF Compensate, dir
<1>3. Absent \in Entries /\ public \in Entries
  BY Numbers DEF TypeOK
<1>4. /\ [dir EXCEPT !.held = Absent] \in Dirs
      /\ [dir EXCEPT !.held = Absent].staged = dirs[op].staged
      /\ [dir EXCEPT !.held = Absent].held = Absent
      /\ [dir EXCEPT !.held = Absent].withdrawn = dirs[op].withdrawn
  BY <1>1, <1>3 DEF Dirs
<1>5. /\ dirs' \in [Ops -> Dirs] /\ dirs'[op] = [dir EXCEPT !.held = Absent]
      /\ \A o \in Ops \ {op} : dirs'[o] = dirs[o]
  BY <1>1, <1>2, <1>4, OneDir
<1>6. /\ pc' = "compensated" /\ public' = dirs[op].held
      /\ UNCHANGED <<transition, journal, run, op, owed, foreigners>>
  BY DEF Compensate, rows, history, dir
<1>7. QED
  BY <1>4, <1>5, <1>6

(* Recovery takes the published file away.                                  *)
LEMMA WithdrawEffect ==
    ASSUME TypeOK, Withdraw, public # Absent
    PROVE  /\ dirs' \in [Ops -> Dirs]
           /\ \A o \in Ops \ {transition.op} : dirs'[o] = dirs[o]
           /\ dirs'[transition.op].staged = dirs[transition.op].staged
           /\ dirs'[transition.op].held = dirs[transition.op].held
           /\ dirs'[transition.op].withdrawn = public
           /\ pc' = "withdrawn" /\ public' = Absent
           /\ UNCHANGED <<transition, journal, run, op, owed, foreigners>>
<1>1. dirs \in [Ops -> Dirs] /\ transition.op \in Ops /\ recDir \in Dirs /\ recDir = dirs[transition.op]
  BY FieldsTyped DEF TypeOK
<1>2. dirs' = [dirs EXCEPT ![transition.op] = [recDir EXCEPT !.withdrawn = public]]
  BY <1>1 DEF Withdraw, recDir
<1>3. Absent \in Entries /\ public \in Entries
  BY Numbers DEF TypeOK
<1>4. /\ [recDir EXCEPT !.withdrawn = public] \in Dirs
      /\ [recDir EXCEPT !.withdrawn = public].staged = dirs[transition.op].staged
      /\ [recDir EXCEPT !.withdrawn = public].held = dirs[transition.op].held
      /\ [recDir EXCEPT !.withdrawn = public].withdrawn = public
  BY <1>1, <1>3 DEF Dirs
<1>5. /\ dirs' \in [Ops -> Dirs] /\ dirs'[transition.op] = [recDir EXCEPT !.withdrawn = public]
      /\ \A o \in Ops \ {transition.op} : dirs'[o] = dirs[o]
  BY <1>1, <1>2, <1>4, OneDir
<1>6. /\ pc' = "withdrawn" /\ public' = Absent
      /\ UNCHANGED <<transition, journal, run, op, owed, foreigners>>
  BY DEF Withdraw, rows, history
<1>7. QED
  BY <1>4, <1>5, <1>6

(* Recovery puts the held file back.                                        *)
LEMMA RestoreEffect ==
    ASSUME TypeOK, Restore, public = Absent
    PROVE  /\ dirs' \in [Ops -> Dirs]
           /\ \A o \in Ops \ {transition.op} : dirs'[o] = dirs[o]
           /\ dirs'[transition.op].staged = dirs[transition.op].staged
           /\ dirs'[transition.op].held = Absent
           /\ dirs'[transition.op].withdrawn = dirs[transition.op].withdrawn
           /\ pc' = "restored" /\ public' = dirs[transition.op].held
           /\ UNCHANGED <<transition, journal, run, op, owed, foreigners>>
<1>1. dirs \in [Ops -> Dirs] /\ transition.op \in Ops /\ recDir \in Dirs /\ recDir = dirs[transition.op]
  BY FieldsTyped DEF TypeOK
<1>2. dirs' = [dirs EXCEPT ![transition.op] = [recDir EXCEPT !.held = Absent]]
  BY <1>1 DEF Restore, recDir
<1>3. Absent \in Entries /\ public \in Entries
  BY Numbers DEF TypeOK
<1>4. /\ [recDir EXCEPT !.held = Absent] \in Dirs
      /\ [recDir EXCEPT !.held = Absent].staged = dirs[transition.op].staged
      /\ [recDir EXCEPT !.held = Absent].held = Absent
      /\ [recDir EXCEPT !.held = Absent].withdrawn = dirs[transition.op].withdrawn
  BY <1>1, <1>3 DEF Dirs
<1>5. /\ dirs' \in [Ops -> Dirs] /\ dirs'[transition.op] = [recDir EXCEPT !.held = Absent]
      /\ \A o \in Ops \ {transition.op} : dirs'[o] = dirs[o]
  BY <1>1, <1>2, <1>4, OneDir
<1>6. /\ pc' = "restored" /\ public' = dirs[transition.op].held
      /\ UNCHANGED <<transition, journal, run, op, owed, foreigners>>
  BY DEF Restore, rows, history, recDir
<1>7. QED
  BY <1>4, <1>5, <1>6

(* Every step keeps the types.                                              *)
LEMMA TypeStep == TypeOK /\ [Next]_vars => TypeOK'
<1> SUFFICES ASSUME TypeOK, [Next]_vars PROVE TypeOK'
  OBVIOUS
<1> USE DEF history, rows
<1>0. /\ op \in Ops /\ dir \in Dirs /\ recDir \in Dirs /\ transition.op \in Ops
      /\ dirs \in [Ops -> Dirs] /\ public \in Entries
      /\ Absent \in Entries /\ \A o \in Ops : o \in Entries
      /\ NoDir \in Dirs
  BY FieldsTyped, Numbers, NoDirTyped DEF TypeOK
<1>1. public' \in Entries
  <2>1. \A k \in 1..MaxForeign : MaxOps + k \in Entries
    BY Numbers, ConstantsAssumption DEF Entries, Files, Foreign
  <2>2. CASE ForeignReplace
    <3>1. foreigners' \in 1..MaxForeign
      BY <2>2, Bounds DEF ForeignReplace, TypeOK
    <3>2. QED
      BY <2>1, <2>2, <3>1 DEF ForeignReplace
  <2>3. dir.held \in Entries /\ recDir.held \in Entries
    BY FieldsTyped
  <2>4. QED
    BY <1>0, <2>2, <2>3
       DEF Next, BeginApply, BeginRollback, Finish, BeginUndo, Preflight,
       Replace, Stage, VerifyForPublish, Checkpoint, CheckpointFails, Displace, VerifyHeld,
       Publish, Compensate, Compensated, CaptureFails, Capture, Commit, Finalize,
       Crash, Recover, RecoverApply, RecoverUndo, Inspect, Withdraw, Withdrawn,
       Restore, Restored, Cleanup, Reconciled, RecoveryFails, ForeignRemove, vars
<1>2. dirs' \in [Ops -> Dirs]
  <2>1. ASSUME NEW x \in Ops, NEW d \in Dirs, dirs' = [dirs EXCEPT ![x] = d]
        PROVE  dirs' \in [Ops -> Dirs]
    BY <1>0, <2>1, OneDir
  <2>2. ASSUME NEW touched \in BOOLEAN, Fail(touched) PROVE dirs' \in [Ops -> Dirs]
    BY <2>2, FailLeaves
  <2>3. CASE Stage
    <3>1. public = Expected(op) \/ Fail(FALSE)
      BY <2>3 DEF Stage
    <3>2. QED
      BY <2>2, <2>3, <3>1, StageEffect
  <2>4. CASE VerifyForPublish \/ CheckpointFails \/ Compensated \/ CaptureFails
    <3>1. \/ UNCHANGED dirs
          \/ Fail(FALSE) \/ Fail(TRUE) \/ Fail(pc \notin {"stage_ready", "displace_intent"})
      BY <2>4 DEF VerifyForPublish, CheckpointFails, Compensated, CaptureFails
    <3>2. QED
      BY <1>0, <2>2, <3>1
  <2>5. CASE Displace
    <3>1. public # Absent \/ Fail(TRUE)
      BY <2>5 DEF Displace
    <3>2. QED
      BY <1>0, <2>2, <2>5, <3>1, DisplaceEffect
  <2>6. CASE Publish
    <3>1. public = Absent \/ UNCHANGED dirs
      BY <2>6 DEF Publish
    <3>2. QED
      BY <1>0, <2>6, <3>1, PublishEffect
  <2>7. CASE Compensate
    <3>1. public = Absent \/ Fail(TRUE)
      BY <2>7 DEF Compensate
    <3>2. QED
      BY <1>0, <2>2, <2>7, <3>1, CompensateEffect
  <2>8. CASE Withdraw
    <3>1. public # Absent \/ UNCHANGED dirs
      BY <2>8 DEF Withdraw
    <3>2. QED
      BY <1>0, <2>8, <3>1, WithdrawEffect
  <2>9. CASE Restore
    <3>1. public = Absent \/ UNCHANGED dirs
      BY <2>9 DEF Restore
    <3>2. QED
      BY <1>0, <2>9, <3>1, RestoreEffect
  <2>10. CASE Finalize
    BY <1>0, <2>1, <2>10 DEF Finalize
  <2>11. CASE Cleanup
    <3>1. [recDir EXCEPT !.staged = Absent] \in Dirs
      BY <1>0, DirUpdates
    <3>2. QED
      BY <1>0, <2>1, <2>11, <3>1 DEF Cleanup
  <2>12. QED
    BY <1>0, <2>3, <2>4, <2>5, <2>6, <2>7, <2>8, <2>9, <2>10, <2>11
       DEF Next, BeginApply, BeginRollback, Finish, BeginUndo, Preflight,
       Replace, Checkpoint, VerifyHeld, Capture, Commit, Crash, Recover, RecoverApply,
       RecoverUndo, Inspect, Withdrawn, Restored, Reconciled, RecoveryFails,
       ForeignReplace, ForeignRemove, vars
<1>3. transition' \in Transitions
  <2>1. CASE Checkpoint
    <3>1. pc \in Phases /\ dir.held \in Entries
      BY <2>1, FieldsTyped DEF Checkpoint, Phases
    <3>2. QED
      BY <1>0, <2>1, <3>1 DEF Checkpoint, Transitions
  <2>2. \A e \in Entries : /\ [transition EXCEPT !.phase = "compensation_blocked", !.entry = e] \in Transitions
                           /\ [transition EXCEPT !.phase = "recovered", !.entry = e] \in Transitions
                           /\ [transition EXCEPT !.phase = "recovery_restore_intent", !.entry = e] \in Transitions
                           /\ [transition EXCEPT !.phase = "recovery_withdraw_intent", !.entry = e] \in Transitions
                           /\ [transition EXCEPT !.phase = "recovery_withdrawn", !.entry = e] \in Transitions
                           /\ [transition EXCEPT !.phase = "compensated"] \in Transitions
                           /\ [transition EXCEPT !.phase = "complete"] \in Transitions
    BY TransitionUpdates, RecordedPhases
  <2>3. CASE Compensate \/ Compensated \/ Commit
    BY <1>0, <2>2, <2>3 DEF Compensate, Compensated, Commit, TypeOK
  <2>4. CASE Inspect \/ Withdrawn \/ Restored
    <3>1. \A o \in Ops : dirs[o].held \in Entries
      BY FieldsTyped
    <3>2. recDir.held \in Entries /\ transition.entry \in Entries
      BY <1>0, FieldsTyped
    <3>3. CASE Inspect
      BY <1>0, <2>2, <3>2, <3>3 DEF Inspect, Record, TypeOK
    <3>4. CASE Withdrawn \/ Restored
      BY <1>0, <2>2, <3>2, <3>4 DEF Withdrawn, Restored, Record, TypeOK
    <3>5. QED
      BY <2>4, <3>3, <3>4
  <2>5. transition \in Transitions
    BY DEF TypeOK
  <2>6. QED
    BY <2>1, <2>3, <2>4, <2>5
       DEF Next, BeginApply, BeginRollback, Finish, BeginUndo, Preflight,
       Replace, Stage, VerifyForPublish, CheckpointFails, Displace, VerifyHeld,
       Publish, CaptureFails, Capture, Finalize,
       Crash, Recover, RecoverApply, RecoverUndo, Withdraw,
       Restore, Cleanup, Reconciled, RecoveryFails, ForeignReplace, ForeignRemove, vars
<1>4. /\ journal' \in {"none", "writing", "done", "failed", "rolled_back"}
      /\ run' \in {"none", "applying", "applied", "failed", "undoing", "undone",
                   "retryable", "recovery_required"}
  BY DEF TypeOK, Fail, Blocked,
     Next, BeginApply, BeginRollback, Finish, BeginUndo, Preflight,
     Replace, Stage, VerifyForPublish, Checkpoint, CheckpointFails, Displace, VerifyHeld,
     Publish, Compensate, Compensated, CaptureFails, Capture, Commit, Finalize,
     Crash, Recover, RecoverApply, RecoverUndo, Inspect, Withdraw, Withdrawn,
     Restore, Restored, Cleanup, Reconciled, RecoveryFails, ForeignReplace, ForeignRemove, vars
<1>5. op' \in Ops
  <2>1. \A o \in Ops : o < MaxOps => o + 1 \in Ops
    BY Numbers DEF Ops
  <2>2. QED
    BY <1>0, <2>1, Numbers
       DEF Next, BeginApply, BeginRollback, Finish, BeginUndo, Preflight,
       Replace, Stage, VerifyForPublish, Checkpoint, CheckpointFails, Displace, VerifyHeld,
       Publish, Compensate, Compensated, CaptureFails, Capture, Commit, Finalize,
       Crash, Recover, RecoverApply, RecoverUndo, Inspect, Withdraw, Withdrawn,
       Restore, Restored, Cleanup, Reconciled, RecoveryFails, ForeignReplace,
       ForeignRemove, vars
<1>6. pc' \in Pcs
  <2>1. CASE Checkpoint
    BY <2>1, AfterTable, PcsByPhase
       DEF Checkpoint, Replacing, Before, Holding, Back, Public
  <2>2. pc \in Pcs
    BY DEF TypeOK
  <2>3. QED
    BY <2>1, <2>2, PcsByPhase
       DEF Replacing, Before, Holding, Back, Public, Recovering, Fail, Blocked,
       Next, BeginApply, BeginRollback, Finish, BeginUndo, Preflight,
       Replace, Stage, VerifyForPublish, CheckpointFails, Displace, VerifyHeld,
       Publish, Compensate, Compensated, CaptureFails, Capture, Commit, Finalize,
       Crash, Recover, RecoverApply, RecoverUndo, Inspect, Withdraw, Withdrawn,
       Restore, Restored, Cleanup, Reconciled, RecoveryFails, ForeignReplace,
       ForeignRemove, vars
<1>7. owed' \in SUBSET Files
  <2>1. CASE Commit
    BY <1>0, <2>1, Numbers DEF Commit, Settle, TypeOK
  <2>2. CASE ForeignReplace
    <3>1. MaxOps + foreigners' \in Files
      BY <2>2, Numbers, ConstantsAssumption DEF ForeignReplace, TypeOK, Files, Foreign
    <3>2. QED
      BY <2>2, <3>1 DEF ForeignReplace, TypeOK
  <2>3. CASE ForeignRemove
    BY <2>3 DEF ForeignRemove, TypeOK
  <2>4. owed \in SUBSET Files
    BY DEF TypeOK
  <2>5. QED
    BY <2>1, <2>2, <2>3, <2>4
       DEF Next, BeginApply, BeginRollback, Finish, BeginUndo, Preflight,
       Replace, Stage, VerifyForPublish, Checkpoint, CheckpointFails, Displace, VerifyHeld,
       Publish, Compensate, Compensated, CaptureFails, Capture, Finalize,
       Crash, Recover, RecoverApply, RecoverUndo, Inspect, Withdraw, Withdrawn,
       Restore, Restored, Cleanup, Reconciled, RecoveryFails, vars
<1>8. /\ foreigners' \in 0..MaxForeign /\ crashes' \in 0..MaxCrashes
      /\ faults' \in 0..MaxFaults
  <2>1. CASE ForeignReplace \/ ForeignRemove
    BY <2>1, Bounds DEF TypeOK, ForeignReplace, ForeignRemove
  <2>2. CASE Crash
    BY <2>2, Bounds DEF TypeOK, Crash
  <2>3. CASE CheckpointFails \/ RecoveryFails
    BY <2>3, Bounds DEF TypeOK, CheckpointFails, RecoveryFails
  <2>4. CASE UNCHANGED history
    BY <2>4 DEF TypeOK
  <2>5. QED
    BY <2>1, <2>2, <2>3, <2>4
       DEF Next, BeginApply, BeginRollback, Finish, BeginUndo, Preflight,
       Replace, Stage, VerifyForPublish, Checkpoint, Displace, VerifyHeld,
       Publish, Compensate, Compensated, CaptureFails, Capture, Commit, Finalize,
       Recover, RecoverApply, RecoverUndo, Inspect, Withdraw, Withdrawn,
       Restore, Restored, Cleanup, Reconciled, vars
<1>9. QED
  BY <1>1, <1>2, <1>3, <1>4, <1>5, <1>6, <1>7, <1>8 DEF TypeOK

-----------------------------------------------------------------------------
(* Steps that end an operation or a recovery.                               *)

(* Every owed file stays somewhere.                                         *)
LEMMA StillStored ==
    ASSUME \A e \in owed' : \/ e = public'
                            \/ \E o \in Ops : \/ e = dirs'[o].staged
                                              \/ e = dirs'[o].held
                                              \/ e = dirs'[o].withdrawn
    PROVE  NothingLost'
BY DEF NothingLost, Stored

(* A file that is owed is in place or in a directory.                       *)
LEMMA WhereStored ==
    ASSUME NothingLost, NEW e \in owed
    PROVE  \/ e = public
           \/ \E o \in Ops : \/ e = dirs[o].staged
                             \/ e = dirs[o].held
                             \/ e = dirs[o].withdrawn
BY DEF NothingLost, Stored

(* A staged file is not owed.                                               *)
LEMMA StagedNotOwed ==
    ASSUME TypeOK, DirsAreOwn, OwedByJournal
    PROVE  /\ \A o \in Ops : dirs[o].staged \notin owed
           /\ Absent \notin owed
BY Numbers DEF TypeOK, DirsAreOwn, OwedByJournal

(* An operation fails: nothing is displaced, or the run is left to recover. *)
LEMMA FailStep ==
    ASSUME IInv, TypeOK', pc \in Replacing,
           NEW touched \in BOOLEAN, Fail(touched),
           touched \/ op # 1 \/ pc \in Before \cup Back,
           UNCHANGED <<public, op, owed, foreigners>>, transition'.op = transition.op
    PROVE  IInv'
<1> USE DEF IInv
<1>1. /\ \A o \in Ops : /\ dirs'[o].held = dirs[o].held
                        /\ dirs'[o].withdrawn = dirs[o].withdrawn
                        /\ dirs'[o].staged \in {dirs[o].staged, Absent}
                        /\ dirs[o] = NoDir => dirs'[o] = NoDir
      /\ pc' = "idle" /\ run' \in {"failed", "recovery_required"}
      /\ run' = "failed" => (op = 1 /\ ~touched)
      /\ journal' \in {"failed", "writing"}
  BY FailLeaves
<1>2. /\ journal \in {"writing", "done"} /\ (op = 1 => journal = "writing")
      /\ op \in Ops
  BY DEF Control, TypeOK
<1>3. Control'
  BY <1>1 DEF Control, Replacing, Before, Holding, Back, Public, Recovering, Undoing
<1>4. DirsAreOwn'
  BY <1>1 DEF DirsAreOwn
<1>5. DirInStep' /\ Undisturbed'
  BY <1>1 DEF DirInStep, Undisturbed, Replacing, Before, Holding, Back, Public
<1>6. NewFiles'
  BY <1>1 DEF NewFiles, Seen, Replacing, Before, Holding, Back, Public
<1>7. OwedByJournal'
  <2>1. ASSUME NEW o \in Ops, o \in owed PROVE dirs'[o].staged = Absent /\ o = 1 /\ op > 1
    BY <1>1, <1>2, <2>1, Numbers DEF OwedByJournal
  <2>2. QED
    BY <1>1, <2>1 DEF OwedByJournal
<1>8. ApplyReleased'
  BY <1>1 DEF ApplyReleased, Replacing, Before, Holding, Back, Public
<1>9. run' = "failed" => pc \in Before \cup Back /\ dir.held = Absent /\ op = 1
  BY <1>1 DEF DirInStep
<1>10. run' = "failed" => \A o \in Ops : dirs[o].held \notin owed
  BY <1>9, StagedNotOwed DEF HeldInProgress, dir
<1>11. HeldInProgress'
  BY <1>1, <1>10 DEF HeldInProgress, Replacing, Before, Holding, Back, Public
<1>12. \A e \in owed : \/ e = public
                       \/ \E o \in Ops : e = dirs[o].held \/ e = dirs[o].withdrawn
  BY WhereStored, StagedNotOwed
<1>13. NothingLost'
  BY <1>1, <1>12, StillStored
<1>14. OutcomeTold'
  <2>1. run' = "failed" => \A e \in owed : \/ e = public
                                          \/ \E o \in Ops : e = dirs[o].withdrawn
    BY <1>10, <1>12
  <2>2. SettledVisible'
    BY <1>1, <2>1 DEF SettledVisible, Settled
  <2>3. run' = "failed" => public' # Applied
    BY <1>9, Numbers DEF NewFiles
  <2>4. QED
    BY <1>1, <2>2, <2>3 DEF OutcomeTold
<1>15. QED
  BY <1>3, <1>4, <1>5, <1>6, <1>7, <1>8, <1>11, <1>13, <1>14

(* The process stops, by itself or not, with the rows as they are.          *)
LEMMA StopStep ==
    ASSUME IInv, TypeOK', run \in {"applying", "undoing"},
           pc' = "idle", run' \in {run, "recovery_required"},
           UNCHANGED <<public, dirs, journal, op, owed, foreigners>>,
           transition'.op = transition.op
    PROVE  IInv'
<1> USE DEF IInv
<1>1. Control' /\ DirsAreOwn'
  BY
     DEF Control, DirsAreOwn, Replacing, Before, Holding, Back, Public, Recovering,
         Undoing
<1>2. DirInStep' /\ Undisturbed' /\ NewFiles' /\ OwedByJournal' /\ ApplyReleased'
  BY DEF DirInStep, Undisturbed, NewFiles, Seen, OwedByJournal, ApplyReleased,
         Replacing, Before, Holding, Back, Public
<1>3. HeldInProgress'
  <2>1. ASSUME NEW o \in Ops, dirs[o].held \in owed, run = "undoing"
        PROVE  o = transition.op
    <3>1. CASE pc \in {"stage", "verify", "stage_ready"}
      BY <2>1, <3>1, StagedNotOwed DEF HeldInProgress, DirInStep, dir, Replacing, Before
    <3>2. CASE pc \notin {"stage", "verify", "stage_ready"}
      BY <2>1, <3>2 DEF HeldInProgress, Control
    <3>3. QED
      BY <3>1, <3>2
  <2>2. QED
    BY <2>1 DEF HeldInProgress, Replacing, Before, Holding, Back, Public
<1>4. NothingLost' /\ OutcomeTold'
  BY DEF NothingLost, Stored, OutcomeTold, SettledVisible, Settled
<1>5. QED
  BY <1>1, <1>2, <1>3, <1>4

-----------------------------------------------------------------------------
(* The steps of a replacement.                                              *)

(* The guard of the source holds.                                           *)
LEMMA VerifyStep ==
    ASSUME IInv, TypeOK', VerifyForPublish, public = Expected(op)
    PROVE  IInv'
<1> USE DEF IInv
<1>1. /\ pc = "verify" /\ pc' = "stage_ready"
      /\ UNCHANGED <<public, dirs, transition, journal, run, op, owed, foreigners>>
  BY DEF VerifyForPublish, rows, history
<1>2. Control'
  BY <1>1 DEF Control, Replacing, Before, Holding, Back, Public, Recovering, Undoing
<1>3. DirsAreOwn'
  BY <1>1 DEF DirsAreOwn
<1>4. DirInStep'
  BY <1>1 DEF DirInStep, dir, recDir, Expected, Replacing, Before, Holding, Back, Public
<1>5. NewFiles'
  BY <1>1 DEF NewFiles, Seen, Replacing, Before, Holding, Back, Public
<1>6. OwedByJournal'
  BY <1>1 DEF OwedByJournal, Expected
<1>7. ApplyReleased'
  BY <1>1 DEF ApplyReleased, Replacing, Before, Holding, Back, Public
<1>8. HeldInProgress'
  BY <1>1 DEF HeldInProgress, Replacing, Before, Holding, Back, Public
<1>9. Undisturbed'
  BY <1>1 DEF Undisturbed
<1>10. NothingLost'
  BY <1>1 DEF NothingLost, Stored
<1>11. OutcomeTold'
  BY <1>1 DEF OutcomeTold, SettledVisible, Settled, Control
<1>12. QED
  BY <1>2, <1>3, <1>4, <1>5, <1>6, <1>7, <1>8, <1>9, <1>10, <1>11

(* The held file is compared.                                               *)
LEMMA VerifyHeldStep ==
    ASSUME IInv, TypeOK', VerifyHeld
    PROVE  IInv'
<1> USE DEF IInv
<1>1. /\ pc = "verify_held" /\ pc' \in {"displacement_verified", "compensation_intent"}
      /\ pc' = "displacement_verified" => dir.held = Expected(op)
      /\ UNCHANGED <<public, dirs, transition, journal, run, op, owed, foreigners>>
  BY DEF VerifyHeld, rows, history
<1>2. Control'
  BY <1>1 DEF Control, Replacing, Before, Holding, Back, Public, Recovering, Undoing
<1>3. DirsAreOwn'
  BY <1>1 DEF DirsAreOwn
<1>4. DirInStep'
  BY <1>1 DEF DirInStep, dir, recDir, Expected, Replacing, Before, Holding, Back, Public
<1>5. NewFiles'
  BY <1>1 DEF NewFiles, Seen, Replacing, Before, Holding, Back, Public
<1>6. OwedByJournal'
  BY <1>1 DEF OwedByJournal, Expected
<1>7. ApplyReleased'
  BY <1>1 DEF ApplyReleased, Replacing, Before, Holding, Back, Public
<1>8. HeldInProgress'
  BY <1>1 DEF HeldInProgress, Replacing, Before, Holding, Back, Public
<1>9. Undisturbed'
  BY <1>1 DEF Undisturbed
<1>10. NothingLost'
  BY <1>1 DEF NothingLost, Stored
<1>11. OutcomeTold'
  BY <1>1 DEF OutcomeTold, SettledVisible, Settled, Control
<1>12. QED
  BY <1>2, <1>3, <1>4, <1>5, <1>6, <1>7, <1>8, <1>9, <1>10, <1>11

(* The published file is compared.                                          *)
LEMMA CaptureStep ==
    ASSUME IInv, TypeOK', Capture
    PROVE  IInv'
<1> USE DEF IInv
<1>1. /\ pc = "capture" /\ pc' = "commit" /\ public = op
      /\ UNCHANGED <<public, dirs, transition, journal, run, op, owed, foreigners>>
  BY DEF Capture, rows, history
<1>2. Control'
  BY <1>1 DEF Control, Replacing, Before, Holding, Back, Public, Recovering, Undoing
<1>3. DirsAreOwn'
  BY <1>1 DEF DirsAreOwn
<1>4. DirInStep'
  BY <1>1 DEF DirInStep, dir, recDir, Expected, Replacing, Before, Holding, Back, Public
<1>5. NewFiles'
  BY <1>1 DEF NewFiles, Seen, Replacing, Before, Holding, Back, Public
<1>6. OwedByJournal'
  BY <1>1 DEF OwedByJournal, Expected
<1>7. ApplyReleased'
  BY <1>1 DEF ApplyReleased, Replacing, Before, Holding, Back, Public
<1>8. HeldInProgress'
  BY <1>1 DEF HeldInProgress, Replacing, Before, Holding, Back, Public
<1>9. Undisturbed'
  BY <1>1 DEF Undisturbed
<1>10. NothingLost'
  BY <1>1 DEF NothingLost, Stored
<1>11. OutcomeTold'
  BY <1>1 DEF OutcomeTold, SettledVisible, Settled, Control
<1>12. QED
  BY <1>2, <1>3, <1>4, <1>5, <1>6, <1>7, <1>8, <1>9, <1>10, <1>11

(* A checkpoint is written.                                                 *)
LEMMA CheckpointStep ==
    ASSUME IInv, TypeOK', Checkpoint
    PROVE  IInv'
<1> USE DEF IInv
<1>1. /\ UNCHANGED <<public, dirs, journal, run, op, owed, foreigners>>
      /\ transition'.op = op
      /\ \/ pc = "stage_ready"           /\ pc' = "displace_intent"
         \/ pc = "displace_intent"       /\ pc' = "displace"
         \/ pc = "displaced"             /\ pc' = "verify_held"
         \/ pc = "displacement_verified" /\ pc' = "publication_intent"
         \/ pc = "publication_intent"    /\ pc' = "publish"
         \/ pc = "compensation_intent"   /\ pc' = "compensate"
         \/ pc = "published"             /\ pc' = "capture"
  BY AfterTable DEF Checkpoint, rows, history
<1>2. Control'
  <2>1. op \in Ops /\ pc \in Replacing /\ pc' \in Replacing \ {"stage", "verify", "stage_ready"}
    BY <1>1, FieldsTyped DEF Replacing, Before, Holding, Back, Public
  <2>2. pc' \notin Recovering \cup {"finalize", "finish", "preflight"}
    BY <1>1 DEF Recovering
  <2>3. op <= op /\ journal # "rolled_back" /\ run # "none"
    BY <2>1, Numbers DEF Control
  <2>4. Undoing \subseteq Recovering
    BY DEF Undoing, Recovering
  <2>5. QED
    BY <1>1, <2>1, <2>2, <2>3, <2>4 DEF Control
<1>3. DirsAreOwn'
  BY <1>1, Numbers, FieldsTyped DEF DirsAreOwn
<1>4. DirInStep'
  BY <1>1, Numbers, FieldsTyped
     DEF DirInStep, dir, recDir, Expected, Replacing, Before, Holding, Back, Public
<1>5. NewFiles'
  BY <1>1, Numbers, FieldsTyped
     DEF NewFiles, Seen, Replacing, Before, Holding, Back, Public
<1>6. OwedByJournal'
  BY <1>1, Numbers, FieldsTyped DEF OwedByJournal, Expected
<1>7. ApplyReleased'
  BY <1>1, Numbers, FieldsTyped
     DEF ApplyReleased, Replacing, Before, Holding, Back, Public
<1>8. HeldInProgress'
  BY <1>1, Numbers, FieldsTyped
     DEF HeldInProgress, Replacing, Before, Holding, Back, Public
<1>9. Undisturbed'
  BY <1>1, Numbers, FieldsTyped DEF Undisturbed
<1>10. NothingLost'
  BY <1>1 DEF NothingLost, Stored
<1>11. OutcomeTold'
  BY <1>1 DEF OutcomeTold, SettledVisible, Settled, Control
<1>12. QED
  BY <1>2, <1>3, <1>4, <1>5, <1>6, <1>7, <1>8, <1>9, <1>10, <1>11

(* A copy is staged.                                                        *)
LEMMA StageStep ==
    ASSUME IInv, TypeOK', Stage, public = Expected(op)
    PROVE  IInv'
<1> USE DEF IInv
<1>1. /\ pc = "stage"
      /\ \A o \in Ops \ {op} : dirs'[o] = dirs[o]
      /\ dirs'[op].staged = op /\ dirs'[op].held = Absent /\ dirs'[op].withdrawn = Absent
      /\ pc' = "verify" /\ UNCHANGED public
      /\ UNCHANGED <<transition, journal, run, op, owed, foreigners>>
  BY StageEffect DEF Stage
<1>2. /\ dirs[op] = NoDir /\ NoDir.held = Absent /\ NoDir.withdrawn = Absent
      /\ NoDir.staged = Absent /\ op \in Ops
  BY <1>1 DEF DirsAreOwn, NoDir, TypeOK
<1>3. Control'
  BY <1>1, <1>2, Numbers, FieldsTyped
     DEF Control, Replacing, Before, Holding, Back, Public, Recovering, Undoing
<1>4. DirsAreOwn'
  BY <1>1, <1>2, Numbers, FieldsTyped
     DEF DirsAreOwn, Control, Replacing, Before, Holding, Back, Public
<1>5. DirInStep'
  BY <1>1, <1>2, Numbers, FieldsTyped
     DEF DirInStep, dir, recDir, Expected, Replacing, Before, Holding, Back, Public
<1>6. NewFiles'
  BY <1>1, <1>2, Numbers, FieldsTyped
     DEF NewFiles, Seen, Replacing, Before, Holding, Back, Public
<1>7. OwedByJournal'
  BY <1>1, <1>2, Numbers, FieldsTyped
     DEF OwedByJournal, Control, Replacing, Before, Holding, Back, Public
<1>8. ApplyReleased'
  BY <1>1, <1>2, Numbers, FieldsTyped
     DEF ApplyReleased, Control, Expected, Replacing, Before, Holding, Back, Public
<1>9. HeldInProgress'
  BY <1>1, <1>2, StagedNotOwed
     DEF HeldInProgress, Control, Replacing, Before, Holding, Back, Public
<1>10. Undisturbed'
  BY <1>1, <1>2, Numbers, FieldsTyped DEF Undisturbed
<1>11. NothingLost'
  BY <1>1, <1>2, WhereStored, StagedNotOwed, StillStored
     DEF DirInStep, dir, Replacing, Before, Holding, Back, Public
<1>12. OutcomeTold'
  BY <1>1, <1>2 DEF OutcomeTold, SettledVisible, Settled, Control
<1>13. QED
  BY <1>3, <1>4, <1>5, <1>6, <1>7, <1>8, <1>9, <1>10, <1>11, <1>12

(* The file is displaced.                                                   *)
LEMMA DisplaceStep ==
    ASSUME IInv, TypeOK', Displace, public # Absent
    PROVE  IInv'
<1> USE DEF IInv
<1>1. /\ pc = "displace" /\ op \in Ops
      /\ \A o \in Ops \ {op} : dirs'[o] = dirs[o]
      /\ dirs'[op].staged = dirs[op].staged /\ dirs'[op].held = public
      /\ dirs'[op].withdrawn = dirs[op].withdrawn
      /\ pc' = "displaced" /\ public' = Absent
      /\ UNCHANGED <<transition, journal, run, op, owed, foreigners>>
  BY DisplaceEffect DEF Displace, TypeOK
<1>2. Control'
  BY <1>1, Numbers, FieldsTyped
     DEF Control, Replacing, Before, Holding, Back, Public, Recovering, Undoing
<1>3. DirsAreOwn'
  BY <1>1, Numbers, FieldsTyped
     DEF DirsAreOwn, Control, Replacing, Before, Holding, Back, Public
<1>4. DirInStep'
  BY <1>1, Numbers, FieldsTyped
     DEF DirInStep, dir, recDir, Expected, Replacing, Before, Holding, Back, Public
<1>5. NewFiles'
  BY <1>1, Numbers, FieldsTyped
     DEF NewFiles, Seen, Replacing, Before, Holding, Back, Public
<1>6. OwedByJournal'
  BY <1>1, Numbers, FieldsTyped
     DEF OwedByJournal, Control, Replacing, Before, Holding, Back, Public
<1>7. ApplyReleased'
  BY <1>1, Numbers, FieldsTyped
     DEF ApplyReleased, Control, Expected, Replacing, Before, Holding, Back, Public
<1>8. HeldInProgress'
  BY <1>1, StagedNotOwed
     DEF HeldInProgress, Control, Replacing, Before, Holding, Back, Public
<1>9. Undisturbed'
  BY <1>1, Numbers, FieldsTyped DEF Undisturbed
<1>10. NothingLost'
  BY <1>1, WhereStored, StagedNotOwed, StillStored
     DEF DirInStep, dir, Replacing, Before, Holding, Back, Public
<1>11. OutcomeTold'
  BY <1>1 DEF OutcomeTold, SettledVisible, Settled, Control
<1>12. QED
  BY <1>2, <1>3, <1>4, <1>5, <1>6, <1>7, <1>8, <1>9, <1>10, <1>11

(* The staged file is published.                                            *)
LEMMA PublishStep ==
    ASSUME IInv, TypeOK', Publish, public = Absent
    PROVE  IInv'
<1> USE DEF IInv
<1>1. /\ pc = "publish" /\ op \in Ops
      /\ \A o \in Ops \ {op} : dirs'[o] = dirs[o]
      /\ dirs'[op].staged = Absent /\ dirs'[op].held = dirs[op].held
      /\ dirs'[op].withdrawn = dirs[op].withdrawn
      /\ pc' = "published" /\ public' = op
      /\ UNCHANGED <<transition, journal, run, op, owed, foreigners>>
  BY PublishEffect DEF Publish, TypeOK
<1>2. Control'
  BY <1>1, Numbers, FieldsTyped
     DEF Control, Replacing, Before, Holding, Back, Public, Recovering, Undoing
<1>3. DirsAreOwn'
  BY <1>1, Numbers, FieldsTyped
     DEF DirsAreOwn, Control, Replacing, Before, Holding, Back, Public
<1>4. DirInStep'
  BY <1>1, Numbers, FieldsTyped
     DEF DirInStep, dir, recDir, Expected, Replacing, Before, Holding, Back, Public
<1>5. NewFiles'
  BY <1>1, Numbers, FieldsTyped
     DEF NewFiles, Seen, Control, Replacing, Before, Holding, Back, Public
<1>6. OwedByJournal'
  BY <1>1, Numbers, FieldsTyped
     DEF OwedByJournal, Control, Replacing, Before, Holding, Back, Public
<1>7. ApplyReleased'
  BY <1>1, Numbers, FieldsTyped
     DEF ApplyReleased, Control, Expected, Replacing, Before, Holding, Back, Public
<1>8. HeldInProgress'
  BY <1>1, StagedNotOwed
     DEF HeldInProgress, Control, Replacing, Before, Holding, Back, Public
<1>9. Undisturbed'
  BY <1>1, Numbers, FieldsTyped DEF Undisturbed
<1>10. NothingLost'
  BY <1>1, WhereStored, StagedNotOwed, StillStored
     DEF DirInStep, dir, Replacing, Before, Holding, Back, Public
<1>11. OutcomeTold'
  BY <1>1 DEF OutcomeTold, SettledVisible, Settled, Control
<1>12. QED
  BY <1>2, <1>3, <1>4, <1>5, <1>6, <1>7, <1>8, <1>9, <1>10, <1>11

(* The path is taken.                                                       *)
LEMMA PathTakenStep ==
    ASSUME IInv, TypeOK', Publish, public # Absent
    PROVE  IInv'
<1> USE DEF IInv
<1>1. /\ pc = "publish" /\ pc' = "compensation_intent"
      /\ UNCHANGED <<public, dirs, transition, journal, run, op, owed, foreigners>>
  BY DEF Publish, rows, history
<1>2. Control'
  BY <1>1 DEF Control, Replacing, Before, Holding, Back, Public, Recovering, Undoing
<1>3. DirsAreOwn'
  BY <1>1 DEF DirsAreOwn
<1>4. DirInStep'
  BY <1>1 DEF DirInStep, dir, recDir, Expected, Replacing, Before, Holding, Back, Public
<1>5. NewFiles'
  BY <1>1 DEF NewFiles, Seen, Replacing, Before, Holding, Back, Public
<1>6. OwedByJournal'
  BY <1>1 DEF OwedByJournal, Expected
<1>7. ApplyReleased'
  BY <1>1 DEF ApplyReleased, Replacing, Before, Holding, Back, Public
<1>8. HeldInProgress'
  BY <1>1 DEF HeldInProgress, Replacing, Before, Holding, Back, Public
<1>9. Undisturbed'
  BY <1>1 DEF Undisturbed
<1>10. NothingLost'
  BY <1>1 DEF NothingLost, Stored
<1>11. OutcomeTold'
  BY <1>1 DEF OutcomeTold, SettledVisible, Settled, Control
<1>12. QED
  BY <1>2, <1>3, <1>4, <1>5, <1>6, <1>7, <1>8, <1>9, <1>10, <1>11

(* The held file is put back.                                               *)
LEMMA CompensateStep ==
    ASSUME IInv, TypeOK', Compensate, public = Absent
    PROVE  IInv'
<1> USE DEF IInv
<1>1. /\ pc = "compensate" /\ op \in Ops
      /\ \A o \in Ops \ {op} : dirs'[o] = dirs[o]
      /\ dirs'[op].staged = dirs[op].staged /\ dirs'[op].held = Absent
      /\ dirs'[op].withdrawn = dirs[op].withdrawn
      /\ pc' = "compensated" /\ public' = dirs[op].held
      /\ UNCHANGED <<transition, journal, run, op, owed, foreigners>>
  BY CompensateEffect DEF Compensate, TypeOK
<1>2. Control'
  BY <1>1, Numbers, FieldsTyped
     DEF Control, Replacing, Before, Holding, Back, Public, Recovering, Undoing
<1>3. DirsAreOwn'
  BY <1>1, Numbers, FieldsTyped
     DEF DirsAreOwn, Control, Replacing, Before, Holding, Back, Public
<1>4. DirInStep'
  BY <1>1, Numbers, FieldsTyped
     DEF DirInStep, dir, recDir, Expected, Replacing, Before, Holding, Back, Public
<1>5. NewFiles'
  BY <1>1, Numbers, FieldsTyped
     DEF NewFiles, Seen, Replacing, Before, Holding, Back, Public
<1>6. OwedByJournal'
  BY <1>1, Numbers, FieldsTyped
     DEF OwedByJournal, Control, Replacing, Before, Holding, Back, Public
<1>7. ApplyReleased'
  BY <1>1, Numbers, FieldsTyped
     DEF ApplyReleased, Control, Expected, Replacing, Before, Holding, Back, Public
<1>8. HeldInProgress'
  BY <1>1, StagedNotOwed
     DEF HeldInProgress, Control, Replacing, Before, Holding, Back, Public
<1>9. Undisturbed'
  BY <1>1, Numbers, FieldsTyped DEF Undisturbed
<1>10. NothingLost'
  BY <1>1, WhereStored, StagedNotOwed, StillStored
     DEF DirInStep, dir, Replacing, Before, Holding, Back, Public
<1>11. OutcomeTold'
  BY <1>1 DEF OutcomeTold, SettledVisible, Settled, Control
<1>12. QED
  BY <1>2, <1>3, <1>4, <1>5, <1>6, <1>7, <1>8, <1>9, <1>10, <1>11

-----------------------------------------------------------------------------
(* The ends of a replacement, and its operations.                           *)

(* The journal row is completed.                                            *)
LEMMA CommitStep ==
    ASSUME IInv, TypeOK', Commit
    PROVE  IInv'
<1> USE DEF IInv
<1>1. /\ pc = "commit" /\ pc' = "finalize" /\ op \in Ops
      /\ journal' = IF op = 1 THEN "done" ELSE "rolled_back"
      /\ transition'.op = transition.op
      /\ owed' = (owed \ {Expected(op)}) \cup ({op} \cap {public})
      /\ UNCHANGED <<public, dirs, run, op, foreigners>>
  BY TransitionUpdates, RecordedPhases, FieldsTyped DEF Commit, Settle, history
<1>2. Control'
  BY <1>1, Numbers, FieldsTyped
     DEF Control, Replacing, Before, Holding, Back, Public, Recovering, Undoing
<1>3. DirsAreOwn'
  BY <1>1, Numbers, FieldsTyped DEF DirsAreOwn
<1>4. DirInStep'
  BY <1>1, Numbers, FieldsTyped
     DEF DirInStep, dir, recDir, Expected, Replacing, Before, Holding, Back, Public
<1>5. NewFiles'
  BY <1>1, Numbers, FieldsTyped
     DEF NewFiles, Seen, Replacing, Before, Holding, Back, Public
<1>6. OwedByJournal'
  BY <1>1, Numbers, FieldsTyped
     DEF OwedByJournal, Control, DirInStep, dir, Replacing, Before, Holding, Back,
         Public
<1>7. ApplyReleased'
  BY <1>1, Numbers, FieldsTyped
     DEF ApplyReleased, Replacing, Before, Holding, Back, Public
<1>8. HeldInProgress'
  <2>1. \A o \in Ops : dirs[o].held \notin owed'
    <3>1. dirs[op].held = Expected(op) /\ Expected(op) # op
      BY <1>1, Numbers DEF DirInStep, dir, Public
    <3>2. \A o \in Ops \ {op} : dirs[o].held \notin owed
      BY <1>1 DEF HeldInProgress, Replacing, Public
    <3>3. \A o \in Ops : dirs[o].held # op
      BY <1>1 DEF NewFiles, Replacing, Public
    <3>4. QED
      BY <1>1, <3>1, <3>2, <3>3
  <2>2. QED
    BY <1>1, <2>1 DEF HeldInProgress
<1>9. Undisturbed'
  BY <1>1, Numbers, FieldsTyped DEF Undisturbed
<1>10. NothingLost'
  BY <1>1, WhereStored, StillStored
<1>11. OutcomeTold'
  BY <1>1 DEF OutcomeTold, SettledVisible, Settled, Control, Replacing, Public
<1>12. QED
  BY <1>2, <1>3, <1>4, <1>5, <1>6, <1>7, <1>8, <1>9, <1>10, <1>11

(* The held file is released.                                               *)
LEMMA FinalizeStep ==
    ASSUME IInv, TypeOK', Finalize, ~FinalizeMayFail
    PROVE  IInv'
<1> USE DEF IInv
<1>1. /\ pc = "finalize" /\ pc' = "finish" /\ op \in Ops
      /\ \A o \in Ops \ {op} : dirs'[o] = dirs[o]
      /\ \/ dirs'[op] = NoDir
         \/ dirs'[op] = dirs[op] /\ public # op
      /\ UNCHANGED <<public, transition, journal, run, op, owed, foreigners>>
  <2>1. dir.held = Expected(op) /\ op \in Ops /\ dirs \in [Ops -> Dirs]
    BY DEF DirInStep, Finalize, TypeOK
  <2>2. \/ dirs' = [dirs EXCEPT ![op] = NoDir]
        \/ dirs' = dirs /\ public # op
    BY <2>1 DEF Finalize
  <2>3. QED
    BY <2>1, <2>2, NoDirTyped, OneDir DEF Finalize, rows, history
<1>2. NoDir.held = Absent /\ NoDir.withdrawn = Absent /\ NoDir.staged = Absent
  BY DEF NoDir
<1>3. Control'
  BY <1>1, <1>2, Numbers, FieldsTyped
     DEF Control, Replacing, Before, Holding, Back, Public, Recovering, Undoing
<1>4. DirsAreOwn'
  BY <1>1, <1>2, Numbers, FieldsTyped DEF DirsAreOwn, Control
<1>5. DirInStep'
  BY <1>1, <1>2, Numbers, FieldsTyped
     DEF DirInStep, dir, recDir, Expected, Replacing, Before, Holding, Back, Public
<1>6. NewFiles'
  BY <1>1, <1>2, Numbers, FieldsTyped
     DEF NewFiles, Seen, Replacing, Before, Holding, Back, Public
<1>7. OwedByJournal'
  BY <1>1, <1>2, Numbers, FieldsTyped DEF OwedByJournal, Expected
<1>8. ApplyReleased'
  BY <1>1, <1>2, Numbers
     DEF ApplyReleased, Control, Replacing, Before, Holding, Back, Public
<1>9. HeldInProgress'
  BY <1>1, <1>2, StagedNotOwed DEF HeldInProgress, Control
<1>10. Undisturbed'
  BY <1>1, <1>2, Numbers, FieldsTyped DEF Undisturbed
<1>11. NothingLost'
  <2>1. dirs[op].held = Expected(op) /\ Expected(op) \notin owed /\ dirs[op].withdrawn = Absent
    BY <1>1 DEF DirInStep, dir, OwedByJournal
  <2>2. QED
    BY <1>1, <2>1, WhereStored, StagedNotOwed, StillStored
<1>12. OutcomeTold'
  BY <1>1, <1>2 DEF OutcomeTold, SettledVisible, Settled, Control
<1>13. QED
  BY <1>3, <1>4, <1>5, <1>6, <1>7, <1>8, <1>9, <1>10, <1>11, <1>12

(* Apply begins.                                                            *)
LEMMA BeginApplyStep ==
    ASSUME IInv, TypeOK', BeginApply
    PROVE  IInv'
<1> USE DEF IInv
<1>1. /\ run = "none" /\ run' = "applying" /\ journal' = "writing" /\ pc' = "stage"
      /\ op = 1 /\ UNCHANGED <<public, dirs, transition, op, owed, foreigners>>
  BY DEF BeginApply, Control, history
<1>2. \A o \in Ops : /\ dirs[o] = NoDir /\ dirs[o].held = Absent
                      /\ dirs[o].withdrawn = Absent
  BY <1>1, Numbers DEF DirsAreOwn, NoDir
<1>3. Control'
  BY <1>1, <1>2, Numbers, FieldsTyped
     DEF Control, Replacing, Before, Holding, Back, Public, Recovering, Undoing
<1>4. DirsAreOwn'
  BY <1>1, <1>2, Numbers, FieldsTyped DEF DirsAreOwn
<1>5. DirInStep'
  BY <1>1, <1>2, Numbers, FieldsTyped
     DEF DirInStep, dir, recDir, Replacing, Before, Holding, Back, Public
<1>6. NewFiles'
  BY <1>1, <1>2, Numbers, FieldsTyped
     DEF NewFiles, Seen, Replacing, Before, Holding, Back, Public
<1>7. OwedByJournal'
  BY <1>1, <1>2, Numbers DEF OwedByJournal, Control
<1>8. ApplyReleased'
  BY <1>1, <1>2, Numbers, FieldsTyped
     DEF ApplyReleased, Replacing, Before, Holding, Back, Public
<1>9. HeldInProgress'
  BY <1>1, <1>2, StagedNotOwed DEF HeldInProgress
<1>10. Undisturbed'
  BY <1>1, <1>2, Numbers, FieldsTyped DEF Undisturbed
<1>11. NothingLost'
  BY <1>1, <1>2 DEF NothingLost, Stored
<1>12. OutcomeTold'
  BY <1>1, <1>2 DEF OutcomeTold, SettledVisible, Settled
<1>13. QED
  BY <1>3, <1>4, <1>5, <1>6, <1>7, <1>8, <1>9, <1>10, <1>11, <1>12

(* The rollback of Apply begins.                                            *)
LEMMA BeginRollbackStep ==
    ASSUME IInv, TypeOK', BeginRollback
    PROVE  IInv'
<1> USE DEF IInv
<1>1. /\ op' = op + 1 /\ op \in Ops /\ op + 1 \in Ops /\ pc' = "stage"
      /\ UNCHANGED <<public, dirs, transition, run, owed, foreigners>>
      /\ op = 1 /\ pc = "finish" /\ run = "applying" /\ journal = "done" /\ UNCHANGED journal
  BY Numbers DEF BeginRollback, Ops, TypeOK, rows, history, Control
<1>2. dirs[op + 1] = NoDir /\ NoDir.held = Absent /\ NoDir.withdrawn = Absent
  BY <1>1, Numbers DEF DirsAreOwn, NoDir
<1>3. /\ \A o \in Ops : dirs[o].held \notin owed /\ dirs[o].held # op + 1
      /\ public # op + 1
  BY <1>1, Numbers DEF HeldInProgress, NewFiles, Seen
<1>4. Control'
  <2>1. op' > 1 /\ transition'.op <= op'
    <3>1. /\ transition.op \in Int /\ op \in Int /\ 1 <= op
          /\ transition.op <= op /\ transition' = transition
      BY <1>1, Numbers, FieldsTyped DEF Control
    <3>2. QED
      BY <1>1, <3>1
  <2>2. /\ pc' \in Replacing
        /\ pc' \notin (Replacing \ {"stage", "verify", "stage_ready"}) \cup Recovering
                    \cup Undoing \cup {"finalize", "finish", "preflight"}
    BY <1>1 DEF Replacing, Before, Holding, Back, Public, Recovering, Undoing
  <2>3. \/ run' = "applying" /\ journal' = "done"
        \/ run' = "undoing"  /\ journal' = "writing"
    BY <1>1 DEF Control
  <2>4. QED
    BY <2>1, <2>2, <2>3 DEF Control
<1>5. DirsAreOwn'
  <2>1. op \in Int /\ \A o \in Ops : o \in Int
    BY <1>1, Numbers
  <2>2. \A o \in Ops : o > op' \/ o = op' => o = op + 1 \/ o > op
    BY <1>1, <2>1
  <2>3. \A o \in Ops : o > op' \/ o = op' => dirs[o] = NoDir
    BY <1>2, <2>2 DEF DirsAreOwn
  <2>4. QED
    BY <1>1, <2>3 DEF DirsAreOwn, Control
<1>6. DirInStep'
  BY <1>1, <1>2, Numbers, FieldsTyped
     DEF DirInStep, dir, recDir, Replacing, Before, Holding, Back, Public
<1>7. NewFiles'
  <2>1. \A e \in Int : Seen(e) => Seen(e)'
    BY <1>1, Numbers DEF Seen
  <2>2. /\ public' \in Int /\ Seen(public)
        /\ \A o \in Ops : /\ dirs'[o].held \in Int /\ dirs'[o].withdrawn \in Int
                          /\ Seen(dirs[o].held) /\ Seen(dirs[o].withdrawn)
    BY <1>1, Numbers, FieldsTyped DEF NewFiles, TypeOK
  <2>3. QED
    BY <1>1, <1>3, <2>1, <2>2 DEF NewFiles, Control
<1>8. OwedByJournal'
  BY <1>1, <1>2, Numbers DEF OwedByJournal, Control
<1>9. ApplyReleased'
  BY <1>1, <1>2, Numbers
     DEF ApplyReleased, Control, Replacing, Before, Holding, Back, Public
<1>10. HeldInProgress'
  BY <1>1, <1>2, <1>3 DEF HeldInProgress
<1>11. Undisturbed'
  BY <1>1, <1>2, Numbers, FieldsTyped DEF Undisturbed
<1>12. NothingLost'
  BY <1>1, <1>2 DEF NothingLost, Stored
<1>13. OutcomeTold'
  BY <1>1, <1>2 DEF OutcomeTold, SettledVisible, Settled, Control
<1>14. QED
  BY <1>4, <1>5, <1>6, <1>7, <1>8, <1>9, <1>10, <1>11, <1>12, <1>13

(* A step of Undo begins.                                                   *)
LEMMA RestoreStepBegins ==
    ASSUME IInv, TypeOK', Preflight, journal = "done", public = Applied, pc' = "stage"
    PROVE  IInv'
<1> USE DEF IInv
<1>1. /\ op' = op + 1 /\ op \in Ops /\ op + 1 \in Ops /\ pc' = "stage"
      /\ UNCHANGED <<public, dirs, transition, run, owed, foreigners>>
      /\ pc = "preflight" /\ run = "undoing" /\ journal = "done" /\ journal' = "writing"
      /\ public = Applied
  BY Numbers DEF Preflight, Ops, TypeOK, rows, history, Control
<1>2. dirs[op + 1] = NoDir /\ NoDir.held = Absent /\ NoDir.withdrawn = Absent
  BY <1>1, Numbers DEF DirsAreOwn, NoDir
<1>3. /\ \A o \in Ops : dirs[o].held \notin owed /\ dirs[o].held # op + 1
      /\ public # op + 1
  BY <1>1, Numbers DEF HeldInProgress, NewFiles, Seen
<1>4. Control'
  <2>1. op' > 1 /\ transition'.op <= op'
    <3>1. /\ transition.op \in Int /\ op \in Int /\ 1 <= op
          /\ transition.op <= op /\ transition' = transition
      BY <1>1, Numbers, FieldsTyped DEF Control
    <3>2. QED
      BY <1>1, <3>1
  <2>2. /\ pc' \in Replacing
        /\ pc' \notin (Replacing \ {"stage", "verify", "stage_ready"}) \cup Recovering
                    \cup Undoing \cup {"finalize", "finish", "preflight"}
    BY <1>1 DEF Replacing, Before, Holding, Back, Public, Recovering, Undoing
  <2>3. \/ run' = "applying" /\ journal' = "done"
        \/ run' = "undoing"  /\ journal' = "writing"
    BY <1>1 DEF Control
  <2>4. QED
    BY <2>1, <2>2, <2>3 DEF Control
<1>5. DirsAreOwn'
  <2>1. op \in Int /\ \A o \in Ops : o \in Int
    BY <1>1, Numbers
  <2>2. \A o \in Ops : o > op' \/ o = op' => o = op + 1 \/ o > op
    BY <1>1, <2>1
  <2>3. \A o \in Ops : o > op' \/ o = op' => dirs[o] = NoDir
    BY <1>2, <2>2 DEF DirsAreOwn
  <2>4. QED
    BY <1>1, <2>3 DEF DirsAreOwn, Control
<1>6. DirInStep'
  BY <1>1, <1>2, Numbers, FieldsTyped
     DEF DirInStep, dir, recDir, Replacing, Before, Holding, Back, Public
<1>7. NewFiles'
  <2>1. \A e \in Int : Seen(e) => Seen(e)'
    BY <1>1, Numbers DEF Seen
  <2>2. /\ public' \in Int /\ Seen(public)
        /\ \A o \in Ops : /\ dirs'[o].held \in Int /\ dirs'[o].withdrawn \in Int
                          /\ Seen(dirs[o].held) /\ Seen(dirs[o].withdrawn)
    BY <1>1, Numbers, FieldsTyped DEF NewFiles, TypeOK
  <2>3. QED
    BY <1>1, <1>3, <2>1, <2>2 DEF NewFiles, Control
<1>8. OwedByJournal'
  BY <1>1, <1>2, Numbers DEF OwedByJournal, Control
<1>9. ApplyReleased'
  BY <1>1, <1>2, Numbers
     DEF ApplyReleased, Control, Replacing, Before, Holding, Back, Public
<1>10. HeldInProgress'
  BY <1>1, <1>2, <1>3 DEF HeldInProgress
<1>11. Undisturbed'
  BY <1>1, <1>2, Numbers, FieldsTyped DEF Undisturbed
<1>12. NothingLost'
  BY <1>1, <1>2 DEF NothingLost, Stored
<1>13. OutcomeTold'
  BY <1>1, <1>2 DEF OutcomeTold, SettledVisible, Settled, Control
<1>14. QED
  BY <1>4, <1>5, <1>6, <1>7, <1>8, <1>9, <1>10, <1>11, <1>12, <1>13

(* The run ends.                                                            *)
LEMMA FinishStep ==
    ASSUME IInv, TypeOK', Finish
    PROVE  IInv'
<1> USE DEF IInv
<1>1. /\ pc = "finish" /\ pc' = "idle" /\ op \in Ops
      /\ \/ run = "undoing" /\ run' = "undone"
         \/ run = "applying" /\ op = 1 /\ run' = "applied"
         \/ run = "applying" /\ op # 1 /\ run' = "failed"
      /\ UNCHANGED <<public, dirs, transition, journal, op, owed, foreigners>>
  BY DEF Finish, Control, TypeOK, history
<1>2. \A o \in Ops : dirs[o].held \notin owed /\ dirs[o].staged \notin owed
  BY <1>1, StagedNotOwed DEF HeldInProgress
<1>3. Control'
  BY <1>1, <1>2, Numbers, FieldsTyped
     DEF Control, Replacing, Before, Holding, Back, Public, Recovering, Undoing
<1>4. DirsAreOwn'
  BY <1>1, <1>2, Numbers, FieldsTyped DEF DirsAreOwn
<1>5. DirInStep'
  BY <1>1, <1>2, Numbers, FieldsTyped
     DEF DirInStep, dir, recDir, Expected, Replacing, Before, Holding, Back, Public
<1>6. NewFiles'
  BY <1>1, <1>2, Numbers, FieldsTyped
     DEF NewFiles, Seen, Replacing, Before, Holding, Back, Public
<1>7. OwedByJournal'
  BY <1>1, <1>2, Numbers, FieldsTyped DEF OwedByJournal, Expected
<1>8. ApplyReleased'
  BY <1>1, <1>2, Numbers, FieldsTyped
     DEF ApplyReleased, Replacing, Before, Holding, Back, Public
<1>9. HeldInProgress'
  BY <1>1, <1>2 DEF HeldInProgress
<1>10. Undisturbed'
  BY <1>1, <1>2, Numbers, FieldsTyped DEF Undisturbed
<1>11. NothingLost'
  BY <1>1, <1>2 DEF NothingLost, Stored
<1>12. OutcomeTold'
  <2>1. SettledVisible'
    BY <1>1, <1>2, WhereStored DEF SettledVisible
  <2>2. foreigners = 0 => public = op
    BY <1>1 DEF Undisturbed
  <2>3. run = "undoing" => op > 1
    BY <1>1 DEF Control
  <2>4. QED
    BY <1>1, <2>1, <2>2, <2>3, Numbers DEF OutcomeTold
<1>13. QED
  BY <1>3, <1>4, <1>5, <1>6, <1>7, <1>8, <1>9, <1>10, <1>11, <1>12

(* An Undo begins.                                                          *)
LEMMA BeginUndoStep ==
    ASSUME IInv, TypeOK', BeginUndo
    PROVE  IInv'
<1> USE DEF IInv
<1>1. /\ run \in {"applied", "retryable"} /\ run' = "undoing" /\ pc' = "preflight"
      /\ UNCHANGED <<public, dirs, transition, journal, op, owed, foreigners>>
  BY DEF BeginUndo, history
<1>2. Control'
  BY <1>1, Numbers, FieldsTyped
     DEF Control, Replacing, Before, Holding, Back, Public, Recovering, Undoing
<1>3. DirsAreOwn'
  BY <1>1, Numbers, FieldsTyped DEF DirsAreOwn
<1>4. DirInStep'
  BY <1>1, Numbers, FieldsTyped
     DEF DirInStep, dir, recDir, Expected, Replacing, Before, Holding, Back, Public
<1>5. NewFiles'
  BY <1>1, Numbers, FieldsTyped
     DEF NewFiles, Seen, Replacing, Before, Holding, Back, Public
<1>6. OwedByJournal'
  BY <1>1, Numbers, FieldsTyped DEF OwedByJournal, Expected
<1>7. ApplyReleased'
  BY <1>1, Numbers, FieldsTyped
     DEF ApplyReleased, Control, Replacing, Before, Holding, Back, Public
<1>8. HeldInProgress'
  BY <1>1, Numbers, FieldsTyped
     DEF HeldInProgress, Replacing, Before, Holding, Back, Public
<1>9. Undisturbed'
  BY <1>1, Numbers, FieldsTyped DEF Undisturbed
<1>10. NothingLost'
  BY <1>1 DEF NothingLost, Stored
<1>11. OutcomeTold'
  BY <1>1 DEF OutcomeTold, SettledVisible, Settled
<1>12. QED
  BY <1>2, <1>3, <1>4, <1>5, <1>6, <1>7, <1>8, <1>9, <1>10, <1>11

(* Everything is undone already.                                            *)
LEMMA AlreadyUndoneStep ==
    ASSUME IInv, TypeOK', Preflight, journal = "rolled_back", run' = "undone"
    PROVE  IInv'
<1> USE DEF IInv
<1>1. /\ pc = "preflight" /\ pc' = "idle" /\ run' = "undone" /\ public = transition.op
      /\ journal = "rolled_back" /\ run = "undoing" /\ transition.op > 1
      /\ UNCHANGED <<public, dirs, transition, journal, op, owed, foreigners>>
  BY DEF Preflight, Control, history
<1>2. \A o \in Ops : dirs[o].held \notin owed /\ dirs[o].staged \notin owed
  BY <1>1, StagedNotOwed DEF HeldInProgress
<1>3. Control'
  BY <1>1, <1>2, Numbers, FieldsTyped
     DEF Control, Replacing, Before, Holding, Back, Public, Recovering, Undoing
<1>4. DirsAreOwn'
  BY <1>1, <1>2, Numbers, FieldsTyped DEF DirsAreOwn
<1>5. DirInStep'
  BY <1>1, <1>2, Numbers, FieldsTyped
     DEF DirInStep, dir, recDir, Expected, Replacing, Before, Holding, Back, Public
<1>6. NewFiles'
  BY <1>1, <1>2, Numbers, FieldsTyped
     DEF NewFiles, Seen, Replacing, Before, Holding, Back, Public
<1>7. OwedByJournal'
  BY <1>1, <1>2, Numbers, FieldsTyped DEF OwedByJournal, Expected
<1>8. ApplyReleased'
  BY <1>1, <1>2, Numbers, FieldsTyped
     DEF ApplyReleased, Replacing, Before, Holding, Back, Public
<1>9. HeldInProgress'
  BY <1>1, <1>2 DEF HeldInProgress
<1>10. Undisturbed'
  BY <1>1, <1>2, Numbers, FieldsTyped DEF Undisturbed
<1>11. NothingLost'
  BY <1>1, <1>2 DEF NothingLost, Stored
<1>12. OutcomeTold'
  <2>1. SettledVisible'
    BY <1>1, <1>2, WhereStored DEF SettledVisible
  <2>2. QED
    BY <1>1, <2>1, FieldsTyped, Numbers DEF OutcomeTold
<1>13. QED
  BY <1>3, <1>4, <1>5, <1>6, <1>7, <1>8, <1>9, <1>10, <1>11, <1>12

-----------------------------------------------------------------------------
(* Recovery.                                                                *)

(* A checkpoint does not change whose it is.                                *)
LEMMA RecordKeepsOp ==
    ASSUME TypeOK, NEW ph, NEW e, Record(ph, e)
    PROVE  transition'.op = transition.op
BY DEF Record, TypeOK, Transitions

(* Recovery undoes an interrupted operation of Undo, never Apply's own.     *)
LEMMA RecoveredOp ==
    ASSUME TypeOK, Control, pc \in Undoing
    PROVE  /\ run = "undoing" /\ journal = "writing" /\ op > 1
           /\ transition.op \in Ops /\ transition.op # 1 /\ 1 \in Ops
           /\ \A o \in Ops : o > op => o # transition.op
<1>1. /\ op \in Int /\ transition.op \in Int /\ transition.op \in Ops /\ 1 \in Ops
      /\ \A o \in Ops : o \in Int
  BY Numbers, FieldsTyped
<1>2. 1 < transition.op /\ transition.op <= op
  BY DEF Control
<1>3. run = "undoing" /\ journal = "writing"
  BY DEF Control, Undoing, Recovering
<1>4. op > 1 /\ transition.op # 1
  BY <1>1, <1>2
<1>5. \A o \in Ops : o > op => o # transition.op
  BY <1>1, <1>2
<1>6. QED
  BY <1>1, <1>3, <1>4, <1>5

(* The recovery of an Undo begins.                                          *)
LEMMA InspectBegins ==
    ASSUME IInv, TypeOK', RecoverUndo, journal = "writing"
    PROVE  IInv'
<1> USE DEF IInv
<1>1. /\ pc = "idle" /\ pc' = "inspect" /\ run = "undoing" /\ run' = run
      /\ journal = "writing"
      /\ UNCHANGED <<public, dirs, transition, journal, op, owed, foreigners>>
  BY DEF RecoverUndo, history
<1>2. Control'
  BY <1>1, Numbers, FieldsTyped
     DEF Control, Recovering, Undoing, Replacing, Before, Holding, Back, Public
<1>3. DirsAreOwn'
  BY <1>1
     DEF DirsAreOwn, Control, Recovering, Undoing, Replacing, Before, Holding, Back,
         Public
<1>4. DirInStep'
  BY <1>1, FieldsTyped
     DEF DirInStep, dir, recDir, Expected, Control, Recovering, Undoing, Replacing,
         Before, Holding, Back, Public
<1>5. NewFiles'
  BY <1>1
     DEF NewFiles, Seen, Control, Recovering, Undoing, Replacing, Before, Holding, Back,
         Public
<1>6. OwedByJournal'
  BY <1>1
     DEF OwedByJournal, Expected, Control, Recovering, Undoing, Replacing, Before,
         Holding, Back, Public
<1>7. ApplyReleased'
  BY <1>1
     DEF ApplyReleased, Control, Recovering, Undoing, Replacing, Before, Holding, Back,
         Public
<1>8. HeldInProgress'
  BY <1>1
     DEF HeldInProgress, Control, Recovering, Undoing, Replacing, Before, Holding, Back,
         Public
<1>9. Undisturbed'
  BY <1>1 DEF Undisturbed
<1>10. NothingLost'
  BY <1>1 DEF NothingLost, Stored
<1>11. OutcomeTold'
  BY <1>1 DEF OutcomeTold, SettledVisible, Settled, Control
<1>12. QED
  BY <1>2, <1>3, <1>4, <1>5, <1>6, <1>7, <1>8, <1>9, <1>10, <1>11

(* An interrupted Undo had restored everything it began to restore.         *)
LEMMA NothingToRecover ==
    ASSUME IInv, TypeOK', RecoverUndo, journal # "writing", run' = "retryable"
    PROVE  IInv'
<1> USE DEF IInv
<1>1. /\ pc = "idle" /\ pc' = "idle" /\ run = "undoing" /\ run' = "retryable"
      /\ journal \in {"done", "rolled_back"} /\ public \in {Applied, transition.op}
      /\ public \in Ops
      /\ UNCHANGED <<public, dirs, transition, journal, op, owed, foreigners>>
  BY Numbers, FieldsTyped DEF RecoverUndo, Control, history
<1>2. Control'
  BY <1>1, Numbers, FieldsTyped
     DEF Control, Recovering, Undoing, Replacing, Before, Holding, Back, Public
<1>3. DirsAreOwn'
  BY <1>1
     DEF DirsAreOwn, Control, Recovering, Undoing, Replacing, Before, Holding, Back,
         Public
<1>4. DirInStep'
  BY <1>1, FieldsTyped
     DEF DirInStep, dir, recDir, Expected, Control, Recovering, Undoing, Replacing,
         Before, Holding, Back, Public
<1>5. NewFiles'
  BY <1>1
     DEF NewFiles, Seen, Control, Recovering, Undoing, Replacing, Before, Holding, Back,
         Public
<1>6. OwedByJournal'
  BY <1>1
     DEF OwedByJournal, Expected, Control, Recovering, Undoing, Replacing, Before,
         Holding, Back, Public
<1>7. ApplyReleased'
  BY <1>1
     DEF ApplyReleased, Control, Recovering, Undoing, Replacing, Before, Holding, Back,
         Public
<1>8. HeldInProgress'
  BY <1>1
     DEF HeldInProgress, Control, Recovering, Undoing, Replacing, Before, Holding, Back,
         Public
<1>9. Undisturbed'
  BY <1>1 DEF Undisturbed
<1>10. NothingLost'
  BY <1>1 DEF NothingLost, Stored
<1>11. OutcomeTold'
  BY <1>1 DEF OutcomeTold, SettledVisible, Settled
<1>12. QED
  BY <1>2, <1>3, <1>4, <1>5, <1>6, <1>7, <1>8, <1>9, <1>10, <1>11

(* The file is in place already.                                            *)
LEMMA InspectRestored ==
    ASSUME IInv, TypeOK', Inspect, recDir.exists, AlreadyRestored, pc' = "cleanup"
    PROVE  IInv'
<1> USE DEF IInv
<1>1. /\ pc = "inspect" /\ pc' = "cleanup" /\ run = "undoing" /\ run' = run
      /\ journal = "writing" /\ op > 1 /\ transition'.op = transition.op
      /\ transition.op > 1 /\ recDir.held = Absent
      /\ UNCHANGED <<public, dirs, journal, op, owed, foreigners>>
  <2>1. /\ pc = "inspect" /\ run = "undoing" /\ journal = "writing" /\ op > 1
    BY DEF Inspect, Control, Recovering
  <2>2. transition.op # 1
    BY <2>1 DEF ApplyReleased, NoDir, recDir
  <2>3. transition.op \in Int /\ 1 <= transition.op
    BY Numbers, FieldsTyped
  <2>4. transition'.op = transition.op
    BY RecordKeepsOp DEF Inspect
  <2>5. QED
    BY <2>1, <2>2, <2>3, <2>4
       DEF Inspect, AlreadyRestored, CanRestore, CanWithdraw, history
<1>2. Control'
  BY <1>1, Numbers, FieldsTyped
     DEF Control, Recovering, Undoing, Replacing, Before, Holding, Back, Public
<1>3. DirsAreOwn'
  BY <1>1
     DEF DirsAreOwn, Control, Recovering, Undoing, Replacing, Before, Holding, Back,
         Public
<1>4. DirInStep'
  BY <1>1, FieldsTyped
     DEF DirInStep, dir, recDir, Expected, Control, Recovering, Undoing, Replacing,
         Before, Holding, Back, Public
<1>5. NewFiles'
  BY <1>1
     DEF NewFiles, Seen, Control, Recovering, Undoing, Replacing, Before, Holding, Back,
         Public
<1>6. OwedByJournal'
  BY <1>1
     DEF OwedByJournal, Expected, Control, Recovering, Undoing, Replacing, Before,
         Holding, Back, Public
<1>7. ApplyReleased'
  BY <1>1
     DEF ApplyReleased, Control, Recovering, Undoing, Replacing, Before, Holding, Back,
         Public
<1>8. HeldInProgress'
  BY <1>1
     DEF HeldInProgress, Control, Recovering, Undoing, Replacing, Before, Holding, Back,
         Public
<1>9. Undisturbed'
  BY <1>1 DEF Undisturbed
<1>10. NothingLost'
  BY <1>1 DEF NothingLost, Stored
<1>11. OutcomeTold'
  BY <1>1 DEF OutcomeTold, SettledVisible, Settled, Control
<1>12. QED
  BY <1>2, <1>3, <1>4, <1>5, <1>6, <1>7, <1>8, <1>9, <1>10, <1>11

(* The held file is to go back.                                             *)
LEMMA InspectRestore ==
    ASSUME IInv, TypeOK', Inspect, recDir.exists, CanRestore, pc' = "restore"
    PROVE  IInv'
<1> USE DEF IInv
<1>1. /\ pc = "inspect" /\ pc' = "restore" /\ run = "undoing" /\ run' = run
      /\ journal = "writing" /\ op > 1 /\ transition'.op = transition.op
      /\ transition.op > 1
      /\ UNCHANGED <<public, dirs, journal, op, owed, foreigners>>
  <2>1. /\ pc = "inspect" /\ run = "undoing" /\ journal = "writing" /\ op > 1
    BY DEF Inspect, Control, Recovering
  <2>2. transition.op # 1
    BY <2>1 DEF ApplyReleased, NoDir, recDir
  <2>3. transition.op \in Int /\ 1 <= transition.op
    BY Numbers, FieldsTyped
  <2>4. transition'.op = transition.op
    BY RecordKeepsOp DEF Inspect
  <2>5. QED
    BY <2>1, <2>2, <2>3, <2>4
       DEF Inspect, AlreadyRestored, CanRestore, CanWithdraw, history
<1>2. Control'
  BY <1>1, Numbers, FieldsTyped
     DEF Control, Recovering, Undoing, Replacing, Before, Holding, Back, Public
<1>3. DirsAreOwn'
  BY <1>1
     DEF DirsAreOwn, Control, Recovering, Undoing, Replacing, Before, Holding, Back,
         Public
<1>4. DirInStep'
  BY <1>1, FieldsTyped
     DEF DirInStep, dir, recDir, Expected, Control, Recovering, Undoing, Replacing,
         Before, Holding, Back, Public
<1>5. NewFiles'
  BY <1>1
     DEF NewFiles, Seen, Control, Recovering, Undoing, Replacing, Before, Holding, Back,
         Public
<1>6. OwedByJournal'
  BY <1>1
     DEF OwedByJournal, Expected, Control, Recovering, Undoing, Replacing, Before,
         Holding, Back, Public
<1>7. ApplyReleased'
  BY <1>1
     DEF ApplyReleased, Control, Recovering, Undoing, Replacing, Before, Holding, Back,
         Public
<1>8. HeldInProgress'
  BY <1>1
     DEF HeldInProgress, Control, Recovering, Undoing, Replacing, Before, Holding, Back,
         Public
<1>9. Undisturbed'
  BY <1>1 DEF Undisturbed
<1>10. NothingLost'
  BY <1>1 DEF NothingLost, Stored
<1>11. OutcomeTold'
  BY <1>1 DEF OutcomeTold, SettledVisible, Settled, Control
<1>12. QED
  BY <1>2, <1>3, <1>4, <1>5, <1>6, <1>7, <1>8, <1>9, <1>10, <1>11

(* The published file is to be withdrawn.                                   *)
LEMMA InspectWithdraw ==
    ASSUME IInv, TypeOK', Inspect, recDir.exists, CanWithdraw, pc' = "withdraw"
    PROVE  IInv'
<1> USE DEF IInv
<1>1. /\ pc = "inspect" /\ pc' = "withdraw" /\ run = "undoing" /\ run' = run
      /\ journal = "writing" /\ op > 1 /\ transition'.op = transition.op
      /\ transition.op > 1 /\ recDir.withdrawn = Absent
      /\ UNCHANGED <<public, dirs, journal, op, owed, foreigners>>
  <2>1. /\ pc = "inspect" /\ run = "undoing" /\ journal = "writing" /\ op > 1
    BY DEF Inspect, Control, Recovering
  <2>2. transition.op # 1
    BY <2>1 DEF ApplyReleased, NoDir, recDir
  <2>3. transition.op \in Int /\ 1 <= transition.op
    BY Numbers, FieldsTyped
  <2>4. transition'.op = transition.op
    BY RecordKeepsOp DEF Inspect
  <2>5. QED
    BY <2>1, <2>2, <2>3, <2>4
       DEF Inspect, AlreadyRestored, CanRestore, CanWithdraw, history
<1>2. Control'
  BY <1>1, Numbers, FieldsTyped
     DEF Control, Recovering, Undoing, Replacing, Before, Holding, Back, Public
<1>3. DirsAreOwn'
  BY <1>1
     DEF DirsAreOwn, Control, Recovering, Undoing, Replacing, Before, Holding, Back,
         Public
<1>4. DirInStep'
  BY <1>1, FieldsTyped
     DEF DirInStep, dir, recDir, Expected, Control, Recovering, Undoing, Replacing,
         Before, Holding, Back, Public
<1>5. NewFiles'
  BY <1>1
     DEF NewFiles, Seen, Control, Recovering, Undoing, Replacing, Before, Holding, Back,
         Public
<1>6. OwedByJournal'
  BY <1>1
     DEF OwedByJournal, Expected, Control, Recovering, Undoing, Replacing, Before,
         Holding, Back, Public
<1>7. ApplyReleased'
  BY <1>1
     DEF ApplyReleased, Control, Recovering, Undoing, Replacing, Before, Holding, Back,
         Public
<1>8. HeldInProgress'
  BY <1>1
     DEF HeldInProgress, Control, Recovering, Undoing, Replacing, Before, Holding, Back,
         Public
<1>9. Undisturbed'
  BY <1>1 DEF Undisturbed
<1>10. NothingLost'
  BY <1>1 DEF NothingLost, Stored
<1>11. OutcomeTold'
  BY <1>1 DEF OutcomeTold, SettledVisible, Settled, Control
<1>12. QED
  BY <1>2, <1>3, <1>4, <1>5, <1>6, <1>7, <1>8, <1>9, <1>10, <1>11

(* The withdrawn file is compared.                                          *)
LEMMA WithdrawnStep ==
    ASSUME IInv, TypeOK', Withdrawn, recDir.withdrawn = transition.op
    PROVE  IInv'
<1> USE DEF IInv
<1>1. /\ pc = "withdrawn" /\ pc' = "restore" /\ run = "undoing" /\ run' = run
      /\ journal = "writing" /\ transition'.op = transition.op
      /\ UNCHANGED <<public, dirs, journal, op, owed, foreigners>>
  BY RecordKeepsOp DEF Withdrawn, Control, Recovering, history
<1>2. Control'
  BY <1>1, Numbers, FieldsTyped
     DEF Control, Recovering, Undoing, Replacing, Before, Holding, Back, Public
<1>3. DirsAreOwn'
  BY <1>1
     DEF DirsAreOwn, Control, Recovering, Undoing, Replacing, Before, Holding, Back,
         Public
<1>4. DirInStep'
  BY <1>1, FieldsTyped
     DEF DirInStep, dir, recDir, Expected, Control, Recovering, Undoing, Replacing,
         Before, Holding, Back, Public
<1>5. NewFiles'
  BY <1>1
     DEF NewFiles, Seen, Control, Recovering, Undoing, Replacing, Before, Holding, Back,
         Public
<1>6. OwedByJournal'
  BY <1>1
     DEF OwedByJournal, Expected, Control, Recovering, Undoing, Replacing, Before,
         Holding, Back, Public
<1>7. ApplyReleased'
  BY <1>1
     DEF ApplyReleased, Control, Recovering, Undoing, Replacing, Before, Holding, Back,
         Public
<1>8. HeldInProgress'
  BY <1>1
     DEF HeldInProgress, Control, Recovering, Undoing, Replacing, Before, Holding, Back,
         Public
<1>9. Undisturbed'
  BY <1>1 DEF Undisturbed
<1>10. NothingLost'
  BY <1>1 DEF NothingLost, Stored
<1>11. OutcomeTold'
  BY <1>1 DEF OutcomeTold, SettledVisible, Settled, Control
<1>12. QED
  BY <1>2, <1>3, <1>4, <1>5, <1>6, <1>7, <1>8, <1>9, <1>10, <1>11

(* The restored file is compared.                                           *)
LEMMA RestoredStep ==
    ASSUME IInv, TypeOK', Restored, public = transition.entry
    PROVE  IInv'
<1> USE DEF IInv
<1>1. /\ pc = "restored" /\ pc' = "cleanup" /\ run = "undoing" /\ run' = run
      /\ journal = "writing" /\ transition'.op = transition.op
      /\ UNCHANGED <<public, dirs, journal, op, owed, foreigners>>
  BY RecordKeepsOp DEF Restored, Control, Recovering, history
<1>2. Control'
  BY <1>1, Numbers, FieldsTyped
     DEF Control, Recovering, Undoing, Replacing, Before, Holding, Back, Public
<1>3. DirsAreOwn'
  BY <1>1
     DEF DirsAreOwn, Control, Recovering, Undoing, Replacing, Before, Holding, Back,
         Public
<1>4. DirInStep'
  BY <1>1, FieldsTyped
     DEF DirInStep, dir, recDir, Expected, Control, Recovering, Undoing, Replacing,
         Before, Holding, Back, Public
<1>5. NewFiles'
  BY <1>1
     DEF NewFiles, Seen, Control, Recovering, Undoing, Replacing, Before, Holding, Back,
         Public
<1>6. OwedByJournal'
  BY <1>1
     DEF OwedByJournal, Expected, Control, Recovering, Undoing, Replacing, Before,
         Holding, Back, Public
<1>7. ApplyReleased'
  BY <1>1
     DEF ApplyReleased, Control, Recovering, Undoing, Replacing, Before, Holding, Back,
         Public
<1>8. HeldInProgress'
  BY <1>1
     DEF HeldInProgress, Control, Recovering, Undoing, Replacing, Before, Holding, Back,
         Public
<1>9. Undisturbed'
  BY <1>1 DEF Undisturbed
<1>10. NothingLost'
  BY <1>1 DEF NothingLost, Stored
<1>11. OutcomeTold'
  BY <1>1 DEF OutcomeTold, SettledVisible, Settled, Control
<1>12. QED
  BY <1>2, <1>3, <1>4, <1>5, <1>6, <1>7, <1>8, <1>9, <1>10, <1>11

(* The published file is withdrawn.                                         *)
LEMMA WithdrawStep ==
    ASSUME IInv, TypeOK', Withdraw, public # Absent
    PROVE  IInv'
<1> USE DEF IInv
<1>1. /\ pc = "withdraw" /\ pc' = "withdrawn" /\ public' = Absent
      /\ run = "undoing" /\ journal = "writing" /\ op > 1
      /\ transition.op \in Ops /\ transition.op # 1 /\ 1 \in Ops
      /\ \A o \in Ops \ {transition.op} : dirs'[o] = dirs[o]
      /\ dirs'[transition.op].staged = dirs[transition.op].staged
      /\ dirs'[transition.op].held = dirs[transition.op].held
      /\ dirs'[transition.op].withdrawn = public
      /\ dirs[transition.op].withdrawn = Absent
      /\ UNCHANGED <<transition, journal, run, op, owed, foreigners>>
  BY WithdrawEffect, RecoveredOp DEF Withdraw, DirInStep, recDir, Undoing
<1>2. Control'
  BY <1>1, Numbers, FieldsTyped
     DEF Control, Recovering, Undoing, Replacing, Before, Holding, Back, Public
<1>3. DirsAreOwn'
  <2>1. \A o \in Ops : o > op => o # transition.op
    BY <1>1, RecoveredOp DEF Undoing
  <2>2. \A o \in Ops : dirs'[o].staged \in {dirs[o].staged, Absent}
    BY <1>1
  <2>3. QED
    BY <1>1, <2>1, <2>2 DEF DirsAreOwn
<1>4. DirInStep'
  BY <1>1, FieldsTyped
     DEF DirInStep, dir, recDir, Expected, Control, Recovering, Undoing, Replacing,
         Before, Holding, Back, Public
<1>5. NewFiles'
  BY <1>1, Numbers, FieldsTyped
     DEF NewFiles, Seen, Replacing, Before, Holding, Back, Public
<1>6. OwedByJournal'
  BY <1>1, Numbers, FieldsTyped DEF OwedByJournal
<1>7. ApplyReleased'
  <2>1. dirs'[1] = dirs[1]
    BY <1>1
  <2>2. QED
    BY <1>1, <2>1 DEF ApplyReleased
<1>8. HeldInProgress'
  BY <1>1, StagedNotOwed DEF HeldInProgress, Replacing, Before, Holding, Back, Public
<1>9. Undisturbed'
  BY <1>1 DEF Undisturbed
<1>10. NothingLost'
  BY <1>1, WhereStored, StagedNotOwed, StillStored
<1>11. OutcomeTold'
  BY <1>1 DEF OutcomeTold, SettledVisible, Settled, Control
<1>12. QED
  BY <1>2, <1>3, <1>4, <1>5, <1>6, <1>7, <1>8, <1>9, <1>10, <1>11

(* The held file goes back.                                                 *)
LEMMA RestoreStep ==
    ASSUME IInv, TypeOK', Restore, public = Absent
    PROVE  IInv'
<1> USE DEF IInv
<1>1. /\ pc = "restore" /\ pc' = "restored" /\ public = Absent
      /\ public' = dirs[transition.op].held
      /\ run = "undoing" /\ journal = "writing" /\ op > 1
      /\ transition.op \in Ops /\ transition.op # 1 /\ 1 \in Ops
      /\ \A o \in Ops \ {transition.op} : dirs'[o] = dirs[o]
      /\ dirs'[transition.op].staged = dirs[transition.op].staged
      /\ dirs'[transition.op].held = Absent
      /\ dirs'[transition.op].withdrawn = dirs[transition.op].withdrawn
      /\ UNCHANGED <<transition, journal, run, op, owed, foreigners>>
  BY RestoreEffect, RecoveredOp DEF Restore, Undoing
<1>2. Control'
  BY <1>1, Numbers, FieldsTyped
     DEF Control, Recovering, Undoing, Replacing, Before, Holding, Back, Public
<1>3. DirsAreOwn'
  <2>1. \A o \in Ops : o > op => o # transition.op
    BY <1>1, RecoveredOp DEF Undoing
  <2>2. \A o \in Ops : dirs'[o].staged \in {dirs[o].staged, Absent}
    BY <1>1
  <2>3. QED
    BY <1>1, <2>1, <2>2 DEF DirsAreOwn
<1>4. DirInStep'
  BY <1>1, FieldsTyped
     DEF DirInStep, dir, recDir, Expected, Control, Recovering, Undoing, Replacing,
         Before, Holding, Back, Public
<1>5. NewFiles'
  BY <1>1, Numbers, FieldsTyped
     DEF NewFiles, Seen, Replacing, Before, Holding, Back, Public
<1>6. OwedByJournal'
  BY <1>1, Numbers, FieldsTyped DEF OwedByJournal
<1>7. ApplyReleased'
  <2>1. dirs'[1] = dirs[1]
    BY <1>1
  <2>2. QED
    BY <1>1, <2>1 DEF ApplyReleased
<1>8. HeldInProgress'
  BY <1>1, StagedNotOwed DEF HeldInProgress, Replacing, Before, Holding, Back, Public
<1>9. Undisturbed'
  BY <1>1 DEF Undisturbed
<1>10. NothingLost'
  BY <1>1, WhereStored, StagedNotOwed, StillStored
<1>11. OutcomeTold'
  BY <1>1 DEF OutcomeTold, SettledVisible, Settled, Control
<1>12. QED
  BY <1>2, <1>3, <1>4, <1>5, <1>6, <1>7, <1>8, <1>9, <1>10, <1>11

(* What the operation staged and published is cleaned up.                   *)
LEMMA CleanupStep ==
    ASSUME IInv, TypeOK', Cleanup
    PROVE  IInv'
<1> USE DEF IInv
<1>1. /\ pc = "cleanup" /\ pc' = "reconciled"
      /\ run = "undoing" /\ journal = "writing" /\ op > 1
      /\ transition.op \in Ops /\ transition.op # 1 /\ 1 \in Ops
      /\ \A o \in Ops \ {transition.op} : dirs'[o] = dirs[o]
      /\ dirs'[transition.op].staged = Absent
      /\ dirs'[transition.op].held = Absent
      /\ dirs[transition.op].held = Absent
      /\ \/ dirs'[transition.op].withdrawn = dirs[transition.op].withdrawn
         \/ /\ dirs'[transition.op].withdrawn = Absent
            /\ dirs[transition.op].withdrawn \in {Absent, transition.op}
      /\ UNCHANGED <<public, transition, journal, run, op, owed, foreigners>>
  <2>1. /\ dirs \in [Ops -> Dirs] /\ transition.op \in Ops /\ recDir \in Dirs
        /\ recDir = dirs[transition.op] /\ recDir.held = Absent /\ Absent \in Entries
    BY FieldsTyped, Numbers DEF TypeOK, Cleanup, DirInStep
  <2>2. PICK d \in Dirs :
           /\ dirs' = [dirs EXCEPT ![transition.op] = d]
           /\ d.staged = Absent /\ d.held = Absent
           /\ \/ d.withdrawn = recDir.withdrawn
              \/ d.withdrawn = Absent /\ recDir.withdrawn \in {Absent, transition.op}
    <3>1. CASE recDir.withdrawn \in {Absent, transition.op}
      BY <2>1, <3>1, DirUpdates DEF Cleanup
    <3>2. CASE recDir.withdrawn \notin {Absent, transition.op}
      <4>1. dirs' = [dirs EXCEPT ![transition.op] = [recDir EXCEPT !.staged = Absent]]
        BY <3>2 DEF Cleanup
      <4>2. /\ [recDir EXCEPT !.staged = Absent] \in Dirs
            /\ [recDir EXCEPT !.staged = Absent].staged = Absent
            /\ [recDir EXCEPT !.staged = Absent].held = recDir.held
            /\ [recDir EXCEPT !.staged = Absent].withdrawn = recDir.withdrawn
        BY <2>1 DEF Dirs
      <4>3. QED
        BY <2>1, <4>1, <4>2
    <3>3. QED
      BY <3>1, <3>2
  <2>3. /\ dirs'[transition.op] = d
        /\ \A o \in Ops \ {transition.op} : dirs'[o] = dirs[o]
    BY <2>1, <2>2, OneDir
  <2>4. QED
    BY <2>1, <2>2, <2>3, RecoveredOp DEF Cleanup, Undoing, rows, history
<1>2. Control'
  BY <1>1, Numbers, FieldsTyped
     DEF Control, Recovering, Undoing, Replacing, Before, Holding, Back, Public
<1>3. DirsAreOwn'
  <2>1. \A o \in Ops : o > op => o # transition.op
    BY <1>1, RecoveredOp DEF Undoing
  <2>2. \A o \in Ops : dirs'[o].staged \in {dirs[o].staged, Absent}
    BY <1>1
  <2>3. QED
    BY <1>1, <2>1, <2>2 DEF DirsAreOwn
<1>4. DirInStep'
  BY <1>1, FieldsTyped
     DEF DirInStep, dir, recDir, Expected, Control, Recovering, Undoing, Replacing,
         Before, Holding, Back, Public
<1>5. NewFiles'
  BY <1>1, Numbers, FieldsTyped
     DEF NewFiles, Seen, Replacing, Before, Holding, Back, Public
<1>6. OwedByJournal'
  BY <1>1, Numbers, FieldsTyped DEF OwedByJournal
<1>7. ApplyReleased'
  <2>1. dirs'[1] = dirs[1]
    BY <1>1
  <2>2. QED
    BY <1>1, <2>1 DEF ApplyReleased
<1>8. HeldInProgress'
  BY <1>1, StagedNotOwed DEF HeldInProgress, Replacing, Before, Holding, Back, Public
<1>9. Undisturbed'
  BY <1>1 DEF Undisturbed
<1>10. NothingLost'
  <2>1. transition.op \notin owed
    BY <1>1 DEF OwedByJournal
  <2>2. QED
    BY <1>1, <2>1, WhereStored, StagedNotOwed, StillStored
<1>11. OutcomeTold'
  BY <1>1 DEF OutcomeTold, SettledVisible, Settled, Control
<1>12. QED
  BY <1>2, <1>3, <1>4, <1>5, <1>6, <1>7, <1>8, <1>9, <1>10, <1>11

(* The journal row is done again.                                           *)
LEMMA ReconciledStep ==
    ASSUME IInv, TypeOK', Reconciled, public = Applied
    PROVE  IInv'
<1> USE DEF IInv
<1>1. /\ pc = "reconciled" /\ pc' = "idle" /\ run = "undoing" /\ run' = "retryable"
      /\ journal = "writing" /\ journal' = "done" /\ op > 1 /\ public \in Ops
      /\ UNCHANGED <<public, dirs, transition, op, owed, foreigners>>
  BY Numbers DEF Reconciled, Control, Recovering, history
<1>2. Control'
  BY <1>1, Numbers, FieldsTyped
     DEF Control, Recovering, Undoing, Replacing, Before, Holding, Back, Public
<1>3. DirsAreOwn'
  BY <1>1
     DEF DirsAreOwn, Control, Recovering, Undoing, Replacing, Before, Holding, Back,
         Public
<1>4. DirInStep'
  BY <1>1, FieldsTyped
     DEF DirInStep, dir, recDir, Expected, Control, Recovering, Undoing, Replacing,
         Before, Holding, Back, Public
<1>5. NewFiles'
  BY <1>1
     DEF NewFiles, Seen, Control, Recovering, Undoing, Replacing, Before, Holding, Back,
         Public
<1>6. OwedByJournal'
  BY <1>1
     DEF OwedByJournal, Expected, Control, Recovering, Undoing, Replacing, Before,
         Holding, Back, Public
<1>7. ApplyReleased'
  BY <1>1
     DEF ApplyReleased, Control, Recovering, Undoing, Replacing, Before, Holding, Back,
         Public
<1>8. HeldInProgress'
  <2>1. \A o \in Ops : dirs[o].held \notin owed
    BY <1>1, StagedNotOwed, FieldsTyped
       DEF HeldInProgress, DirInStep, Replacing, Before, Holding, Back, Public
  <2>2. QED
    BY <1>1, <2>1 DEF HeldInProgress
<1>9. Undisturbed'
  BY <1>1 DEF Undisturbed
<1>10. NothingLost'
  BY <1>1 DEF NothingLost, Stored
<1>11. OutcomeTold'
  BY <1>1 DEF OutcomeTold, SettledVisible, Settled
<1>12. QED
  BY <1>2, <1>3, <1>4, <1>5, <1>6, <1>7, <1>8, <1>9, <1>10, <1>11

-----------------------------------------------------------------------------
(* Other programs.                                                          *)

(* The files of other programs are none of the library's.                   *)
LEMMA ForeignFiles ==
    /\ \A n \in Nat : /\ MaxOps + (n + 1) \in Int
                     /\ MaxOps + (n + 1) \notin Ops /\ MaxOps + (n + 1) # Original
    /\ Absent \in Int /\ Absent \notin Ops /\ Absent # Original
<1>1. MaxOps \in Nat
  BY Numbers
<1>2. \A o \in Ops : o \in Int /\ 1 <= o /\ o <= MaxOps
  BY Numbers
<1>3. ASSUME NEW n \in Nat
      PROVE  MaxOps + (n + 1) \in Int /\ MaxOps + (n + 1) > MaxOps
  BY <1>1
<1>4. QED
  BY <1>1, <1>2, <1>3 DEF Original, Absent

(* Another program replaces the file.                                       *)
LEMMA ForeignReplaceStep ==
    ASSUME IInv, TypeOK', ForeignReplace
    PROVE  IInv'
<1> USE DEF IInv
<1>1. /\ foreigners \in Nat /\ foreigners' = foreigners + 1
      /\ public' = MaxOps + foreigners'
      /\ owed' = (owed \ {public}) \cup {public'}
      /\ UNCHANGED <<dirs, transition, journal, run, op, pc>>
  BY Bounds DEF ForeignReplace, TypeOK, rows
<1>2. /\ public' \in Int /\ public' \notin Ops /\ public' # Original /\ MaxOps \in Int
      /\ op \in Int /\ op <= MaxOps /\ op \in Ops
      /\ \A o \in Ops : dirs[o].held \in Int /\ dirs[o].withdrawn \in Int
  <2>1. /\ MaxOps \in Int /\ op \in Ops /\ Original = 0 /\ Absent = -1
        /\ \A o \in Ops : o \in Int /\ 1 <= o /\ o <= MaxOps
    <3>1. op \in Ops
      BY FieldsTyped
    <3>2. /\ MaxOps \in Int /\ Original = 0 /\ Absent = -1
          /\ \A o \in Ops : o \in Int /\ 1 <= o /\ o <= MaxOps
      BY Numbers
    <3>3. QED
      BY <3>1, <3>2
  <2>2. \A o \in Ops : dirs[o].held \in Int /\ dirs[o].withdrawn \in Int
    BY DirNumbers
  <2>3. public' \in Int /\ public' \notin Ops /\ public' # Original
    <3>1. foreigners \in Nat /\ public' = MaxOps + (foreigners + 1)
      BY <1>1
    <3>2. QED
      BY <3>1, ForeignFiles
  <2>4. QED
    BY <2>1, <2>2, <2>3
<1>3. \A e \in Int : Seen(e) => Seen(e)' /\ e # public'
  BY <1>1, <1>2 DEF Seen
<1>4. Control'
  BY <1>1, <1>2 DEF Control
<1>5. DirsAreOwn'
  BY <1>1, <1>2 DEF DirsAreOwn
<1>6. DirInStep'
  BY <1>1, <1>2 DEF DirInStep, dir, recDir, Expected
<1>7. NewFiles'
  <2>1. Seen(public)'
    BY <1>1, <1>2, Numbers DEF Seen
  <2>2. QED
    BY <1>1, <1>2, <1>3, <2>1 DEF NewFiles
<1>8. OwedByJournal'
  BY <1>1, <1>2, Numbers DEF OwedByJournal, Expected
<1>9. ApplyReleased'
  BY <1>1, <1>2, Numbers DEF ApplyReleased
<1>10. HeldInProgress'
  BY <1>1, <1>2, <1>3 DEF HeldInProgress, NewFiles
<1>11. Undisturbed'
  BY <1>1, <1>2 DEF Undisturbed
<1>12. NothingLost'
  BY <1>1, <1>2, WhereStored, StillStored
<1>13. OutcomeTold'
  BY <1>1, <1>2 DEF OutcomeTold, SettledVisible, Settled
<1>14. QED
  BY <1>4, <1>5, <1>6, <1>7, <1>8, <1>9, <1>10, <1>11, <1>12, <1>13

(* Another program removes the file.                                        *)
LEMMA ForeignRemoveStep ==
    ASSUME IInv, TypeOK', ForeignRemove
    PROVE  IInv'
<1> USE DEF IInv
<1>1. /\ foreigners \in Nat /\ foreigners' = foreigners + 1
      /\ public' = Absent
      /\ owed' = owed \ {public}
      /\ UNCHANGED <<dirs, transition, journal, run, op, pc>>
  BY Bounds DEF ForeignRemove, TypeOK, rows
<1>2. /\ public' \in Int /\ public' \notin Ops /\ public' # Original /\ MaxOps \in Int
      /\ op \in Int /\ op <= MaxOps /\ op \in Ops
      /\ \A o \in Ops : dirs[o].held \in Int /\ dirs[o].withdrawn \in Int
  <2>1. /\ MaxOps \in Int /\ op \in Ops /\ Original = 0 /\ Absent = -1
        /\ \A o \in Ops : o \in Int /\ 1 <= o /\ o <= MaxOps
    <3>1. op \in Ops
      BY FieldsTyped
    <3>2. /\ MaxOps \in Int /\ Original = 0 /\ Absent = -1
          /\ \A o \in Ops : o \in Int /\ 1 <= o /\ o <= MaxOps
      BY Numbers
    <3>3. QED
      BY <3>1, <3>2
  <2>2. \A o \in Ops : dirs[o].held \in Int /\ dirs[o].withdrawn \in Int
    BY DirNumbers
  <2>3. public' \in Int /\ public' \notin Ops /\ public' # Original
    BY <1>1, ForeignFiles
  <2>4. QED
    BY <2>1, <2>2, <2>3
<1>3. \A e \in Int : Seen(e) => Seen(e)' /\ e <= MaxOps + foreigners'
  BY <1>1, <1>2 DEF Seen
<1>4. Control'
  BY <1>1, <1>2 DEF Control
<1>5. DirsAreOwn'
  BY <1>1, <1>2 DEF DirsAreOwn
<1>6. DirInStep'
  BY <1>1, <1>2 DEF DirInStep, dir, recDir, Expected
<1>7. NewFiles'
  <2>1. Seen(public)'
    BY <1>1, <1>2, Numbers DEF Seen
  <2>2. QED
    BY <1>1, <1>2, <1>3, <2>1 DEF NewFiles
<1>8. OwedByJournal'
  BY <1>1, <1>2, Numbers DEF OwedByJournal, Expected
<1>9. ApplyReleased'
  BY <1>1, <1>2, Numbers DEF ApplyReleased
<1>10. HeldInProgress'
  BY <1>1, <1>2 DEF HeldInProgress
<1>11. Undisturbed'
  BY <1>1, <1>2 DEF Undisturbed
<1>12. NothingLost'
  BY <1>1, <1>2, WhereStored, StillStored
<1>13. OutcomeTold'
  BY <1>1, <1>2 DEF OutcomeTold, SettledVisible, Settled
<1>14. QED
  BY <1>4, <1>5, <1>6, <1>7, <1>8, <1>9, <1>10, <1>11, <1>12, <1>13

-----------------------------------------------------------------------------
(* The invariant, and what follows from it.                                 *)

(* Nothing is owed or held before Apply begins but the library's own file.  *)
LEMMA Initially == Init => IInv
<1> SUFFICES ASSUME Init PROVE IInv
  OBVIOUS
<1>1. TypeOK
  BY TypeInit
<1>2. /\ public = Original /\ owed = {Original} /\ transition.op = 1 /\ op = 1
      /\ journal = "none" /\ run = "none" /\ pc = "idle" /\ foreigners = 0
      /\ \A o \in Ops : /\ dirs[o] = NoDir /\ dirs[o].staged = Absent
                        /\ dirs[o].held = Absent /\ dirs[o].withdrawn = Absent
  BY DEF Init, NoDir
<1>3. Control
  BY <1>2 DEF Control, Replacing, Before, Holding, Back, Public, Recovering, Undoing
<1>4. DirsAreOwn
  BY <1>2 DEF DirsAreOwn
<1>5. DirInStep
  BY <1>2 DEF DirInStep, Replacing, Before, Holding, Back, Public
<1>6. NewFiles
  BY <1>2, Numbers DEF NewFiles, Seen, Replacing, Before, Holding, Back, Public
<1>7. OwedByJournal
  BY <1>2, Numbers DEF OwedByJournal
<1>8. ApplyReleased
  BY <1>2 DEF ApplyReleased
<1>9. HeldInProgress
  BY <1>2, Numbers DEF HeldInProgress
<1>10. Undisturbed
  BY <1>2 DEF Undisturbed
<1>11. NothingLost
  BY <1>2 DEF NothingLost, Stored
<1>12. OutcomeTold
  BY <1>2 DEF OutcomeTold, SettledVisible, Settled
<1>13. QED
  BY <1>1, <1>3, <1>4, <1>5, <1>6, <1>7, <1>8, <1>9, <1>10, <1>11, <1>12 DEF IInv

(* An operation that cannot go on: every way a replacement fails.           *)
LEMMA Failures ==
    ASSUME IInv, TypeOK',
           \/ Stage /\ public # Expected(op)
           \/ VerifyForPublish /\ public # Expected(op)
           \/ CheckpointFails
           \/ Displace /\ public = Absent
           \/ Compensate /\ public # Absent
           \/ Compensated
           \/ CaptureFails
    PROVE  IInv'
<1>1. TypeOK
  BY DEF IInv
<1>2. CASE Stage /\ public # Expected(op)
  <2>1. /\ pc \in Replacing /\ pc \in Before /\ Fail(FALSE) /\ FALSE \in BOOLEAN
        /\ UNCHANGED <<public, transition, op, owed, foreigners>>
    BY <1>2 DEF Stage, history, Replacing, Before
  <2>2. QED
    BY <2>1, FailStep
<1>3. CASE VerifyForPublish /\ public # Expected(op)
  <2>1. /\ pc \in Replacing /\ pc \in Before /\ Fail(FALSE) /\ FALSE \in BOOLEAN
        /\ UNCHANGED <<public, transition, op, owed, foreigners>>
    BY <1>3 DEF VerifyForPublish, history, Replacing, Before
  <2>2. QED
    BY <2>1, FailStep
<1>4. CASE CheckpointFails
  <2> DEFINE touched == pc \notin {"stage_ready", "displace_intent"}
  <2>1. /\ pc \in Replacing /\ (touched \/ pc \in Before) /\ Fail(touched)
        /\ touched \in BOOLEAN
        /\ UNCHANGED <<public, transition, op, owed, foreigners>>
    BY <1>4, AfterTable
       DEF CheckpointFails, Replacing, Before, Holding, Back, Public
  <2>2. QED
    BY <2>1, FailStep
<1>5. CASE Displace /\ public = Absent
  <2>1. /\ pc \in Replacing /\ Fail(TRUE) /\ TRUE \in BOOLEAN
        /\ UNCHANGED <<public, transition, op, owed, foreigners>>
    BY <1>5 DEF Displace, history, Replacing, Before
  <2>2. QED
    BY <2>1, FailStep
<1>6. CASE Compensate /\ public # Absent
  <2>1. /\ pc \in Replacing /\ Fail(TRUE) /\ TRUE \in BOOLEAN
        /\ UNCHANGED <<public, op, owed, foreigners>>
    BY <1>6 DEF Compensate, history, Replacing, Holding
  <2>2. transition'.op = transition.op
    BY <1>1, <1>6 DEF Compensate, TypeOK, Transitions
  <2>3. QED
    BY <2>1, <2>2, FailStep
<1>7. CASE Compensated
  <2>1. /\ pc \in Replacing /\ pc \in Back /\ (Fail(FALSE) \/ Fail(TRUE))
        /\ TRUE \in BOOLEAN /\ FALSE \in BOOLEAN
        /\ UNCHANGED <<public, op, owed, foreigners>>
    BY <1>7 DEF Compensated, history, Replacing, Back
  <2>2. transition'.op = transition.op
    BY <1>1, <1>7 DEF Compensated, TypeOK, Transitions
  <2>3. QED
    BY <2>1, <2>2, FailStep
<1>8. CASE CaptureFails
  <2>1. /\ pc \in Replacing /\ Fail(TRUE) /\ TRUE \in BOOLEAN
        /\ UNCHANGED <<public, transition, op, owed, foreigners>>
    BY <1>8 DEF CaptureFails, history, Replacing, Public
  <2>2. QED
    BY <2>1, FailStep
<1>9. QED
  BY <1>2, <1>3, <1>4, <1>5, <1>6, <1>7, <1>8

(* The worker dies, or a run or its recovery gives up where it stands.      *)
LEMMA Stops ==
    ASSUME IInv, TypeOK',
           \/ Crash \/ RecoverApply \/ RecoveryFails
           \/ Preflight /\ run' = "recovery_required"
           \/ RecoverUndo /\ run' = "recovery_required"
           \/ Inspect /\ Blocked /\ UNCHANGED transition
           \/ (Withdraw \/ Withdrawn \/ Restore \/ Restored \/ Reconciled)
              /\ Blocked /\ UNCHANGED <<public, dirs, transition, journal>>
    PROVE  IInv'
<1> USE DEF history, rows
<1>1. CASE Crash
  <2>1. run \in {"applying", "undoing"}
    BY <1>1 DEF IInv, Control, Crash
  <2>2. QED
    BY <1>1, <2>1, StopStep DEF Crash
<1>2. CASE RecoverApply
  BY <1>2, StopStep DEF RecoverApply
<1>3. CASE RecoveryFails
  <2>1. run \in {"applying", "undoing"}
    BY <1>3 DEF IInv, Control, RecoveryFails, Recovering
  <2>2. QED
    BY <1>3, <2>1, StopStep DEF RecoveryFails
<1>4. CASE Preflight /\ run' = "recovery_required"
  <2>1. run = "undoing"
    BY <1>4 DEF IInv, Control, Preflight
  <2>2. /\ pc' = "idle"
        /\ UNCHANGED <<public, dirs, transition, journal, op, owed, foreigners>>
    BY <1>4, <2>1 DEF Preflight
  <2>3. QED
    BY <1>4, <2>1, <2>2, StopStep
<1>5. CASE RecoverUndo /\ run' = "recovery_required"
  BY <1>5, StopStep DEF RecoverUndo
<1>6. CASE Inspect /\ Blocked /\ UNCHANGED transition
  <2>1. run = "undoing"
    BY <1>6 DEF IInv, Control, Inspect, Recovering
  <2>2. QED
    BY <1>6, <2>1, StopStep DEF Inspect, Blocked
<1>7. CASE /\ Withdraw \/ Withdrawn \/ Restore \/ Restored \/ Reconciled
           /\ Blocked /\ UNCHANGED <<public, dirs, transition, journal>>
  <2>1. run = "undoing"
    BY <1>7
       DEF IInv, Control, Withdraw, Withdrawn, Restore, Restored, Reconciled, Recovering
  <2>2. UNCHANGED <<op, owed, foreigners>>
    BY <1>7 DEF Withdraw, Withdrawn, Restore, Restored, Reconciled
  <2>3. QED
    BY <1>7, <2>1, <2>2, StopStep DEF Blocked
<1>8. QED
  BY <1>1, <1>2, <1>3, <1>4, <1>5, <1>6, <1>7

(* Every step keeps the invariant.                                          *)
LEMMA Inductive ==
    ASSUME ~FinalizeMayFail, IInv, [Next]_vars
    PROVE  IInv'
<1>1. TypeOK /\ TypeOK'
  BY TypeStep DEF IInv
<1>2. CASE BeginApply \/ BeginRollback \/ Finish \/ BeginUndo
  BY <1>1, <1>2, BeginApplyStep, BeginRollbackStep, FinishStep, BeginUndoStep
<1>3. CASE Preflight
  <2>1. \/ journal = "done" /\ public = Applied /\ pc' = "stage"
        \/ journal = "rolled_back" /\ run' = "undone"
        \/ run' = "recovery_required"
    BY <1>3 DEF Preflight
  <2>2. QED
    BY <1>1, <1>3, <2>1, RestoreStepBegins, AlreadyUndoneStep, Stops
<1>4. CASE Replace
  <2>1. CASE Stage \/ VerifyForPublish
    BY <1>1, <2>1, StageStep, VerifyStep, Failures
  <2>2. CASE Checkpoint \/ VerifyHeld \/ Capture \/ Commit
    BY <1>1, <2>2, CheckpointStep, VerifyHeldStep, CaptureStep, CommitStep
  <2>3. CASE CheckpointFails \/ Compensated \/ CaptureFails
    BY <1>1, <2>3, Failures
  <2>4. CASE Displace \/ Compensate
    BY <1>1, <2>4, DisplaceStep, CompensateStep, Failures
  <2>5. CASE Publish
    BY <1>1, <2>5, PublishStep, PathTakenStep
  <2>6. CASE Finalize
    BY <1>1, <2>6, FinalizeStep
  <2>7. QED
    BY <1>4, <2>1, <2>2, <2>3, <2>4, <2>5, <2>6 DEF Replace
<1>5. CASE Crash
  BY <1>1, <1>5, Stops
<1>6. CASE Recover
  <2>1. CASE RecoverApply \/ RecoveryFails
    BY <1>1, <2>1, Stops
  <2>2. CASE RecoverUndo
    <3>1. \/ journal = "writing"
          \/ journal # "writing" /\ run' \in {"retryable", "recovery_required"}
      BY <2>2 DEF RecoverUndo
    <3>2. QED
      BY <1>1, <2>2, <3>1, InspectBegins, NothingToRecover, Stops
  <2>3. CASE Inspect
    <3>1. \/ recDir.exists /\ AlreadyRestored /\ pc' = "cleanup"
          \/ recDir.exists /\ CanRestore /\ pc' = "restore"
          \/ recDir.exists /\ CanWithdraw /\ pc' = "withdraw"
          \/ Blocked /\ UNCHANGED transition
      BY <2>3 DEF Inspect
    <3>2. QED
      BY <1>1, <2>3, <3>1, InspectRestored, InspectRestore, InspectWithdraw, Stops
  <2>4. CASE Withdraw
    <3>1. public # Absent \/ (Blocked /\ UNCHANGED <<public, dirs, transition, journal>>)
      BY <2>4 DEF Withdraw
    <3>2. QED
      BY <1>1, <2>4, <3>1, WithdrawStep, Stops
  <2>5. CASE Withdrawn
    <3>1. \/ recDir.withdrawn = transition.op
          \/ Blocked /\ UNCHANGED <<public, dirs, transition, journal>>
      BY <2>5 DEF Withdrawn
    <3>2. QED
      BY <1>1, <2>5, <3>1, WithdrawnStep, Stops
  <2>6. CASE Restore
    <3>1. public = Absent \/ (Blocked /\ UNCHANGED <<public, dirs, transition, journal>>)
      BY <2>6 DEF Restore
    <3>2. QED
      BY <1>1, <2>6, <3>1, RestoreStep, Stops
  <2>7. CASE Restored
    <3>1. \/ public = transition.entry
          \/ Blocked /\ UNCHANGED <<public, dirs, transition, journal>>
      BY <2>7 DEF Restored
    <3>2. QED
      BY <1>1, <2>7, <3>1, RestoredStep, Stops
  <2>8. CASE Cleanup
    BY <1>1, <2>8, CleanupStep
  <2>9. CASE Reconciled
    <3>1. public = Applied \/ (Blocked /\ UNCHANGED <<public, dirs, transition, journal>>)
      BY <2>9 DEF Reconciled
    <3>2. QED
      BY <1>1, <2>9, <3>1, ReconciledStep, Stops
  <2>10. QED
    BY <1>6, <2>1, <2>2, <2>3, <2>4, <2>5, <2>6, <2>7, <2>8, <2>9 DEF Recover
<1>7. CASE ForeignReplace \/ ForeignRemove
  BY <1>1, <1>7, ForeignReplaceStep, ForeignRemoveStep
<1>8. CASE UNCHANGED vars
  BY <1>8
     DEF vars, rows, history, IInv, TypeOK, Control, DirsAreOwn, DirInStep, dir, recDir,
     NewFiles, Seen, OwedByJournal, Expected, ApplyReleased, HeldInProgress, Undisturbed,
     NothingLost, Stored, OutcomeTold, SettledVisible, Settled
<1>9. QED
  BY <1>2, <1>3, <1>4, <1>5, <1>6, <1>7, <1>8 DEF Next

(* Every variable always holds a value the code can store there, even when  *)
(* the release of a held file fails.                                        *)
THEOREM TypeCorrect == Spec => []TypeOK
BY TypeInit, TypeStep, PTL DEF Spec

(* As long as a verified original is released without an I/O error, no file *)
(* is ever lost: the library's own file is in place or held until Apply is  *)
(* committed, the applied one until it is undone, and no replacement,       *)
(* compensation or recovery overwrites or deletes a file that another       *)
(* program put there, whatever crashes and refused checkpoints come between.*)
THEOREM NoFileIsLost ==
    ASSUME ~FinalizeMayFail
    PROVE  Spec => []NothingLost
<1>1. IInv /\ [Next]_vars => IInv'
  BY Inductive
<1>2. IInv => NothingLost
  BY DEF IInv
<1>3. QED
  BY Initially, <1>1, <1>2, PTL DEF Spec

(* Under the same assumption the state of a run tells what the file is: a   *)
(* settled run keeps no owed file out of sight, and unless another program  *)
(* was at work an applied run left the new file, an undone one a restored   *)
(* file, and a failed one not the new file.                                 *)
THEOREM RunTellsOutcome ==
    ASSUME ~FinalizeMayFail
    PROVE  Spec => []OutcomeTold
<1>1. IInv /\ [Next]_vars => IInv'
  BY Inductive
<1>2. IInv => OutcomeTold
  BY DEF IInv
<1>3. QED
  BY Initially, <1>1, <1>2, PTL DEF Spec

=============================================================================
