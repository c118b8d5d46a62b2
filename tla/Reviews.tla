------------------------------ MODULE Reviews ------------------------------
(***************************************************************************)
(* Review bundles (pipeline/reviews.py, pipeline/proposals.py,             *)
(* services/review_apply.py): revisions, decisions, optional tasks, the    *)
(* start of an Apply, its conflicts with other Applies and Undos, and what *)
(* the triggers of the database refuse.                                    *)
(*                                                                         *)
(* All bundles concern one file.  A request reads in one step and writes   *)
(* in another, since SELECTs open no transaction: what it read may be old, *)
(* and only constraints and triggers are checked against what is there.    *)
(* Contents are abstracted: a revision has sections, each with a decision. *)
(* Whether a source changed or a destination is taken is left open: such a *)
(* check may refuse at any time.  What Apply and Undo do to the file is in *)
(* BundleApply and BundleUndo.                                             *)
(***************************************************************************)
EXTENDS Naturals

CONSTANTS
    Bundles,     \* the reviews that may be opened
    Requests,    \* concurrent requests and handlers
    May,         \* bound: what each request may do with each review
    Tasks,       \* bound: the reviews with optional tasks
    Sections,    \* of "tags" (a candidate's), "edit" (manual), "extra" (art, lyrics, gain)
    MaxRevision  \* bound: revisions of each bundle

ASSUME ReviewsConstantsAssumption ==
    MaxRevision \in [Bundles -> Nat] /\ Sections \subseteq {"tags", "edit", "extra"}

Decisions == {"pending", "accepted", "rejected"}
Open      == {"preparing", "ready", "needs_attention"}

VARIABLES
    state,     \* ReviewBundle.state, "absent" before there is one
    no,        \* revision_no of the current revision
    rev,       \* the current ProposalRevision
    task,      \* the latest TaskAttempt; "idle": none, or it ended without failure;
               \* "settling", "archived": running, and its handler has read the
               \* review to settle it, open or discarded
    run,       \* the state of the latest ApplyRun and its ReviewUndoRun
    seen       \* what a request has read

reviews == <<state, no, rev>>
vars    == <<reviews, task, run, seen>>

\* Sections that await a decision.
Undecided(sections) == [o \in sections |-> "pending"]

\* unresolved: the match was ambiguous, rejected or found nothing.
Empty   == [ops |-> Undecided({}), unresolved |-> FALSE]
Nothing == [kind |-> "none"]

RunStates == {"none", "pending", "applying", "writing", "applied", "failed", "recovery",
              "undo_pending", "undoing", "reverting", "undone"}
TaskStates == {"idle", "pending", "running", "settling", "archived", "failed"}

Accepted(r) == {o \in DOMAIN r.ops : r.ops[o] = "accepted"}

TaskActive(b) == task[b] \in {"pending", "running", "settling", "archived"}

\* "writing" and "reverting" are 'applying' and 'undoing' past the checks.
RunActive(b)  == run[b] \in {"pending", "applying", "writing"}
UndoActive(b) == run[b] \in {"undo_pending", "undoing", "reverting"}

\* domain/reviews.py and the trigger review_bundles_state_transition.
Edges ==
    {<<"preparing", "ready">>, <<"preparing", "needs_attention">>, <<"preparing", "discarded">>,
     <<"ready", "needs_attention">>, <<"ready", "applying">>, <<"ready", "discarded">>,
     <<"needs_attention", "ready">>, <<"needs_attention", "applying">>,
     <<"needs_attention", "discarded">>, <<"applying", "applied">>, <<"applying", "failed">>,
     <<"failed", "applying">>, <<"discarded", "ready">>, <<"discarded", "needs_attention">>}

MayMove(s, t) == s = t \/ <<s, t>> \in Edges

\* Mutant: a new section has no decision.
CarriedUndecided(old, sections, fresh) ==
    [o \in sections |-> IF o \in DOMAIN old /\ o \notin fresh THEN old[o] ELSE "none"]

\* A section whose content is unchanged keeps the decision read with it.
Carried(old, sections, fresh) ==
    [o \in sections |-> IF o \in DOMAIN old /\ o \notin fresh THEN old[o] ELSE "pending"]

-----------------------------------------------------------------------------
(* Requests read.                                                           *)

\* What each handler asks of the state it reads before it goes on.
Admitted(kind) ==
    CASE kind \in {"match", "manual"}   -> Open \cup {"absent"}
      [] kind \in {"choose", "skip"}    -> Open
      [] kind \in {"decide", "edit"}    -> Open \cup {"discarded"}
      [] kind \in {"cover", "refresh"}  -> {"ready", "needs_attention", "discarded", "failed",
                                            "applied"}

Kinds == {"match", "manual", "choose", "skip", "decide", "edit", "cover", "refresh"}

Reads(r, kind, b) ==
    /\ seen[r] = Nothing
    /\ seen' = [seen EXCEPT ![r] = [kind |-> kind, b |-> b, state |-> state[b], no |-> no[b],
                                    ops |-> rev[b].ops]]

Read(r, kind, b) ==
    /\ kind \in May[r][b]
    /\ state[b] \in Admitted(kind)
    /\ Reads(r, kind, b)
    /\ UNCHANGED <<reviews, task, run>>

Ends(r) == seen' = [seen EXCEPT ![r] = Nothing]

\* A request is refused, or its transaction rolled back.
Refused(r) ==
    /\ seen[r] # Nothing
    /\ Ends(r)
    /\ UNCHANGED <<reviews, task, run>>

-----------------------------------------------------------------------------
(* Requests write.                                                          *)

\* put_revision: revision numbers are unique, and the current revision of a
\* bundle that is not open is frozen by a trigger.
Put(r, new) ==
    LET b == seen[r].b IN
    /\ no[b] = seen[r].no
    /\ state[b] \in Open \cup {"absent"}
    /\ no[b] < MaxRevision[b]
    /\ no' = [no EXCEPT ![b] = @ + 1]
    /\ rev' = [rev EXCEPT ![b] = new]

\* transition_bundle, in the same transaction, from the state the session holds.
Moves(r, target) ==
    LET b == seen[r].b
        known(s) == IF s = "absent" THEN "preparing" ELSE s
    IN
    IF seen[r].state = target THEN UNCHANGED state
    ELSE /\ MayMove(known(seen[r].state), target)
         /\ MayMove(known(state[b]), target)
         /\ state' = [state EXCEPT ![b] = target]

Composes(r, sections, fresh, unresolved, target) ==
    /\ Put(r, [ops |-> Carried(seen[r].ops, sections \cap Sections, fresh),
               unresolved |-> unresolved])
    /\ Moves(r, target)
    /\ Ends(r)
    /\ UNCHANGED <<task, run>>

Kept(r) == DOMAIN seen[r].ops

\* Mutant: a match replaces manual values without asking.
EditsKeptNever(r) == {}

EditsKept(r) == Kept(r) \cap {"edit"}

\* prepare_import_scope: the review exists before the network is asked.
Prepare(b) ==
    /\ state[b] = "absent"
    /\ no[b] < MaxRevision[b]
    /\ state' = [state EXCEPT ![b] = "preparing"]
    /\ no' = [no EXCEPT ![b] = @ + 1]
    /\ rev' = [rev EXCEPT ![b] = Empty]
    /\ UNCHANGED <<task, run, seen>>

\* create_grouping_review: choices that await the user.
Grouping(b) ==
    /\ state[b] = "absent"
    /\ no[b] < MaxRevision[b]
    /\ "extra" \in Sections
    /\ state' = [state EXCEPT ![b] = "needs_attention"]
    /\ no' = [no EXCEPT ![b] = @ + 1]
    /\ rev' = [rev EXCEPT ![b] = [Empty EXCEPT !.ops = Undecided({"extra"})]]
    /\ UNCHANGED <<task, run, seen>>

\* A strong match: the candidate's tags beside manual ones it does not touch.
MatchSelects(r) ==
    /\ seen[r].kind = "match"
    /\ Composes(r, {"tags"} \cup EditsKept(r) \cup (Kept(r) \cap {"extra"}), {"tags"},
                FALSE, "ready")

\* mark_match_needs_attention: a match without a selection proposes nothing.
MatchUnresolved(r) ==
    /\ seen[r].kind = "match"
    /\ Composes(r, {}, {}, TRUE, "needs_attention")

\* The user chooses a candidate; force: confirmed that it may replace manual values.
Choose(r) ==
    /\ seen[r].kind = "choose"
    /\ \E force \in BOOLEAN :
           Composes(r, {"tags"} \cup (Kept(r) \cap {"extra"})
                           \cup (IF force THEN {} ELSE EditsKept(r)),
                    {"tags"}, FALSE, "ready")

Manual(r) ==
    /\ seen[r].kind = "manual"
    /\ Composes(r, Kept(r) \cup {"edit"}, {"edit"}, FALSE, "ready")

Skip(r) ==
    /\ seen[r].kind = "skip"
    /\ Composes(r, {}, {}, FALSE, "discarded")

\* Art is proposed anew, or no longer; collisions are not computed again.
Cover(r) ==
    LET b == seen[r].b IN
    /\ seen[r].kind = "cover"
    /\ \E extra \in SUBSET ({"extra"} \cap Sections) :
           Put(r, [rev[b] EXCEPT !.ops = Carried(seen[r].ops, (Kept(r) \ {"extra"}) \cup extra,
                                                 {"extra"})])
    /\ Ends(r)
    /\ UNCHANGED <<state, task, run>>

\* edit_operation: one value becomes manual and accepted in a new revision; a
\* tag so edited counts as a manual one from then on.
Edit(r) ==
    LET old == seen[r].ops IN
    /\ seen[r].kind = "edit"
    /\ \E o \in DOMAIN old :
           LET edited   == IF o = "tags" THEN "edit" ELSE o
               sections == (DOMAIN old \ {o}) \cup {edited}
           IN
           /\ edited \in Sections
           /\ Put(r, [rev[seen[r].b] EXCEPT
                  !.ops = [Carried(old, sections, {edited}) EXCEPT ![edited] = "accepted"]])
    /\ Ends(r)
    /\ UNCHANGED <<state, task, run>>

\* apply_operation_decisions: checked in the statement against the current
\* revision; a discarded review is reopened first, an all-rejected one closed.
Decide(r) ==
    LET b    == seen[r].b
        open == IF seen[r].state # "discarded" THEN state[b]
                ELSE IF task[b] = "failed" THEN "needs_attention" ELSE "ready"
    IN
    /\ seen[r].kind = "decide"
    /\ no[b] = seen[r].no
    /\ MayMove(state[b], open) /\ open \in Open
    /\ \E os \in SUBSET DOMAIN rev[b].ops \ {{}}, d \in Decisions :
           LET ops == [o \in DOMAIN rev[b].ops |-> IF o \in os THEN d ELSE rev[b].ops[o]] IN
           /\ rev' = [rev EXCEPT ![b].ops = ops]
           /\ state' = [state EXCEPT ![b] =
                  IF \A o \in DOMAIN ops : ops[o] = "rejected" THEN "discarded" ELSE open]
    /\ Ends(r)
    /\ UNCHANGED <<no, task, run>>

\* refresh_review_bundle, under a writer reservation: what it read is still so,
\* and decisions are read again.
Refresh(r) ==
    /\ seen[r].kind = "refresh"
    /\ state[seen[r].b] = seen[r].state
    /\ Put(r, rev[seen[r].b])
    /\ Ends(r)
    /\ UNCHANGED <<state, task, run>>

-----------------------------------------------------------------------------
(* Apply is asked for.                                                      *)

Blocked(b) == state[b] = "needs_attention" /\ rev[b].unresolved

Others(b) == Bundles \ {b}

\* Another review of these files is open, or an apply or undo of them runs.
Conflict(b) ==
    \/ \E o \in Others(b) : state[o] \in Open \/ RunActive(o)
    \/ \E o \in Bundles : UndoActive(o)

\* _preflight_for_apply: checked before anything is written.
Preflight(r, b) ==
    /\ "apply" \in May[r][b]
    /\ state[b] \in {"ready", "needs_attention", "failed"}
    /\ run[b] # "recovery"
    /\ ~Blocked(b)
    /\ ~Conflict(b)
    /\ seen[r] = Nothing
    /\ seen' = [seen EXCEPT ![r] = [kind |-> "apply", b |-> b, state |-> state[b]]]
    /\ UNCHANGED <<reviews, task, run>>

\* start_apply_run reads the revision again, what is accepted and active tasks.
StartReads(r) ==
    LET b == seen[r].b IN
    /\ seen[r].kind = "apply"
    /\ ~TaskActive(b)
    /\ Accepted(rev[b]) # {}
    /\ seen' = [seen EXCEPT ![r].kind = "start"]
    /\ UNCHANGED <<reviews, task, run>>

\* It inserts the run: one active run for a bundle, and something is accepted.
Start(r) ==
    LET b == seen[r].b IN
    /\ seen[r].kind = "start"
    /\ MayMove(seen[r].state, "applying") /\ <<state[b], "applying">> \in Edges
    /\ ~RunActive(b)
    /\ Accepted(rev[b]) # {}
    /\ run' = [run EXCEPT ![b] = "pending"]
    /\ state' = [state EXCEPT ![b] = "applying"]
    /\ Ends(r)
    /\ UNCHANGED <<no, rev, task>>

-----------------------------------------------------------------------------
(* The worker applies and undoes.                                           *)

RunTo(b, s) == run' = [run EXCEPT ![b] = s]

\* Committed before the checks, so that of two runs one at least sees the other.
Begin(b) ==
    /\ run[b] = "pending"
    /\ RunTo(b, "applying")
    /\ UNCHANGED <<reviews, task, seen>>

\* Mutant: the worker trusts the preflight of the request.
ConflictsNever(b) == FALSE

\* _bundle_preflight: other runs, Undos and open reviews of the file.
Conflicts(b) ==
    \/ \E o \in Others(b) : RunActive(o) \/ state[o] \in Open
    \/ \E o \in Bundles : UndoActive(o)

Accepts(b) ==
    /\ run[b] = "applying"
    /\ ~Conflicts(b)
    /\ RunTo(b, "writing")
    /\ UNCHANGED <<reviews, task, seen>>

\* A conflict, a source that changed, a destination that is taken.
Refuses(b) ==
    /\ run[b] = "applying"
    /\ RunTo(b, "failed")
    /\ state' = [state EXCEPT ![b] = "failed"]
    /\ UNCHANGED <<no, rev, task, seen>>

\* The run ends with the file written, restored, or in an unknown state.
WriteEnds(b) ==
    /\ run[b] = "writing"
    /\ \E end \in {"applied", "failed", "recovery"} :
           /\ RunTo(b, end)
           /\ state' = [state EXCEPT ![b] = IF end = "applied" THEN "applied" ELSE "failed"]
    /\ UNCHANGED <<no, rev, task, seen>>

\* An Undo may be asked for whatever else goes on; it is checked by the worker.
AskUndo(b) ==
    /\ state[b] = "applied" /\ run[b] = "applied"
    /\ RunTo(b, "undo_pending")
    /\ UNCHANGED <<reviews, task, seen>>

BeginUndo(b) ==
    /\ run[b] = "undo_pending"
    /\ RunTo(b, "undoing")
    /\ UNCHANGED <<reviews, task, seen>>

\* _active_conflicts: other runs and Undos of the file.
UndoConflicts(b) == \E o \in Others(b) : RunActive(o) \/ UndoActive(o)

AcceptsUndo(b) ==
    /\ run[b] = "undoing"
    /\ ~UndoConflicts(b)
    /\ RunTo(b, "reverting")
    /\ UNCHANGED <<reviews, task, seen>>

\* The Undo can be asked for again.
RefusesUndo(b) ==
    /\ run[b] = "undoing"
    /\ RunTo(b, "applied")
    /\ UNCHANGED <<reviews, task, seen>>

UndoEnds(b) ==
    /\ run[b] = "reverting"
    /\ \E end \in {"undone", "applied", "recovery"} : RunTo(b, end)
    /\ UNCHANGED <<reviews, task, seen>>

-----------------------------------------------------------------------------
(* Optional tasks.                                                          *)

\* plan_task_attempts, in the transaction that enqueues the job.
PlanTask(b) ==
    /\ b \in Tasks
    /\ state[b] \in Open
    /\ ~TaskActive(b)
    /\ task' = [task EXCEPT ![b] = "pending"]
    /\ UNCHANGED <<reviews, run, seen>>

StartTask(b) ==
    /\ task[b] = "pending"
    /\ state[b] \in Open
    /\ task' = [task EXCEPT ![b] = "running"]
    /\ UNCHANGED <<reviews, run, seen>>

\* add_operations: the section was found; it is read, then promoted unless
\* the review was discarded meanwhile.
FoundReads(r, b) ==
    /\ "found" \in May[r][b]
    /\ task[b] = "running"
    /\ \A q \in Requests : seen[q] # Nothing => ~(seen[q].kind = "found" /\ seen[q].b = b)
    /\ Reads(r, "found", b)
    /\ UNCHANGED <<reviews, task, run>>

\* _refresh_bundle_task_state reads the state the database has, outside of a
\* transaction unless one is open already.
TaskSees(b) == IF state[b] = "discarded" THEN "archived" ELSE "settling"

\* The section is promoted and the attempt settled in one transaction; one for
\* a review that add_operations found discarded is left and settled like one
\* that was not found.  The session writes the state unless it knew it so.
Found(r) ==
    LET b == seen[r].b IN
    /\ seen[r].kind = "found"
    /\ task[b] = "running"
    /\ \/ /\ seen[r].state = "discarded"
          /\ task' = [task EXCEPT ![b] = TaskSees(b)]
          /\ UNCHANGED reviews
       \/ /\ seen[r].state # "discarded"
          /\ Put(r, [rev[b] EXCEPT !.ops = Carried(seen[r].ops,
                        Kept(r) \cup ({"extra"} \cap Sections), {"extra"})])
          /\ task' = [task EXCEPT ![b] = "idle"]
          /\ state' \in {state, [state EXCEPT ![b] = "ready"]}
    /\ Ends(r)
    /\ UNCHANGED <<run>>

\* finish_task_attempt for what failed or was not found: it reads ...
TaskReads(b) ==
    /\ task[b] = "running"
    /\ task' = [task EXCEPT ![b] = TaskSees(b)]
    /\ UNCHANGED <<reviews, run, seen>>

\* Mutant: a late outcome reopens a review that was read as discarded.
SettlesAlways(b) == task[b] \in {"settling", "archived"}

\* A discarded review is authoritative over late outcomes.
Settles(b) == task[b] = "settling"

\* ... and the flush writes, by the id of the review, what was decided then.
TaskWrites(b) ==
    /\ task[b] \in {"settling", "archived"}
    /\ \E end \in {"failed", "idle"} :
           LET target == IF end = "failed" THEN "needs_attention" ELSE "ready" IN
           /\ task' = [task EXCEPT ![b] = end]
           /\ \/ UNCHANGED state
              \/ Settles(b) /\ MayMove(state[b], target) /\ state' = [state EXCEPT ![b] = target]
    /\ UNCHANGED <<no, rev, run, seen>>

\* The job fails, is recovered, or is cancelled, with the attempt still active.
TaskJobEnds(b) ==
    /\ TaskActive(b)
    /\ \E end \in {"failed", "idle"} :
           /\ task' = [task EXCEPT ![b] = end]
           /\ state' = [state EXCEPT ![b] =
                  IF state[b] \notin Open THEN @
                  ELSE IF end = "idle" THEN "ready" ELSE "needs_attention"]
    /\ UNCHANGED <<no, rev, run, seen>>

-----------------------------------------------------------------------------
Init ==
    /\ state = [b \in Bundles |-> "absent"]
    /\ no = [b \in Bundles |-> 0]
    /\ rev = [b \in Bundles |-> Empty]
    /\ task = [b \in Bundles |-> "idle"]
    /\ run = [b \in Bundles |-> "none"]
    /\ seen = [r \in Requests |-> Nothing]

Writes(r) ==
    \/ MatchSelects(r) \/ MatchUnresolved(r) \/ Choose(r) \/ Manual(r) \/ Skip(r)
    \/ Cover(r) \/ Edit(r) \/ Decide(r) \/ Refresh(r)
    \/ StartReads(r) \/ Start(r) \/ Found(r)

Next ==
    \/ \E r \in Requests :
           \/ \E b \in Bundles :
                  \/ \E kind \in Kinds : Read(r, kind, b)
                  \/ Preflight(r, b)
                  \/ FoundReads(r, b)
           \/ seen[r] # Nothing /\ Writes(r)
           \/ Refused(r)
    \/ \E b \in Bundles :
           \/ Prepare(b) \/ Grouping(b)
           \/ Begin(b) \/ Accepts(b) \/ Refuses(b) \/ WriteEnds(b)
           \/ AskUndo(b) \/ BeginUndo(b) \/ AcceptsUndo(b) \/ RefusesUndo(b) \/ UndoEnds(b)
           \/ PlanTask(b) \/ StartTask(b) \/ TaskReads(b) \/ TaskWrites(b) \/ TaskJobEnds(b)

Spec == Init /\ [][Next]_vars

-----------------------------------------------------------------------------
(* Properties.                                                              *)

States    == Open \cup {"absent", "applying", "applied", "failed", "discarded"}
Ops       == UNION {[sections -> Decisions] : sections \in SUBSET Sections}
Revisions == [ops : Ops, unresolved : BOOLEAN]
Seen      == {Nothing}
    \cup [kind : Kinds \cup {"found"}, b : Bundles, state : States, no : Nat, ops : Ops]
    \cup [kind : {"apply", "start"}, b : Bundles, state : States]

\* Every variable, and what a request has read, is of a value the columns allow.
TypeOK ==
    /\ state \in [Bundles -> States]
    /\ no \in [Bundles -> Nat] /\ \A b \in Bundles : no[b] <= MaxRevision[b]
    /\ rev \in [Bundles -> Revisions]
    /\ task \in [Bundles -> TaskStates]
    /\ run \in [Bundles -> RunStates]
    /\ seen \in [Requests -> Seen]

Writers == {b \in Bundles : run[b] \in {"writing", "reverting"}}

\* At most one Apply or Undo is past its checks on a file, though every check
\* reads what others committed and none of them holds a lock; and a bundle is
\* 'applying' exactly while a run of it is active: late tasks, decisions and
\* compositions never take it out of that state.
OneWriter ==
    /\ \A b, c \in Writers : b = c
    /\ \A b \in Bundles : state[b] = "applying" <=> RunActive(b)

By(r, b, kinds) == seen[r] # Nothing /\ seen'[r] = Nothing /\ seen[r].b = b /\ seen[r].kind \in kinds

\* A review the user discarded is reopened by a decision of the user, and by
\* the outcome of a task only when its handler had read the review, to settle
\* it, before it was discarded: an outcome that comes later leaves it alone.
\* The comment at pipeline/reviews.py:1511 makes no exception.
KeepsDiscard ==
    \A b \in Bundles : state[b] = "discarded" /\ state'[b] # "discarded"
        => \/ \E r \in Requests : By(r, b, {"decide"})
           \/ task[b] = "settling" /\ task'[b] \in {"failed", "idle"}

DiscardStands == [][KeepsDiscard]_vars

\* A manual value leaves a review when the user chose to replace it, skipped
\* the review, or a match found nothing; it is never replaced silently.
KeepsEdit ==
    \A b \in Bundles : "edit" \in DOMAIN rev[b].ops \ DOMAIN rev'[b].ops
        => \/ \E r \in Requests : By(r, b, {"choose", "skip"})
           \/ rev'[b].unresolved

EditKept == [][KeepsEdit]_vars

\* While an unresolved match is in a review no Apply of it starts
\* (docs/product-spec.md: Apply is disabled while there is an unresolved item).
UnresolvedBlocks ==
    [][\A b \in Bundles : state[b] # "applying" /\ state'[b] = "applying"
           => ~rev[b].unresolved]_vars

\* What the user rejected is not accepted again by another composition
\* (docs/product-spec.md: decisions persist per operation).
RejectionStands ==
    [][\A b \in Bundles : \A o \in DOMAIN rev[b].ops \cap DOMAIN rev'[b].ops :
           rev[b].ops[o] = "rejected" /\ rev'[b].ops[o] = "accepted"
           => \E r \in Requests : By(r, b, {"decide", "edit"})]_vars
=============================================================================
