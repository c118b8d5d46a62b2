------------------------------- MODULE Activity -------------------------------
(***************************************************************************)
(* The activity page (services/activity.py): imports, Applies, Undos and    *)
(* jobs are four tables, each read from a cursor on, merged, and shown one  *)
(* page at a time while new rows appear; what is told of a row combines its *)
(* own state with that of its job, which are committed by different         *)
(* transactions.                                                           *)
(***************************************************************************)
EXTENDS Integers, FiniteSets, FiniteSetsExt

CONSTANTS
    Sources,  \* the tables, numbered as their names are ordered
    Limit,
    MaxTime   \* bound: moments a row may be created at

\* There are four tables.
ASSUME ActivityConstantsAssumption ==
    Sources \subseteq 0..3 /\ Limit \in Nat \ {0} /\ MaxTime \in Nat

VARIABLES
    recorded,   \* committed rows
    flushed,    \* rows an open transaction has flushed, by table
    clock,
    listing,    \* pages read from the start: cursor, rows listed, rows there were at the start
    execution,  \* of one Apply or Undo: its state, the state of its latest job,
    ended       \* and what was told of it when it was told to be over

activityVars == <<recorded, flushed, clock, listing, execution, ended>>
tables == <<recorded, flushed, clock, listing>>

\* created_at comes first in the key, the printed id second.
Id(x)        == x.at * 10 + x.source
Older(x, y)  == Id(x) < Id(y)
NoCursor     == -1
AtStart      == [cursor |-> NoCursor, listed |-> {}, twice |-> {}, there |-> recorded,
                 end |-> FALSE]

\* The k newest of a set of rows.
Newest(S, k) == {x \in S : Cardinality({y \in S : Older(x, y)}) < k}

\* Mutant: a table gives no more rows than a page shows.
CutToPage(S) == Newest(S, Limit)

\* One row more than a page tells whether there is another page.
Cut(S) == Newest(S, Limit + 1)

\* Each table filtered and limited by the database.
PerSource(cursor) ==
    UNION {Cut({x \in recorded : x.source = s /\ (cursor = NoCursor \/ Id(x) < cursor)}) :
              s \in Sources}

ListActivity ==
    /\ ~listing.end
    /\ LET found == PerSource(listing.cursor)
           page  == Newest(found, Limit)
       IN listing' = [listing EXCEPT !.listed = @ \cup page,
                                     !.twice  = @ \cup (listing.listed \cap page),
                                     !.end    = Cardinality(found) <= Limit,
                                     !.cursor = IF page = {} THEN @ ELSE Min({Id(x) : x \in page})]
    /\ UNCHANGED <<recorded, flushed, clock, execution, ended>>

Reload ==
    /\ listing.end
    /\ listing' = AtStart
    /\ UNCHANGED <<recorded, flushed, clock, execution, ended>>

\* The moment is taken at the flush, the row is seen from the commit on.
Flush(s) ==
    /\ clock < MaxTime
    /\ \A x \in flushed : x.source # s
    /\ flushed' = flushed \cup {[source |-> s, at |-> clock]}
    /\ UNCHANGED <<recorded, clock, listing, execution, ended>>

CommitRow(x) ==
    /\ x \in flushed \ recorded
    /\ recorded' = recorded \cup {x}
    /\ flushed' = flushed \ {x}
    /\ UNCHANGED <<clock, listing, execution, ended>>

-----------------------------------------------------------------------------
(* What is told of a run.                                                   *)

\* _apply_state_to_activity and _undo_state_to_activity.
Label(s) ==
    CASE s = "writing"              -> "running"
      [] s = "done"                 -> "succeeded"
      [] s \in {"failed", "partly"} -> "failed"
      [] s = "pending"              -> "pending"

Told(r) ==
    IF r.state # "done" /\ r.job \in {"cancelling", "cancelled"} THEN r.job ELSE Label(r.state)

\* The handler commits the end of the run, the worker afterwards that of the job; the cancellation
\* of a job nobody works on ends both at once (see JobQueue).
ExecutionStep(r) ==
    \/ execution.job = "pending"  /\ r \in {[execution EXCEPT !.job = "running"],
                                            [state |-> "failed", job |-> "cancelled"]}
    \/ execution.job = "running"  /\ r = [execution EXCEPT !.job = "cancelling"]
    \/ /\ execution.job \in {"running", "cancelling"}
       /\ \/ execution.state = "pending" /\ r = [execution EXCEPT !.state = "writing"]
          \/ /\ execution.state = "writing"
             /\ r \in {[execution EXCEPT !.state = x] : x \in {"done", "failed", "partly"}}
    \/ /\ execution.job \in {"running", "cancelling"}
       /\ execution.state \in {"done", "failed", "partly"}
       /\ r \in {[execution EXCEPT !.job = x] : x \in {"succeeded", "failed", "cancelled"}}

Proceed ==
    /\ \E r \in [state : {"pending", "writing", "done", "failed", "partly"},
                  job : {"pending", "running", "cancelling", "succeeded", "failed", "cancelled"}] :
          ExecutionStep(r) /\ execution' = r
    /\ ended' = IF ended = "no" /\ Told(execution') \in {"succeeded", "failed", "cancelled"}
                THEN Told(execution') ELSE ended
    /\ UNCHANGED tables

Tick ==
    /\ clock < MaxTime
    /\ clock' = clock + 1
    /\ UNCHANGED <<recorded, flushed, listing, execution, ended>>

ActivityInit ==
    /\ recorded = {}
    /\ flushed = {}
    /\ clock = 0
    /\ listing = AtStart
    /\ execution = [state |-> "pending", job |-> "pending"]
    /\ ended = "no"

ActivityNext ==
    \/ ListActivity \/ Reload \/ Tick \/ Proceed
    \/ \E s \in Sources : Flush(s)
    \/ \E x \in flushed : CommitRow(x)

ActivitySpec == ActivityInit /\ [][ActivityNext]_activityVars

ActivityTypeOK ==
    /\ recorded \cup flushed \subseteq [source : Sources, at : 0..MaxTime]
    /\ listing.listed \subseteq recorded

\* A walk through the pages lists every row there was when it began, and none twice, whichever
\* rows are committed between two pages, with a moment before or after the cursor
\* (list_activity).
EveryRowListedOnce ==
    /\ listing.twice = {}
    /\ listing.end => listing.there \subseteq listing.listed

\* What was told to have succeeded is not told otherwise later, whenever the job is cancelled or
\* fails around the commit of the run (_from_apply, _from_undo).
SuccessStaysTold ==
    /\ ended = "succeeded" => Told(execution) = "succeeded"
    /\ execution.state = "done" => ended = "succeeded"
===============================================================================
