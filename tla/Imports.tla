------------------------------- MODULE Imports -------------------------------
(***************************************************************************)
(* One import session (services/imports.py): its four stages, the jobs that *)
(* drive it, one after the other or at the same time (a resume asks for no  *)
(* end of the job before), the items of the fingerprint and the match       *)
(* stage, cancellation and crashes.                                         *)
(*                                                                         *)
(* A handler works on rows its database session read earlier: they are read *)
(* again only after the stages that expire them, and an assignment of the   *)
(* value it already holds writes nothing.  What the scan and the grouping   *)
(* do is in Catalog and Grouping, the queue in JobQueue.                    *)
(***************************************************************************)
EXTENDS Naturals, FiniteSets

CONSTANTS
    ImportJobs,  \* import jobs of the session
    Tracks,      \* tracks in scope, with a file
    Groups,      \* work units within the scope
    MaxStops,    \* bound: cancellations and crashes
    None

ASSUME ImportsConstantsAssumption ==
    None \notin ImportJobs /\ None \notin Groups /\ MaxStops \in Nat

VARIABLES
    state,          \* the session and its tasks, as committed
    importCurrent,  \* job_id of the session
    importJob,      \* state of each job
    importAt,       \* where the handler of each job is
    item,           \* the work unit it asks the network about
    seen,           \* the session and its tasks, as the handler of each job holds them
    print,          \* fingerprint of each track: "none", "failed" (its lookup), "done"
    matched,        \* work units with match_state "proposed"
    importReview,   \* the open review of each work unit
    importDraft,    \* reviews the transaction of a match stage wrote and not committed
    importTodo,     \* items left to each job
    ids,            \* review_ids of each match stage
    created,        \* current_created_review_id of each match stage
    planned,        \* reviews whose enrichment was planned
    importAsked,    \* a cancelled pending job whose session is not told yet
    told,           \* the rows the propagation of that cancellation read
    finished,       \* history: stages that were done at some time
    overlapped,     \* history: two have worked on the session at once
    stops           \* history: cancellations and crashes so far

run  == <<state, importCurrent, print, matched, importReview, planned>>
own  == <<importAt, item, seen, importDraft, importTodo, ids, created>>
past == <<finished, overlapped, stops>>
importsVars == <<run, own, importJob, importAsked, told, past>>

Stages  == {"scan", "fingerprint", "group", "match"}
Order   == <<"scan", "fingerprint", "group", "match">>
NameOf(s) == [scan |-> "scanning", fingerprint |-> "fingerprinting",
              group |-> "grouping", match |-> "matching"][s]
SessionFields  == Stages \cup {"session"}
Driving        == {"running", "cancelling"}

FreshSession   == [f \in SessionFields |-> "pending"]
Same  == [g \in Groups |-> "same"]
Drafting(j) == importDraft[j] # Same

\* SQLite admits one transaction that has written.
ImportMayWrite(j) == \A i \in ImportJobs \ {j} : ~Drafting(i)

\* Assignment to mapped rows that hold `held`: only a changed value is written.
Store(held, new) ==
    state' = [f \in SessionFields |-> IF new[f] # held[f] THEN new[f] ELSE state[f]]

Holds(j, rows) == seen' = [seen EXCEPT ![j] = rows]

Requested(j) == importJob[j] # "running"

-----------------------------------------------------------------------------
(* The service: start, resume, cancel.                                      *)

ImportEnqueue(j) ==
    /\ importJob[j] = "none"
    /\ \A i \in ImportJobs : i < j => importJob[i] # "none"
    /\ importJob' = [importJob EXCEPT ![j] = "pending"]
    /\ UNCHANGED <<run, own, importAsked, told>>

\* The session names its job in a second transaction.
Link(j) ==
    /\ importJob[j] # "none"
    /\ importCurrent < j
    /\ importCurrent' = j
    /\ UNCHANGED <<state, print, matched, importReview, planned, own, importJob, importAsked,
                   told>>

\* A job cancelled before its lease tells the session itself: its rows are read,
PropagateReads(j) ==
    /\ importAsked = j /\ told = None
    /\ IF state.session \in {"cancelled", "failed", "reviewing"}
       THEN importAsked' = None /\ UNCHANGED told
       ELSE told' = state /\ UNCHANGED importAsked
    /\ UNCHANGED <<run, own, importJob>>

ClosedSession(rows) ==
    [f \in SessionFields |-> IF f # "session" /\ rows[f] = "done" THEN "done" ELSE "cancelled"]

\* and what is not done is closed.
PropagateWrites(j) ==
    /\ importAsked = j /\ told # None
    /\ \A i \in ImportJobs : ~Drafting(i)
    /\ state' = [f \in SessionFields |->
                     IF ClosedSession(told)[f] # told[f] THEN ClosedSession(told)[f] ELSE state[f]]
    /\ importAsked' = None /\ told' = None
    /\ UNCHANGED <<importCurrent, print, matched, importReview, planned, own, importJob>>

Cancel(j) ==
    /\ importJob[j] \in {"pending", "running", "cancelled"}
    /\ importAsked = None
    /\ \A i \in ImportJobs : ~Drafting(i)
    /\ importJob' = [importJob EXCEPT ![j] = IF @ = "running" THEN "cancelling" ELSE "cancelled"]
    /\ importAsked' = IF importJob[j] = "running" THEN None ELSE j
    /\ UNCHANGED <<run, own, told>>

-----------------------------------------------------------------------------
(* The orchestrator, handle_import.                                         *)

ImportLease(j) ==
    /\ importJob[j] = "pending"
    /\ importCurrent >= j         \* bound: the request ended
    /\ importJob' = [importJob EXCEPT ![j] = "running"]
    /\ importAt' = [importAt EXCEPT ![j] = "between"]
    /\ Holds(j, state)
    /\ UNCHANGED <<run, importDraft, importTodo, ids, created, item, importAsked, told>>

\* A review as the handler's session sees it.
ReviewOf(j, g) == IF importDraft[j][g] = "same" THEN importReview[g] ELSE importDraft[j][g]

\* A commit of the handler's session, and with it whatever it drafted.
Commits(j) ==
    /\ ImportMayWrite(j)
    /\ importReview' = [g \in Groups |-> ReviewOf(j, g)]
    /\ importDraft' = [importDraft EXCEPT ![j] = Same]

\* The locals of a handler go with its execution.
Leaves(j) ==
    /\ importAt' = [importAt EXCEPT ![j] = "ended"]
    /\ item' = [item EXCEPT ![j] = None] /\ created' = [created EXCEPT ![j] = None]
    /\ importTodo' = [importTodo EXCEPT ![j] = {}] /\ ids' = [ids EXCEPT ![j] = {}]
    /\ Holds(j, FreshSession)

ImportEnds(j, how) ==
    /\ Leaves(j)
    /\ importJob' = [importJob EXCEPT ![j] = how]
    /\ UNCHANGED <<importCurrent, print, matched, planned, importAsked, told>>

CancelSession(j) ==
    /\ Store(seen[j], ClosedSession(seen[j]))
    /\ Commits(j)
    /\ ImportEnds(j, "cancelled")

Before(s) == {r \in Stages : \E a, b \in 1..4 : a < b /\ Order[a] = r /\ Order[b] = s}

BeginStage(j, s) ==
    /\ importAt[j] = "between"
    /\ importJob[j] \in Driving
    /\ seen[j][s] # "done" /\ \A r \in Before(s) : seen[j][r] = "done"
    /\ Store(seen[j], [seen[j] EXCEPT !.session = NameOf(s), ![s] = "running"])
    /\ Holds(j, [seen[j] EXCEPT !.session = NameOf(s), ![s] = "running"])
    /\ Commits(j)
    /\ importAt' = [importAt EXCEPT ![j] = s]
    /\ importTodo' = [importTodo EXCEPT ![j] =
                          CASE s = "fingerprint" -> {t \in Tracks : print[t] = "none"}
                            [] s = "match" -> Groups \ matched
                            [] OTHER -> {}]
    /\ ids' = [ids EXCEPT ![j] = {}]
    /\ created' = [created EXCEPT ![j] = None]
    /\ UNCHANGED <<importJob, importCurrent, print, matched, planned, item, importAsked, told>>

\* The token is polled at intervals: a request may go unseen here.
CancelBetween(j) ==
    /\ importAt[j] = "between"
    /\ Requested(j)
    /\ CancelSession(j)

\* The end of a stage asks without an interval.
Finishes(j, s, rows) ==
    IF Requested(j)
    THEN /\ Store(rows, ClosedSession(rows))
         /\ Commits(j)
         /\ ImportEnds(j, "cancelled")
    ELSE /\ Store(rows, [rows EXCEPT ![s] = "done"])
         /\ Holds(j, [rows EXCEPT ![s] = "done"])
         /\ Commits(j)
         /\ importAt' = [importAt EXCEPT ![j] = "between"]
         /\ UNCHANGED <<importJob, importCurrent, print, matched, planned, importTodo, ids,
                        created, item, importAsked, told>>

\* Scan and group expire what the handler holds.
EndQuickStage(j, s) ==
    /\ importAt[j] = s /\ s \in {"scan", "group"}
    /\ Finishes(j, s, state)

\* The running scan itself notices the request.
CancelScan(j) ==
    /\ importAt[j] = "scan" /\ Requested(j)
    /\ CancelSession(j)

StageFails(j, s) ==
    /\ importAt[j] = s
    /\ Store(seen[j], [seen[j] EXCEPT !.session = "failed", ![s] = "failed"])
    /\ Commits(j)
    /\ ImportEnds(j, IF Requested(j) THEN "cancelled" ELSE "failed")

Review(j) ==
    /\ importAt[j] = "between"
    /\ importJob[j] \in Driving
    /\ \A s \in Stages : seen[j][s] = "done"
    /\ Store(seen[j], [seen[j] EXCEPT !.session = "reviewing"])
    /\ Commits(j)
    /\ ImportEnds(j, "succeeded")

-----------------------------------------------------------------------------
(* The fingerprint stage, handle_fingerprint.                               *)

FingerprintOne(j, t) ==
    /\ importAt[j] = "fingerprint" /\ t \in importTodo[j]
    /\ ImportMayWrite(j)
    /\ importTodo' = [importTodo EXCEPT ![j] = @ \ {t}]
    /\ \/ UNCHANGED print                                        \* unreadable
       \/ ~Requested(j) /\ print' = [print EXCEPT ![t] = "done"]
    /\ UNCHANGED <<state, importCurrent, matched, importReview, planned, importAt, seen,
                   importDraft, ids, created, importJob, item, importAsked, told>>

\* The lookup raises, after the fingerprint was assigned to the track: the
\* orchestrator commits the failure of the stage in the same session.
LookupFails(j, t) ==
    /\ importAt[j] = "fingerprint" /\ t \in importTodo[j]
    /\ Store(seen[j], [seen[j] EXCEPT !.session = "failed", !.fingerprint = "failed"])
    /\ Commits(j)
    /\ print' = [print EXCEPT ![t] = "failed"]
    /\ Leaves(j)
    /\ importJob' = [importJob EXCEPT ![j] = IF Requested(j) THEN "cancelled" ELSE "failed"]
    /\ UNCHANGED <<importCurrent, matched, planned, importAsked, told>>

CancelFingerprint(j) ==
    /\ importAt[j] = "fingerprint" /\ importTodo[j] # {} /\ Requested(j)
    /\ CancelSession(j)

EndFingerprint(j) ==
    /\ importAt[j] = "fingerprint" /\ importTodo[j] = {}
    /\ Finishes(j, "fingerprint", seen[j])

-----------------------------------------------------------------------------
(* The match stage, handle_match.                                           *)

\* The stable review of the next work unit, before the network is asked.
PrepareReview(j, g) ==
    /\ importAt[j] = "match" /\ g \in importTodo[j]
    /\ IF ReviewOf(j, g) # "none" THEN UNCHANGED <<importDraft, created>>
       ELSE /\ ImportMayWrite(j)
            /\ importDraft' = [importDraft EXCEPT ![j][g] = "prepared"]
            /\ created' = [created EXCEPT ![j] = g]
    /\ importAt' = [importAt EXCEPT ![j] = "proposes"]
    /\ importTodo' = [importTodo EXCEPT ![j] = @ \ {g}]
    /\ item' = [item EXCEPT ![j] = g]
    /\ UNCHANGED <<run, seen, ids, importJob, importAsked, told>>

\* A request seen at the head of the loop: what was drafted is kept, by the
\* commit that cancels the session.
CancelNext(j) ==
    /\ importAt[j] = "match" /\ importTodo[j] # {} /\ Requested(j)
    /\ CancelSession(j)

\* A request seen after the network answered: the transaction is rolled back, and
\* the review created last deleted if it was committed after all.
CancelAfterFetch(j, g) ==
    /\ importAt[j] \in {"proposes", "hydrates"} /\ item[j] = g
    /\ Requested(j)
    /\ ImportMayWrite(j)
    /\ importReview' = [c \in Groups |-> IF c = created[j] THEN "none" ELSE importReview[c]]
    /\ importDraft' = [importDraft EXCEPT ![j] = Same]
    /\ Store(state, ClosedSession(state))
    /\ ImportEnds(j, "cancelled")

\* No candidate, or none strong enough: the review needs attention, the work unit
\* stays unmatched, nothing is committed.
NeedsAttention(j, g) ==
    /\ importAt[j] = "proposes" /\ item[j] = g
    /\ ~Requested(j)
    /\ ImportMayWrite(j)
    /\ importDraft' = [importDraft EXCEPT ![j][g] = "attention"]
    /\ importAt' = [importAt EXCEPT ![j] = "match"]
    /\ UNCHANGED <<run, seen, importTodo, ids, created, importJob, item, importAsked, told>>

Strong(j, g) ==
    /\ importAt[j] = "proposes" /\ item[j] = g
    /\ ~Requested(j)
    /\ importAt' = [importAt EXCEPT ![j] = "hydrates"]
    /\ UNCHANGED <<run, seen, importDraft, importTodo, ids, created, importJob, item,
                   importAsked, told>>

\* Mutant: the identity of a committed review is kept for the next item.
ComposeKeeps(j, g) ==
    /\ importAt[j] = "hydrates" /\ item[j] = g
    /\ ~Requested(j)
    /\ ImportMayWrite(j)
    /\ importReview' = [c \in Groups |->
                            IF c = g THEN "candidate" ELSE ReviewOf(j, c)]
    /\ importDraft' = [importDraft EXCEPT ![j] = Same]
    /\ matched' = matched \cup {g}
    /\ ids' = [ids EXCEPT ![j] = @ \cup {g}]
    /\ importAt' = [importAt EXCEPT ![j] = "match"]
    /\ UNCHANGED <<state, importCurrent, print, planned, seen, importTodo, created, importJob,
                   item, importAsked, told>>

\* The candidate, or the failure to get it, and every draft before it.
Compose(j, g) ==
    /\ importAt[j] = "hydrates" /\ item[j] = g
    /\ ~Requested(j)
    /\ ImportMayWrite(j)
    /\ \E found \in {"candidate", "attention"} :
           importReview' = [c \in Groups |->
                                IF c = g THEN found ELSE ReviewOf(j, c)]
    /\ importDraft' = [importDraft EXCEPT ![j] = Same]
    /\ matched' = matched \cup {g}
    /\ ids' = [ids EXCEPT ![j] = @ \cup {g}]
    /\ created' = [created EXCEPT ![j] = None]
    /\ importAt' = [importAt EXCEPT ![j] = "match"]
    /\ UNCHANGED <<state, importCurrent, print, planned, seen, importTodo, importJob, item,
                   importAsked, told>>

\* The enrichment of this run's reviews, with their pending attempts.
EndMatch(j) ==
    /\ importAt[j] = "match" /\ importTodo[j] = {}
    /\ ImportMayWrite(j)
    /\ IF Requested(j)
       THEN /\ importDraft' = [importDraft EXCEPT ![j] = Same]
            /\ Store(state, ClosedSession(state))
            /\ UNCHANGED <<importReview, planned>>
            /\ Leaves(j)
            /\ importJob' = [importJob EXCEPT ![j] = "cancelled"]
       ELSE /\ IF ids[j] # {} THEN Commits(j) ELSE UNCHANGED <<importReview, importDraft>>
            /\ planned' = planned \cup ids[j]
            /\ importAt' = [importAt EXCEPT ![j] = "matched"]
            /\ UNCHANGED <<state, seen, importJob, importTodo, ids, created, item>>
    /\ UNCHANGED <<importCurrent, print, matched, importAsked, told>>

LeaveMatch(j) ==
    /\ importAt[j] = "matched"
    /\ Finishes(j, "match", seen[j])

-----------------------------------------------------------------------------
\* The process dies and recovery requeues the job, or settles its cancellation.
ImportDies(j) ==
    /\ importJob[j] \in Driving
    /\ importJob' = [importJob EXCEPT ![j] = IF @ = "cancelling" THEN "cancelled" ELSE "pending"]
    /\ Leaves(j)
    /\ importDraft' = [importDraft EXCEPT ![j] = Same]
    /\ UNCHANGED <<run, importAsked, told>>

-----------------------------------------------------------------------------

ImportsInit ==
    /\ state = FreshSession /\ importCurrent = 0
    /\ importJob = [j \in ImportJobs |-> "none"]
    /\ importAt = [j \in ImportJobs |-> "ended"]
    /\ item = [j \in ImportJobs |-> None]
    /\ seen = [j \in ImportJobs |-> FreshSession]
    /\ print = [t \in Tracks |-> "none"]
    /\ matched = {} /\ importReview = [g \in Groups |-> "none"]
    /\ importDraft = [j \in ImportJobs |-> Same]
    /\ importTodo = [j \in ImportJobs |-> {}] /\ ids = [j \in ImportJobs |-> {}]
    /\ created = [j \in ImportJobs |-> None]
    /\ planned = {} /\ importAsked = None /\ told = None
    /\ finished = {} /\ overlapped = FALSE /\ stops = 0

Match(j) ==
    \/ \E g \in Groups :
           \/ PrepareReview(j, g) \/ CancelAfterFetch(j, g) \/ NeedsAttention(j, g)
           \/ Strong(j, g) \/ Compose(j, g)
    \/ CancelNext(j) \/ EndMatch(j) \/ LeaveMatch(j)

Fingerprint(j) ==
    \/ \E t \in Tracks : FingerprintOne(j, t) \/ LookupFails(j, t)
    \/ CancelFingerprint(j) \/ EndFingerprint(j)

Orchestrate(j) ==
    \/ \E s \in Stages : BeginStage(j, s) \/ EndQuickStage(j, s) \/ StageFails(j, s)
    \/ CancelBetween(j) \/ CancelScan(j) \/ Review(j)

\* Two work on the session at once: two handlers, or one while a cancellation of
\* another job is told.
Overlaps ==
    \E j \in ImportJobs :
        /\ importAt[j] # "ended"
        /\ told # None \/ \E i \in ImportJobs \ {j} : importAt[i] # "ended"

Remembers ==
    /\ finished' = finished \cup {s \in Stages : state'[s] = "done"}
    /\ overlapped' = (overlapped \/ Overlaps')

ImportStep(j) ==
    \/ ImportEnqueue(j) \/ Link(j) \/ PropagateReads(j) \/ PropagateWrites(j)
    \/ ImportLease(j) \/ Orchestrate(j) \/ Fingerprint(j) \/ Match(j)

Stops(j) == stops < MaxStops /\ (Cancel(j) \/ ImportDies(j))

ImportsNext ==
    /\ \E j \in ImportJobs :
           \/ ImportStep(j) /\ UNCHANGED stops
           \/ Stops(j) /\ stops' = stops + 1
    /\ Remembers

ImportsSpec == ImportsInit /\ [][ImportsNext]_importsVars

-----------------------------------------------------------------------------
(* Properties.                                                              *)

ImportsTypeOK ==
    /\ DOMAIN state = SessionFields /\ importCurrent \in ImportJobs \cup {0}
    /\ matched \subseteq Groups /\ planned \subseteq matched
    /\ \A j \in ImportJobs : importDraft[j] \in [Groups -> {"same", "prepared", "attention"}]
    /\ finished \subseteq Stages /\ overlapped \in BOOLEAN /\ stops \in 0..MaxStops

\* A work unit leaves the automatic matching only with a review that shows what
\* was found, and no later cancellation, retry or crash takes that review away.
ProposedIsVisible == \A g \in matched : importReview[g] \in {"candidate", "attention"}

\* A stage that was completed is not run again: its task stops being done only when
\* two have worked on the session at once, and then by one that had read the session
\* before the stage was done.
KeepsDone ==
    \A s \in Stages : state[s] = "done" /\ state'[s] # "done" =>
        /\ overlapped
        /\ \/ \E j \in ImportJobs : importAt[j] # "ended" /\ seen[j][s] # "done"
           \/ told # None /\ told[s] # "done"

\* A session under review had all its stages, however many jobs drove it; and they
\* are still done unless two worked on it at once.
ReviewingIsComplete ==
    state.session = "reviewing" =>
        /\ finished = Stages
        /\ overlapped \/ \A s \in Stages : state[s] = "done"

\* One import job orchestrates the session (db/models.py:982-984).
OneOrchestrator == Cardinality({j \in ImportJobs : importAt[j] # "ended"}) <= 1

\* A caller does not see a cancelled job while the session it drove goes on
\* (services/jobs.py:334-339).
CancelledSessionSettles ==
    (importAsked = None /\ importCurrent # 0 /\ importJob[importCurrent] = "cancelled"
        /\ \A j \in ImportJobs : importJob[j] \notin Driving \cup {"pending"})
        => state.session \in {"cancelled", "failed", "reviewing"}

\* The failure of a lookup stays distinct from an answer without results
\* (docs/product-spec.md:141-143): before the stage is done, the track is looked up again.
FailedLookupIsRetried ==
    state.fingerprint = "done" => \A t \in Tracks : print[t] # "failed"

\* A session under review has planned the enrichment of all its proposals.
ProposalsAreEnriched == state.session = "reviewing" => matched \subseteq planned
=============================================================================
