------------------------------ MODULE Enrichment ------------------------------
(***************************************************************************)
(* The optional sections of a review (jobs/handlers/enrich_*.py,            *)
(* pipeline/enrichment.py): one job of covers, lyrics or ReplayGain works   *)
(* through the reviews, asks a provider or rsgain for each, and adds what   *)
(* it found to the review, while the user discards reviews, cancels the     *)
(* job and retries what failed.                                             *)
(*                                                                         *)
(* How a review changes is in Reviews, how the job is leased, recovered and *)
(* ended in JobQueue, what the cached call answers in Gateway.              *)
(***************************************************************************)
EXTENDS Naturals, FiniteSets

CONSTANTS
    Items,           \* the reviews, each with one item
    CoverProviders,  \* of covers
    MaxJobs          \* bound: jobs and recoveries of jobs

ASSUME EnrichmentConstantsAssumption == "none" \notin Items /\ MaxJobs \in Nat

Kinds == {"cover", "lyrics", "replaygain"}

VARIABLES
    kind,      \* of the section; fixed
    review,    \* "open" or "discarded"
    proposed,  \* the revision has an operation of this kind
    attempt,   \* the latest TaskAttempt of each item
    job, cancel, todo,
    at,        \* the item in work, and how far
    asked,     \* the providers asked for it, with what they answered
    draft,     \* attempt state the session has not committed, "none" if it wrote nothing
    jobs       \* history: jobs and recoveries so far

reviews        == <<review, proposed>>
working        == <<at, asked, draft>>
enrichmentVars == <<kind, reviews, attempt, job, cancel, todo, working, jobs>>

Unfinished == {"pending", "running"}
Nowhere    == [item |-> "none", step |-> "idle"]
Nothing    == [p \in CoverProviders |-> "unasked"]

\* The session holds the writer reservation of SQLite.
Writing == draft # "none"

\* Others write the database while this session does not hold it.
MayWrite == ~Writing

Sources == IF kind = "cover" THEN CoverProviders ELSE {CHOOSE p \in CoverProviders : TRUE}

-----------------------------------------------------------------------------
(* The user.                                                                *)

Discard(i) ==
    /\ MayWrite /\ review[i] = "open"
    /\ review' = [review EXCEPT ![i] = "discarded"]
    /\ UNCHANGED <<kind, proposed, attempt, job, cancel, todo, working, jobs>>

Reopen(i) ==
    /\ MayWrite /\ review[i] = "discarded"
    /\ review' = [review EXCEPT ![i] = "open"]
    /\ UNCHANGED <<kind, proposed, attempt, job, cancel, todo, working, jobs>>

Idle == job \notin {"pending", "running"} /\ jobs < MaxJobs

Enqueued == job' = "pending" /\ cancel' = FALSE /\ jobs' = jobs + 1

EnrichmentEnqueue ==
    /\ MayWrite /\ Idle
    /\ Enqueued
    /\ todo' = {i \in Items : review[i] = "open"}
    /\ UNCHANGED <<kind, reviews, attempt, working>>

Retry(i) ==
    /\ MayWrite /\ Idle
    /\ attempt[i] = "transient_failure" /\ review[i] = "open"
    /\ Enqueued
    /\ todo' = {i}
    /\ attempt' = [attempt EXCEPT ![i] = "pending"]
    /\ UNCHANGED <<kind, reviews, working>>

\* _finish_active_review_tasks
Settled(outcome) == [i \in Items |-> IF attempt[i] \in Unfinished THEN outcome ELSE attempt[i]]

\* Of a job that stopped in the handler.
Closed(outcome) == Settled(outcome)

JobEnds(end, outcome) ==
    /\ job' = end
    /\ attempt' = Closed(outcome)
    /\ at' = Nowhere /\ asked' = Nothing /\ draft' = "none" /\ todo' = {}
    /\ UNCHANGED <<kind, reviews, cancel, jobs>>

CancelPending ==
    /\ MayWrite /\ job = "pending"
    /\ JobEnds("cancelled", "cancelled")

AskCancel ==
    /\ MayWrite /\ job = "running" /\ ~cancel
    /\ cancel' = TRUE
    /\ UNCHANGED <<kind, reviews, attempt, job, todo, working, jobs>>

-----------------------------------------------------------------------------
(* The handler.                                                             *)

Lease ==
    /\ job = "pending"
    /\ job' = "running"
    /\ UNCHANGED <<kind, reviews, attempt, cancel, todo, working, jobs>>

Between == job = "running" /\ at.step = "idle"

CancelSeen == Between /\ cancel /\ todo # {} /\ JobEnds("cancelled", "cancelled")

Skip(i) ==
    /\ Between /\ i \in todo /\ review[i] # "open"
    /\ todo' = todo \ {i}
    /\ UNCHANGED <<kind, reviews, attempt, job, cancel, working, jobs>>

\* start_task_attempt, committed by the handlers of covers and lyrics only.
Begun(i) ==
    IF kind = "replaygain" THEN draft' = "running" /\ UNCHANGED attempt
    ELSE attempt' = [attempt EXCEPT ![i] = "running"] /\ UNCHANGED draft

Begin(i) ==
    /\ Between /\ ~cancel /\ i \in todo /\ review[i] = "open"
    /\ Begun(i)
    /\ at' = [item |-> i, step |-> "fetch"]
    /\ asked' = Nothing
    /\ UNCHANGED <<kind, reviews, job, cancel, todo, jobs>>

Answer(p, got) == asked' = [asked EXCEPT ![p] = got]

Unanswered(p) == at.step = "fetch" /\ p \in Sources /\ asked[p] = "unasked"

\* A provider is asked when those before it had no result; the first result counts.
MayAsk(p) ==
    /\ Unanswered(p)
    /\ \A q \in Sources : asked[q] \notin {"some", "refs"}

\* The call answers; what it put in the cache is not committed.  Of a cover this is
\* where the picture is.
Fetched(p) ==
    /\ MayAsk(p)
    /\ \/ Answer(p, IF kind = "cover" THEN "refs" ELSE "some")
       \/ Answer(p, "nothing")
    /\ draft' = IF kind = "replaygain" THEN draft ELSE "running"
    /\ UNCHANGED <<kind, reviews, attempt, job, cancel, todo, at, jobs>>

\* The same from the cache.
FetchedFromCache(p) ==
    /\ MayAsk(p) /\ kind # "replaygain"
    /\ Answer(p, IF kind = "cover" THEN "refs" ELSE "some")
    /\ UNCHANGED <<kind, reviews, attempt, job, cancel, todo, at, draft, jobs>>

FetchFails(p) ==
    /\ MayAsk(p)
    /\ Answer(p, "error")
    /\ UNCHANGED <<kind, reviews, attempt, job, cancel, todo, at, draft, jobs>>

Downloaded(p) ==
    /\ at.step = "fetch" /\ asked[p] = "refs"
    /\ Answer(p, "some") /\ draft' = "running"
    /\ UNCHANGED <<kind, reviews, attempt, job, cancel, todo, at, jobs>>

\* A picture that cannot be had is passed over.
DownloadFails(p) ==
    /\ at.step = "fetch" /\ asked[p] = "refs"
    /\ Answer(p, "lost")
    /\ UNCHANGED <<kind, reviews, attempt, job, cancel, todo, at, draft, jobs>>

Found    == \E p \in Sources : asked[p] = "some"
Answered == Found \/ \A p \in Sources : asked[p] \in {"nothing", "error", "lost"}
Failed   == ~Found /\ \E p \in Sources : asked[p] = "error"

\* Mutant: a failed provider is forgotten when the others had nothing.
OutcomeForgets == {IF Found THEN "succeeded" ELSE "not_found"}

\* The outcomes of an attempt.
Outcome ==
    CASE Found /\ kind = "cover" -> {"succeeded", "not_found"}   \* no track lacks one
      [] Found -> {"succeeded"}
      [] Failed /\ kind = "lyrics" -> {"transient_failure", "permanent_failure"}
      [] Failed -> {"transient_failure"}
      [] kind = "replaygain" -> {"permanent_failure"}
      [] OTHER -> {"not_found"}

\* The handlers look for a cancel before they store a result, and of lyrics before
\* they store that there are none.
CancelBeforeStore ==
    /\ at.step = "fetch" /\ Answered /\ cancel
    /\ Found \/ (kind = "lyrics" /\ ~Failed) \/ (kind = "replaygain" /\ ~Failed)
    /\ JobEnds("cancelled", "cancelled")

\* Of lyrics from the cache, add_operations reads the review with no transaction open.
PromotionReads ==
    /\ at.step = "fetch" /\ Answered /\ Found /\ ~Writing
    /\ at' = [item |-> at.item,
              step |-> IF review[at.item] = "open" THEN "promotes" ELSE "passed"]
    /\ UNCHANGED <<kind, reviews, attempt, job, cancel, todo, asked, draft, jobs>>

\* What _refresh_bundle_task_state reads, when nothing was written before it: there
\* is no result, it is not for a discarded review, or the revision has it already.
OutcomeReads ==
    /\ ~Writing
    /\ \/ at.step = "fetch" /\ Answered /\ ~Found
       \/ at.step = "passed"
       \/ at.step = "promotes" /\ proposed[at.item]
    /\ at' = [item |-> at.item,
              step |-> IF review[at.item] = "open" THEN "settles" ELSE "archived"]
    /\ UNCHANGED <<kind, reviews, attempt, job, cancel, todo, asked, draft, jobs>>

\* The section is added and the state of the review seen in the transaction that
\* writes both; the revision of a discarded review is frozen by a trigger.
StoresAtOnce(outcome) ==
    /\ \/ at.step = "fetch" /\ Answered /\ Writing
       \/ at.step = "promotes" /\ review[at.item] = "open"
    /\ proposed' = [proposed EXCEPT
          ![at.item] = @ \/ (outcome = "succeeded" /\ review[at.item] = "open")]
    /\ UNCHANGED review

\* The flush assigns the state decided by what was read, by the id of the review.
StoresAsRead ==
    /\ at.step \in {"settles", "archived"}
    /\ \/ UNCHANGED review
       \/ at.step = "settles" /\ review' = [review EXCEPT ![at.item] = "open"]
    /\ UNCHANGED proposed

StoreResult ==
    /\ \E outcome \in Outcome :
           /\ StoresAtOnce(outcome) \/ StoresAsRead
           /\ attempt' = [attempt EXCEPT ![at.item] = outcome]
    /\ todo' = todo \ {at.item}
    /\ at' = Nowhere /\ draft' = "none"
    /\ UNCHANGED <<kind, job, cancel, asked, jobs>>

HandlerEnds ==
    /\ Between /\ todo = {}
    /\ IF cancel THEN JobEnds("cancelled", "cancelled")
       ELSE JobEnds("succeeded", "permanent_failure")

\* All groups failed, or something unforeseen was raised.
HandlerFails ==
    /\ job = "running"
    /\ IF cancel THEN JobEnds("cancelled", "cancelled") ELSE JobEnds("failed", "transient_failure")

\* The process dies and the lease expires; what was not committed is lost.
CrashAndRecovery ==
    /\ job = "running" /\ jobs < MaxJobs
    /\ job' = IF cancel THEN "cancelled" ELSE "pending"
    /\ attempt' = Settled(IF cancel THEN "cancelled" ELSE "pending")
    /\ at' = Nowhere /\ asked' = Nothing /\ draft' = "none"
    /\ todo' = IF cancel THEN {} ELSE {i \in Items : review[i] = "open"}
    /\ jobs' = jobs + 1
    /\ UNCHANGED <<kind, reviews, cancel>>

EnrichmentInit ==
    /\ kind \in Kinds
    /\ review = [i \in Items |-> "open"]
    /\ proposed = [i \in Items |-> FALSE]
    /\ attempt = [i \in Items |-> "none"]
    /\ job = "none" /\ cancel = FALSE /\ todo = {} /\ jobs = 0
    /\ at = Nowhere /\ asked = Nothing /\ draft = "none"

EnrichmentNext ==
    \/ \E i \in Items : Discard(i) \/ Reopen(i) \/ Retry(i) \/ Skip(i) \/ Begin(i)
    \/ EnrichmentEnqueue \/ CancelPending \/ AskCancel \/ Lease \/ CancelSeen
    \/ \E p \in CoverProviders : \/ Fetched(p) \/ FetchedFromCache(p) \/ FetchFails(p)
                            \/ Downloaded(p) \/ DownloadFails(p)
    \/ CancelBeforeStore \/ PromotionReads \/ OutcomeReads \/ StoreResult
    \/ HandlerEnds \/ HandlerFails \/ CrashAndRecovery

EnrichmentSpec == EnrichmentInit /\ [][EnrichmentNext]_enrichmentVars

-----------------------------------------------------------------------------
(* Properties.                                                              *)

EnrichmentTypeOK ==
    /\ kind \in Kinds /\ job \in {"none", "pending", "running", "succeeded", "failed", "cancelled"}
    /\ review \in [Items -> {"open", "discarded"}] /\ proposed \in [Items -> BOOLEAN]
    /\ attempt \in [Items -> {"none", "pending", "running", "succeeded", "not_found", "cancelled",
                              "transient_failure", "permanent_failure"}]
    /\ cancel \in BOOLEAN /\ todo \subseteq Items /\ jobs \in 0..MaxJobs
    /\ at.step \in {"idle", "fetch", "promotes", "passed", "settles", "archived"}
    /\ at.step = "idle" <=> at.item = "none"
    /\ asked \in [CoverProviders -> {"unasked", "refs", "some", "nothing", "error", "lost"}]
    /\ draft \in {"none", "running"}

Concluded(outcome) ==
    at.step # "idle" /\ at'.step = "idle" /\ job' = "running" /\ attempt'[at.item] = outcome

\* An item that is "not found" was missed by every provider asked: a provider that
\* failed is not reported as one that has nothing.
ReportsFailure ==
    Concluded("not_found") /\ ~Found => \A p \in Sources : asked[p] # "error"

\* The same of a picture whose download failed (docs/product-spec.md:141-143).
LossIsReported ==
    [][Concluded("not_found") /\ ~Found
          => \A p \in Sources : asked[p] \notin {"error", "lost"}]_enrichmentVars

\* What is proposed in a discarded review is not changed by a section that arrives
\* late; and the late section opens the review again only when its handler had read
\* it before the user discarded it.
KeepsRejection ==
    \A i \in Items : review[i] = "discarded" =>
        /\ proposed'[i] = proposed[i]
        /\ review'[i] = "open" /\ at' # at => at.item = i /\ at.step = "settles"

\* No attempt stays pending or running when its job is over: the review would
\* wait for it for ever, and Apply with it.
AttemptsSettle == job \notin {"pending", "running"} => \A i \in Items : attempt[i] \notin Unfinished

\* The writer reservation is not held while the handler waits (db/transactions.py:11-14).
Waiting == at.step = "fetch" /\ ~Answered
ShortReservation(kinds) == kind \in kinds => ~(Waiting /\ Writing)

LyricsReservationIsShort == ShortReservation({"lyrics"})
SectionReservationIsShort == ShortReservation(Kinds)
=============================================================================
