-------------------------------- MODULE Inbox --------------------------------
(***************************************************************************)
(* The inbox (pipeline/reviews.py): a row per review, rewritten by every    *)
(* operation from the review as its session holds it, listed in pages by a  *)
(* key that operations change, and walked from one review to the next.      *)
(*                                                                         *)
(* A session keeps what it loaded; a SELECT of the same row does not renew  *)
(* it.  The lifecycle itself is in Reviews; texts and counts of the row are *)
(* left out.                                                               *)
(***************************************************************************)
EXTENDS Integers, Sequences, SequencesExt, Orders

CONSTANTS
    Reviewed,  \* ids of reviews
    Sectioned, \* reviews with an optional section
    Sessions,  \* of requests and of workers
    PageSize,
    Edited,    \* bound: the reviews sessions edit
    MaxTries   \* bound: attempts of a section

ASSUME InboxConstantsAssumption ==
    /\ Reviewed \subseteq Nat /\ IsFiniteSet(Reviewed) /\ Edited \subseteq Reviewed
    /\ PageSize \in Nat \ {0} /\ MaxTries \in Nat

VARIABLES
    bundle,  \* ReviewBundle: state, error, states of the attempts of its section, collision
    entry,   \* ReviewInboxEntry
    held,    \* the review each session has loaded
    walk     \* a user going through the pages: the key of the last row, how often each review
             \* was listed where it is, those whose key changed meanwhile

inboxVars == <<bundle, entry, held, walk>>

OpenStates == {"preparing", "ready", "needs_attention"}
StateRank ==
    [needs_attention |-> 0, failed |-> 0, preparing |-> 1, ready |-> 2, applying |-> 3,
     partially_applied |-> 4, applied |-> 5, discarded |-> 6]

Unloaded == [b |-> 0]
AtTop    == [after |-> <<>>, listed |-> [b \in Reviewed |-> 0], moved |-> {}, end |-> FALSE]

FailedTry(r) == r.tries # <<>> /\ Last(r.tries) = "failed"

\* _review_issues, of which the row keeps the first.
Issue(r) ==
    LET anyTry == "failed" \in ToSet(r.tries) IN
    IF r.error \in {"apply", "skip"} \/ (r.error = "task" /\ ~anyTry) THEN "review"
    ELSE IF anyTry THEN "task"
    ELSE IF r.collision THEN "collision"
    ELSE "none"

Projection(r) == [state |-> r.state, issue |-> Issue(r)]

\* _sync_inbox_state of an Apply.
Synced(r) == [state |-> r.state, issue |-> IF r.error = "none" THEN "none" ELSE "review"]

-----------------------------------------------------------------------------
(* The list.                                                                *)

IssueRank(e)  == IF e.issue = "none" THEN 1 ELSE 0
SortKey(e, b) == <<IssueRank(e[b]), StateRank[e[b].state], b>>
Shown(e)      == {b \in Reviewed : e[b].state \notin {"applied", "discarded"}}

KeyBefore(k, l) ==
    \/ k[1] < l[1]
    \/ k[1] = l[1] /\ k[2] < l[2]
    \/ k[1] = l[1] /\ k[2] = l[2] /\ k[3] < l[3]

Following(e, after) == {b \in Shown(e) : after = <<>> \/ KeyBefore(after, SortKey(e, b))}

ByKey(e, S) == {p \in S \X S : KeyBefore(SortKey(e, p[1]), SortKey(e, p[2]))}

InOrder(e, S) == Arrange(S, ByKey(e, S))

\* list_review_bundles: one row more tells whether there is another page.
ListPage ==
    /\ ~walk.end
    /\ LET found == InOrder(entry, Following(entry, walk.after))
           page  == SubSeq(found, 1, IF Len(found) > PageSize THEN PageSize ELSE Len(found))
       IN walk' = [walk EXCEPT
                      !.listed = [b \in Reviewed |->
                                     IF b \in ToSet(page) \ walk.moved THEN @[b] + 1 ELSE @[b]],
                      !.end    = Len(found) <= PageSize,
                      !.after  = IF page = <<>> THEN @ ELSE SortKey(entry, Last(page))]
    /\ UNCHANGED <<bundle, entry, held>>

Restart ==
    /\ walk # AtTop
    /\ walk' = AtTop
    /\ UNCHANGED <<bundle, entry, held>>

FirstOf(e, S) == IF S = {} THEN 0 ELSE InOrder(e, S)[1]
LastOf(e, S)  == IF S = {} THEN 0 ELSE Last(InOrder(e, S))

Previous(e, b) == LastOf(e, {a \in Shown(e) : KeyBefore(SortKey(e, a), SortKey(e, b))})

ReviewNeighbors(e, b) ==
    [previous   |-> Previous(e, b),
     next       |-> FirstOf(e, Following(e, SortKey(e, b))),
     unreviewed |-> FirstOf(e, {a \in Following(e, SortKey(e, b)) :
                                 e[a].state \in {"ready", "needs_attention"}})]

-----------------------------------------------------------------------------
(* What changes reviews.                                                    *)

\* The row of b is written; a walk remembers that b is elsewhere now, and not where it was.
WriteEntry(b, r) ==
    /\ entry' = [entry EXCEPT ![b] = r]
    /\ walk' = IF SortKey(entry', b) = SortKey(entry, b) THEN walk
               ELSE [walk EXCEPT !.moved = @ \cup {b}, !.listed[b] = 0]

\* get_review_bundle: what a request shows and goes on from.
LoadReview(s, b) ==
    /\ b \in Edited /\ held[s] = Unloaded /\ bundle[b].state \in OpenStates
    /\ held' = [held EXCEPT ![s] = [b |-> b, copy |-> bundle[b]]]
    /\ UNCHANGED <<bundle, entry, walk>>

CloseSession(s) ==
    /\ held[s] # Unloaded
    /\ held' = [held EXCEPT ![s] = Unloaded]
    /\ UNCHANGED <<bundle, entry, walk>>

\* put_revision and transition_bundle: a revision of a review that is not open aborts.
ComposeReview(s, collision) ==
    /\ held[s] # Unloaded
    /\ LET b == held[s].b
           composed == [held[s].copy EXCEPT !.collision = collision, !.state = "ready"]
       IN  /\ {held[s].copy.state, bundle[b].state} \subseteq OpenStates
           /\ bundle' = [bundle EXCEPT ![b].collision = collision,
                  ![b].state = IF held[s].copy.state = "ready" THEN @ ELSE "ready"]
           /\ held' = [held EXCEPT ![s].copy = composed]
           /\ WriteEntry(b, Projection(composed))

\* Every other write renews the copy it writes from.
Changes(b, r) ==
    /\ bundle' = [bundle EXCEPT ![b] = r]
    /\ WriteEntry(b, Projection(r))
    /\ UNCHANGED held

PlanSection(b) ==
    /\ b \in Sectioned /\ bundle[b].state \in OpenStates
    /\ Len(bundle[b].tries) < MaxTries
    /\ bundle[b].tries # <<>> => Last(bundle[b].tries) \notin {"running"}
    /\ Changes(b, [bundle[b] EXCEPT !.tries = Append(@, "running")])

FinishSection(b, outcome) ==
    /\ bundle[b].tries # <<>> /\ Last(bundle[b].tries) = "running"
    /\ LET done == [bundle[b] EXCEPT !.tries[Len(bundle[b].tries)] = outcome]
       IN  Changes(b, IF done.state \notin OpenStates THEN done
                      ELSE IF FailedTry(done)
                      THEN [done EXCEPT !.state = "needs_attention", !.error = "task"]
                      ELSE [done EXCEPT !.state = "ready", !.error = "none"])

SkipReview(b) ==
    /\ bundle[b].state \in OpenStates
    /\ Changes(b, [bundle[b] EXCEPT !.state = "discarded", !.error = "skip"])

\* The last decision that rejects an operation, and the first that does not.
RejectAll(b) ==
    /\ bundle[b].state \in OpenStates
    /\ Changes(b, [bundle[b] EXCEPT !.state = "discarded"])

Reopen(b) ==
    /\ bundle[b].state = "discarded"
    /\ Changes(b, [bundle[b] EXCEPT
           !.state = IF FailedTry(bundle[b]) THEN "needs_attention" ELSE "ready"])

StartApply(b) ==
    /\ bundle[b].state \in {"ready", "needs_attention", "failed"}
    /\ Changes(b, [bundle[b] EXCEPT !.state = "applying"])

EndApply(b, outcome) ==
    /\ bundle[b].state = "applying"
    /\ bundle' = [bundle EXCEPT ![b].state = outcome,
                                ![b].error = IF outcome = "applied" THEN "none" ELSE "apply"]
    /\ WriteEntry(b, Synced(bundle'[b]))
    /\ UNCHANGED held

NewReview == [state |-> "preparing", error |-> "none", tries |-> <<>>, collision |-> FALSE]

InboxInit ==
    /\ bundle = [b \in Reviewed |-> NewReview]
    /\ entry = [b \in Reviewed |-> Projection(NewReview)]
    /\ held = [s \in Sessions |-> Unloaded]
    /\ walk = AtTop

InboxNext ==
    \/ ListPage \/ Restart
    \/ \E s \in Sessions, b \in Reviewed : LoadReview(s, b)
    \/ \E s \in Sessions : CloseSession(s)
    \/ \E s \in Sessions, collision \in BOOLEAN : ComposeReview(s, collision)
    \/ \E b \in Reviewed : PlanSection(b)
    \/ \E b \in Reviewed, outcome \in {"succeeded", "failed"} : FinishSection(b, outcome)
    \/ \E b \in Reviewed : SkipReview(b)
    \/ \E b \in Reviewed : RejectAll(b)
    \/ \E b \in Reviewed : Reopen(b)
    \/ \E b \in Reviewed : StartApply(b)
    \/ \E b \in Reviewed, outcome \in {"applied", "failed"} : EndApply(b, outcome)

InboxSpec == InboxInit /\ [][InboxNext]_inboxVars

-----------------------------------------------------------------------------
(* What the inbox promises.                                                 *)

InboxTypeOK ==
    /\ \A b \in Reviewed : /\ bundle[b].state \in DOMAIN StateRank
                           /\ entry[b].issue \in {"none", "task", "review", "collision"}
    /\ \A s \in Sessions : held[s] # Unloaded => held[s].b \in Reviewed
    /\ walk.moved \subseteq Reviewed /\ walk.listed \in [Reviewed -> Nat]

\* A walk through the pages (list_review_bundles) lists a review at most once, and one it did
\* not move lists it exactly once when shown: whatever happens to the reviews around it.
UnmovedListedOnce ==
    \A b \in Reviewed \ walk.moved :
        /\ walk.listed[b] <= 1
        /\ walk.end /\ b \in Shown(entry) => walk.listed[b] = 1

\* Going forth and back between reviews (review_neighbors) is going through the list.
NeighborsFollowList ==
    LET list == InOrder(entry, Shown(entry)) IN
    \A i \in DOMAIN list :
        LET beside == ReviewNeighbors(entry, list[i]) IN
        /\ beside.next = (IF i = Len(list) THEN 0 ELSE list[i + 1])
        /\ beside.previous = (IF i = 1 THEN 0 ELSE list[i - 1])

\* "the inbox never presents a stale candidate/state" (pipeline/reviews.py:537).
InboxNeverStale == \A b \in Reviewed : entry[b].state = bundle[b].state

\* A section repeated with success is no issue any more.
IssueIsCurrent == \A b \in Reviewed : entry[b].issue = "task" => FailedTry(bundle[b])
===============================================================================
