------------------------------ MODULE Retrieval ------------------------------
(***************************************************************************)
(* Retrieval of release candidates (matching/candidates.py): all providers  *)
(* are searched at once, a shortlist over them is hydrated, each answer     *)
(* goes through the semantic cache (providers/cache.py).                    *)
(*                                                                         *)
(* A candidate is its provider and its number; rows of the cache are fresh, *)
(* stale or absent.  Rows of another schema version are absent.             *)
(***************************************************************************)
EXTENDS Naturals, FiniteSets, Sequences

CONSTANTS
    Providers,
    Ids,      \* numbers of candidates
    Answers,  \* what a search may find: sequences of numbers
    HydrateLimit,
    Keepable  \* candidates whose release may be in the cache at first

ASSUME RetrievalConstantsAssumption ==
    /\ IsFiniteSet(Providers) /\ IsFiniteSet(Ids)
    /\ Answers \subseteq Seq(Ids) /\ HydrateLimit \in Nat

VARIABLES
    offline, refresh,  \* the mode of the retrieval
    stage,             \* "search", "hydrate", "done"
    searches,          \* cached search of each provider
    releases,          \* cached release of each candidate
    waits,             \* the calls that wait for the network
    found,             \* result of each search
    truth,             \* history: what the network said of each search
    shortlist,
    full,              \* result of each hydration
    outcome,           \* of each provider
    writing            \* the session holds the writer reservation

mode  == <<offline, refresh>>
cache == <<searches, releases>>
retrievalVars  == <<mode, stage, cache, waits, found, truth, shortlist, full, outcome, writing>>

Candidates == Providers \X Ids
NoRow      == [age |-> "absent", what |-> <<>>]
Row(x)     == [age |-> "fresh", what |-> x]

\* cache_get_fresh and cache_get_stale.
Fresh(row) == row.age = "fresh"
Stale(row) == row.age \in {"fresh", "stale"}

NotHeard == [kind |-> "unknown", refs |-> <<>>]
List(r) == [kind |-> "list", refs |-> r]
SearchError  == [kind |-> "error", refs |-> <<>>]

-----------------------------------------------------------------------------
(* The searches.                                                            *)

Settle(p, result, said) ==
    /\ found' = [found EXCEPT ![p] = result]
    /\ truth' = [truth EXCEPT ![p] = said]
    /\ waits' = waits \ {p}

Search(p) ==
    /\ stage = "search" /\ p \notin waits /\ found[p] = NotHeard
    /\ CASE ~refresh /\ ~offline /\ Fresh(searches[p]) ->
              Settle(p, List(searches[p].what), "unasked")
         [] offline ->
              Settle(p, IF Stale(searches[p]) THEN List(searches[p].what) ELSE List(<<>>),
                     "unasked")
         [] OTHER ->
              waits' = waits \cup {p} /\ UNCHANGED <<found, truth>>
    /\ UNCHANGED <<mode, stage, cache, shortlist, full, outcome, writing>>

\* Mutant: an answer without results is cached as well.
StoredEmpty(p, refs) ==
    /\ searches' = [searches EXCEPT ![p] = Row(refs)]
    /\ writing' = TRUE

\* Only results are cached, and a cache that cannot be written is passed over.
Stored(p, refs) ==
    \/ /\ refs # <<>>
       /\ searches' = [searches EXCEPT ![p] = Row(refs)]
       /\ writing' = TRUE
    \/ UNCHANGED <<searches, writing>>

SearchAnswered(p) ==
    /\ stage = "search" /\ p \in waits
    /\ \E refs \in Answers :
           /\ Settle(p, List(refs), IF refs = <<>> THEN "nothing" ELSE "some")
           /\ Stored(p, refs)
    /\ UNCHANGED <<mode, stage, releases, shortlist, full, outcome>>

SearchFails(p) ==
    /\ stage = "search" /\ p \in waits
    /\ Settle(p, IF Stale(searches[p]) /\ searches[p].what # <<>>
                 THEN List(searches[p].what) ELSE SearchError, "error")
    /\ UNCHANGED <<mode, stage, cache, shortlist, full, outcome, writing>>

-----------------------------------------------------------------------------
(* The shortlist.                                                           *)

Heard ==
    {c \in Candidates : \E i \in DOMAIN found[c[1]].refs : found[c[1]].refs[i] = c[2]}

\* Where its provider names a candidate first.
RankOf(c) ==
    CHOOSE i \in DOMAIN found[c[1]].refs :
        /\ found[c[1]].refs[i] = c[2]
        /\ \A k \in 1..(i - 1) : found[c[1]].refs[k] # c[2]

\* The order in which the providers are named.
Orders ==
    {o \in [Providers -> 1..Cardinality(Providers)] :
        \A p, q \in Providers : o[p] = o[q] => p = q}

\* The first summary of each provider, then the second of each.
Sooner(order, d, c) ==
    \/ RankOf(d) < RankOf(c)
    \/ RankOf(d) = RankOf(c) /\ order[d[1]] < order[c[1]]

\* Mutant: the budget of hydrations is not applied.
ShortlistUncut(order) == Heard

Shortlist(order) ==
    {c \in Heard : Cardinality({d \in Heard : Sooner(order, d, c)}) < HydrateLimit}

SearchOutcome(p) ==
    IF found[p] = SearchError THEN "failed"
    ELSE IF found[p].refs = <<>> THEN "zero_results" ELSE "results"

Gathered ==
    /\ stage = "search"
    /\ \A p \in Providers : found[p] # NotHeard
    /\ stage' = "hydrate"
    /\ outcome' = [p \in Providers |-> SearchOutcome(p)]
    /\ \E order \in Orders : shortlist' = Shortlist(order)
    /\ UNCHANGED <<mode, cache, waits, found, truth, full, writing>>

-----------------------------------------------------------------------------
(* The hydration.                                                           *)

Hydrated(c, how) ==
    /\ full' = [full EXCEPT ![c] = how]
    /\ waits' = waits \ {c}

Hydrate(c) ==
    /\ stage = "hydrate" /\ c \in shortlist /\ c \notin waits /\ full[c] = "unknown"
    /\ CASE ~refresh /\ ~offline /\ Fresh(releases[c]) -> Hydrated(c, "full")
         [] offline -> Hydrated(c, IF Stale(releases[c]) THEN "full" ELSE "nothing")
         [] OTHER -> waits' = waits \cup {c} /\ UNCHANGED full
    /\ UNCHANGED <<mode, stage, cache, found, truth, shortlist, outcome, writing>>

HydrateAnswered(c) ==
    /\ stage = "hydrate" /\ c \in waits
    /\ \/ Hydrated(c, "nothing") /\ UNCHANGED <<releases, writing>>
       \/ Hydrated(c, "full") /\ releases' = [releases EXCEPT ![c] = Row(c)] /\ writing' = TRUE
    /\ UNCHANGED <<mode, stage, searches, found, truth, shortlist, outcome>>

HydrateFails(c) ==
    /\ stage = "hydrate" /\ c \in waits
    /\ Hydrated(c, IF Stale(releases[c]) THEN "full" ELSE "error")
    /\ UNCHANGED <<mode, stage, cache, found, truth, shortlist, outcome, writing>>

Final == {c \in shortlist : full[c] = "full"}

\* The caller commits: its proposal, and with it the cache.
RetrievalDone ==
    /\ stage = "hydrate"
    /\ \A c \in shortlist : full[c] # "unknown"
    /\ stage' = "done"
    /\ outcome' = [p \in Providers |->
                      IF /\ \E c \in shortlist : c[1] = p /\ full[c] = "error"
                         /\ \A c \in Final : c[1] # p
                      THEN "failed" ELSE outcome[p]]
    /\ writing' = FALSE
    /\ UNCHANGED <<mode, cache, waits, found, truth, shortlist, full>>

-----------------------------------------------------------------------------

NothingYet ==
    /\ waits = {} /\ shortlist = {} /\ writing = FALSE
    /\ found = [p \in Providers |-> NotHeard]
    /\ truth = [p \in Providers |-> "unasked"]
    /\ full = [c \in Candidates |-> "unknown"]
    /\ outcome = [p \in Providers |-> "none"]

\* The next retrieval of the same query.
Again ==
    /\ stage = "done"
    /\ stage' = "search"
    /\ refresh' \in BOOLEAN /\ offline' \in BOOLEAN
    /\ waits' = {} /\ shortlist' = {}
    /\ found' = [p \in Providers |-> NotHeard]
    /\ truth' = [p \in Providers |-> "unasked"]
    /\ full' = [c \in Candidates |-> "unknown"]
    /\ outcome' = [p \in Providers |-> "none"]
    /\ UNCHANGED <<cache, writing>>

\* Time passes over the rows of a provider.
Expire(p) ==
    /\ stage = "done"
    /\ searches' = [searches EXCEPT
            ![p] = IF @.age = "fresh" THEN [@ EXCEPT !.age = "stale"] ELSE @]
    /\ releases' = [c \in Candidates |-> IF c[1] = p /\ releases[c].age = "fresh"
                                         THEN [releases[c] EXCEPT !.age = "stale"] ELSE releases[c]]
    /\ UNCHANGED <<mode, stage, waits, found, truth, shortlist, full, outcome, writing>>

\* The retention sweep needs the writer reservation.
SweepCache ==
    /\ ~writing
    /\ searches' = [p \in Providers |-> IF searches[p].age = "stale" THEN NoRow ELSE searches[p]]
    /\ releases' = [c \in Candidates |-> IF releases[c].age = "stale" THEN NoRow ELSE releases[c]]
    /\ UNCHANGED <<mode, stage, waits, found, truth, shortlist, full, outcome, writing>>

RetrievalInit ==
    /\ offline = FALSE /\ refresh \in BOOLEAN
    /\ stage = "search"
    /\ searches = [p \in Providers |-> NoRow]
    /\ \E old \in SUBSET Keepable :
           releases = [c \in Candidates |->
                    IF c \in old THEN [age |-> "stale", what |-> c] ELSE NoRow]
    /\ NothingYet

RetrievalNext ==
    \/ \E p \in Providers : Search(p) \/ SearchAnswered(p) \/ SearchFails(p) \/ Expire(p)
    \/ Gathered
    \/ \E c \in Candidates : Hydrate(c) \/ HydrateAnswered(c) \/ HydrateFails(c)
    \/ RetrievalDone \/ Again \/ SweepCache

RetrievalSpec == RetrievalInit /\ [][RetrievalNext]_retrievalVars

-----------------------------------------------------------------------------
(* Properties.                                                              *)

RetrievalTypeOK ==
    /\ stage \in {"search", "hydrate", "done"} /\ writing \in BOOLEAN
    /\ waits \subseteq Providers \cup Candidates
    /\ shortlist \subseteq Candidates /\ Cardinality(shortlist) <= HydrateLimit
    /\ \A c \in Candidates : releases[c].age = "absent" \/ releases[c].what = c

\* A failed provider is never shown as one without results: "zero results" is what
\* the provider said in this retrieval, unless the network is off.
FailureIsNotZero ==
    stage = "done" =>
        \A p \in Providers :
            /\ outcome[p] = "zero_results" => offline \/ truth[p] = "nothing"
            /\ truth[p] = "error" /\ outcome[p] # "failed" => found[p].refs # <<>>

\* The recall of one provider does not consume the budget of hydrations: each
\* provider that found something has a candidate looked at.
EachProviderHeard ==
    stage # "search" /\ HydrateLimit >= Cardinality(Providers) =>
        \A p \in Providers : found[p].refs # <<>> => \E c \in shortlist : c[1] = p

\* The reservation of the writer is not held across the network
\* (db/transactions.py:11-14).
ReservationIsShort == writing => waits = {}
=============================================================================
