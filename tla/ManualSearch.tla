----------------------------- MODULE ManualSearch -----------------------------
(***************************************************************************)
(* Choosing a candidate by hand for one open review                         *)
(* (services/manual_search.py, services/matching.py): by its id, by a       *)
(* pasted URL, or from the page of the track.  A request reads the review,  *)
(* waits for the provider, and writes; the automatic match, an edit of the  *)
(* user and an Apply come in between.                                       *)
(*                                                                         *)
(* A revision is its candidate, who selected it and whether it holds a      *)
(* manual value that every candidate would overwrite.                       *)
(***************************************************************************)
EXTENDS Naturals, FiniteSets

CONSTANTS
    Searches,
    Candidates,
    Rejected,     \* candidates whose ranking rejects them
    Urls,         \* pasted texts
    Malformed,    \* of them, those that are no bounded allow-listed HTTPS URL
    Unsupported,  \* those of an allow-listed host that name no candidate
    TrackUrls,    \* those naming a track, whose candidate is known once fetched
    Leads,        \* candidate each other URL leads to
    MaxRevisions  \* bound

None == "none"

\* A URL that names a candidate leads to one.
ASSUME ManualSearchConstantsAssumption ==
    /\ MaxRevisions \in Nat \ {0} /\ None \notin Candidates
    /\ \A u \in Urls \ (Malformed \cup Unsupported) : Leads[u] \in Candidates

VARIABLES
    revision,     \* the current revision
    reviewState,  \* of the review
    drifted,      \* the file is no longer what the catalog recorded
    alias,        \* pairs of a revision number and a URL
    request

searchVars == <<revision, reviewState, drifted, alias, request>>

Unasked  == [step |-> "idle"]
IsOpen   == reviewState \in {"preparing", "ready", "needs_attention"}
Unchosen == [no |-> 1, candidate |-> None, by |-> None, manual |-> FALSE]
IsInert  == reviewState = "preparing" /\ revision.candidate = None /\ ~revision.manual

\* Bound.
Room == revision.no < MaxRevisions

StepTo(r, step)   == request' = [request EXCEPT ![r].step = step]
Answer(r, answer) == request' = [request EXCEPT ![r].step = "answered", ![r].answer = answer]

Recognize(u) == u \notin Malformed \cup Unsupported

Remembers(n, u) == <<n, u>> \in alias

-----------------------------------------------------------------------------
(* Asking.                                                                  *)

Opened(route, want, url, force) ==
    [step |-> "fetching", route |-> route, want |-> want, url |-> url, force |-> force,
     seen |-> revision, guarded |-> FALSE, answer |-> None]

AskImport(r, c, force) ==
    /\ request[r] = Unasked /\ IsOpen
    /\ request' = [request EXCEPT ![r] =
         IF revision.candidate = c
         THEN [Opened("import", c, None, force) EXCEPT !.step = "answered", !.answer = "current"]
         ELSE Opened("import", c, None, force)]
    /\ UNCHANGED <<revision, reviewState, drifted, alias>>

AskUrl(r, u, force) ==
    /\ request[r] = Unasked /\ IsOpen
    /\ Recognize(u)
    /\ LET selected == u \notin TrackUrls /\ revision.candidate = Leads[u]
           opened   == Opened("url", Leads[u], u, force)
       IN IF Remembers(revision.no, u) \/ selected
          THEN /\ request' = [request EXCEPT ![r] =
                    [opened EXCEPT !.step = "answered", !.answer = "current"]]
               /\ alias' = alias \cup {<<revision.no, u>>}
          ELSE /\ request' = [request EXCEPT ![r] = opened]
               /\ UNCHANGED alias
    /\ UNCHANGED <<revision, reviewState, drifted>>

\* The route of the track looks at the source before it asks the provider.
AskTrack(r, c) ==
    /\ request[r] = Unasked /\ IsOpen
    /\ IsInert => ~drifted
    /\ request' = [request EXCEPT
           ![r] = [Opened("track", c, None, FALSE) EXCEPT !.guarded = IsInert]]
    /\ UNCHANGED <<revision, reviewState, drifted, alias>>

-----------------------------------------------------------------------------
(* The answer of the provider.                                              *)

FetchFails(r, why) ==
    /\ request[r].step = "fetching"
    /\ Answer(r, why)
    /\ UNCHANGED <<revision, reviewState, drifted, alias>>

\* The URL is remembered for the revision the request read.
Selected(r) == <<request[r].seen.no, request[r].url>>

Fetched(r) ==
    /\ request[r].step = "fetching"
    /\ IF request[r].route = "url" /\ request[r].seen.candidate = request[r].want
       THEN /\ Answer(r, "current")
            /\ alias' = alias \cup {Selected(r)}
       ELSE /\ StepTo(r, IF request[r].route = "track" THEN "observed" ELSE "fetched")
            /\ UNCHANGED alias
    /\ UNCHANGED <<revision, reviewState, drifted>>

CaptureInitialSourceGuards(r) ==
    /\ request[r].step = "fetched"
    /\ CASE ~IsInert            -> StepTo(r, "observed")
         [] IsInert /\ drifted  -> Answer(r, "stale_source")
         [] IsInert /\ ~drifted ->
              request' = [request EXCEPT ![r].step = "observed", ![r].guarded = TRUE]
    /\ UNCHANGED <<revision, reviewState, drifted, alias>>

-----------------------------------------------------------------------------
(* The selection.                                                           *)

\* A repetition of the current content is no revision.
Composed(c, by, manual) ==
    LET content == [no |-> revision.no, candidate |-> c, by |-> by, manual |-> manual]
    IN IF content = revision THEN revision ELSE [content EXCEPT !.no = @ + 1]

\* Mutant: what was read before the provider was asked decides.
AllowsAsRead(r) ==
    /\ request[r].route # "track" => request[r].want \notin Rejected
    /\ request[r].seen.manual => request[r].force

\* Only a confirmed request replaces manual values; the track route does not ask the ranking.
Allows(r) ==
    /\ request[r].route # "track" => request[r].want \notin Rejected
    /\ revision.manual => request[r].force

RememberedBy(r) == {<<revision'.no, request[r].url>> : x \in {request[r].route} \cap {"url"}}

ImportHydratedCandidate(r) ==
    /\ request[r].step = "observed"
    /\ IF Allows(r) /\ (IsOpen \/ Composed(request[r].want, "user", FALSE) = revision)
       THEN /\ Room
            /\ revision' = Composed(request[r].want, "user", FALSE)
            /\ reviewState' = IF IsOpen THEN "ready" ELSE reviewState
            /\ alias' = alias \cup RememberedBy(r)
            /\ Answer(r, "selected")
       ELSE /\ Answer(r, "refused")
            /\ UNCHANGED <<revision, reviewState, alias>>
    /\ UNCHANGED drifted

Forget(r) ==
    /\ request[r] # Unasked /\ request[r].step = "answered"
    /\ request' = [request EXCEPT ![r] = Unasked]
    /\ UNCHANGED <<revision, reviewState, drifted, alias>>

-----------------------------------------------------------------------------
(* The others.                                                              *)

\* A match keeps away from manual values and from rejected candidates.
AutoMatch(c) ==
    /\ IsOpen /\ Room /\ ~revision.manual /\ c \notin Rejected
    /\ revision' = Composed(c, "match", FALSE)
    /\ reviewState' = "ready"
    /\ UNCHANGED <<drifted, alias, request>>

\* mark_match_needs_attention: a match that selects nothing replaces what the
\* review holds, manual values too, by a revision that proposes nothing, and
\* asks for attention.  Why nothing was selected is left out.
MatchUnsettled ==
    /\ IsOpen /\ Room
    /\ revision' = Composed(None, "match", FALSE)
    /\ reviewState' = "needs_attention"
    /\ UNCHANGED <<drifted, alias, request>>

EditByHand ==
    /\ IsOpen /\ Room /\ ~revision.manual
    /\ revision' = Composed(None, "user", TRUE)
    /\ reviewState' = "ready"
    /\ UNCHANGED <<drifted, alias, request>>

ApplyChosen ==
    /\ reviewState = "ready"
    /\ reviewState' = "applying"
    /\ UNCHANGED <<revision, drifted, alias, request>>

ApplyFails ==
    /\ reviewState = "applying"
    /\ reviewState' = "ready"
    /\ UNCHANGED <<revision, drifted, alias, request>>

FileChanges ==
    /\ ~drifted
    /\ drifted' = TRUE
    /\ UNCHANGED <<revision, reviewState, alias, request>>

Rescan ==
    /\ drifted
    /\ drifted' = FALSE
    /\ UNCHANGED <<revision, reviewState, alias, request>>

SearchInit ==
    /\ revision = Unchosen
    /\ reviewState = "preparing"
    /\ drifted \in BOOLEAN
    /\ alias = {}
    /\ request = [r \in Searches |-> Unasked]

SearchNext ==
    \/ \E r \in Searches, c \in Candidates, force \in BOOLEAN : AskImport(r, c, force)
    \/ \E r \in Searches, u \in Urls, force \in BOOLEAN : AskUrl(r, u, force)
    \/ \E r \in Searches, c \in Candidates : AskTrack(r, c)
    \/ \E r \in Searches, why \in {"not_found", "failed"} : FetchFails(r, why)
    \/ \E r \in Searches : Fetched(r)
    \/ \E r \in Searches : CaptureInitialSourceGuards(r)
    \/ \E r \in Searches : ImportHydratedCandidate(r)
    \/ \E r \in Searches : Forget(r)
    \/ \E c \in Candidates : AutoMatch(c)
    \/ MatchUnsettled \/ EditByHand \/ ApplyChosen \/ ApplyFails \/ FileChanges \/ Rescan

SearchSpec == SearchInit /\ [][SearchNext]_searchVars

-----------------------------------------------------------------------------
(* What the choice promises.                                                *)

SearchTypeOK ==
    /\ revision \in [no : 1..MaxRevisions, candidate : Candidates \cup {None},
                     by : {None, "user", "match"}, manual : BOOLEAN]
    /\ reviewState \in {"preparing", "ready", "needs_attention", "applying"}
    /\ drifted \in BOOLEAN
    /\ alias \subseteq (1..MaxRevisions) \X Urls
    /\ \A r \in Searches : request[r] = Unasked \/ request[r].seen.no <= revision.no

\* A URL remembered for the current revision leads to the candidate of that revision, whatever
\* was selected between the read of the review and the answer of the provider
\* (_remember_candidate_url_alias); the next paste of the URL is answered from it without asking.
AliasIsTrue == \A u \in Urls : Remembers(revision.no, u) => revision.candidate = Leads[u]

\* A candidate takes the place of a manual value only by a request the user confirmed
\* (compose_candidate): also of one written while the request waited for its provider.  What
\* else takes it away is a match that selects nothing, which leaves the review without a
\* proposal and asks for attention (mark_match_needs_attention).
KeepsManual ==
    revision.manual /\ ~revision'.manual
      => \/ revision'.candidate = None /\ reviewState' = "needs_attention"
         \/ \E r \in Searches :
                request[r] # Unasked /\ request[r].force /\ request'[r].answer = "selected"

\* "Re-selecting the same candidate is idempotent" (docs/product-spec.md:158-160): no new
\* revision repeats the candidate of the one it replaces.
ReselectIsIdempotent ==
    [][revision'.no # revision.no /\ revision'.candidate # None
           => revision'.candidate # revision.candidate]_searchVars

\* "Rejected candidates must never be selectable" (services/manual_search.py:565).
RejectedNeverSelected == revision.candidate \notin Rejected
===============================================================================
