--------------------------------- MODULE Desk ---------------------------------
(***************************************************************************)
(* The work of the user: reviews and their lifecycle, the matching they     *)
(* start from, manual searches, the inbox and the activity.  They share no  *)
(* state that these modules hold, so what is said here of several of them   *)
(* is said of each.  The parts of a property are stated and explained in    *)
(* their modules.                                                          *)
(***************************************************************************)
EXTENDS Reviews, Matching, ManualSearch, Inbox, Activity

\* Every variable keeps its type (the components' own type invariants).
TypesOK == TypeOK /\ MatchingTypeOK /\ SearchTypeOK /\ InboxTypeOK /\ ActivityTypeOK

\* No candidate takes the place of a manual value without a confirmed choice of
\* the user; a match that selects nothing removes it and asks for attention
\* (pipeline/proposals.py, services/manual_search.py).
ManualKept == [][KeepsManual]_searchVars

\* A strong match has no near rival of another release, the preference of a
\* provider decides between near candidates alone (matching/engine.py), and a
\* pasted URL leads to the release the revision shows (services/manual_search.py).
MatchesAreTrue == StrongIsAlone /\ PreferenceBreaksTies /\ AliasIsTrue

\* A walk through the pages of the inbox or of the activity misses nothing that
\* did not move and lists nothing twice, its neighbours are those of the list, and
\* a success stays told.
ListsAreComplete ==
    UnmovedListedOnce /\ NeighborsFollowList /\ EveryRowListedOnce /\ SuccessStaysTold
===============================================================================
