---------------------------- MODULE MCReviewDesk ----------------------------
(***************************************************************************)
(* The work of the user for model checking, its five components side by    *)
(* side.  A behaviour is one of a single component; the others stay in an  *)
(* initial state of theirs.  The properties are those of Desk and Reviews. *)
(***************************************************************************)
EXTENDS Desk, TLC

\* Two requests in any order on one review (of a section that is found, a skip, a
\* cover and a refresh there is one at a time), and on a second review of the file
\* that is there to be in the way of the first.
RequestsMay ==
    LET All == {"match", "manual", "choose", "skip", "decide", "edit", "cover", "refresh", "found",
                "apply"}
    IN "r1" :> ("b1" :> All \ {"skip", "cover"} @@ "b2" :> {})
           @@ "r2" :> ("b1" :> All \ {"found", "refresh"} @@ "b2" :> {"decide", "apply"})
Revisions2 == "b1" :> 2 @@ "b2" :> 1

\* The requests are alike: of two that are under way the first is r1's.
KindRank == "found" :> 1 @@ "refresh" :> 2 @@ "apply" :> 3 @@ "start" :> 3 @@ "match" :> 4
            @@ "manual" :> 5 @@ "choose" :> 6 @@ "decide" :> 7 @@ "edit" :> 8 @@ "cover" :> 9
            @@ "skip" :> 10
TwoAtOnce  == \A r \in Requests : seen'[r] # Nothing
Unmirrored == TwoAtOnce => KindRank[seen'["r1"].kind] <= KindRank[seen'["r2"].kind]

\* Bound: one review is worked on, with its tasks, or both, a request each; while
\* the outcome of a task is on its way one request at most is under way.
OneReview ==
    /\ state'["b2"] = "absent"
    /\ Unmirrored
    /\ task'["b1"] \in {"settling", "archived"} => ~TwoAtOnce
TwoReviews ==
    LET May1 == {"match", "choose", "decide", "edit", "apply", "start"} IN
    /\ \A r \in Requests : seen'[r] # Nothing =>
           IF r = "r1" THEN seen'[r].b = "b1" /\ seen'[r].kind \in May1 ELSE seen'[r].b = "b2"
    /\ task' = task

\* Local albums and singletons with the candidates a search may have found.
Track(t, l)      == [title |-> t, length |-> l, isrc |-> Unknown]
File(t, l, name) == [title |-> t, length |-> l, isrc |-> Unknown, name |-> name]
Releases ==
    [source : {"musicbrainz", "discogs"}, album : {"x", "y"}, year : {1990, 1991},
     barcode : {Unknown, 7},
     tracks : {<<>>, <<Track("one", 3)>>, <<Track("two", 4), Track("one", 3)>>,
               <<Track("two", Unknown), Track("one", Unknown)>>}]
Results(S, n) == UNION {[1..k -> S] : k \in 0..n}

\* Three that differ in what decides: the album, the year, the provider.
Triples ==
    [1..3 -> {c \in Releases : /\ c.tracks \in {<<>>, <<Track("one", 3)>>}
                                 /\ c.barcode = Unknown /\ (c.album = "x" \/ c.year = 1990)}]
AskedAlbums ==
    {[album |-> "x", year |-> 1990, barcode |-> b,
      files |-> <<File("one", 3, "one"), File("two", 4, "two")>>, candidates |-> cs] :
        b \in {7, Unknown}, cs \in Results(Releases, 2) \cup Triples}
AskedSingletons ==
    {[files |-> <<f>>, candidates |-> cs] :
        f \in {File("one", 3, "one"), File(Unknown, Unknown, "one")},
        cs \in Results({c \in Releases : c.barcode = Unknown /\ c.tracks # <<>>}, 2)}

TwoProviders == <<"musicbrainz", "discogs">>
ThreeWeights == [title |-> 30, length |-> 20, index |-> 10]
TwoThresholds == [album |-> 100, singleton |-> 60]
UrlLeads == "release" :> "a" @@ "track" :> "b"

VARIABLES
    part,    \* the component that runs
    rivals   \* two reviews of one file are worked on

deskVars == <<part, rivals, vars, matchingVars, searchVars, inboxVars, activityVars>>

\* A matching that does not run stands in one of its initial states.
OneAsked == [kind |-> "album", is |-> CHOOSE a \in Albums : TRUE]

DeskInit ==
    /\ part \in {"review", "matching", "search", "inbox", "activity"}
    /\ rivals \in BOOLEAN /\ (rivals => part = "review")
    /\ Init
    /\ IF part = "matching" THEN TRUE ELSE asked = OneAsked
    /\ MatchingInit
    /\ SearchInit /\ (part # "search" => ~drifted)
    /\ InboxInit
    /\ ActivityInit

ReviewAlone ==
    /\ part = "review"
    /\ IF rivals THEN TwoReviews ELSE OneReview
    /\ UNCHANGED <<part, rivals, matchingVars, searchVars, inboxVars, activityVars>>
MatchingAlone ==
    part = "matching" /\ UNCHANGED <<part, rivals, vars, searchVars, inboxVars, activityVars>>
SearchAlone ==
    part = "search" /\ UNCHANGED <<part, rivals, vars, matchingVars, inboxVars, activityVars>>
InboxAlone ==
    part = "inbox" /\ UNCHANGED <<part, rivals, vars, matchingVars, searchVars, activityVars>>
ActivityAlone ==
    part = "activity" /\ UNCHANGED <<part, rivals, vars, matchingVars, searchVars, inboxVars>>

DeskNext ==
    \/ part = "review"   /\ Next         /\ ReviewAlone
    \/ part = "matching" /\ MatchingNext /\ MatchingAlone
    \/ part = "search"   /\ SearchNext   /\ SearchAlone
    \/ part = "inbox"    /\ InboxNext    /\ InboxAlone
    \/ part = "activity" /\ ActivityNext /\ ActivityAlone

DeskSpec == DeskInit /\ [][DeskNext]_deskVars
=============================================================================
