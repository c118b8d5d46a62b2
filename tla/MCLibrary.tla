----------------------------- MODULE MCLibrary -----------------------------
(***************************************************************************)
(* The library for model checking, its four components side by side.  A    *)
(* behaviour is one of a single component; the others stay in an initial   *)
(* state of theirs.  The properties are those of Library and BundleApply.  *)
(***************************************************************************)
EXTENDS Library, TLC

\* What the user accepted: tags, both steps and a move; corrections of
\* collections.
ThreeFiles == {<<<<"tags">>, <<"tags", "move">>, <<"move">>>>,
               <<<<"grouping">>, <<"grouping">>, <<"grouping">>>>}

\* What may be known of a track.  An identified track of a release, or one that
\* shares its barcode; one whose recordings vote for two releases; and one that
\* is a single by its tags, or a spelling of the album.
Describes(release, barcode, prints, album, total, single) ==
    [release |-> release, barcode |-> barcode, prints |-> prints, album |-> album,
     total |-> total, single |-> single]

ThreeProfiles ==
    1 :> {Describes("r1", "b1", {}, "a1", 3, FALSE),
          Describes("none", "b1", {"r1"}, "a2", 0, FALSE)}
        @@ 2 :> {Describes("none", "none", {"r1", "r2"}, "a2", 0, FALSE)}
        @@ 3 :> {Describes("none", "b1", {"r1"}, "a2", 0, FALSE),
                 Describes("none", "none", {}, "none", 1, TRUE)}

\* Two spellings of an album; and three files, of which two have about one length.
TwoSpellings == {<<"a1", "a2">>, <<"a2", "a1">>}
ThreeLengths == <<100, 103, 130>>

VARIABLE part   \* the component that runs

libraryVars == <<part, vars, catalogVars, groupingVars, duplicatesVars>>

\* A component that does not run stands in one initial state of those it has.
OnePlan    == plan = CHOOSE m \in Manifests : TRUE
OneFile    == file = [p \in Paths |-> IF p = CHOOSE q \in Paths : TRUE THEN 1 ELSE 0]
OneProfile == profile = [t \in Tracks |-> CHOOSE q \in Profiles[t] : TRUE]

LibraryInit ==
    /\ part \in {"apply", "catalog", "grouping", "duplicates"}
    /\ Init         /\ (part # "apply" => OnePlan)
    /\ CatalogInit  /\ (part # "catalog" => OneFile)
    /\ GroupingInit /\ (part # "grouping" => OneProfile)
    /\ DuplicatesInit

\* Bounds of the steps of a component.  A second cascade begins beside a first one while
\* there are no units, and runs against it alone.
SecondCascade ==
    reads'[2] # NoReads =>
        /\ reads[2] # NoReads \/ (reads[1] # NoReads /\ \A k \in Keys : group[k] = NoGroup)
        /\ reads[1] = NoReads => reads'[1] = NoReads
        /\ edits' = 0 /\ \A k \in Keys : ~group'[k].pinned

\* The last change of the catalog is made while no cascade runs, and with one unit confirmed.
LastEdit ==
    edits' = MaxEdits =>
        /\ edits # MaxEdits => \A c \in Cascades : reads[c] = NoReads
        /\ Cardinality({k \in Keys : group'[k].pinned}) <= 1

\* One fingerprint changes after a detection has read it; the first track has the low score.
LateFingerprint ==
    seen' # Unseen => Cardinality({t \in FileIds : seen'.best[t] # best'[t]}) <= 1
LowScore == \A t \in FileIds : best'[t].score \in {0, IF t = 1 THEN 60 ELSE 95}

RecordingsAlike == Permutations(Recordings)

ApplyAlone      == part = "apply" /\ UNCHANGED <<part, catalogVars, groupingVars, duplicatesVars>>
CatalogAlone    == part = "catalog" /\ UNCHANGED <<part, vars, groupingVars, duplicatesVars>>
GroupingAlone   == part = "grouping" /\ UNCHANGED <<part, vars, catalogVars, duplicatesVars>>
DuplicatesAlone == part = "duplicates" /\ UNCHANGED <<part, vars, catalogVars, groupingVars>>

LibraryNext ==
    \/ ApplyAlone      /\ Next
    \/ CatalogAlone    /\ CatalogNext
    \/ GroupingAlone   /\ GroupingNext /\ SecondCascade /\ LastEdit
    \/ DuplicatesAlone /\ DuplicatesNext /\ LateFingerprint /\ LowScore

LibrarySpec == LibraryInit /\ [][LibraryNext]_libraryVars
=============================================================================
