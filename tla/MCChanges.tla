----------------------------- MODULE MCChanges -----------------------------
(***************************************************************************)
(* What changes files, for model checking, its four components side by     *)
(* side.  A behaviour is one of a single component; the others stay in an  *)
(* initial state of theirs.  The properties are those of the components.   *)
(***************************************************************************)
EXTENDS Changes

\* What was applied: tags and a move of either kind; a correction of collections.
AppliedManifests == {<<<<"tags", "move">>, <<"tags">>, <<"tags", "recase">>>>,
                     <<<<"grouping">>, <<"grouping">>, <<"grouping">>>>}

VARIABLE part   \* the component that runs

changesVars == <<part, vars, undoVars, blobsVars, renamesVars>>

\* A component that does not run stands in one initial state of those it has.
OnePlan    == plan = CHOOSE m \in Manifests : TRUE
NoArtwork  == embedded = [t \in Tracks |-> None]
OneLibrary == path = CHOOSE p \in [AllTracks -> Paths] :
                         \A t, u \in AllTracks :
                             /\ p[t].spelling = p[u].spelling
                             /\ t # u => p[t].name # p[u].name

ChangesInit ==
    /\ part \in {"replacement", "undo", "blobs", "renames"}
    /\ Init
    /\ UndoInit    /\ (part # "undo" => OnePlan)
    /\ BlobsInit   /\ (part # "blobs" => NoArtwork)
    /\ RenamesInit /\ (part # "renames" => OneLibrary)

ReplacementAlone == part = "replacement" /\ UNCHANGED <<part, undoVars, blobsVars, renamesVars>>
UndoAlone        == part = "undo" /\ UNCHANGED <<part, vars, blobsVars, renamesVars>>
BlobsAlone       == part = "blobs" /\ UNCHANGED <<part, vars, undoVars, renamesVars>>
RenamesAlone     == part = "renames" /\ UNCHANGED <<part, vars, undoVars, blobsVars>>

ChangesNext ==
    \/ ReplacementAlone /\ Next
    \/ UndoAlone        /\ UndoNext
    \/ BlobsAlone       /\ BlobsNext
    \/ RenamesAlone     /\ RenamesNext

\* The worker pool runs an Undo that is queued, and its recovery loop finds
\* expired leases; requests, sweeps and failures are free.
FairSpec ==
    /\ ChangesInit /\ [][ChangesNext]_changesVars
    /\ WF_changesVars(UndoAlone /\ Handler)
    /\ WF_changesVars(UndoAlone /\ Recovery)
=============================================================================
