------------------------------ MODULE Renames ------------------------------
(***************************************************************************)
(* The file names a review proposes: rendering (paths/), the collisions of *)
(* a preview (paths/collisions.py, pipeline/paths.py), the move drafts of  *)
(* a revision and their recomputation (pipeline/proposals.py, reviews.py), *)
(* and the checks of Apply (services/review_apply.py, bundle_applier.py).  *)
(*                                                                         *)
(* A path is a name and a spelling of it: two spellings of a name are the  *)
(* same path to the preview and two entries to a case-sensitive library.   *)
(* The value of a tag stands for the path it renders to; Unrenderable      *)
(* values have no rendering.  A directory is part of the name.  Moves are  *)
(* computed from the tags proposed, whatever is decided about them, so the *)
(* decisions kept are those on the moves.                                  *)
(***************************************************************************)
EXTENDS Naturals, FiniteSets

CONSTANTS
    AllTracks,  \* the tracks of the library
    Batch,      \* the tracks of the review
    Names, Spellings,
    MaxEdits    \* bound: manual edits and refreshes

ASSUME RenamesConstantsAssumption == Batch \subseteq AllTracks /\ MaxEdits \in Nat

VARIABLES
    path,      \* where the file of each track is
    proposed,  \* the SET_TAG draft of each track of the review
    move,      \* its MOVE_FILE draft
    decision,  \* the decision on it
    renaming,  \* the review: "none", "open", "applied"
    known,     \* the paths of the library when the moves were computed
    edits

renamesVars == <<path, proposed, move, decision, renaming, known, edits>>

Paths        == [name : Names, spelling : Spellings]
Unrenderable == [name |-> "none", spelling |-> "none"]
Values       == Paths \cup {Unrenderable}
Decisions    == {"pending", "accepted", "rejected"}

\* collisions._norm: NFC and casefold
Norm(p) == p.name

-----------------------------------------------------------------------------
(* The preview.                                                             *)

\* preview_rename leaves a track that does not render out of the batch it checks.
Rendered(values) == {t \in Batch : values[t] # Unrenderable}

\* Tracks of the batch with the same rendered path, and the tracks outside the
\* batch that are on it; the members of the batch are left out as they are now.
Conflicts(t, values) ==
    {u \in Rendered(values) \ {t} : Norm(values[u]) = Norm(values[t])}
        \cup {u \in AllTracks \ Batch : Norm(path[u]) = Norm(values[t])}

\* A render error keeps what was rendered; the draft carries the error.
Previewed(t, values) ==
    [to |-> values[t],
     errors |-> values[t] = Unrenderable,
     collision |-> IF t \in Rendered(values) THEN Conflicts(t, values) ELSE {}]

Moves(values) == [t \in Batch |-> Previewed(t, values)]

-----------------------------------------------------------------------------
(* The review.                                                              *)

\* ProposalService: tags first, then the moves of the proposed values.
Compose(values) ==
    /\ renaming = "none"
    /\ proposed' = values
    /\ move' = Moves(values)
    /\ decision' = [t \in Batch |-> "pending"]
    /\ renaming' = "open"
    /\ known' = path
    /\ UNCHANGED <<path, edits>>

\* put_revision carries the decision of a draft that is the same in all it says.
Carried(moves, t) == IF moves[t] = move[t] THEN decision[t] ELSE "pending"

\* edit_operation of a tag recomputes every move.
RecomputedNever(values) == move
Recomputed(values) == Moves(values)

Edit(t, v) ==
    /\ renaming = "open" /\ edits < MaxEdits
    /\ LET values == [proposed EXCEPT ![t] = v]
       IN  /\ proposed' = values
           /\ move' = Recomputed(values)
           /\ decision' = [u \in Batch |-> Carried(Recomputed(values), u)]
    /\ edits' = edits + 1
    /\ known' = path
    /\ UNCHANGED <<path, renaming>>

\* refresh_review_bundle recomputes them too.
Refresh ==
    /\ renaming = "open" /\ edits < MaxEdits
    /\ move' = Moves(proposed)
    /\ decision' = [u \in Batch |-> Carried(Moves(proposed), u)]
    /\ edits' = edits + 1
    /\ known' = path
    /\ UNCHANGED <<path, proposed, renaming>>

Decide(t, d) ==
    /\ renaming = "open"
    /\ decision' = [decision EXCEPT ![t] = d]
    /\ UNCHANGED <<path, proposed, move, renaming, known, edits>>

\* Another review, or the user, renames a file of the library.
OtherMoves(u, p) ==
    /\ u \in AllTracks \ Batch /\ p \notin {path[t] : t \in AllTracks}
    /\ path' = [path EXCEPT ![u] = p]
    /\ UNCHANGED <<proposed, move, decision, renaming, known, edits>>

-----------------------------------------------------------------------------
(* Apply.                                                                   *)

\* preflight_apply blocks the bundle on any draft with a collision or an error,
\* accepted or not.
Flagged == \E t \in Batch : move[t].errors \/ move[t].collision # {}

Accepted == {t \in Batch : decision[t] = "accepted"}

\* The preflight of the run: a destination is free, or it is the track's own
\* entry, or another spelling of that entry.
Occupied(t) ==
    \E u \in AllTracks \ {t} : path[u] = move[t].to

Duplicated(t) == \E u \in Accepted \ {t} : Norm(move[u].to) = Norm(move[t].to)

Decided == \A t \in Batch : decision[t] # "pending"

Apply ==
    /\ renaming = "open" /\ Decided /\ ~Flagged
    /\ \A t \in Accepted : ~Occupied(t) /\ ~Duplicated(t)
    /\ path' = [t \in AllTracks |-> IF t \in Accepted THEN move[t].to ELSE path[t]]
    /\ renaming' = "applied"
    /\ UNCHANGED <<proposed, move, decision, known, edits>>

RenamesInit ==
    /\ \E s \in Spellings : path \in [AllTracks -> [name : Names, spelling : {s}]]
    /\ \A t, u \in AllTracks : t # u => path[t].name # path[u].name
    /\ proposed = [t \in Batch |-> Unrenderable]
    /\ move = [t \in Batch |-> [to |-> Unrenderable, errors |-> FALSE, collision |-> {}]]
    /\ decision = [t \in Batch |-> "pending"]
    /\ renaming = "none"
    /\ known = path
    /\ edits = 0

RenamesNext ==
    \/ \E values \in [Batch -> Values] : Compose(values)
    \/ \E t \in Batch, v \in Values : Edit(t, v)
    \/ Refresh
    \/ \E t \in Batch, d \in Decisions \ {"pending"} : Decide(t, d)
    \/ \E u \in AllTracks \ Batch, p \in Paths : OtherMoves(u, p)
    \/ Apply

RenamesSpec == RenamesInit /\ [][RenamesNext]_renamesVars

-----------------------------------------------------------------------------
RenamesTypeOK ==
    /\ path \in [AllTracks -> Paths]
    /\ proposed \in [Batch -> Values]
    /\ move \in [Batch -> [to : Values, errors : BOOLEAN, collision : SUBSET AllTracks]]
    /\ decision \in [Batch -> Decisions]
    /\ renaming \in {"none", "open", "applied"}
    /\ known \in [AllTracks -> Paths] /\ edits \in 0 .. MaxEdits

\* No file is moved onto another, whatever moved between the preview and Apply
\* (product-spec.md:289: races that appear after preview; no operation clobbers).
NoClobber == \A t, u \in AllTracks : t # u => path[t] # path[u]

\* A revision without a flag is one whose moves, all of them made in the library
\* they were computed for, bring no file to the name of another in any spelling
\* (pipeline/paths.py).
CleanPreviewIsDistinct ==
    renaming = "open" /\ ~Flagged =>
        LET after == [t \in AllTracks |-> IF t \in Batch THEN move[t].to ELSE known[t]]
        IN  \A t \in Batch : \A u \in AllTracks \ {t} : after[t].name # after[u].name

\* The name a revision proposes is the rendering of the tags it proposes, after
\* any sequence of edits and refreshes (reviews.py: "no stale copy").
MovesFollowTags == renaming = "open" => \A t \in Batch : move[t].to = proposed[t]

\* Renames never move a file onto another; a preview without a flag is distinct;
\* and a proposed name follows the proposed tags (pipeline/paths.py).
MovesAreSafe == NoClobber /\ CleanPreviewIsDistinct /\ MovesFollowTags

\* product-spec.md:285: "Muzilla detects collisions before Apply, shows every
\* conflicting file and destination".  A move Apply refuses because a file was
\* already on its destination at the preview is flagged by the preview.
ConflictsAreShown ==
    renaming = "open" /\ ~Flagged =>
        \A t \in Accepted : \A u \in AllTracks \ {t} :
            path[u] = move[t].to => path[u] # known[u]
=============================================================================
