-------------------------------- MODULE Blobs --------------------------------
(***************************************************************************)
(* The artwork store (changes/blobstore.py): bytes on disk under their     *)
(* digest, a row of "blobs" that names them, and a reference count.  Three *)
(* parties use it: cover enrichment puts what it downloaded and proposes   *)
(* it in a review; an apply keeps the artwork it is about to replace and   *)
(* takes a reference for the track; a rollback or an undo puts the old     *)
(* artwork back and drops the reference of the new one.                    *)
(*                                                                         *)
(* Artwork is identified with its digest.  A publication is volatile until *)
(* the file and the chain of its directories are synced; a crash may lose  *)
(* it, and always loses the transaction that is open.                      *)
(***************************************************************************)
EXTENDS Integers, Sequences, FiniteSets

CONSTANTS
    Art,        \* artwork, by its SHA-256
    Tracks,     \* files of the library
    Reviews,    \* review bundles that propose a cover
    None,       \* no artwork
    MaxWrites   \* bound: applied covers

ASSUME BlobsConstantsAssumption ==
    /\ None \notin Art /\ None \notin Tracks /\ None \notin Reviews
    /\ IsFiniteSet(Tracks)
    /\ MaxWrites \in Nat

NoRow == -1     \* no row: not a count

VARIABLES
    row,       \* Blob.refcount by digest, NoRow without a row
    file,      \* the published entry: "none", "linked" (not synced), "durable"
    embedded,  \* the artwork inside a file
    cover,     \* Track.art_blob_id
    inverse,   \* journals of a track that can be undone: what they replaced
    review,    \* the state of a review and the artwork it proposes
    put,       \* the enrichment job inside BlobStore.put
    write,     \* the apply or restore job: its step and its file
    torn,      \* history: rows whose release was cut short by a crash
    writes     \* history: for the bound

blobsVars == <<row, file, embedded, cover, inverse, review, put, write, torn, writes>>

Resting == [step |-> "idle", of |-> None, for |-> None, known |-> FALSE]

Exists(b) == row[b] # NoRow
Intact(b) == Exists(b) /\ file[b] # "none"

BlobsInit ==
    /\ row = [b \in Art |-> NoRow]
    /\ file = [b \in Art |-> "none"]
    /\ embedded \in [Tracks -> Art \union {None}]
    /\ cover = [t \in Tracks |-> None]
    /\ inverse = [t \in Tracks |-> <<>>]
    /\ review = [r \in Reviews |-> [state |-> "open", proposes |-> None]]
    /\ put = Resting
    /\ write = [step |-> "idle", at |-> None, by |-> None, undoes |-> FALSE]
    /\ torn = {}
    /\ writes = 0

-----------------------------------------------------------------------------
(* Cover enrichment: BlobStore.put and register_candidate.                  *)

\* put() looks for a row of the digest; the bytes of one it finds are verified.
Look(r, b) ==
    /\ put = Resting
    /\ review[r] = [state |-> "open", proposes |-> None]
    /\ Exists(b) => Intact(b)
    /\ put' = [step |-> "looked", of |-> b, for |-> r, known |-> Exists(b)]
    /\ UNCHANGED <<row, file, embedded, cover, inverse, review, write, torn, writes>>

\* A temporary is written and synced, then linked under the digest; an entry
\* that is there already is verified and taken for it.
PublishArt ==
    /\ put.step = "looked"
    /\ ~put.known
    /\ put' = [put EXCEPT !.step = "linked"]
    /\ file' = [file EXCEPT ![put.of] = IF @ = "none" THEN "linked" ELSE @]
    /\ UNCHANGED <<row, embedded, cover, inverse, review, write, torn, writes>>

\* The file and every directory up to the root of the store are synced.
Sync ==
    /\ put.step = IF put.known THEN "looked" ELSE "linked"
    /\ file[put.of] # "none"
    /\ file' = [file EXCEPT ![put.of] = "durable"]
    /\ put' = [put EXCEPT !.step = "synced"]
    /\ UNCHANGED <<row, embedded, cover, inverse, review, write, torn, writes>>

MayInsert == put.step = "synced"

\* The row, the candidate and the operation are committed together; the
\* unique digest and the foreign key hold against what others committed.
Register ==
    /\ MayInsert
    /\ Exists(put.of) = put.known
    /\ row' = [row EXCEPT ![put.of] = IF @ = NoRow THEN 0 ELSE @]
    /\ review' = [review EXCEPT ![put.for].proposes = put.of]
    /\ put' = Resting
    /\ UNCHANGED <<file, embedded, cover, inverse, write, torn, writes>>

\* Cancelled, or any step failed: what was published stays.
PutFails ==
    /\ put # Resting
    /\ put' = Resting
    /\ UNCHANGED <<row, file, embedded, cover, inverse, review, write, torn, writes>>

-----------------------------------------------------------------------------
(* The apply of an accepted cover, and its inverse.                         *)

\* The artwork a write replaces: the catalog's and the file's own.
Replaced(t) == {cover[t], embedded[t]} \ {None}

\* Mutant: what the file holds is stored, and not retained.
CatalogReference(t, b) == IF b = cover[t] THEN 1 ELSE 0

\* The catalog's artwork is retained, and every entry of the file.
References(t, b) == (IF b = cover[t] THEN 1 ELSE 0) + (IF b = embedded[t] THEN 1 ELSE 0)

Captured(t) ==
    [b \in Art |-> IF b \in Replaced(t)
                   THEN (IF Exists(b) THEN row[b] ELSE 0) + References(t, b) ELSE row[b]]

\* write_tag_fields up to the journal: the preflight found the proposed row;
\* what is replaced is stored and retained, each under a name of its own.
CaptureArt(r, t) ==
    /\ write.step = "idle"
    /\ writes < MaxWrites
    /\ review[r].state \in {"open", "failed"}
    /\ review[r].proposes # None
    /\ Exists(review[r].proposes)
    /\ \A b \in Replaced(t) : Exists(b) => Intact(b)
    /\ cover[t] # None => Exists(cover[t])
    /\ row' = Captured(t)
    /\ file' = [b \in Art |-> IF b \in Replaced(t) THEN "durable" ELSE file[b]]
    /\ inverse' = [inverse EXCEPT ![t] =
           Append(@, [catalog |-> cover[t], entries |-> embedded[t], by |-> r])]
    /\ write' = [step |-> "writing", at |-> t, by |-> r, undoes |-> FALSE]
    /\ writes' = writes + 1
    /\ UNCHANGED <<embedded, cover, review, put, torn>>

\* The file has the new cover; the track takes a reference to it.
Written ==
    /\ write.step = "writing"
    /\ LET b == review[write.by].proposes
           t == write.at
       IN  /\ Intact(b)
           /\ embedded' = [embedded EXCEPT ![t] = b]
           /\ row' = [row EXCEPT ![b] = @ + 1]
           /\ cover' = [cover EXCEPT ![t] = b]
    /\ review' = [review EXCEPT ![write.by].state = "applied"]
    /\ write' = [write EXCEPT !.step = "idle"]
    /\ UNCHANGED <<file, inverse, put, torn, writes>>

Journal(t) == inverse[t][Len(inverse[t])]

\* An undo, or the rollback of a run that failed after this file: the file
\* gets its own artwork back, and then the catalog is put right.
RestoreFile(t, rollback) ==
    /\ write.step = "idle"
    /\ inverse[t] # <<>>
    /\ review[Journal(t).by].state = "applied"
    /\ Journal(t).entries # None => Intact(Journal(t).entries)
    /\ embedded' = [embedded EXCEPT ![t] = Journal(t).entries]
    /\ write' = [step |-> "restored", at |-> t, by |-> Journal(t).by, undoes |-> ~rollback]
    /\ UNCHANGED <<row, file, cover, inverse, review, put, torn, writes>>

\* The catalog's cover is not the one to return to.
Releases(t) == cover[t] \notin {None, Journal(t).catalog} /\ Exists(cover[t])

\* release() removes the file of the last reference; the row goes with the
\* commit that follows.
Unlink ==
    /\ write.step = "restored"
    /\ Releases(write.at)
    /\ LET b == cover[write.at]
       IN  file' = [file EXCEPT ![b] = IF row[b] = 1 THEN "none" ELSE @]
    /\ write' = [write EXCEPT !.step = "releasing"]
    /\ UNCHANGED <<row, embedded, cover, inverse, review, put, torn, writes>>

\* restore_catalog_art_identity and the commit of the journal.
RestoreCatalog ==
    /\ write.step \in {"restored", "releasing"}
    /\ (write.step = "releasing") = Releases(write.at)
    /\ LET t == write.at
           b == cover[t]
           releases == Releases(t)
       IN
        /\ Journal(t).catalog # None => Intact(Journal(t).catalog)
        /\ row' = IF ~releases \/ row[b] = 0 THEN row
                  ELSE [row EXCEPT ![b] = IF @ = 1 THEN NoRow ELSE @ - 1]
        /\ torn' = IF releases THEN torn \ {b} ELSE torn
        /\ cover' = [cover EXCEPT ![t] = Journal(t).catalog]
        /\ inverse' = [inverse EXCEPT ![t] = SubSeq(@, 1, Len(@) - 1)]
        /\ review' = [review EXCEPT ![write.by].state = IF write.undoes THEN "undone" ELSE "failed"]
        /\ write' = [write EXCEPT !.step = "idle"]
        /\ UNCHANGED <<file, embedded, put, writes>>

\* A crash: what was not synced may be gone, what was not committed is.  A
\* file left half written is not touched again; a restore is resumed.
BlobsCrash ==
    /\ write.step # "idle" \/ put # Resting
    /\ file' \in [Art -> {"none", "durable"}]
    /\ \A b \in Art : file[b] # "linked" => file'[b] = file[b]
    /\ put' = Resting
    /\ write' = [write EXCEPT !.step = CASE @ = "releasing" -> "restored"
                                         [] @ = "restored" -> "restored"
                                         [] OTHER -> "idle"]
    /\ inverse' = IF write.step = "writing"
                  THEN [inverse EXCEPT ![write.at] = SubSeq(@, 1, Len(@) - 1)] ELSE inverse
    /\ torn' = IF write.step = "releasing" /\ file[cover[write.at]] = "none"
               THEN torn \union {cover[write.at]} ELSE torn
    /\ UNCHANGED <<row, embedded, cover, review, writes>>

BlobsNext ==
    \/ \E r \in Reviews, b \in Art : Look(r, b)
    \/ PublishArt
    \/ Sync
    \/ Register
    \/ PutFails
    \/ \E r \in Reviews, t \in Tracks : CaptureArt(r, t)
    \/ Written
    \/ \E t \in Tracks, rollback \in BOOLEAN : RestoreFile(t, rollback)
    \/ Unlink
    \/ RestoreCatalog
    \/ BlobsCrash

BlobsSpec == BlobsInit /\ [][BlobsNext]_blobsVars

-----------------------------------------------------------------------------

Journals == [catalog : Art \union {None}, entries : Art \union {None}, by : Reviews]

BlobsTypeOK ==
    /\ row \in [Art -> (0..3 * MaxWrites) \union {NoRow}]
    /\ file \in [Art -> {"none", "linked", "durable"}]
    /\ {embedded, cover} \subseteq [Tracks -> Art \union {None}]
    /\ inverse \in [Tracks -> Seq(Journals)]
    /\ \A t \in Tracks : Len(inverse[t]) <= MaxWrites
    /\ review \in [Reviews -> [state    : {"open", "applied", "undone", "failed"},
                               proposes : Art \union {None}]]
    /\ put \in [step : {"idle", "looked", "linked", "synced"}, of : Art \union {None},
                for  : Reviews \union {None}, known : BOOLEAN]
    /\ write \in [step : {"idle", "writing", "restored", "releasing"},
                  at : Tracks \union {None}, by : Reviews \union {None}, undoes : BOOLEAN]
    /\ torn \subseteq Art
    /\ writes \in 0..MaxWrites

\* A committed row of "blobs" names bytes that survive a crash, whatever put()
\* was interrupted by; only a release cut short leaves a row without them.
RowHasBytes ==
    \A b \in Art : Exists(b) => \/ file[b] = "durable"
                                \/ b \in torn
                                \/ write.step = "releasing" /\ b = cover[write.at]

\* What a journal needs to put a file back is in the store as long as the
\* journal can be undone: retain() in write_tag_fields outlives every release.
ArtKept ==
    \A t \in Tracks : \A i \in DOMAIN inverse[t] :
        \A b \in {inverse[t][i].catalog, inverse[t][i].entries} \ {None} :
            Exists(b) /\ file[b] = "durable"

\* A row of artwork has its bytes, and what an inverse needs is in the store
\* (changes/blobstore.py).
BytesKept == RowHasBytes /\ ArtKept

\* docs/product-spec.md:382: cached remote artwork needed by an existing review
\* is retained for review/apply continuity.
ReviewKeepsArt ==
    \A r \in Reviews :
        review[r].state \in {"open", "failed"} /\ review[r].proposes # None
            => Exists(review[r].proposes)
=============================================================================
