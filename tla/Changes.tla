------------------------------- MODULE Changes -------------------------------
(***************************************************************************)
(* What changes files: the replacement of one file, an Undo, the store of  *)
(* artwork, and the names proposed for files.  They share no state that    *)
(* these modules hold, so what is said here of several is said of each.    *)
(***************************************************************************)
EXTENDS Replacement, BundleUndo, Blobs, Renames

\* Every variable keeps its type (the components' own type invariants).
TypesOK == TypeOK /\ UndoTypeOK /\ BlobsTypeOK /\ RenamesTypeOK
=============================================================================
