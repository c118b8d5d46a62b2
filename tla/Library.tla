------------------------------ MODULE Library -------------------------------
(***************************************************************************)
(* The library: the Applies of a bundle, the catalog of files, their       *)
(* grouping and duplicate recordings.  They share no state that these      *)
(* modules hold, so what is said here of several of them is said of each.  *)
(* The parts of a property are stated and explained in their modules.      *)
(***************************************************************************)
EXTENDS BundleApply, Catalog, Grouping, Duplicates

\* Every variable keeps its type (the components' own type invariants).
TypesOK == TypeOK /\ CatalogTypeOK /\ GroupingTypeOK /\ DuplicatesTypeOK

\* No order of scan, reread, Apply and edits hides old tags behind a new mtime,
\* and an undisturbed scan leaves its scope as the files are (pipeline/scan.py);
\* the duplicates offered do not overlap and are there (pipeline/duplicates.py).
CatalogIsTrue == SkippedIsRead /\ ScanConverges /\ OffersAreTrue

\* What the user confirmed or dismissed stays, but for what a cascade or a detection
\* had read before, and the import of a directory keeps to it (pipeline/grouping.py,
\* pipeline/duplicates.py).
DecisionsStay == [][KeepsPins /\ KeepsScope /\ KeepsDismissals]_<<groupingVars, duplicatesVars>>
=============================================================================
