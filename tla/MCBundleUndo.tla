---------------------------- MODULE MCBundleUndo ----------------------------
(***************************************************************************)
(* The Undo of three files, for model checking.                            *)
(***************************************************************************)
EXTENDS BundleUndo

\* Tags and a move of either kind; a correction of collections.
Bundles == {<<<<"tags", "move">>, <<"tags">>, <<"tags", "recase">>>>,
            <<<<"grouping">>, <<"grouping">>, <<"grouping">>>>}
=============================================================================
