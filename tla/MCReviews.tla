----------------------------- MODULE MCReviews -----------------------------
(***************************************************************************)
(* One review, for model checking: two requests that may do anything with  *)
(* it, over three revisions.                                               *)
(***************************************************************************)
EXTENDS Reviews

CONSTANTS b1, r1, r2

Three == [b \in Bundles |-> 3]
Free  == [r \in Requests |-> [b \in Bundles |-> Kinds \cup {"found", "apply"}]]
=============================================================================
