-------------------------------- MODULE Orders --------------------------------
(***************************************************************************)
(* The members of a finite set in the order of a relation, as a sequence:  *)
(* what a sort returns whose key leaves no ties.                           *)
(***************************************************************************)
EXTENDS Integers, FiniteSets

\* How many of S the relation R, a set of pairs, puts before x.
Ahead(S, R, x) == Cardinality({y \in S : <<y, x>> \in R})

Arrange(S, R) == [k \in 1..Cardinality(S) |-> CHOOSE x \in S : Ahead(S, R, x) = k - 1]
===============================================================================
