-------------------------------- MODULE Indices --------------------------------
(* Sorted integers, without the search through all sequences that makes *)
(* SetToSortSeq slow.                                                    *)
EXTENDS Integers, FiniteSets

\* sorted(S)
Ascending(S) ==
  [k \in 1..Cardinality(S) |-> CHOOSE x \in S : Cardinality({y \in S : y < x}) = k - 1]

\* The values of f at the indices in S, in their order.
Picked(f, S) == [k \in 1..Cardinality(S) |-> f[Ascending(S)[k]]]
===============================================================================
