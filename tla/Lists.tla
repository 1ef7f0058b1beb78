------------------------------- MODULE Lists --------------------------------
(* Choosing from a list without recursion, so that it can be reasoned about. *)
EXTENDS Naturals, FiniteSets

\* The elements of s at the indices in keep, in their order: what filter does.
Kept(s, keep) ==
  [n \in 1..Cardinality(keep) |->
     s[CHOOSE k \in keep : Cardinality({j \in keep : j < k}) = n - 1]]
=============================================================================
