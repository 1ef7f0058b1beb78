---------------------------- MODULE MCUsageQuota ----------------------------
(* Small instances of UsageQuota: a plan with room for one reservation of    *)
(* one unit, and one whose allowance is used up.                             *)
EXTENDS UsageQuota, TLC

Small == [counter |-> 0, tokens |-> 0]
Large == [counter |-> 1, tokens |-> 1]
BothPlans == {Small, Large}
OnePlan == {Large}

CallSymmetry == Permutations(EventIds) \cup Permutations(Settlers)
=============================================================================
