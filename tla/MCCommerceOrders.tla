--------------------------- MODULE MCCommerceOrders ---------------------------
(* Small instances of CommerceOrders: two inventory rows and two cart lines. *)
EXTENDS CommerceOrders, TLC

CONSTANTS r1, r2, l1, l2

\* Each line is tracked by its own row.
OneRowEach == [l \in {l1, l2} |-> IF l = l1 THEN {r1} ELSE {r2}]
\* l1 names a product that has two rows (two variants), l2 is untracked.
TwoRows == [l \in {l1, l2} |-> IF l = l1 THEN {r1, r2} ELSE {}]
StockOf1And2 == [r \in {r1, r2} |-> IF r = r1 THEN 1 ELSE 2]
StockOf1 == [r \in {r1, r2} |-> 1]

RequestSymmetry == Permutations(OrderIds)
=============================================================================
