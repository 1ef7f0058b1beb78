----------------------------- MODULE UsageLedger -----------------------------
(* What the usage service promises: reservations that fit the plan they are  *)
(* checked against, each settled at most once.  The counters of a month are  *)
(* what its reservations add up to.                                          *)
EXTENDS UsageData

VARIABLE ledger   \* ledger[e]: reservation e, or NoEvent

Init == ledger = [e \in EventIds |-> NoEvent]

Counted(m) == CounterOf(ledger, m, "COMMITTED") + CounterOf(ledger, m, "RESERVED")
Tokens(m) == SpentOf(ledger, m) + EstimateOf(ledger, m, "RESERVED")

Reserve(e, m, pl, amount, estimate) ==
  /\ ledger[e] = NoEvent
  /\ Fits(pl, Counted(m), amount, Tokens(m), estimate)
  /\ ledger' = [ledger EXCEPT ![e] = Reservation(m, amount, estimate)]

Commit(e, total) ==
  /\ ledger[e].status = "RESERVED"
  /\ ledger' = [ledger EXCEPT ![e].status = "COMMITTED", ![e].total = total]

Release(e) ==
  /\ ledger[e].status = "RESERVED"
  /\ ledger' = [ledger EXCEPT ![e].status = "RELEASED"]

Next == \E e \in EventIds :
  \/ \E m \in Months, pl \in Plans, amount \in Amounts, estimate \in Amounts :
       Reserve(e, m, pl, amount, estimate)
  \/ \E total \in Amounts : Commit(e, total)
  \/ Release(e)

Spec == Init /\ [][Next]_ledger
=============================================================================
