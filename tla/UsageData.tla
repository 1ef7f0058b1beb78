------------------------------ MODULE UsageData ------------------------------
(* The AI usage ledger of one user: the reservations made (AiUsageEvent) and *)
(* what they add up to, shared by the abstract ledger (UsageLedger), the     *)
(* service that keeps it (UsageQuota) and the tasks that spend it            *)
(* (AgentTasks).                                                             *)
EXTENDS Integers, FiniteSets

CONSTANTS
  EventIds,  \* reservation ids
  Months,    \* accounting months
  Plans,     \* plans the user may have: their counter and token quotas
  MaxUnits,  \* bound: largest counter amount, token estimate and token total
  None       \* "nobody", "not reported"

Amounts == 0..MaxUnits
ASSUME UsageAssumption ==
  /\ IsFiniteSet(EventIds) /\ None \notin EventIds
  /\ MaxUnits \in Nat /\ None \notin Amounts
  /\ Plans \subseteq [counter : Nat, tokens : Nat]
  /\ Months # {} /\ Plans # {}

Events == [status : {"ABSENT", "RESERVED", "COMMITTED", "RELEASED"},
           month : Months \cup {None}, amount : Amounts, estimate : Amounts,
           total : Amounts]
NoEvent == [status |-> "ABSENT", month |-> None, amount |-> 0, estimate |-> 0, total |-> 0]
Reservation(m, amount, estimate) ==
  [status |-> "RESERVED", month |-> m, amount |-> amount, estimate |-> estimate, total |-> 0]

\* The sum of f over S, counted unit by unit.
UnitsOf(S, f) == {u \in S \X (1..MaxUnits) : u[2] <= f[u[1]]}
Total(S, f) == Cardinality(UnitsOf(S, f))

\* What the events of a ledger L in a status of a month add up to.
In(L, m, s) == {e \in EventIds : L[e].status = s /\ L[e].month = m}
CounterOf(L, m, s) == Total(In(L, m, s), [e \in EventIds |-> L[e].amount])
EstimateOf(L, m, s) == Total(In(L, m, s), [e \in EventIds |-> L[e].estimate])
SpentOf(L, m) == Total(In(L, m, "COMMITTED"), [e \in EventIds |-> L[e].total])
\* Tokens that tasks used beyond what was reserved for them.
Excess(ev) == IF ev.total > ev.estimate THEN ev.total - ev.estimate ELSE 0
ExcessOf(L, m) == Total(In(L, m, "COMMITTED"), [e \in EventIds |-> Excess(L[e])])

\* assertWithinQuota, on what is used and reserved so far.
Fits(pl, counted, amount, tokens, estimate) ==
  /\ tokens + estimate <= pl.tokens
  /\ amount = 0 \/ counted + amount <= pl.counter

\* resolveTotalTokens: what the provider reported, else the estimate.
Resolve(reported, estimate) == IF reported = None THEN estimate ELSE reported
=============================================================================
