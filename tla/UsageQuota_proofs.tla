------------------------- MODULE UsageQuota_proofs -------------------------
(* Theorems about UsageQuota for every set of reservations, settlements,     *)
(* months, plans and amounts.                                                *)
EXTENDS UsageQuota, FiniteSetTheorems, TLAPS

(* What the sums over a usage ledger do when one of its events changes *)

\* A sum over reservations is a number.
LEMMA TotalNat ==
  ASSUME NEW S \in SUBSET EventIds, NEW f
  PROVE  IsFiniteSet(UnitsOf(S, f)) /\ Total(S, f) \in Nat
<1>0. MaxUnits \in Nat /\ IsFiniteSet(EventIds)
  BY UsageAssumption
<1>1. IsFiniteSet(S) /\ IsFiniteSet(1..MaxUnits)
  BY <1>0, FS_Subset, FS_Interval
<1>2. IsFiniteSet(S \X (1..MaxUnits))
  BY <1>1, FS_Product
<1>3. UnitsOf(S, f) \in SUBSET (S \X (1..MaxUnits))
  BY DEF UnitsOf
<1> QED
  BY <1>2, <1>3, FS_Subset, FS_CardinalityType DEF Total

\* Only what f is on S matters.
LEMMA TotalSame ==
  ASSUME NEW S, NEW f, NEW g, \A e \in S : f[e] = g[e]
  PROVE  Total(S, f) = Total(S, g)
<1>1. UnitsOf(S, f) = UnitsOf(S, g)
  BY DEF UnitsOf
<1> QED
  BY <1>1 DEF Total

\* The numbers from 1 to n are n.
LEMMA UpTo ==
  ASSUME NEW n \in Nat
  PROVE  IsFiniteSet(1..n) /\ Cardinality(1..n) = n
<1>1. /\ IsFiniteSet(1..n)
      /\ Cardinality(1..n) = IF 1 > n THEN 0 ELSE n - 1 + 1
  BY FS_Interval
<1>2. (IF 1 > n THEN 0 ELSE n - 1 + 1) = n
  OBVIOUS
<1> QED
  BY <1>1, <1>2

\* The units of one more reservation are as many as it has.
LEMMA UnitsOfOne ==
  ASSUME NEW x, NEW f, f[x] \in Amounts
  PROVE  /\ IsFiniteSet(UnitsOf({x}, f))
         /\ Cardinality(UnitsOf({x}, f)) = f[x]
<1> DEFINE n == f[x]
<1>0. n \in Nat
  BY UsageAssumption DEF Amounts
<1> DEFINE h == [k \in 1..n |-> <<x, k>>]
<1>1. n \in Nat /\ n <= MaxUnits /\ MaxUnits \in Nat
  BY UsageAssumption DEF Amounts
<1>2. h \in Bijection(1..n, UnitsOf({x}, f))
  <2>1. h \in [1..n -> UnitsOf({x}, f)]
    BY <1>1 DEF UnitsOf
  <2>2. \A a, b \in 1..n : h[a] = h[b] => a = b
    OBVIOUS
  <2>3. \A u \in UnitsOf({x}, f) : \E k \in 1..n : h[k] = u
    BY <1>1 DEF UnitsOf
  <2> QED
    BY <2>1, <2>2, <2>3 DEF Bijection, Injection, Surjection, IsInjective
<1>3. IsFiniteSet(1..n) /\ Cardinality(1..n) = n
  <2> HIDE DEF n
  <2> QED
    BY <1>0, UpTo
<1> HIDE DEF h, n
<1>4. ExistsBijection(1..n, UnitsOf({x}, f))
  BY <1>2 DEF ExistsBijection
<1>5. IsFiniteSet(UnitsOf({x}, f)) /\ Cardinality(UnitsOf({x}, f)) = Cardinality(1..n)
  BY <1>3, <1>4, FS_Bijection
<1> QED
  BY <1>3, <1>5 DEF n

\* One more reservation adds its units.
LEMMA TotalAdd ==
  ASSUME NEW S \in SUBSET EventIds, NEW x \in EventIds \ S, NEW f, NEW g,
         \A e \in S : g[e] = f[e], g[x] \in Amounts
  PROVE  Total(S \cup {x}, g) = Total(S, f) + g[x]
<1> DEFINE A == UnitsOf(S, g)
           B == UnitsOf({x}, g)
<1>1. UnitsOf(S \cup {x}, g) = A \cup B /\ A \cap B = {}
  BY DEF UnitsOf
<1>2. IsFiniteSet(A) /\ IsFiniteSet(B) /\ Cardinality(B) = g[x]
  BY TotalNat, UnitsOfOne
<1>3. Total(S, g) = Total(S, f)
  BY TotalSame
<1>4. Cardinality(A \cup B) = Cardinality(A) + Cardinality(B) - Cardinality(A \cap B)
  BY <1>2, FS_Union
<1>5. Cardinality(A \cap B) = 0
  BY <1>1, FS_EmptySet
<1>6. Cardinality(A) = Total(S, f) /\ Total(S, f) \in Nat /\ g[x] \in Nat
  BY <1>3, TotalNat, UsageAssumption DEF Total, Amounts
<1> HIDE DEF A, B
<1>7. Cardinality(A \cup B) = Total(S, f) + g[x]
  BY <1>2, <1>4, <1>5, <1>6
<1> QED
  BY <1>1, <1>7 DEF Total
-----------------------------------------------------------------------------
Ledgers == [EventIds -> Events]

\* The figures of a ledger are numbers.
LEMMA FiguresNat ==
  ASSUME NEW L, NEW m, NEW s
  PROVE  /\ CounterOf(L, m, s) \in Nat /\ EstimateOf(L, m, s) \in Nat
         /\ SpentOf(L, m) \in Nat /\ ExcessOf(L, m) \in Nat
<1>1. In(L, m, s) \in SUBSET EventIds /\ In(L, m, "COMMITTED") \in SUBSET EventIds
  BY DEF In
<1> QED
  BY <1>1, TotalNat DEF CounterOf, EstimateOf, SpentOf, ExcessOf

\* An empty ledger adds up to nothing.
LEMMA FiguresEmpty ==
  ASSUME NEW L, L = [e \in EventIds |-> NoEvent], NEW m, NEW s \in {"RESERVED", "COMMITTED"}
  PROVE  CounterOf(L, m, s) = 0 /\ EstimateOf(L, m, s) = 0 /\ SpentOf(L, m) = 0
         /\ ExcessOf(L, m) = 0
<1>1. In(L, m, s) = {} /\ In(L, m, "COMMITTED") = {}
  BY DEF In, NoEvent
<1>2. \A f : Total({}, f) = 0
  <2>1. \A f : UnitsOf({}, f) = {}
    BY DEF UnitsOf
  <2> QED
    BY <2>1, FS_EmptySet DEF Total
<1> QED
  BY <1>1, <1>2 DEF CounterOf, EstimateOf, SpentOf, ExcessOf

\* Amounts of an event.
LEMMA EventAmounts ==
  ASSUME NEW ev \in Events
  PROVE  /\ ev.amount \in Amounts /\ ev.estimate \in Amounts /\ ev.total \in Amounts
         /\ Excess(ev) \in Amounts
BY UsageAssumption DEF Events, Amounts, Excess

\* An event outside a set of events changes no sum over it.
LEMMA FiguresApart ==
  ASSUME NEW L, NEW L2, NEW m, NEW s, In(L2, m, s) = In(L, m, s),
         \A e \in In(L, m, s) : L2[e] = L[e]
  PROVE  /\ CounterOf(L2, m, s) = CounterOf(L, m, s)
         /\ EstimateOf(L2, m, s) = EstimateOf(L, m, s)
         /\ s = "COMMITTED" => SpentOf(L2, m) = SpentOf(L, m) /\ ExcessOf(L2, m) = ExcessOf(L, m)
<1> DEFINE S == In(L, m, s)
<1>0. \A e \in S : e \in EventIds
  BY DEF In
<1>1. CounterOf(L2, m, s) = CounterOf(L, m, s)
  <2>1. \A e \in S : [x \in EventIds |-> L2[x].amount][e] = [x \in EventIds |-> L[x].amount][e]
    BY <1>0
  <2> HIDE DEF S
  <2>2. Total(S, [x \in EventIds |-> L2[x].amount]) = Total(S, [x \in EventIds |-> L[x].amount])
    BY <2>1, TotalSame
  <2> QED
    BY <2>2 DEF CounterOf, S
<1>2. EstimateOf(L2, m, s) = EstimateOf(L, m, s)
  <2>1. \A e \in S : [x \in EventIds |-> L2[x].estimate][e] = [x \in EventIds |-> L[x].estimate][e]
    BY <1>0
  <2> HIDE DEF S
  <2>2. Total(S, [x \in EventIds |-> L2[x].estimate]) = Total(S, [x \in EventIds |-> L[x].estimate])
    BY <2>1, TotalSame
  <2> QED
    BY <2>2 DEF EstimateOf, S
<1>3. ASSUME s = "COMMITTED" PROVE SpentOf(L2, m) = SpentOf(L, m)
  <2>1. \A e \in S : [x \in EventIds |-> L2[x].total][e] = [x \in EventIds |-> L[x].total][e]
    BY <1>0
  <2> HIDE DEF S
  <2>2. Total(S, [x \in EventIds |-> L2[x].total]) = Total(S, [x \in EventIds |-> L[x].total])
    BY <2>1, TotalSame
  <2> QED
    BY <1>3, <2>2 DEF SpentOf, S
<1>4. ASSUME s = "COMMITTED" PROVE ExcessOf(L2, m) = ExcessOf(L, m)
  <2>1. \A e \in S : [x \in EventIds |-> Excess(L2[x])][e] = [x \in EventIds |-> Excess(L[x])][e]
    BY <1>0
  <2> HIDE DEF S
  <2>2. Total(S, [x \in EventIds |-> Excess(L2[x])]) = Total(S, [x \in EventIds |-> Excess(L[x])])
    BY <2>1, TotalSame
  <2> QED
    BY <1>4, <2>2 DEF ExcessOf, S
<1> QED
  BY <1>1, <1>2, <1>3, <1>4

\* An event that joins a status adds what it has to the sums over it.
LEMMA FiguresJoin ==
  ASSUME NEW L, NEW L2 \in Ledgers, NEW m, NEW s, NEW x \in EventIds,
         x \notin In(L, m, s), In(L2, m, s) = In(L, m, s) \cup {x},
         \A e \in In(L, m, s) : L2[e] = L[e]
  PROVE  /\ CounterOf(L2, m, s) = CounterOf(L, m, s) + L2[x].amount
         /\ EstimateOf(L2, m, s) = EstimateOf(L, m, s) + L2[x].estimate
         /\ s = "COMMITTED" => /\ SpentOf(L2, m) = SpentOf(L, m) + L2[x].total
                               /\ ExcessOf(L2, m) = ExcessOf(L, m) + Excess(L2[x])
<1> DEFINE S == In(L, m, s)
<1>0. /\ S \in SUBSET EventIds /\ x \in EventIds \ S
      /\ In(L2, m, s) = S \cup {x}
      /\ L2[x].amount \in Amounts /\ L2[x].estimate \in Amounts /\ L2[x].total \in Amounts
      /\ Excess(L2[x]) \in Amounts
  BY EventAmounts DEF In, Ledgers
<1>1. CounterOf(L2, m, s) = CounterOf(L, m, s) + L2[x].amount
  <2> DEFINE f == [e \in EventIds |-> L[e].amount]
             g == [e \in EventIds |-> L2[e].amount]
  <2>1. (\A e \in S : g[e] = f[e]) /\ g[x] = L2[x].amount
    BY <1>0
  <2> HIDE DEF S, f, g
  <2>2. S \in SUBSET EventIds /\ x \in EventIds \ S /\ g[x] \in Amounts
    BY <1>0, <2>1
  <2>3. \A e \in S : g[e] = f[e]
    BY <2>1
  <2>4. Total(S \cup {x}, g) = Total(S, f) + g[x]
    BY <2>2, <2>3, TotalAdd
  <2> QED
    BY <1>0, <2>1, <2>4 DEF CounterOf, S, f, g
<1>2. EstimateOf(L2, m, s) = EstimateOf(L, m, s) + L2[x].estimate
  <2> DEFINE f == [e \in EventIds |-> L[e].estimate]
             g == [e \in EventIds |-> L2[e].estimate]
  <2>1. (\A e \in S : g[e] = f[e]) /\ g[x] = L2[x].estimate
    BY <1>0
  <2> HIDE DEF S, f, g
  <2>2. S \in SUBSET EventIds /\ x \in EventIds \ S /\ g[x] \in Amounts
    BY <1>0, <2>1
  <2>3. \A e \in S : g[e] = f[e]
    BY <2>1
  <2>4. Total(S \cup {x}, g) = Total(S, f) + g[x]
    BY <2>2, <2>3, TotalAdd
  <2> QED
    BY <1>0, <2>1, <2>4 DEF EstimateOf, S, f, g
<1>3. ASSUME s = "COMMITTED" PROVE SpentOf(L2, m) = SpentOf(L, m) + L2[x].total
  <2> DEFINE f == [e \in EventIds |-> L[e].total]
             g == [e \in EventIds |-> L2[e].total]
  <2>1. (\A e \in S : g[e] = f[e]) /\ g[x] = L2[x].total
    BY <1>0
  <2> HIDE DEF S, f, g
  <2>2. S \in SUBSET EventIds /\ x \in EventIds \ S /\ g[x] \in Amounts
    BY <1>0, <2>1
  <2>3. \A e \in S : g[e] = f[e]
    BY <2>1
  <2>4. Total(S \cup {x}, g) = Total(S, f) + g[x]
    BY <2>2, <2>3, TotalAdd
  <2> QED
    BY <1>0, <1>3, <2>1, <2>4 DEF SpentOf, S, f, g
<1>4. ASSUME s = "COMMITTED" PROVE ExcessOf(L2, m) = ExcessOf(L, m) + Excess(L2[x])
  <2> DEFINE f == [e \in EventIds |-> Excess(L[e])]
             g == [e \in EventIds |-> Excess(L2[e])]
  <2>1. (\A e \in S : g[e] = f[e]) /\ g[x] = Excess(L2[x])
    BY <1>0
  <2> HIDE DEF S, f, g
  <2>2. S \in SUBSET EventIds /\ x \in EventIds \ S /\ g[x] \in Amounts
    BY <1>0, <2>1
  <2>3. \A e \in S : g[e] = f[e]
    BY <2>1
  <2>4. Total(S \cup {x}, g) = Total(S, f) + g[x]
    BY <2>2, <2>3, TotalAdd
  <2> QED
    BY <1>0, <1>4, <2>1, <2>4 DEF ExcessOf, S, f, g
<1> QED
  BY <1>1, <1>2, <1>3, <1>4

(* Types *)

LEMMA TypeInit == Init => TypeOK
<1> SUFFICES ASSUME Init PROVE TypeOK
  OBVIOUS
<1>1. 0 \in Amounts
  BY UsageAssumption DEF Amounts
<1>2. NoEvent \in Events /\ NewPeriod \in Periods
  BY <1>1 DEF NoEvent, Events, NewPeriod, Periods
<1>3. call \in [Calls -> CallsOf]
  BY <1>1, <1>2 DEF Init, CallsOf, Outcomes
<1> QED
  BY <1>2, <1>3 DEF Init, TypeOK

\* What a settlement writes has the right types.
LEMMA SettledType ==
  ASSUME NEW now \in Periods, NEW ev \in Events, NEW j \in CallsOf
  PROVE  Settled(now, ev, j) \in Periods /\ Resolve(j.reported, ev.estimate) \in Amounts
<1>1. /\ now.used \in Nat /\ now.reserved \in Nat
      /\ now.tokensUsed \in Nat /\ now.tokensReserved \in Nat
      /\ ev.amount \in Amounts /\ ev.estimate \in Amounts
      /\ j.reported \in Amounts \cup {None}
  BY DEF Periods, Events, CallsOf
<1>2. Resolve(j.reported, ev.estimate) \in Amounts
  BY <1>1 DEF Resolve
<1>3. /\ \A n \in Amounts : n \in Nat
      /\ \A a \in Nat, n \in Nat : Floor0(a - n) \in Nat
  BY UsageAssumption DEF Amounts, Floor0
<1> DEFINE spent == Resolve(j.reported, ev.estimate)
<1>5. ev.amount \in Nat /\ ev.estimate \in Nat /\ spent \in Nat
  BY <1>1, <1>2, <1>3
<1>4. /\ Floor0(now.reserved - ev.amount) \in Nat
      /\ Floor0(now.tokensReserved - ev.estimate) \in Nat
      /\ now.used + ev.amount \in Nat
      /\ now.tokensUsed + spent \in Nat
  <2> HIDE DEF spent
  <2> QED
    BY <1>1, <1>5 DEF Floor0
<1> QED
  BY <1>2, <1>4 DEF Settled, Periods

\* A call that settles works on an event of its month.
LEMMA SettlerHolds ==
  ASSUME TypeOK, CallsInOrder, NEW c \in Calls, pc[c] = "update"
  PROVE  /\ call[c].on \in EventIds /\ event[call[c].on] \in Events
         /\ event[call[c].on].status = "RESERVED"
         /\ call[c].month \in Months /\ event[call[c].on].month = call[c].month
         /\ call[c] \in CallsOf /\ period[call[c].month] \in Periods
         /\ elock[call[c].on] = c
BY DEF TypeOK, CallsInOrder, CallInOrder, CallsOf

\* A call that reserves has not yet inserted its event.
LEMMA ReserverHolds ==
  ASSUME TypeOK, CallsInOrder, NEW c \in Calls, pc[c] = "check"
  PROVE  /\ c \in EventIds /\ event[c] = NoEvent
         /\ call[c].month \in Months /\ call[c].plan \in Plans
         /\ call[c].amount \in Amounts /\ call[c].estimate \in Amounts
         /\ period[call[c].month] \in Periods /\ call[c].seen = period[call[c].month]
         /\ Reservation(call[c].month, call[c].amount, call[c].estimate) \in Events
<1>1. 0 \in Amounts
  BY UsageAssumption DEF Amounts
<1>2. /\ c \in EventIds /\ event[c] = NoEvent /\ call[c] \in CallsOf
      /\ call[c].seen = period[call[c].month]
  BY DEF TypeOK, CallsInOrder, CallInOrder
<1> QED
  BY <1>1, <1>2 DEF TypeOK, CallsOf, Reservation, Events

\* COMMIT and ROLLBACK leave well-typed locks.
LEMMA UnlockType ==
  ASSUME TypeOK, NEW c, Unlock(c)
  PROVE  plock' \in [Months -> Calls \cup {None}] /\ elock' \in [EventIds -> Calls \cup {None}]
BY DEF TypeOK, Unlock

\* Every step keeps the types.
LEMMA TypeStep ==
  ASSUME TypeOK, CallsInOrder, EventsDated, [Next]_vars
  PROVE  TypeOK'
<1>1. ASSUME NEW c \in Calls, NEW amount \in Amounts, NEW estimate \in Amounts, StartReserve(c, amount, estimate)
      PROVE  TypeOK'
  <2>1. call[c] \in CallsOf /\ plan \in Plans /\ month \in Months
    BY DEF TypeOK
  <2>2. [call[c] EXCEPT !.on = c, !.plan = plan, !.month = month,
                        !.amount = amount, !.estimate = estimate] \in CallsOf
    BY <1>1, <2>1 DEF StartReserve, CallsOf
  <2> QED
    BY <1>1, <2>2 DEF TypeOK, StartReserve, Goto, world, tables
<1>2. ASSUME NEW c \in Calls, NEW e \in EventIds, NEW outcome \in Outcomes,
             NEW reported \in Amounts \cup {None}, StartSettle(c, e, outcome, reported)
      PROVE  TypeOK'
  <2>1. [call[c] EXCEPT !.on = e, !.outcome = outcome, !.reported = reported] \in CallsOf
    BY <1>2 DEF TypeOK, CallsOf
  <2> QED
    BY <1>2, <2>1 DEF TypeOK, StartSettle, Goto, world, tables
<1>3. ASSUME NEW c \in Calls, LockForReserve(c)
      PROVE  TypeOK'
  <2>1. [call[c] EXCEPT !.seen = period[call[c].month]] \in CallsOf
    BY <1>3 DEF TypeOK, CallsOf
  <2> QED
    BY <1>3, <2>1 DEF TypeOK, LockForReserve, Goto, world, tables
<1>4. ASSUME NEW c \in Calls, Refuse(c)
      PROVE  TypeOK'
  BY <1>4, UnlockType DEF TypeOK, Refuse, Goto, world, tables
<1>5. ASSUME NEW c \in Calls, CommitReserve(c)
      PROVE  TypeOK'
  <2>1. event' \in [EventIds -> Events]
    BY <1>5, ReserverHolds DEF TypeOK, CommitReserve
  <2>2. \A n \in Amounts : n \in Nat
    BY UsageAssumption DEF Amounts
  <2>3. [period[call[c].month] EXCEPT !.reserved = @ + call[c].amount,
                                      !.tokensReserved = @ + call[c].estimate] \in Periods
    <3>1. /\ call[c].amount \in Nat /\ call[c].estimate \in Nat
          /\ period[call[c].month] \in Periods
      BY <1>5, <2>2, ReserverHolds DEF CommitReserve
    <3> DEFINE now == period[call[c].month]
    <3>2. /\ now.reserved \in Nat /\ now.tokensReserved \in Nat
          /\ now.reserved + call[c].amount \in Nat
          /\ now.tokensReserved + call[c].estimate \in Nat
      BY <3>1 DEF Periods
    <3> QED
      BY <3>1, <3>2 DEF Periods
  <2>4. period' \in [Months -> Periods]
    BY <1>5, <2>3, ReserverHolds DEF TypeOK, CommitReserve
  <2> QED
    BY <1>5, <2>1, <2>4, UnlockType DEF TypeOK, CommitReserve, Goto, world
<1>6. ASSUME NEW c \in Calls, LockEvent(c)
      PROVE  TypeOK'
  <2>1. call[c].on \in EventIds
    BY <1>6 DEF LockEvent, CallsInOrder, CallInOrder
  <2>2. event[call[c].on].month \in Months
    BY <1>6, <2>1 DEF LockEvent, EventsDated, NoEvent
  <2>3. [call[c] EXCEPT !.month = event[call[c].on].month] \in CallsOf
    BY <2>2 DEF TypeOK, CallsOf
  <2> QED
    BY <1>6, <2>1, <2>3 DEF TypeOK, LockEvent, Goto, world, tables
<1>7. ASSUME NEW c \in Calls, AlreadySettled(c)
      PROVE  TypeOK'
  BY <1>7 DEF TypeOK, AlreadySettled, Goto, world, tables
<1>8. ASSUME NEW c \in Calls, LockPeriod(c)
      PROVE  TypeOK'
  BY <1>8 DEF TypeOK, LockPeriod, Goto, world, tables
<1>9. ASSUME NEW c \in Calls, CommitSettle(c)
      PROVE  TypeOK'
  <2> DEFINE e == call[c].on
             ev == event[e]
             total == IF call[c].outcome = "COMMITTED"
                      THEN Resolve(call[c].reported, ev.estimate) ELSE ev.total
  <2>1. ev \in Events /\ e \in EventIds /\ call[c].month \in Months /\ call[c] \in CallsOf
        /\ period[call[c].month] \in Periods
    BY <1>9, SettlerHolds DEF CommitSettle
  <2>2. Settled(period[call[c].month], ev, call[c]) \in Periods /\ total \in Amounts
    BY <2>1, SettledType DEF Events
  <2>3. [ev EXCEPT !.status = call[c].outcome, !.total = total] \in Events
    BY <2>1, <2>2 DEF Events, CallsOf, Outcomes
  <2>4. event' \in [EventIds -> Events]
    BY <1>9, <2>3 DEF TypeOK, CommitSettle
  <2>5. period' \in [Months -> Periods]
    BY <1>9, <2>2 DEF TypeOK, CommitSettle
  <2> QED
    BY <1>9, <2>4, <2>5, UnlockType DEF TypeOK, CommitSettle, Goto, world
<1>10. ASSUME NEW c \in Calls, Crash(c)
      PROVE  TypeOK'
  BY <1>10, UnlockType DEF TypeOK, Crash, Goto, world, tables
<1>11. ASSUME ChangePlan
      PROVE  TypeOK'
  BY <1>11 DEF TypeOK, ChangePlan, Goto, world, tables
<1>12. ASSUME ChangeMonth
      PROVE  TypeOK'
  BY <1>12 DEF TypeOK, ChangeMonth, Goto, world, tables
<1>13. ASSUME UNCHANGED vars
      PROVE  TypeOK'
  BY <1>13 DEF TypeOK, vars
<1> QED
  BY <1>1, <1>2, <1>3, <1>4, <1>5, <1>6, <1>7, <1>8, <1>9, <1>10, <1>11, <1>12,
       <1>13 DEF Next, Step

\* A call whose own record and locks are left alone stays in order.
LEMMA OthersInOrder ==
  ASSUME TypeOK, CallsInOrder, NEW c \in Calls, NEW d \in Calls, d # c,
         pc'[d] = pc[d], call'[d] = call[d],
         \A m \in Months : plock[m] = d => plock'[m] = d /\ period'[m] = period[m],
         \A e \in EventIds : elock[e] = d => elock'[e] = d,
         \A e \in EventIds : \/ event'[e] = event[e]
                             \/ e = c /\ event[e] = NoEvent
                             \/ elock[e] = c /\ event[e].status = "RESERVED"
  PROVE  CallInOrder(d)'
<1>1. CallInOrder(d) /\ call[d] \in CallsOf
  BY DEF CallsInOrder, TypeOK
<1>2. NoEvent.status = "ABSENT"
  BY DEF NoEvent
<1>3. ASSUME d \in EventIds, event[d] = NoEvent PROVE event'[d] = NoEvent
  BY <1>2, <1>3
<1>4. ASSUME NEW e \in EventIds, elock[e] = d, event[e].status = "RESERVED"
      PROVE  event'[e] = event[e]
  BY <1>2, <1>4
<1> QED
  BY <1>1, <1>3, <1>4 DEF CallInOrder, CallsOf

\* A transaction's end leaves the others' locks.
LEMMA UnlockOthers ==
  ASSUME TypeOK, NEW c, NEW d, d # c, Unlock(c)
  PROVE  /\ \A m \in Months : plock[m] = d => plock'[m] = d
         /\ \A e \in EventIds : elock[e] = d => elock'[e] = d
BY DEF TypeOK, Unlock

\* Every step keeps each call's own record in order.
LEMMA CallsStep ==
  ASSUME TypeOK, CallsInOrder, EventsDated, [Next]_vars
  PROVE  CallsInOrder'
<1>0. None \notin Calls /\ Settlers \cap EventIds = {}
  BY UsageAssumption, SettlersAssumption DEF Calls
<1>1. ASSUME NEW c \in Calls, NEW amount \in Amounts, NEW estimate \in Amounts, StartReserve(c, amount, estimate)
      PROVE  CallsInOrder'
  <2>1. CallInOrder(c)'
    BY <1>0, <1>1 DEF TypeOK, CallsInOrder, CallInOrder, StartReserve, Goto, world, tables
  <2>2. ASSUME NEW d \in Calls, d # c PROVE CallInOrder(d)'
    <3>1. pc'[d] = pc[d] /\ call'[d] = call[d]
      BY <1>1, <2>2 DEF TypeOK, StartReserve, Goto
    <3>2. /\ \A m \in Months : plock[m] = d => plock'[m] = d
          /\ \A x \in EventIds : elock[x] = d => elock'[x] = d
      BY <1>1, <1>0, <2>2 DEF TypeOK, StartReserve, tables
    <3>3. \A x \in EventIds : \/ event'[x] = event[x]
                              \/ x = c /\ event[x] = NoEvent
                              \/ elock[x] = c /\ event[x].status = "RESERVED"
      BY <1>1 DEF StartReserve, tables
    <3>4. \A m \in Months : plock[m] = d => period'[m] = period[m]
      BY <1>1 DEF StartReserve, tables
    <3> QED
      BY <2>2, <3>1, <3>2, <3>3, <3>4, OthersInOrder
  <2> QED
    BY <2>1, <2>2 DEF CallsInOrder
<1>2. ASSUME NEW c \in Calls, NEW e \in EventIds, NEW outcome \in Outcomes,
             NEW reported \in Amounts \cup {None}, StartSettle(c, e, outcome, reported)
      PROVE  CallsInOrder'
  <2>1. CallInOrder(c)'
    BY <1>0, <1>2 DEF TypeOK, CallsInOrder, CallInOrder, StartSettle, Goto, world, tables
  <2>2. ASSUME NEW d \in Calls, d # c PROVE CallInOrder(d)'
    <3>1. pc'[d] = pc[d] /\ call'[d] = call[d]
      BY <1>2, <2>2 DEF TypeOK, StartSettle, Goto
    <3>2. /\ \A m \in Months : plock[m] = d => plock'[m] = d
          /\ \A x \in EventIds : elock[x] = d => elock'[x] = d
      BY <1>2, <1>0, <2>2 DEF TypeOK, StartSettle, tables
    <3>3. \A x \in EventIds : \/ event'[x] = event[x]
                              \/ x = c /\ event[x] = NoEvent
                              \/ elock[x] = c /\ event[x].status = "RESERVED"
      BY <1>2 DEF StartSettle, tables
    <3>4. \A m \in Months : plock[m] = d => period'[m] = period[m]
      BY <1>2 DEF StartSettle, tables
    <3> QED
      BY <2>2, <3>1, <3>2, <3>3, <3>4, OthersInOrder
  <2> QED
    BY <2>1, <2>2 DEF CallsInOrder
<1>3. ASSUME NEW c \in Calls, LockForReserve(c)
      PROVE  CallsInOrder'
  <2>1. CallInOrder(c)'
    BY <1>0, <1>3 DEF TypeOK, CallsInOrder, CallInOrder, LockForReserve, Goto, world,
         tables, CallsOf
  <2>2. ASSUME NEW d \in Calls, d # c PROVE CallInOrder(d)'
    <3>1. pc'[d] = pc[d] /\ call'[d] = call[d]
      BY <1>3, <2>2 DEF TypeOK, LockForReserve, Goto
    <3>2. /\ \A m \in Months : plock[m] = d => plock'[m] = d
          /\ \A x \in EventIds : elock[x] = d => elock'[x] = d
      BY <1>3, <1>0, <2>2 DEF TypeOK, LockForReserve, tables
    <3>3. \A x \in EventIds : \/ event'[x] = event[x]
                              \/ x = c /\ event[x] = NoEvent
                              \/ elock[x] = c /\ event[x].status = "RESERVED"
      BY <1>3 DEF LockForReserve, tables
    <3>4. \A m \in Months : plock[m] = d => period'[m] = period[m]
      BY <1>3 DEF LockForReserve, tables
    <3> QED
      BY <2>2, <3>1, <3>2, <3>3, <3>4, OthersInOrder
  <2> QED
    BY <2>1, <2>2 DEF CallsInOrder
<1>4. ASSUME NEW c \in Calls, Refuse(c)
      PROVE  CallsInOrder'
  <2>1. CallInOrder(c)'
    BY <1>0, <1>4 DEF TypeOK, CallsInOrder, CallInOrder, Refuse, Goto, world, tables
  <2>2. ASSUME NEW d \in Calls, d # c PROVE CallInOrder(d)'
    <3>1. pc'[d] = pc[d] /\ call'[d] = call[d]
      BY <1>4, <2>2 DEF TypeOK, Refuse, Goto
    <3>2. /\ \A m \in Months : plock[m] = d => plock'[m] = d
          /\ \A x \in EventIds : elock[x] = d => elock'[x] = d
      BY <1>4, <2>2, UnlockOthers DEF Refuse
    <3>3. \A x \in EventIds : \/ event'[x] = event[x]
                              \/ x = c /\ event[x] = NoEvent
                              \/ elock[x] = c /\ event[x].status = "RESERVED"
      BY <1>4 DEF Refuse, tables
    <3>4. \A m \in Months : plock[m] = d => period'[m] = period[m]
      BY <1>4 DEF Refuse, tables
    <3> QED
      BY <2>2, <3>1, <3>2, <3>3, <3>4, OthersInOrder
  <2> QED
    BY <2>1, <2>2 DEF CallsInOrder
<1>5. ASSUME NEW c \in Calls, CommitReserve(c)
      PROVE  CallsInOrder'
  <2>1. CallInOrder(c)'
    BY <1>0, <1>5 DEF TypeOK, CallsInOrder, CallInOrder, CommitReserve, Goto, world,
         tables, Reservation, NoEvent
  <2>2. ASSUME NEW d \in Calls, d # c PROVE CallInOrder(d)'
    <3>1. pc'[d] = pc[d] /\ call'[d] = call[d]
      BY <1>5, <2>2 DEF TypeOK, CommitReserve, Goto
    <3>2. /\ \A m \in Months : plock[m] = d => plock'[m] = d
          /\ \A x \in EventIds : elock[x] = d => elock'[x] = d
      BY <1>5, <2>2, UnlockOthers DEF CommitReserve
    <3>3. \A x \in EventIds : \/ event'[x] = event[x]
                              \/ x = c /\ event[x] = NoEvent
                              \/ elock[x] = c /\ event[x].status = "RESERVED"
      BY <1>5, ReserverHolds DEF TypeOK, CommitReserve
    <3>4. \A m \in Months : plock[m] = d => period'[m] = period[m]
      BY <1>5, <2>2 DEF TypeOK, CommitReserve, CallsInOrder, CallInOrder
    <3> QED
      BY <2>2, <3>1, <3>2, <3>3, <3>4, OthersInOrder
  <2> QED
    BY <2>1, <2>2 DEF CallsInOrder
<1>6. ASSUME NEW c \in Calls, LockEvent(c)
      PROVE  CallsInOrder'
  <2>1. CallInOrder(c)'
    BY <1>0, <1>6 DEF TypeOK, CallsInOrder, CallInOrder, LockEvent, Goto, world, tables
  <2>2. ASSUME NEW d \in Calls, d # c PROVE CallInOrder(d)'
    <3>1. pc'[d] = pc[d] /\ call'[d] = call[d]
      BY <1>6, <2>2 DEF TypeOK, LockEvent, Goto
    <3>2. /\ \A m \in Months : plock[m] = d => plock'[m] = d
          /\ \A x \in EventIds : elock[x] = d => elock'[x] = d
      BY <1>6, <1>0, <2>2 DEF TypeOK, LockEvent, tables
    <3>3. \A x \in EventIds : \/ event'[x] = event[x]
                              \/ x = c /\ event[x] = NoEvent
                              \/ elock[x] = c /\ event[x].status = "RESERVED"
      BY <1>6 DEF LockEvent, tables
    <3>4. \A m \in Months : plock[m] = d => period'[m] = period[m]
      BY <1>6 DEF LockEvent, tables
    <3> QED
      BY <2>2, <3>1, <3>2, <3>3, <3>4, OthersInOrder
  <2> QED
    BY <2>1, <2>2 DEF CallsInOrder
<1>7. ASSUME NEW c \in Calls, AlreadySettled(c)
      PROVE  CallsInOrder'
  <2>1. CallInOrder(c)'
    BY <1>0, <1>7 DEF TypeOK, CallsInOrder, CallInOrder, AlreadySettled, Goto, world, tables
  <2>2. ASSUME NEW d \in Calls, d # c PROVE CallInOrder(d)'
    <3>1. pc'[d] = pc[d] /\ call'[d] = call[d]
      BY <1>7, <2>2 DEF TypeOK, AlreadySettled, Goto
    <3>2. /\ \A m \in Months : plock[m] = d => plock'[m] = d
          /\ \A x \in EventIds : elock[x] = d => elock'[x] = d
      BY <1>7, <1>0, <2>2 DEF TypeOK, AlreadySettled, tables
    <3>3. \A x \in EventIds : \/ event'[x] = event[x]
                              \/ x = c /\ event[x] = NoEvent
                              \/ elock[x] = c /\ event[x].status = "RESERVED"
      BY <1>7 DEF AlreadySettled, tables
    <3>4. \A m \in Months : plock[m] = d => period'[m] = period[m]
      BY <1>7 DEF AlreadySettled, tables
    <3> QED
      BY <2>2, <3>1, <3>2, <3>3, <3>4, OthersInOrder
  <2> QED
    BY <2>1, <2>2 DEF CallsInOrder
<1>8. ASSUME NEW c \in Calls, LockPeriod(c)
      PROVE  CallsInOrder'
  <2>1. CallInOrder(c)'
    BY <1>0, <1>8 DEF TypeOK, CallsInOrder, CallInOrder, LockPeriod, Goto, world, tables,
         CallsOf
  <2>2. ASSUME NEW d \in Calls, d # c PROVE CallInOrder(d)'
    <3>1. pc'[d] = pc[d] /\ call'[d] = call[d]
      BY <1>8, <2>2 DEF TypeOK, LockPeriod, Goto
    <3>2. /\ \A m \in Months : plock[m] = d => plock'[m] = d
          /\ \A x \in EventIds : elock[x] = d => elock'[x] = d
      BY <1>8, <1>0, <2>2 DEF TypeOK, LockPeriod, tables
    <3>3. \A x \in EventIds : \/ event'[x] = event[x]
                              \/ x = c /\ event[x] = NoEvent
                              \/ elock[x] = c /\ event[x].status = "RESERVED"
      BY <1>8 DEF LockPeriod, tables
    <3>4. \A m \in Months : plock[m] = d => period'[m] = period[m]
      BY <1>8 DEF LockPeriod, tables
    <3> QED
      BY <2>2, <3>1, <3>2, <3>3, <3>4, OthersInOrder
  <2> QED
    BY <2>1, <2>2 DEF CallsInOrder
<1>9. ASSUME NEW c \in Calls, CommitSettle(c)
      PROVE  CallsInOrder'
  <2>1. CallInOrder(c)'
    BY <1>0, <1>9 DEF TypeOK, CallsInOrder, CallInOrder, CommitSettle, Goto, world,
         tables, CallsOf, Outcomes
  <2>2. ASSUME NEW d \in Calls, d # c PROVE CallInOrder(d)'
    <3>1. pc'[d] = pc[d] /\ call'[d] = call[d]
      BY <1>9, <2>2 DEF TypeOK, CommitSettle, Goto
    <3>2. /\ \A m \in Months : plock[m] = d => plock'[m] = d
          /\ \A x \in EventIds : elock[x] = d => elock'[x] = d
      BY <1>9, <2>2, UnlockOthers DEF CommitSettle
    <3>3. \A x \in EventIds : \/ event'[x] = event[x]
                              \/ x = c /\ event[x] = NoEvent
                              \/ elock[x] = c /\ event[x].status = "RESERVED"
      BY <1>9, SettlerHolds DEF TypeOK, CommitSettle
    <3>4. \A m \in Months : plock[m] = d => period'[m] = period[m]
      BY <1>9, <2>2 DEF TypeOK, CommitSettle, CallsInOrder, CallInOrder
    <3> QED
      BY <2>2, <3>1, <3>2, <3>3, <3>4, OthersInOrder
  <2> QED
    BY <2>1, <2>2 DEF CallsInOrder
<1>10. ASSUME NEW c \in Calls, Crash(c)
      PROVE  CallsInOrder'
  <2>1. CallInOrder(c)'
    BY <1>0, <1>10 DEF TypeOK, CallsInOrder, CallInOrder, Crash, Goto, world, tables,
         Running
  <2>2. ASSUME NEW d \in Calls, d # c PROVE CallInOrder(d)'
    <3>1. pc'[d] = pc[d] /\ call'[d] = call[d]
      BY <1>10, <2>2 DEF TypeOK, Crash, Goto
    <3>2. /\ \A m \in Months : plock[m] = d => plock'[m] = d
          /\ \A x \in EventIds : elock[x] = d => elock'[x] = d
      BY <1>10, <2>2, UnlockOthers DEF Crash
    <3>3. \A x \in EventIds : \/ event'[x] = event[x]
                              \/ x = c /\ event[x] = NoEvent
                              \/ elock[x] = c /\ event[x].status = "RESERVED"
      BY <1>10 DEF Crash, tables
    <3>4. \A m \in Months : plock[m] = d => period'[m] = period[m]
      BY <1>10 DEF Crash, tables
    <3> QED
      BY <2>2, <3>1, <3>2, <3>3, <3>4, OthersInOrder
  <2> QED
    BY <2>1, <2>2 DEF CallsInOrder
<1>11. ASSUME ChangePlan
      PROVE  CallsInOrder'
  BY <1>11 DEF CallsInOrder, CallInOrder, ChangePlan, tables
<1>12. ASSUME ChangeMonth
      PROVE  CallsInOrder'
  BY <1>12 DEF CallsInOrder, CallInOrder, ChangeMonth, tables
<1>13. ASSUME UNCHANGED vars
      PROVE  CallsInOrder'
  BY <1>13 DEF CallsInOrder, CallInOrder, vars
<1> QED
  BY <1>1, <1>2, <1>3, <1>4, <1>5, <1>6, <1>7, <1>8, <1>9, <1>10, <1>11, <1>12,
       <1>13 DEF Next, Step

\* Only a commit writes the tables.
LEMMA WhoWritesTables ==
  ASSUME [Next]_vars
  PROVE  \/ UNCHANGED tables
         \/ \E c \in Calls : CommitReserve(c) \/ CommitSettle(c)
BY DEF Next, Step, vars, tables, StartReserve, StartSettle, LockForReserve, Refuse,
       LockEvent, AlreadySettled, LockPeriod, Crash, ChangePlan, ChangeMonth

\* Every event that exists belongs to a month, whoever writes it.
LEMMA DatedStep ==
  ASSUME TypeOK, CallsInOrder, EventsDated, [Next]_vars
  PROVE  EventsDated'
<1>1. CASE UNCHANGED tables
  BY <1>1 DEF EventsDated, tables
<1>2. ASSUME NEW c \in Calls, CommitReserve(c) PROVE EventsDated'
  BY <1>2, ReserverHolds DEF TypeOK, EventsDated, CommitReserve, Reservation
<1>3. ASSUME NEW c \in Calls, CommitSettle(c) PROVE EventsDated'
  BY <1>3, SettlerHolds DEF TypeOK, EventsDated, CommitSettle, Events
<1> QED
  BY <1>1, <1>2, <1>3, WhoWritesTables

\* A reservation's commit adds to what its month has reserved, and to nothing else.
LEMMA ReserveFigures ==
  ASSUME TypeOK, TypeOK', CallsInOrder, NEW c \in Calls, CommitReserve(c), NEW m \in Months
  PROVE  /\ CounterOf(event', m, "COMMITTED") = CounterOf(event, m, "COMMITTED")
         /\ SpentOf(event', m) = SpentOf(event, m)
         /\ ExcessOf(event', m) = ExcessOf(event, m)
         /\ CounterOf(event', m, "RESERVED")
              = CounterOf(event, m, "RESERVED") + (IF m = call[c].month THEN call[c].amount ELSE 0)
         /\ EstimateOf(event', m, "RESERVED")
              = EstimateOf(event, m, "RESERVED") + (IF m = call[c].month THEN call[c].estimate ELSE 0)
<1> DEFINE ev == Reservation(call[c].month, call[c].amount, call[c].estimate)
<1>1. /\ c \in EventIds /\ event[c] = NoEvent
      /\ event'[c] = ev /\ \A e \in EventIds \ {c} : event'[e] = event[e]
      /\ event \in Ledgers /\ event' \in Ledgers
  BY ReserverHolds DEF CommitReserve, TypeOK, Ledgers
<1>2. /\ ev.status = "RESERVED" /\ ev.month = call[c].month
      /\ ev.amount = call[c].amount /\ ev.estimate = call[c].estimate
      /\ NoEvent.status = "ABSENT"
  BY DEF Reservation, NoEvent
<1>3. In(event', m, "COMMITTED") = In(event, m, "COMMITTED")
  BY <1>1, <1>2 DEF In
<1>4. \A s \in {"COMMITTED", "RESERVED"} :
        c \notin In(event, m, s) /\ \A e \in In(event, m, s) : event'[e] = event[e]
  BY <1>1, <1>2 DEF In
<1>5. /\ CounterOf(event', m, "COMMITTED") = CounterOf(event, m, "COMMITTED")
      /\ SpentOf(event', m) = SpentOf(event, m)
      /\ ExcessOf(event', m) = ExcessOf(event, m)
  BY <1>3, <1>4, FiguresApart
<1>6. CASE m = call[c].month
  <2>1. In(event', m, "RESERVED") = In(event, m, "RESERVED") \cup {c}
    BY <1>1, <1>2, <1>6 DEF In
  <2>2. /\ CounterOf(event', m, "RESERVED") = CounterOf(event, m, "RESERVED") + event'[c].amount
        /\ EstimateOf(event', m, "RESERVED") = EstimateOf(event, m, "RESERVED") + event'[c].estimate
    BY <1>1, <1>4, <2>1, FiguresJoin
  <2> QED
    BY <1>1, <1>2, <1>5, <1>6, <2>2
<1>7. CASE m # call[c].month
  <2>1. In(event', m, "RESERVED") = In(event, m, "RESERVED")
    BY <1>1, <1>2, <1>7 DEF In
  <2>2. /\ CounterOf(event', m, "RESERVED") = CounterOf(event, m, "RESERVED")
        /\ EstimateOf(event', m, "RESERVED") = EstimateOf(event, m, "RESERVED")
    BY <1>4, <2>1, FiguresApart
  <2>3. /\ CounterOf(event, m, "RESERVED") + 0 = CounterOf(event, m, "RESERVED")
        /\ EstimateOf(event, m, "RESERVED") + 0 = EstimateOf(event, m, "RESERVED")
    BY FiguresNat
  <2> QED
    BY <1>5, <1>7, <2>2, <2>3
<1> QED
  BY <1>6, <1>7

\* What a settlement changes in the ledger: its event's status and total.
LEMMA SettleWrites ==
  ASSUME TypeOK, TypeOK', CallsInOrder, NEW c \in Calls, CommitSettle(c)
  PROVE  LET e == call[c].on
             t == Resolve(call[c].reported, event[e].estimate)
         IN  /\ e \in EventIds /\ call[c].month \in Months
             /\ call[c].outcome \in {"COMMITTED", "RELEASED"}
             /\ event \in Ledgers /\ event' \in Ledgers
             /\ event[e].status = "RESERVED" /\ event[e].month = call[c].month
             /\ event'[e].status = call[c].outcome /\ event'[e].month = call[c].month
             /\ event'[e].amount = event[e].amount /\ event'[e].estimate = event[e].estimate
             /\ call[c].outcome = "COMMITTED" => event'[e].total = t
             /\ \A x \in EventIds \ {e} : event'[x] = event[x]
             /\ event[e].amount \in Nat /\ event[e].estimate \in Nat /\ t \in Nat
             /\ event'[e].total \in Nat
             /\ period' = [period EXCEPT ![call[c].month] = Settled(@, event[e], call[c])]
<1> DEFINE e == call[c].on
           ev == event[e]
           t == Resolve(call[c].reported, ev.estimate)
<1>1. /\ e \in EventIds /\ ev \in Events /\ call[c] \in CallsOf /\ call[c].month \in Months
      /\ ev.status = "RESERVED" /\ ev.month = call[c].month
      /\ period[call[c].month] \in Periods
  BY SettlerHolds DEF CommitSettle
<1>2. call[c].outcome \in {"COMMITTED", "RELEASED"}
  BY <1>1 DEF CallsOf, Outcomes
<1>3. t \in Amounts
  BY <1>1, SettledType
<1>4. event'[e] = [ev EXCEPT !.status = call[c].outcome,
                             !.total = IF call[c].outcome = "COMMITTED" THEN t ELSE @]
  BY <1>1 DEF CommitSettle, TypeOK
<1>5. /\ event'[e].status = call[c].outcome /\ event'[e].month = call[c].month
      /\ event'[e].amount = ev.amount /\ event'[e].estimate = ev.estimate
      /\ call[c].outcome = "COMMITTED" => event'[e].total = t
  BY <1>1, <1>4 DEF Events
<1>6. \A x \in EventIds \ {e} : event'[x] = event[x]
  BY DEF CommitSettle, TypeOK
<1>7. event'[e] \in Events
  BY <1>1 DEF TypeOK
<1>8. \A n \in Amounts : n \in Nat
  BY UsageAssumption DEF Amounts
<1>9. ev.amount \in Nat /\ ev.estimate \in Nat /\ t \in Nat /\ event'[e].total \in Nat
  BY <1>1, <1>3, <1>7, <1>8 DEF Events
<1>10. period' = [period EXCEPT ![call[c].month] = Settled(@, ev, call[c])]
  BY DEF CommitSettle
<1> QED
  BY <1>1, <1>2, <1>5, <1>6, <1>9, <1>10 DEF TypeOK, Ledgers

\* A settlement takes its event out of what its month has reserved and, unless it
\* releases it, adds it to what the month has used; other months are left alone.
LEMMA SettleFigures ==
  ASSUME TypeOK, TypeOK', CallsInOrder, NEW c \in Calls, CommitSettle(c), NEW m \in Months
  PROVE  LET e == call[c].on
             t == Resolve(call[c].reported, event[e].estimate)
         IN  /\ m = call[c].month =>
                  /\ CounterOf(event, m, "RESERVED")
                       = CounterOf(event', m, "RESERVED") + event[e].amount
                  /\ EstimateOf(event, m, "RESERVED")
                       = EstimateOf(event', m, "RESERVED") + event[e].estimate
             /\ m = call[c].month /\ call[c].outcome = "COMMITTED" =>
                  /\ CounterOf(event', m, "COMMITTED")
                       = CounterOf(event, m, "COMMITTED") + event[e].amount
                  /\ SpentOf(event', m) = SpentOf(event, m) + t
                  /\ ExcessOf(event', m) = ExcessOf(event, m) + Excess(event'[e])
             /\ m # call[c].month =>
                  /\ CounterOf(event', m, "RESERVED") = CounterOf(event, m, "RESERVED")
                  /\ EstimateOf(event', m, "RESERVED") = EstimateOf(event, m, "RESERVED")
             /\ m # call[c].month \/ call[c].outcome = "RELEASED" =>
                  /\ CounterOf(event', m, "COMMITTED") = CounterOf(event, m, "COMMITTED")
                  /\ SpentOf(event', m) = SpentOf(event, m)
                  /\ ExcessOf(event', m) = ExcessOf(event, m)
<1> DEFINE e == call[c].on
           t == Resolve(call[c].reported, event[e].estimate)
<1>1. /\ e \in EventIds
      /\ event \in Ledgers /\ event' \in Ledgers
      /\ event[e].status = "RESERVED" /\ event[e].month = call[c].month
      /\ event'[e].status = call[c].outcome /\ event'[e].month = call[c].month
      /\ event'[e].amount = event[e].amount /\ event'[e].estimate = event[e].estimate
      /\ call[c].outcome = "COMMITTED" => event'[e].total = t
      /\ call[c].outcome \in {"COMMITTED", "RELEASED"}
      /\ \A x \in EventIds \ {e} : event'[x] = event[x]
  BY SettleWrites
<1> HIDE DEF e, t
<1>2. /\ e \notin In(event', m, "RESERVED") /\ e \notin In(event, m, "COMMITTED")
      /\ \A x \in In(event', m, "RESERVED") : event[x] = event'[x]
      /\ \A x \in In(event, m, "RESERVED") : x # e => event'[x] = event[x]
      /\ \A x \in In(event, m, "COMMITTED") : event'[x] = event[x]
  BY <1>1 DEF In
<1>3. ASSUME m = call[c].month
      PROVE  /\ CounterOf(event, m, "RESERVED")
                  = CounterOf(event', m, "RESERVED") + event[e].amount
             /\ EstimateOf(event, m, "RESERVED")
                  = EstimateOf(event', m, "RESERVED") + event[e].estimate
  <2>1. In(event, m, "RESERVED") = In(event', m, "RESERVED") \cup {e}
    BY <1>1, <1>3 DEF In
  <2> QED
    BY <1>1, <1>2, <2>1, FiguresJoin
<1>4. ASSUME m = call[c].month, call[c].outcome = "COMMITTED"
      PROVE  /\ CounterOf(event', m, "COMMITTED")
                  = CounterOf(event, m, "COMMITTED") + event[e].amount
             /\ SpentOf(event', m) = SpentOf(event, m) + t
             /\ ExcessOf(event', m) = ExcessOf(event, m) + Excess(event'[e])
  <2>1. In(event', m, "COMMITTED") = In(event, m, "COMMITTED") \cup {e}
    BY <1>1, <1>4 DEF In
  <2>2. /\ CounterOf(event', m, "COMMITTED")
                  = CounterOf(event, m, "COMMITTED") + event'[e].amount
        /\ SpentOf(event', m) = SpentOf(event, m) + event'[e].total
        /\ ExcessOf(event', m) = ExcessOf(event, m) + Excess(event'[e])
    BY <1>1, <1>2, <2>1, FiguresJoin
  <2> QED
    BY <1>1, <1>4, <2>2
<1>5. ASSUME m # call[c].month
      PROVE  /\ CounterOf(event', m, "RESERVED") = CounterOf(event, m, "RESERVED")
             /\ EstimateOf(event', m, "RESERVED") = EstimateOf(event, m, "RESERVED")
  <2>1. /\ In(event', m, "RESERVED") = In(event, m, "RESERVED")
        /\ \A x \in In(event, m, "RESERVED") : event'[x] = event[x]
    BY <1>1, <1>5 DEF In
  <2> QED
    BY <2>1, FiguresApart
<1>6. ASSUME m # call[c].month \/ call[c].outcome = "RELEASED"
      PROVE  /\ CounterOf(event', m, "COMMITTED") = CounterOf(event, m, "COMMITTED")
             /\ SpentOf(event', m) = SpentOf(event, m)
             /\ ExcessOf(event', m) = ExcessOf(event, m)
  <2>1. In(event', m, "COMMITTED") = In(event, m, "COMMITTED")
    BY <1>1, <1>6 DEF In
  <2> QED
    BY <1>2, <2>1, FiguresApart
<1> QED
  BY <1>3, <1>4, <1>5, <1>6 DEF e, t

\* What a settlement makes of a period that has the event reserved.
LEMMA SettledPeriod ==
  ASSUME NEW now \in Periods, NEW ev, NEW j, NEW t \in Nat, t = Resolve(j.reported, ev.estimate),
         ev.amount \in Nat, ev.estimate \in Nat,
         ev.amount <= now.reserved, ev.estimate <= now.tokensReserved
  PROVE  LET after == Settled(now, ev, j)
         IN  /\ after.reserved = now.reserved - ev.amount
             /\ after.tokensReserved = now.tokensReserved - ev.estimate
             /\ j.outcome = "COMMITTED" => /\ after.used = now.used + ev.amount
                                           /\ after.tokensUsed = now.tokensUsed + t
             /\ j.outcome # "COMMITTED" => /\ after.used = now.used
                                           /\ after.tokensUsed = now.tokensUsed
<1>1. Floor0(now.reserved - ev.amount) = now.reserved - ev.amount
  BY DEF Periods, Floor0
<1>2. Floor0(now.tokensReserved - ev.estimate) = now.tokensReserved - ev.estimate
  BY DEF Periods, Floor0
<1>3. CASE j.outcome = "COMMITTED"
  BY <1>1, <1>2, <1>3 DEF Settled, Periods
<1>4. CASE j.outcome # "COMMITTED"
  BY <1>1, <1>2, <1>4 DEF Settled, Periods
<1> QED
  BY <1>3, <1>4

\* A settlement keeps the counters: the period has at least what it frees.
LEMMA SettleCounts ==
  ASSUME TypeOK, TypeOK', CallsInOrder, CountersMatch, NEW c \in Calls, CommitSettle(c)
  PROVE  CountersMatch'
<1> DEFINE e == call[c].on
           k == call[c].month
           t == Resolve(call[c].reported, event[e].estimate)
<1>1. /\ k \in Months /\ call[c].outcome \in {"COMMITTED", "RELEASED"}
      /\ event[e].amount \in Nat /\ event[e].estimate \in Nat /\ t \in Nat
      /\ period' = [period EXCEPT ![k] = Settled(@, event[e], call[c])]
  BY SettleWrites
<1>2. period[k] \in Periods
  BY <1>1 DEF TypeOK
<1>3. /\ period[k].used = CounterOf(event, k, "COMMITTED")
      /\ period[k].reserved = CounterOf(event, k, "RESERVED")
      /\ period[k].tokensUsed = SpentOf(event, k)
      /\ period[k].tokensReserved = EstimateOf(event, k, "RESERVED")
  BY <1>1 DEF CountersMatch
<1>4. /\ CounterOf(event, k, "RESERVED") = CounterOf(event', k, "RESERVED") + event[e].amount
      /\ EstimateOf(event, k, "RESERVED") = EstimateOf(event', k, "RESERVED") + event[e].estimate
  BY <1>1, SettleFigures
<1>5. /\ CounterOf(event', k, "RESERVED") \in Nat
      /\ EstimateOf(event', k, "RESERVED") \in Nat
  BY FiguresNat
<1> HIDE DEF e, k, t
<1>6. event[e].amount <= period[k].reserved /\ event[e].estimate <= period[k].tokensReserved
  BY <1>1, <1>3, <1>4, <1>5
<1>7. LET after == Settled(period[k], event[e], call[c])
      IN  /\ after.reserved = period[k].reserved - event[e].amount
          /\ after.tokensReserved = period[k].tokensReserved - event[e].estimate
          /\ call[c].outcome = "COMMITTED" => /\ after.used = period[k].used + event[e].amount
                                              /\ after.tokensUsed = period[k].tokensUsed + t
          /\ call[c].outcome # "COMMITTED" => /\ after.used = period[k].used
                                              /\ after.tokensUsed = period[k].tokensUsed
  BY <1>1, <1>2, <1>6, SettledPeriod DEF t
<1>8. period'[k] = Settled(period[k], event[e], call[c])
  BY <1>1 DEF TypeOK
<1>9. /\ period'[k].reserved = CounterOf(event', k, "RESERVED")
      /\ period'[k].tokensReserved = EstimateOf(event', k, "RESERVED")
  BY <1>1, <1>3, <1>4, <1>5, <1>7, <1>8
<1>10. /\ period'[k].used = CounterOf(event', k, "COMMITTED")
       /\ period'[k].tokensUsed = SpentOf(event', k)
  <2>1. CASE call[c].outcome = "COMMITTED"
    <3>1. /\ CounterOf(event', k, "COMMITTED") = CounterOf(event, k, "COMMITTED") + event[e].amount
          /\ SpentOf(event', k) = SpentOf(event, k) + t
      BY <1>1, <2>1, SettleFigures DEF e, k, t
    <3> QED
      BY <1>3, <1>7, <1>8, <2>1, <3>1
  <2>2. CASE call[c].outcome = "RELEASED"
    <3>1. /\ CounterOf(event', k, "COMMITTED") = CounterOf(event, k, "COMMITTED")
          /\ SpentOf(event', k) = SpentOf(event, k)
      BY <1>1, <2>2, SettleFigures DEF e, k
    <3> QED
      BY <1>3, <1>7, <1>8, <2>2, <3>1
  <2> QED
    BY <1>1, <2>1, <2>2
<1>11. ASSUME NEW m \in Months, m # k
       PROVE  /\ period'[m].used = CounterOf(event', m, "COMMITTED")
              /\ period'[m].reserved = CounterOf(event', m, "RESERVED")
              /\ period'[m].tokensUsed = SpentOf(event', m)
              /\ period'[m].tokensReserved = EstimateOf(event', m, "RESERVED")
  <2>1. period'[m] = period[m]
    BY <1>1, <1>11 DEF TypeOK
  <2>2. /\ CounterOf(event', m, "RESERVED") = CounterOf(event, m, "RESERVED")
        /\ EstimateOf(event', m, "RESERVED") = EstimateOf(event, m, "RESERVED")
        /\ CounterOf(event', m, "COMMITTED") = CounterOf(event, m, "COMMITTED")
        /\ SpentOf(event', m) = SpentOf(event, m)
    BY <1>11, SettleFigures DEF k
  <2> QED
    BY <2>1, <2>2 DEF CountersMatch
<1> QED
  BY <1>9, <1>10, <1>11 DEF CountersMatch

\* What a reservation's commit makes of the periods.
LEMMA ReservePeriods ==
  ASSUME TypeOK, CallsInOrder, NEW c \in Calls, CommitReserve(c), NEW m \in Months
  PROVE  /\ period'[m].used = period[m].used
         /\ period'[m].tokensUsed = period[m].tokensUsed
         /\ period'[m].reserved
              = period[m].reserved + (IF m = call[c].month THEN call[c].amount ELSE 0)
         /\ period'[m].tokensReserved
              = period[m].tokensReserved + (IF m = call[c].month THEN call[c].estimate ELSE 0)
         /\ period[m] \in Periods /\ call[c].amount \in Nat /\ call[c].estimate \in Nat
<1>1. /\ period[m] \in Periods /\ call[c].month \in Months
      /\ call[c].amount \in Amounts /\ call[c].estimate \in Amounts
  BY ReserverHolds DEF TypeOK, CommitReserve
<1>2. call[c].amount \in Nat /\ call[c].estimate \in Nat
  BY <1>1, UsageAssumption DEF Amounts
<1>3. /\ period[m].reserved + 0 = period[m].reserved
      /\ period[m].tokensReserved + 0 = period[m].tokensReserved
  BY <1>1 DEF Periods
<1>4. CASE m = call[c].month
  <2>1. period'[m] = [period[m] EXCEPT !.reserved = @ + call[c].amount,
                                       !.tokensReserved = @ + call[c].estimate]
    BY <1>1, <1>4 DEF CommitReserve, TypeOK
  <2> QED
    BY <1>1, <1>2, <1>4, <2>1 DEF Periods
<1>5. CASE m # call[c].month
  <2>1. period'[m] = period[m]
    BY <1>1, <1>5 DEF CommitReserve, TypeOK
  <2> QED
    BY <1>1, <1>2, <1>3, <1>5, <2>1
<1> QED
  BY <1>4, <1>5

\* Every step keeps the counters.
LEMMA CountersStep ==
  ASSUME TypeOK, TypeOK', CallsInOrder, CountersMatch, [Next]_vars
  PROVE  CountersMatch'
<1>1. CASE UNCHANGED tables
  BY <1>1 DEF CountersMatch, tables
<1>2. ASSUME NEW c \in Calls, CommitReserve(c) PROVE CountersMatch'
  <2> SUFFICES ASSUME NEW m \in Months
               PROVE  /\ period'[m].used = CounterOf(event', m, "COMMITTED")
                      /\ period'[m].reserved = CounterOf(event', m, "RESERVED")
                      /\ period'[m].tokensUsed = SpentOf(event', m)
                      /\ period'[m].tokensReserved = EstimateOf(event', m, "RESERVED")
    BY DEF CountersMatch
  <2>1. /\ period[m].used = CounterOf(event, m, "COMMITTED")
        /\ period[m].reserved = CounterOf(event, m, "RESERVED")
        /\ period[m].tokensUsed = SpentOf(event, m)
        /\ period[m].tokensReserved = EstimateOf(event, m, "RESERVED")
    BY DEF CountersMatch
  <2> QED
    BY <1>2, <2>1, ReserveFigures, ReservePeriods
<1>3. ASSUME NEW c \in Calls, CommitSettle(c) PROVE CountersMatch'
  BY <1>3, SettleCounts
<1> QED
  BY <1>1, <1>2, <1>3, WhoWritesTables

\* The counters of every month are what its reservations add up to, in every
\* reachable state: concurrent reservations and settlements lose and double none.
THEOREM QuotaInOrder == Spec => []QuotaInv
<1>1. Init => QuotaInv
  <2> SUFFICES ASSUME Init PROVE QuotaInv
    OBVIOUS
  <2>1. CallsInOrder /\ EventsDated
    BY DEF Init, CallsInOrder, CallInOrder, EventsDated, NoEvent
  <2>2. CountersMatch
    BY FiguresEmpty DEF Init, CountersMatch, NewPeriod
  <2> QED
    BY <2>1, <2>2, TypeInit DEF QuotaInv
<1>2. QuotaInv /\ [Next]_vars => QuotaInv'
  BY TypeStep, CallsStep, DatedStep, CountersStep DEF QuotaInv
<1> QED
  BY <1>1, <1>2, PTL DEF Spec

(* Why no call waits for ever, as far as it is a matter of single steps *)

\* The next statement of a call can run, as far as the guards of its actions go, or waits
\* for the lock that call d holds.
CanMove(c) ==
  \/ pc[c] \in {"check", "update"}
  \/ pc[c] \in {"reserve", "lockPeriod"} /\ plock[call[c].month] = None
  \/ pc[c] = "settle" /\ elock[call[c].on] = None
Blocks(d, c) ==
  \/ pc[c] \in {"reserve", "lockPeriod"} /\ plock[call[c].month] = d
  \/ pc[c] = "settle" /\ elock[call[c].on] = d
\* A call can move, or waits for one that can, or for one that waits for such a one:
\* events are locked before periods, so that nobody waits in a circle.
WaitsEnd ==
  \A c \in Calls : Running(c) =>
    \/ CanMove(c)
    \/ \E d \in Calls : Blocks(d, c) /\ (CanMove(d) \/ \E f \in Calls : Blocks(f, d) /\ CanMove(f))
\* The statements a call has still to run, at most.
Left(c) ==
  CASE pc[c] = "settle" -> 3 [] pc[c] \in {"reserve", "lockPeriod"} -> 2
    [] pc[c] \in {"check", "update"} -> 1 [] OTHER -> 0
GetsOn == \A c \in Calls : Running(c) => pc'[c] = pc[c] \/ Left(c)' < Left(c)

\* Who holds a lock is between the statement that took it and its commit.
HoldersWork ==
  /\ \A m \in Months : plock[m] # None =>
       pc[plock[m]] \in {"check", "update"} /\ call[plock[m]].month = m
  /\ \A e \in EventIds : elock[e] # None =>
       pc[elock[e]] \in {"lockPeriod", "update"} /\ call[elock[e]].on = e

\* The locks of the others stay theirs, and who ends holds none.
LEMMA HoldersAfterEnd ==
  ASSUME TypeOK, HoldersWork, NEW c \in Calls, NEW label, Goto(c, label), Unlock(c), UNCHANGED call
  PROVE  HoldersWork'
<1>1. \A d \in Calls \ {c} : pc'[d] = pc[d]
  BY DEF TypeOK, Goto
<1>2. None \notin Calls
  BY UsageAssumption, SettlersAssumption DEF Calls
<1>3. ASSUME NEW m \in Months, plock'[m] # None
      PROVE  pc'[plock'[m]] \in {"check", "update"} /\ call'[plock'[m]].month = m
  <2>1. plock'[m] = plock[m] /\ plock[m] # c /\ plock[m] \in Calls
    BY <1>3 DEF TypeOK, Unlock
  <2> QED BY <1>1, <1>3, <2>1 DEF HoldersWork
<1>4. ASSUME NEW e \in EventIds, elock'[e] # None
      PROVE  pc'[elock'[e]] \in {"lockPeriod", "update"} /\ call'[elock'[e]].on = e
  <2>1. elock'[e] = elock[e] /\ elock[e] # c /\ elock[e] \in Calls
    BY <1>4 DEF TypeOK, Unlock
  <2> QED BY <1>1, <1>4, <2>1 DEF HoldersWork
<1> QED BY <1>3, <1>4 DEF HoldersWork

\* A statement that takes a lock leaves its call where HoldersWork says; every other
\* statement of it releases all it holds.
LEMMA HoldersStep ==
  ASSUME TypeOK, CallsInOrder, HoldersWork, [Next]_vars
  PROVE  HoldersWork'
<1>0. None \notin Calls
  BY UsageAssumption, SettlersAssumption DEF Calls
<1>1. ASSUME NEW c \in Calls, NEW amount, NEW estimate, StartReserve(c, amount, estimate) PROVE HoldersWork'
  <2>1. pc[c] = "idle" /\ UNCHANGED <<plock, elock>> /\ \A d \in Calls \ {c} : pc'[d] = pc[d] /\ call'[d] = call[d]
    BY <1>1 DEF TypeOK, StartReserve, Goto
  <2> QED BY <1>0, <2>1 DEF TypeOK, HoldersWork
<1>2. ASSUME NEW c \in Calls, NEW e, NEW outcome, NEW reported, StartSettle(c, e, outcome, reported) PROVE HoldersWork'
  <2>1. pc[c] = "idle" /\ UNCHANGED <<plock, elock>> /\ \A d \in Calls \ {c} : pc'[d] = pc[d] /\ call'[d] = call[d]
    BY <1>2 DEF TypeOK, StartSettle, Goto
  <2> QED BY <1>0, <2>1 DEF TypeOK, HoldersWork
<1>3. ASSUME NEW c \in Calls, LockForReserve(c) PROVE HoldersWork'
  <2>1. /\ pc[c] = "reserve" /\ pc'[c] = "check" /\ call'[c].month = call[c].month
        /\ \A d \in Calls \ {c} : pc'[d] = pc[d] /\ call'[d] = call[d]
        /\ plock[call[c].month] = None /\ plock' = [plock EXCEPT ![call[c].month] = c] /\ UNCHANGED elock
    BY <1>3 DEF TypeOK, LockForReserve, Goto, CallsOf
  <2> QED BY <1>0, <2>1 DEF TypeOK, HoldersWork
<1>4. ASSUME NEW c \in Calls, Refuse(c) \/ Crash(c) \/ CommitReserve(c) \/ CommitSettle(c) PROVE HoldersWork'
  <2>1. PICK label : Goto(c, label) /\ Unlock(c) /\ UNCHANGED call
    BY <1>4 DEF Refuse, Crash, CommitReserve, CommitSettle
  <2> QED BY <2>1, HoldersAfterEnd
<1>5. ASSUME NEW c \in Calls, LockEvent(c) PROVE HoldersWork'
  <2>1. /\ pc[c] = "settle" /\ pc'[c] = "lockPeriod" /\ call'[c].on = call[c].on
        /\ \A d \in Calls \ {c} : pc'[d] = pc[d] /\ call'[d] = call[d]
        /\ elock[call[c].on] = None /\ elock' = [elock EXCEPT ![call[c].on] = c] /\ UNCHANGED plock
    BY <1>5 DEF TypeOK, LockEvent, Goto, CallsOf
  <2> QED BY <1>0, <2>1 DEF TypeOK, HoldersWork
<1>6. ASSUME NEW c \in Calls, AlreadySettled(c) PROVE HoldersWork'
  <2>1. pc[c] = "settle" /\ UNCHANGED <<plock, elock, call>> /\ \A d \in Calls \ {c} : pc'[d] = pc[d]
    BY <1>6 DEF TypeOK, AlreadySettled, Goto
  <2> QED BY <1>0, <2>1 DEF TypeOK, HoldersWork
<1>7. ASSUME NEW c \in Calls, LockPeriod(c) PROVE HoldersWork'
  <2>1. /\ pc[c] = "lockPeriod" /\ pc'[c] = "update" /\ UNCHANGED <<call, elock>>
        /\ \A d \in Calls \ {c} : pc'[d] = pc[d]
        /\ plock[call[c].month] = None /\ plock' = [plock EXCEPT ![call[c].month] = c]
    BY <1>7 DEF TypeOK, LockPeriod, Goto
  <2> QED BY <1>0, <2>1 DEF TypeOK, HoldersWork
<1>8. CASE ChangePlan \/ ChangeMonth \/ UNCHANGED vars
  BY <1>8 DEF ChangePlan, ChangeMonth, vars, HoldersWork
<1> QED BY <1>1, <1>2, <1>3, <1>4, <1>5, <1>6, <1>7, <1>8 DEF Next, Step

\* Who waits for an event waits for a settlement that at most waits for a period, and who
\* holds a period waits for nothing.
LEMMA HoldersMakeWaitsEnd == TypeOK /\ CallsInOrder /\ HoldersWork => WaitsEnd
<1> SUFFICES ASSUME TypeOK, CallsInOrder, HoldersWork PROVE WaitsEnd
  OBVIOUS
<1>1. ASSUME NEW c \in Calls, pc[c] \in {"reserve", "lockPeriod"}, plock[call[c].month] # None
      PROVE  \E d \in Calls : Blocks(d, c) /\ CanMove(d)
  <2>1. call[c].month \in Months /\ plock[call[c].month] \in Calls
    BY <1>1 DEF TypeOK, CallsOf
  <2>2. CanMove(plock[call[c].month])
    BY <1>1, <2>1 DEF HoldersWork, CanMove
  <2> QED BY <1>1, <2>1, <2>2 DEF Blocks
<1>2. ASSUME NEW c \in Calls, pc[c] = "settle", elock[call[c].on] # None
      PROVE  \E d \in Calls : Blocks(d, c) /\ (CanMove(d) \/ \E f \in Calls : Blocks(f, d) /\ CanMove(f))
  <2>1. call[c].on \in EventIds
    BY <1>2 DEF CallsInOrder, CallInOrder
  <2>2. PICK d \in Calls : d = elock[call[c].on]
    BY <1>2, <2>1 DEF TypeOK
  <2>3. Blocks(d, c)
    BY <1>2, <2>2 DEF Blocks
  <2>4. pc[d] = "update" \/ pc[d] = "lockPeriod"
    BY <1>2, <2>1, <2>2 DEF HoldersWork
  <2>5. CanMove(d) \/ (pc[d] = "lockPeriod" /\ plock[call[d].month] # None)
    BY <2>4 DEF CanMove
  <2> QED BY <1>1, <2>3, <2>5
<1> QED BY <1>1, <1>2 DEF WaitsEnd, Running, CanMove, TypeOK

\* A call goes through its statements in one direction, and commits, fails or is refused.
LEMMA StepGetsOn == TypeOK /\ [Next]_vars => GetsOn
<1> SUFFICES ASSUME TypeOK, [Next]_vars, NEW d \in Calls, Running(d), pc'[d] # pc[d] PROVE Left(d)' < Left(d)
  BY DEF GetsOn
<1>1. PICK label : pc[d] \notin {"idle", "done", "refused", "failed"} /\ Goto(d, label) /\
        \/ pc[d] = "reserve" /\ label = "check"
        \/ pc[d] = "settle" /\ label = "lockPeriod"
        \/ pc[d] = "lockPeriod" /\ label = "update"
        \/ label \in {"done", "refused", "failed"}
  <2>1. ASSUME NEW c \in Calls, NEW amount, NEW estimate, StartReserve(c, amount, estimate) PROVE FALSE
    BY <2>1 DEF TypeOK, Running, StartReserve, Goto
  <2>2. ASSUME NEW c \in Calls, NEW e, NEW outcome, NEW reported, StartSettle(c, e, outcome, reported) PROVE FALSE
    BY <2>2 DEF TypeOK, Running, StartSettle, Goto
  <2>3. ~(ChangePlan \/ ChangeMonth \/ UNCHANGED vars)
    BY DEF ChangePlan, ChangeMonth, vars
  <2>4. PICK c \in Calls : Step(c) \/ Crash(c)
    BY <2>1, <2>2, <2>3 DEF Next
  <2>5. PICK label : Goto(c, label) /\
        \/ pc[c] = "reserve" /\ label = "check"
        \/ pc[c] = "settle" /\ label = "lockPeriod"
        \/ pc[c] = "lockPeriod" /\ label = "update"
        \/ label \in {"done", "refused", "failed"}
    BY <2>4 DEF Step, LockForReserve, Refuse, CommitReserve, LockEvent, AlreadySettled, LockPeriod, CommitSettle, Crash
  <2>6. c = d
    BY <2>5 DEF Goto, TypeOK
  <2> QED BY <2>5, <2>6 DEF Running
<1>2. pc'[d] = label /\ pc[d] \in {"reserve", "check", "settle", "lockPeriod", "update"}
  BY <1>1 DEF Goto, TypeOK
<1> QED BY <1>1, <1>2 DEF Left

\* No two transactions wait for each other's rows, whatever reservations and
\* settlements overlap, and a call that moves comes nearer to its end: with the fairness of
\* FairSpec this is why CallsFinish holds.
THEOREM CallsAreNeverStuck == Spec => []WaitsEnd /\ [][GetsOn]_vars
<1>1. Init => HoldersWork
  BY DEF Init, HoldersWork
<1>2. QuotaInv /\ HoldersWork /\ [Next]_vars => HoldersWork'
  BY HoldersStep DEF QuotaInv
<1>3. QuotaInv /\ HoldersWork => WaitsEnd
  BY HoldersMakeWaitsEnd DEF QuotaInv
<1>4. QuotaInv /\ [Next]_vars => GetsOn
  BY StepGetsOn DEF QuotaInv
<1> QED BY <1>1, <1>2, <1>3, <1>4, QuotaInOrder, PTL DEF Spec

\* The part of it that the counters are read for.
THEOREM CountersAreRight == Spec => []CountersMatch
<1>1. QuotaInv => CountersMatch
  BY DEF QuotaInv
<1> QED
  BY <1>1, QuotaInOrder, PTL

\* A settled reservation is never settled again.
LEMMA SettledStep ==
  QuotaInv /\ [Next]_vars =>
    [\A e \in EventIds : event[e].status \in Outcomes => event'[e] = event[e]]_vars
<1> SUFFICES ASSUME QuotaInv, [Next]_vars, NEW e \in EventIds, event[e].status \in Outcomes
             PROVE  event'[e] = event[e]
  OBVIOUS
<1>1. CASE UNCHANGED tables
  BY <1>1 DEF tables
<1>2. ASSUME NEW c \in Calls, CommitReserve(c) PROVE event'[e] = event[e]
  <2>1. event[c] = NoEvent /\ c \in EventIds
    BY <1>2, ReserverHolds DEF QuotaInv, CommitReserve
  <2>2. e # c
    BY <2>1 DEF NoEvent, Outcomes
  <2> QED
    BY <1>2, <2>1, <2>2 DEF CommitReserve, QuotaInv, TypeOK
<1>3. ASSUME NEW c \in Calls, CommitSettle(c) PROVE event'[e] = event[e]
  <2>1. event[call[c].on].status = "RESERVED" /\ call[c].on \in EventIds
    BY <1>3, SettlerHolds DEF QuotaInv, CommitSettle
  <2>2. e # call[c].on
    BY <2>1 DEF Outcomes
  <2> QED
    BY <1>3, <2>1, <2>2 DEF CommitSettle, QuotaInv, TypeOK
<1> QED
  BY <1>1, <1>2, <1>3, WhoWritesTables

\* A reservation is settled once, however many settlements race for it.
THEOREM ReservationSettledOnce == Spec => SettledOnce
BY SettledStep, QuotaInOrder, PTL DEF Spec, SettledOnce
-----------------------------------------------------------------------------
\* The plan a reservation was checked against has room for it.
LEMMA ReserveFits ==
  ASSUME TypeOK, CallsInOrder, NEW c \in Calls, CommitReserve(c)
  PROVE  LET k == call[c].month
             pl == call[c].plan
         IN  /\ pl \in Plans /\ k \in Months /\ pl.counter \in Nat /\ pl.tokens \in Nat
             /\ period[k].tokensUsed + period[k].tokensReserved + call[c].estimate <= pl.tokens
             /\ \/ call[c].amount = 0
                \/ period[k].used + period[k].reserved + call[c].amount <= pl.counter
<1>1. /\ call[c].plan \in Plans /\ call[c].month \in Months
      /\ call[c].seen = period[call[c].month]
  BY ReserverHolds DEF CommitReserve
<1>2. call[c].plan.counter \in Nat /\ call[c].plan.tokens \in Nat
  BY <1>1, UsageAssumption
<1> QED
  BY <1>1, <1>2 DEF CommitReserve, WithinQuota, Fits

\* A settlement moves a month's count from reserved to used or drops it.
LEMMA SettleKeepsBounds ==
  ASSUME QuotaInv, QuotaInv', NEW c \in Calls, CommitSettle(c), NEW m \in Months
  PROVE  /\ period'[m].used + period'[m].reserved <= period[m].used + period[m].reserved
         /\ period'[m].tokensUsed + period'[m].tokensReserved - ExcessOf(event', m)
              <= period[m].tokensUsed + period[m].tokensReserved - ExcessOf(event, m)
<1> USE DEF QuotaInv
<1> DEFINE e == call[c].on
           t == Resolve(call[c].reported, event[e].estimate)
<1>1. /\ call[c].outcome \in {"COMMITTED", "RELEASED"}
      /\ event[e].amount \in Nat /\ event[e].estimate \in Nat /\ t \in Nat
      /\ event'[e].estimate = event[e].estimate
      /\ call[c].outcome = "COMMITTED" => event'[e].total = t
  BY SettleWrites
<1>2. /\ CounterOf(event, m, "COMMITTED") \in Nat /\ CounterOf(event', m, "COMMITTED") \in Nat
      /\ CounterOf(event, m, "RESERVED") \in Nat /\ CounterOf(event', m, "RESERVED") \in Nat
      /\ EstimateOf(event, m, "RESERVED") \in Nat /\ EstimateOf(event', m, "RESERVED") \in Nat
      /\ SpentOf(event, m) \in Nat /\ SpentOf(event', m) \in Nat
      /\ ExcessOf(event, m) \in Nat /\ ExcessOf(event', m) \in Nat
  BY FiguresNat
<1>3. /\ period[m].used = CounterOf(event, m, "COMMITTED")
      /\ period[m].reserved = CounterOf(event, m, "RESERVED")
      /\ period[m].tokensUsed = SpentOf(event, m)
      /\ period[m].tokensReserved = EstimateOf(event, m, "RESERVED")
      /\ period'[m].used = CounterOf(event', m, "COMMITTED")
      /\ period'[m].reserved = CounterOf(event', m, "RESERVED")
      /\ period'[m].tokensUsed = SpentOf(event', m)
      /\ period'[m].tokensReserved = EstimateOf(event', m, "RESERVED")
  BY DEF CountersMatch
<1>4. CASE m # call[c].month
  BY <1>2, <1>3, <1>4, SettleFigures
<1>5. CASE m = call[c].month /\ call[c].outcome = "RELEASED"
  BY <1>1, <1>2, <1>3, <1>5, SettleFigures
<1>6. CASE m = call[c].month /\ call[c].outcome = "COMMITTED"
  <2>1. Excess(event'[e]) >= t - event[e].estimate /\ Excess(event'[e]) \in Nat
    BY <1>1, <1>6 DEF Excess
  <2>2. /\ CounterOf(event, m, "RESERVED") = CounterOf(event', m, "RESERVED") + event[e].amount
        /\ EstimateOf(event, m, "RESERVED") = EstimateOf(event', m, "RESERVED") + event[e].estimate
        /\ CounterOf(event', m, "COMMITTED") = CounterOf(event, m, "COMMITTED") + event[e].amount
        /\ SpentOf(event', m) = SpentOf(event, m) + t
        /\ ExcessOf(event', m) = ExcessOf(event, m) + Excess(event'[e])
    BY <1>6, SettleFigures
  <2> HIDE DEF e, t
  <2> QED
    BY <1>1, <1>2, <1>3, <2>1, <2>2
<1> QED
  BY <1>1, <1>4, <1>5, <1>6

\* Every step keeps each month within the plans.
LEMMA BoundsStep ==
  ASSUME QuotaInv, QuotaInv', [Next]_vars, CounterWithinPlans, TokensWithinPlans
  PROVE  CounterWithinPlans' /\ TokensWithinPlans'
<1> USE DEF QuotaInv
<1>1. CASE UNCHANGED tables
  BY <1>1 DEF CounterWithinPlans, TokensWithinPlans, tables
<1>2. ASSUME NEW c \in Calls, CommitReserve(c)
      PROVE  CounterWithinPlans' /\ TokensWithinPlans'
  <2> SUFFICES ASSUME NEW m \in Months
               PROVE  /\ \E pl \in Plans : period'[m].used + period'[m].reserved <= pl.counter
                      /\ \E pl \in Plans : period'[m].tokensUsed + period'[m].tokensReserved
                                             <= pl.tokens + ExcessOf(event', m)
    BY DEF CounterWithinPlans, TokensWithinPlans
  <2>1. /\ period'[m].used = period[m].used
        /\ period'[m].tokensUsed = period[m].tokensUsed
        /\ period'[m].reserved
             = period[m].reserved + (IF m = call[c].month THEN call[c].amount ELSE 0)
        /\ period'[m].tokensReserved
             = period[m].tokensReserved + (IF m = call[c].month THEN call[c].estimate ELSE 0)
        /\ call[c].amount \in Nat /\ call[c].estimate \in Nat
    BY <1>2, ReservePeriods
  <2>2. /\ period[m].used \in Nat /\ period[m].reserved \in Nat
        /\ period[m].tokensUsed \in Nat /\ period[m].tokensReserved \in Nat
    BY DEF TypeOK, Periods
  <2>3. ExcessOf(event', m) = ExcessOf(event, m) /\ ExcessOf(event, m) \in Nat
    BY <1>2, ReserveFigures, FiguresNat
  <2>4. PICK p1 \in Plans : period[m].used + period[m].reserved <= p1.counter
    BY DEF CounterWithinPlans
  <2>5. PICK p2 \in Plans : period[m].tokensUsed + period[m].tokensReserved
                              <= p2.tokens + ExcessOf(event, m)
    BY DEF TokensWithinPlans
  <2>6. CASE m # call[c].month
    BY <2>1, <2>2, <2>3, <2>4, <2>5, <2>6
  <2>7. CASE m = call[c].month
    <3> DEFINE pl == call[c].plan
    <3>1. /\ pl \in Plans /\ pl.counter \in Nat /\ pl.tokens \in Nat
          /\ period[m].tokensUsed + period[m].tokensReserved + call[c].estimate <= pl.tokens
          /\ \/ call[c].amount = 0
             \/ period[m].used + period[m].reserved + call[c].amount <= pl.counter
      BY <1>2, <2>7, ReserveFits
    <3> HIDE DEF pl
    <3>2. period'[m].tokensUsed + period'[m].tokensReserved <= pl.tokens + ExcessOf(event', m)
      BY <2>1, <2>2, <2>3, <2>7, <3>1
    <3>3. CASE call[c].amount = 0
      <4>1. period'[m].used + period'[m].reserved <= p1.counter
        BY <2>1, <2>2, <2>4, <2>7, <3>3
      <4> QED
        BY <2>4, <3>1, <3>2, <4>1
    <3>4. CASE period[m].used + period[m].reserved + call[c].amount <= pl.counter
      <4>1. period'[m].used + period'[m].reserved <= pl.counter
        BY <2>1, <2>2, <2>7, <3>1, <3>4
      <4> QED
        BY <3>1, <3>2, <4>1
    <3> QED
      BY <3>1, <3>3, <3>4
  <2> QED
    BY <2>6, <2>7
<1>3. ASSUME NEW c \in Calls, CommitSettle(c)
      PROVE  CounterWithinPlans' /\ TokensWithinPlans'
  <2> SUFFICES ASSUME NEW m \in Months
               PROVE  /\ \E pl \in Plans : period'[m].used + period'[m].reserved <= pl.counter
                      /\ \E pl \in Plans : period'[m].tokensUsed + period'[m].tokensReserved
                                             <= pl.tokens + ExcessOf(event', m)
    BY DEF CounterWithinPlans, TokensWithinPlans
  <2>1. /\ period'[m].used + period'[m].reserved <= period[m].used + period[m].reserved
        /\ period'[m].tokensUsed + period'[m].tokensReserved - ExcessOf(event', m)
             <= period[m].tokensUsed + period[m].tokensReserved - ExcessOf(event, m)
    BY <1>3, SettleKeepsBounds
  <2>2. /\ period[m].used \in Nat /\ period[m].reserved \in Nat
        /\ period[m].tokensUsed \in Nat /\ period[m].tokensReserved \in Nat
        /\ period'[m].used \in Nat /\ period'[m].reserved \in Nat
        /\ period'[m].tokensUsed \in Nat /\ period'[m].tokensReserved \in Nat
    BY DEF TypeOK, Periods
  <2>3. ExcessOf(event, m) \in Nat /\ ExcessOf(event', m) \in Nat
    BY FiguresNat
  <2>4. PICK p1 \in Plans : period[m].used + period[m].reserved <= p1.counter
    BY DEF CounterWithinPlans
  <2>5. PICK p2 \in Plans : period[m].tokensUsed + period[m].tokensReserved
                              <= p2.tokens + ExcessOf(event, m)
    BY DEF TokensWithinPlans
  <2>6. p1.counter \in Nat /\ p2.tokens \in Nat
    BY UsageAssumption
  <2>7. period'[m].used + period'[m].reserved <= p1.counter
    BY <2>1, <2>2, <2>4, <2>6
  <2>8. period'[m].tokensUsed + period'[m].tokensReserved <= p2.tokens + ExcessOf(event', m)
    BY <2>1, <2>2, <2>3, <2>5, <2>6
  <2> QED
    BY <2>7, <2>8
<1> QED
  BY <1>1, <1>2, <1>3, WhoWritesTables

LEMMA BoundsInit == Init => CounterWithinPlans /\ TokensWithinPlans
<1> SUFFICES ASSUME Init, NEW m \in Months
             PROVE  /\ \E pl \in Plans : period[m].used + period[m].reserved <= pl.counter
                    /\ \E pl \in Plans : period[m].tokensUsed + period[m].tokensReserved
                                           <= pl.tokens + ExcessOf(event, m)
  BY DEF CounterWithinPlans, TokensWithinPlans
<1>1. plan \in Plans /\ plan.counter \in Nat /\ plan.tokens \in Nat
  BY UsageAssumption DEF Init
<1>2. period[m] = NewPeriod
  BY DEF Init
<1>3. ExcessOf(event, m) \in Nat
  BY FiguresNat
<1> QED
  BY <1>1, <1>2, <1>3 DEF NewPeriod

\* Racing reservations never take a month's counter beyond the largest plan the
\* user had.
THEOREM CountersAreBounded == Spec => []CounterWithinPlans
<1>1. Init => CounterWithinPlans /\ TokensWithinPlans
  BY BoundsInit
<1>2. /\ QuotaInv /\ QuotaInv' /\ [Next]_vars
      /\ CounterWithinPlans /\ TokensWithinPlans
      => CounterWithinPlans' /\ TokensWithinPlans'
  BY BoundsStep
<1> QED
  BY <1>1, <1>2, QuotaInOrder, PTL DEF Spec

\* Tokens go beyond it only by what tasks used in excess of their estimates.
THEOREM TokensAreBounded == Spec => []TokensWithinPlans
<1>1. Init => CounterWithinPlans /\ TokensWithinPlans
  BY BoundsInit
<1>2. /\ QuotaInv /\ QuotaInv' /\ [Next]_vars
      /\ CounterWithinPlans /\ TokensWithinPlans
      => CounterWithinPlans' /\ TokensWithinPlans'
  BY BoundsStep
<1> QED
  BY <1>1, <1>2, QuotaInOrder, PTL DEF Spec
-----------------------------------------------------------------------------
\* The abstract ledger adds up its events as the service does.
LEMMA SameData ==
  /\ Ledger!NoEvent = NoEvent /\ Ledger!Amounts = Amounts
  /\ \A m, s : Ledger!CounterOf(event, m, s) = CounterOf(event, m, s)
  /\ \A m, s : Ledger!EstimateOf(event, m, s) = EstimateOf(event, m, s)
  /\ \A m : Ledger!SpentOf(event, m) = SpentOf(event, m)
  /\ \A m, amount, estimate :
       Ledger!Reservation(m, amount, estimate) = Reservation(m, amount, estimate)
  /\ \A pl, n, a, t, x : Ledger!Fits(pl, n, a, t, x) <=> Fits(pl, n, a, t, x)
<1>1. Ledger!NoEvent = NoEvent /\ Ledger!Amounts = Amounts
  BY DEF Ledger!NoEvent, NoEvent, Ledger!Amounts, Amounts
<1>2. \A S, f : Ledger!Total(S, f) = Total(S, f)
  <2> SUFFICES ASSUME NEW S, NEW f PROVE Ledger!Total(S, f) = Total(S, f)
    OBVIOUS
  <2>1. Ledger!UnitsOf(S, f) = UnitsOf(S, f)
    BY DEF Ledger!UnitsOf, UnitsOf
  <2> QED
    BY <2>1 DEF Ledger!Total, Total, Ledger!Cardinality, Cardinality
<1>3. \A m, s : Ledger!In(event, m, s) = In(event, m, s)
  BY DEF Ledger!In, In
<1>4. \A m, s : Ledger!CounterOf(event, m, s) = CounterOf(event, m, s)
  BY <1>2, <1>3 DEF Ledger!CounterOf, CounterOf
<1>5. \A m, s : Ledger!EstimateOf(event, m, s) = EstimateOf(event, m, s)
  BY <1>2, <1>3 DEF Ledger!EstimateOf, EstimateOf
<1>6. \A m : Ledger!SpentOf(event, m) = SpentOf(event, m)
  BY <1>2, <1>3 DEF Ledger!SpentOf, SpentOf
<1>7. \A m, amount, estimate :
        Ledger!Reservation(m, amount, estimate) = Reservation(m, amount, estimate)
  BY DEF Ledger!Reservation, Reservation
<1>8. \A pl, n, a, t, x : Ledger!Fits(pl, n, a, t, x) <=> Fits(pl, n, a, t, x)
  BY DEF Ledger!Fits, Fits
<1> QED
  BY <1>1, <1>4, <1>5, <1>6, <1>7, <1>8

\* A reservation's commit is the ledger's Reserve: the period it checked is what
\* the ledger adds up to.
LEMMA CommitIsReserve ==
  ASSUME QuotaInv, NEW c \in Calls, CommitReserve(c)
  PROVE  Ledger!Next
<1> USE DEF QuotaInv
<1> DEFINE k == call[c].month
<1>1. /\ c \in EventIds /\ event[c] = NoEvent /\ k \in Months /\ call[c].plan \in Plans
      /\ call[c].seen = period[k]
      /\ call[c].amount \in Amounts /\ call[c].estimate \in Amounts
  BY ReserverHolds DEF CommitReserve
<1>2. Fits(call[c].plan, period[k].used + period[k].reserved, call[c].amount,
           period[k].tokensUsed + period[k].tokensReserved, call[c].estimate)
  BY <1>1 DEF CommitReserve, WithinQuota
<1>3. /\ period[k].used = CounterOf(event, k, "COMMITTED")
      /\ period[k].reserved = CounterOf(event, k, "RESERVED")
      /\ period[k].tokensUsed = SpentOf(event, k)
      /\ period[k].tokensReserved = EstimateOf(event, k, "RESERVED")
  BY <1>1 DEF CountersMatch
<1>4. event' = [event EXCEPT ![c] = Reservation(k, call[c].amount, call[c].estimate)]
  BY DEF CommitReserve
<1> HIDE DEF k
<1>5. Fits(call[c].plan, Ledger!Counted(k), call[c].amount, Ledger!Tokens(k), call[c].estimate)
  BY <1>2, <1>3, SameData DEF Ledger!Counted, Ledger!Tokens
<1>6. Ledger!Reserve(c, k, call[c].plan, call[c].amount, call[c].estimate)
  BY <1>1, <1>4, <1>5, SameData DEF Ledger!Reserve
<1> QED
  BY <1>1, <1>6, SameData DEF Ledger!Next

\* A settlement's commit is the ledger's Commit or Release.
LEMMA CommitIsSettle ==
  ASSUME QuotaInv, NEW c \in Calls, CommitSettle(c)
  PROVE  Ledger!Next
<1> USE DEF QuotaInv
<1> DEFINE e == call[c].on
           t == Resolve(call[c].reported, event[e].estimate)
<1>1. /\ e \in EventIds /\ event[e] \in Events /\ event[e].status = "RESERVED"
      /\ call[c] \in CallsOf /\ period[call[c].month] \in Periods
  BY SettlerHolds DEF CommitSettle
<1>2. t \in Amounts
  BY <1>1, SettledType
<1>3. call[c].outcome \in {"COMMITTED", "RELEASED"}
  BY <1>1 DEF CallsOf, Outcomes
<1>4. CASE call[c].outcome = "COMMITTED"
  <2>1. event' = [event EXCEPT ![e].status = "COMMITTED", ![e].total = t]
    BY <1>1, <1>4 DEF CommitSettle, TypeOK
  <2>2. Ledger!Commit(e, t)
    BY <1>1, <2>1 DEF Ledger!Commit
  <2> QED
    BY <1>1, <1>2, <2>2, SameData DEF Ledger!Next
<1>5. CASE call[c].outcome = "RELEASED"
  <2>1. [event[e] EXCEPT !.status = "RELEASED", !.total = @]
          = [event[e] EXCEPT !.status = "RELEASED"]
    BY <1>1 DEF Events
  <2>2. event' = [event EXCEPT ![e].status = "RELEASED"]
    BY <1>1, <1>5, <2>1 DEF CommitSettle, TypeOK
  <2>3. Ledger!Release(e)
    BY <1>1, <2>2 DEF Ledger!Release
  <2> QED
    BY <1>1, <2>3 DEF Ledger!Next
<1> QED
  BY <1>3, <1>4, <1>5

\* The service keeps the ledger it promises: what it checks under the period's
\* lock is what the ledger adds up to when the reservation commits.
THEOREM LedgerIsImplemented == Spec => KeepsLedger
<1>1. Init => Ledger!Init
  BY SameData DEF Init, Ledger!Init
<1>2. QuotaInv /\ [Next]_vars => [Ledger!Next]_event
  <2> SUFFICES ASSUME QuotaInv, [Next]_vars PROVE [Ledger!Next]_event
    OBVIOUS
  <2>1. CASE UNCHANGED tables
    BY <2>1 DEF tables
  <2> QED
    BY <2>1, WhoWritesTables, CommitIsReserve, CommitIsSettle
<1> QED
  BY <1>1, <1>2, QuotaInOrder, PTL DEF Spec, KeepsLedger, Ledger!Spec
=============================================================================
