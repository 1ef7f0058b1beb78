------------------------ MODULE CommerceOrders_proofs ------------------------
(* Theorems about CommerceOrders for every number of requests, customers,    *)
(* rows and lines.                                                           *)
EXTENDS CommerceOrders, FiniteSetTheorems, TLAPS

(* The units that baskets ask for and that live orders are owed *)

\* A basket asks for finitely many units of a row.
LEMMA UnitsFinite ==
  ASSUME NEW b \in Baskets, NEW L \in SUBSET Lines, NEW r
  PROVE  /\ IsFiniteSet(Units(b, L, r))
         /\ Cardinality(Units(b, L, r)) \in Nat
<1>1. IsFiniteSet(L)
  BY StoreAssumption, FS_Subset
<1>2. IsFiniteSet(1..MaxQty)
  BY StoreAssumption, FS_Interval
<1>3. IsFiniteSet(L \X (1..MaxQty))
  BY <1>1, <1>2, FS_Product
<1>4. Units(b, L, r) \in SUBSET (L \X (1..MaxQty))
  BY DEF Units
<1> QED
  BY <1>3, <1>4, FS_Subset, FS_CardinalityType

\* The cardinality of a disjoint union is the sum of the cardinalities.
LEMMA DisjointUnion ==
  ASSUME NEW S, IsFiniteSet(S), NEW T, IsFiniteSet(T), S \cap T = {},
         NEW m \in Nat, NEW n \in Nat, Cardinality(S) = m, Cardinality(T) = n
  PROVE  Cardinality(S \cup T) = m + n
<1>1. Cardinality(S \cup T)
        = Cardinality(S) + Cardinality(T) - Cardinality(S \cap T)
  BY FS_Union
<1>2. Cardinality(S \cap T) = 0
  BY FS_EmptySet
<1> QED
  BY <1>1, <1>2

\* The numbers from 1 to n are n.
LEMMA UpToCardinality ==
  ASSUME NEW n \in Nat
  PROVE  IsFiniteSet(1..n) /\ Cardinality(1..n) = n
<1>1. /\ IsFiniteSet(1..n)
      /\ Cardinality(1..n) = IF 1 > n THEN 0 ELSE n - 1 + 1
  BY FS_Interval
<1>2. (IF 1 > n THEN 0 ELSE n - 1 + 1) = n
  OBVIOUS
<1> QED
  BY <1>1, <1>2

\* A further line that matches row r adds its quantity to the units of r.
LEMMA UnitsAddLine ==
  ASSUME NEW b \in Baskets, NEW L \in SUBSET Lines, NEW l \in Lines \ L, NEW r,
         r \in Match[l]
  PROVE  Cardinality(Units(b, L \cup {l}, r)) = Cardinality(Units(b, L, r)) + b[l]
<1> DEFINE New == {u \in {l} \X (1..MaxQty) : u[2] <= b[l]}
           f == [k \in 1..b[l] |-> <<l, k>>]
<1>1. b[l] \in Nat /\ b[l] <= MaxQty /\ MaxQty \in Nat
  BY StoreAssumption DEF Baskets
<1>2. f \in Bijection(1..b[l], New)
  <2>1. f \in [1..b[l] -> New]
    BY <1>1
  <2>2. \A x, y \in 1..b[l] : f[x] = f[y] => x = y
    OBVIOUS
  <2>3. \A u \in New : \E k \in 1..b[l] : f[k] = u
    <3> TAKE u \in New
    <3>1. u = <<l, u[2]>> /\ u[2] \in 1..b[l]
      BY <1>1
    <3> QED
      BY <3>1
  <2> QED
    BY <2>1, <2>2, <2>3 DEF Bijection, Injection, Surjection, IsInjective
<1>3. IsFiniteSet(New) /\ Cardinality(New) = b[l]
  <2>1. IsFiniteSet(1..b[l]) /\ Cardinality(1..b[l]) = b[l]
    BY <1>1, UpToCardinality
  <2>2. ExistsBijection(1..b[l], New)
    BY <1>2 DEF ExistsBijection
  <2> QED
    BY <2>1, <2>2, FS_Bijection
<1>4. Units(b, L \cup {l}, r) = Units(b, L, r) \cup New
  BY DEF Units
<1>5. Units(b, L, r) \cap New = {}
  BY DEF Units
<1>6. IsFiniteSet(Units(b, L, r)) /\ Cardinality(Units(b, L, r)) \in Nat
  BY UnitsFinite
<1>7. Cardinality(Units(b, L, r) \cup New) = Cardinality(Units(b, L, r)) + b[l]
  <2> HIDE DEF New
  <2> QED
    BY <1>1, <1>3, <1>5, <1>6, DisjointUnion
<1> QED
  BY <1>4, <1>7

\* A line that does not match row r adds no unit of r.
LEMMA UnitsSkipLine ==
  ASSUME NEW b \in Baskets, NEW L \in SUBSET Lines, NEW l \in Lines, NEW r,
         r \notin Match[l]
  PROVE  Units(b, L \cup {l}, r) = Units(b, L, r)
BY DEF Units

\* Only the lines that ask for something matter.
LEMMA UnitsOfLines ==
  ASSUME NEW b \in Baskets, NEW L \in SUBSET Lines, NEW r
  PROVE  Units(b, L, r) = Units(b, L \cap LinesOf(b), r)
BY StoreAssumption DEF Units, LinesOf, Baskets

\* The units of row r an order with items b is owed: those of b, tagged with o.
Tagged(o, b, L, r) ==
  {u \in {o} \X L \X (1..MaxQty) : r \in Match[u[2]] /\ u[3] <= b[u[2]]}

LEMMA TaggedCardinality ==
  ASSUME NEW b \in Baskets, NEW L \in SUBSET Lines, NEW r, NEW o
  PROVE  /\ IsFiniteSet(Tagged(o, b, L, r))
         /\ Cardinality(Tagged(o, b, L, r)) = Cardinality(Units(b, L, r))
<1> DEFINE U == Units(b, L, r)
           T == Tagged(o, b, L, r)
           f == [u \in U |-> <<o, u[1], u[2]>>]
<1>1. f \in [U -> T]
  BY DEF Units, Tagged
<1>2. \A x, y \in U : f[x] = f[y] => x = y
  BY DEF Units
<1>3. \A t \in T : \E u \in U : f[u] = t
  <2> TAKE t \in T
  <2>1. t = <<o, t[2], t[3]>> /\ <<t[2], t[3]>> \in U
    BY DEF Units, Tagged
  <2> QED
    BY <2>1
<1>4. ExistsBijection(U, T)
  BY <1>1, <1>2, <1>3
  DEF ExistsBijection, Bijection, Injection, Surjection, IsInjective
<1> QED
  BY <1>4, UnitsFinite, FS_Bijection

Books == [OrderIds -> Orders]

\* The units owed of a row are finitely many.
LEMMA OwedFinite ==
  ASSUME NEW B \in Books, NEW r
  PROVE  IsFiniteSet(OwedUnits(B, r)) /\ Owed(B, r) \in Nat
<1>1. IsFiniteSet(1..MaxQty)
  BY StoreAssumption, FS_Interval
<1>2. IsFiniteSet(Lines \X (1..MaxQty)) /\ IsFiniteSet(OrderIds \X (Lines \X (1..MaxQty)))
  BY <1>1, StoreAssumption, FS_Product
<1> DEFINE P == OrderIds \X (Lines \X (1..MaxQty))
           T == OrderIds \X Lines \X (1..MaxQty)
           f == [u \in P |-> <<u[1], u[2][1], u[2][2]>>]
<1>3. f \in Surjection(P, T)
  <2>1. f \in [P -> T]
    OBVIOUS
  <2>2. \A t \in T : \E u \in P : f[u] = t
    <3> TAKE t \in T
    <3>1. <<t[1], <<t[2], t[3]>> >> \in P /\ f[<<t[1], <<t[2], t[3]>> >>] = t
      OBVIOUS
    <3> QED
      BY <3>1
  <2> QED
    BY <2>1, <2>2 DEF Surjection
<1>4. IsFiniteSet(T)
  BY <1>2, <1>3, FS_Surjection
<1>5. OwedUnits(B, r) \in SUBSET T
  BY DEF OwedUnits
<1> QED
  BY <1>4, <1>5, FS_Subset, FS_CardinalityType DEF Owed

\* Placing an order adds its demand to what is owed.
LEMMA OwedPlace ==
  ASSUME NEW B \in Books, NEW o \in OrderIds, NEW c, NEW b \in Baskets, NEW r,
         B[o] = NoOrder
  PROVE  Owed([B EXCEPT ![o] = [status |-> "PENDING", customer |-> c, items |-> b]], r)
           = Owed(B, r) + Demand(b, r)
<1> DEFINE B2 == [B EXCEPT ![o] = [status |-> "PENDING", customer |-> c, items |-> b]]
<1>1. B2[o].status = "PENDING" /\ B2[o].items = b /\ \A x \in OrderIds \ {o} : B2[x] = B[x]
  BY DEF Books
<1>2. ~Live(B, o) /\ Live(B2, o) /\ \A x \in OrderIds \ {o} : Live(B2, x) <=> Live(B, x)
  BY <1>1 DEF Live, NoOrder
<1>3. OwedUnits(B2, r) = OwedUnits(B, r) \cup Tagged(o, b, Lines, r)
  <2>1. ASSUME NEW u \in OrderIds \X Lines \X (1..MaxQty)
        PROVE  u \in OwedUnits(B2, r)
                 <=> u \in OwedUnits(B, r) \/ u \in Tagged(o, b, Lines, r)
    <3>1. CASE u[1] = o
      BY <3>1, <1>1, <1>2 DEF OwedUnits, Tagged
    <3>2. CASE u[1] # o
      BY <3>2, <1>1, <1>2 DEF OwedUnits, Tagged
    <3> QED
      BY <3>1, <3>2
  <2> QED
    BY <2>1 DEF OwedUnits, Tagged
<1>4. OwedUnits(B, r) \cap Tagged(o, b, Lines, r) = {}
  BY <1>2 DEF OwedUnits, Tagged
<1>5. /\ IsFiniteSet(OwedUnits(B, r)) /\ Owed(B, r) \in Nat
      /\ IsFiniteSet(Tagged(o, b, Lines, r))
      /\ Cardinality(Tagged(o, b, Lines, r)) = Demand(b, r)
      /\ Demand(b, r) \in Nat
  BY OwedFinite, TaggedCardinality, UnitsFinite DEF Demand
<1>6. Cardinality(OwedUnits(B, r) \cup Tagged(o, b, Lines, r))
        = Owed(B, r) + Demand(b, r)
  BY <1>4, <1>5, DisjointUnion DEF Owed
<1> QED
  BY <1>3, <1>6 DEF Owed

\* Cancelling a live order takes its demand out of what is owed.
LEMMA OwedCancel ==
  ASSUME NEW B \in Books, NEW o \in OrderIds, NEW r, Live(B, o)
  PROVE  /\ Owed([B EXCEPT ![o].status = "CANCELLED"], r)
              = Owed(B, r) - Demand(B[o].items, r)
         /\ Demand(B[o].items, r) <= Owed(B, r)
<1> DEFINE B2 == [B EXCEPT ![o].status = "CANCELLED"]
           b == B[o].items
           T == Tagged(o, b, Lines, r)
<1>0. b \in Baskets /\ B2 \in Books
  BY DEF Books, Orders, Statuses
<1>1. B2[o].status = "CANCELLED" /\ \A x \in OrderIds \ {o} : B2[x] = B[x]
  BY DEF Books, Orders
<1>2. ~Live(B2, o) /\ \A x \in OrderIds \ {o} : Live(B2, x) <=> Live(B, x)
  BY <1>1 DEF Live
<1>3. OwedUnits(B, r) = OwedUnits(B2, r) \cup T
  <2>1. ASSUME NEW u \in OrderIds \X Lines \X (1..MaxQty)
        PROVE  u \in OwedUnits(B, r) <=> u \in OwedUnits(B2, r) \/ u \in T
    <3>1. CASE u[1] = o
      BY <3>1, <1>2 DEF OwedUnits, Tagged
    <3>2. CASE u[1] # o
      BY <3>2, <1>1, <1>2 DEF OwedUnits, Tagged
    <3> QED
      BY <3>1, <3>2
  <2> QED
    BY <2>1 DEF OwedUnits, Tagged
<1>4. OwedUnits(B2, r) \cap T = {}
  BY <1>2 DEF OwedUnits, Tagged
<1>5. /\ IsFiniteSet(OwedUnits(B2, r)) /\ Owed(B2, r) \in Nat
      /\ IsFiniteSet(T) /\ Cardinality(T) = Demand(b, r) /\ Demand(b, r) \in Nat
  BY <1>0, OwedFinite, TaggedCardinality, UnitsFinite DEF Demand
<1>6. Owed(B, r) = Owed(B2, r) + Demand(b, r)
  <2> HIDE DEF T, B2, b
  <2>1. Cardinality(OwedUnits(B2, r) \cup T) = Owed(B2, r) + Demand(b, r)
    BY <1>4, <1>5, DisjointUnion DEF Owed
  <2> QED
    BY <1>3, <2>1 DEF Owed
<1> QED
  BY <1>5, <1>6

\* A change of status between live statuses changes nothing that is owed.
LEMMA OwedAdvance ==
  ASSUME NEW B \in Books, NEW o \in OrderIds, NEW r, NEW s \in Statuses,
         Live(B, o), s # "CANCELLED"
  PROVE  Owed([B EXCEPT ![o].status = s], r) = Owed(B, r)
<1> DEFINE B2 == [B EXCEPT ![o].status = s]
<1>1. \A x \in OrderIds : B2[x].items = B[x].items /\ (Live(B2, x) <=> Live(B, x))
  BY DEF Books, Orders, Live, Statuses
<1>2. OwedUnits(B2, r) = OwedUnits(B, r)
  BY <1>1 DEF OwedUnits
<1> QED
  BY <1>2 DEF Owed

\* The units of some lines of a live order are among those owed.
LEMMA OwedCovers ==
  ASSUME NEW B \in Books, NEW o \in OrderIds, NEW r, NEW L \in SUBSET Lines,
         Live(B, o)
  PROVE  Cardinality(Units(B[o].items, L, r)) <= Owed(B, r)
<1>1. B[o].items \in Baskets
  BY DEF Books, Orders
<1>2. Tagged(o, B[o].items, L, r) \in SUBSET OwedUnits(B, r)
  BY DEF Tagged, OwedUnits
<1> QED
  BY <1>1, <1>2, OwedFinite, TaggedCardinality, FS_Subset DEF Owed

\* Nothing is owed before the first order.
LEMMA OwedNothing ==
  ASSUME NEW r
  PROVE  Owed([o \in OrderIds |-> NoOrder], r) = 0
<1>1. OwedUnits([o \in OrderIds |-> NoOrder], r) = {}
  BY DEF OwedUnits, Live, NoOrder
<1> QED
  BY <1>1, FS_EmptySet DEF Owed
-----------------------------------------------------------------------------
(* The order paths *)

\* The locals of a request are the only thing most steps touch.
LEMMA EmptyIsBasket == EmptyBasket \in Baskets /\ NoOrder \in Orders
BY StoreAssumption DEF EmptyBasket, Baskets, NoOrder, Orders

\* Every order status leads to statuses only.
LEMMA TransitionsType ==
  \A s \in Statuses : Transitions[s] \subseteq Statuses /\ s \notin Transitions[s]
BY DEF Transitions, Statuses

LEMMA TypeInit == Init => TypeOK
<1> SUFFICES ASSUME Init PROVE TypeOK
  OBVIOUS
<1>1. stock \in [Rows -> StockLevels]
  BY StoreAssumption DEF Init, StockLevels
<1>2. job \in [Requests -> Jobs] /\ write \in [Requests -> Writes]
  BY DEF Init, NoJob, Jobs, NoWrite, Writes, StockLevels
<1> QED
  BY <1>1, <1>2, EmptyIsBasket, StoreAssumption, CommerceAssumption DEF Init, TypeOK, Requests

\* What a request has before it starts, and again when it is over.
LEMMA NoLocalsType ==
  NoJob \in Jobs /\ EmptyBasket \in Baskets /\ NoWrite \in Writes /\ {} \in SUBSET Lines
BY EmptyIsBasket DEF NoJob, Jobs, NoWrite, Writes, StockLevels

\* COMMIT and ROLLBACK keep the types of the tables and locks.
LEMMA PublishType ==
  ASSUME TypeOK, NEW p \in Requests, PublishRows(p)
  PROVE  /\ stock' \in [Rows -> StockLevels]
         /\ lock' \in [Rows -> OrderIds \cup {None}]
         /\ olock' \in [OrderIds -> OrderIds \cup {None}]
BY DEF TypeOK, PublishRows

LEMMA RollbackType ==
  ASSUME TypeOK, NEW p \in Requests, Rollback(p)
  PROVE  TypeOK'
BY NoLocalsType DEF TypeOK, Rollback, Forget, Goto, tables

\* Every step keeps the types.
LEMMA TypeStep ==
  ASSUME TypeOK, JobsInOrder, [Next]_vars
  PROVE  TypeOK'
<1>1. ASSUME NEW p \in Requests, NEW c \in Customers, StartCheckout(p, c)
      PROVE  TypeOK'
  BY <1>1 DEF TypeOK, StartCheckout, Goto, tables, locks, Jobs, Requests
<1>2. ASSUME NEW p \in Requests, BeginCheckout(p)
      PROVE  TypeOK'
  BY <1>2 DEF TypeOK, BeginCheckout, Goto, tables, locks, LinesOf
<1>3. ASSUME NEW p \in Requests, NEW l \in Lines, ReserveLine(p, l)
      PROVE  TypeOK'
  <2>1. dirty' \in [Rows -> StockLevels] /\ lock' \in [Rows -> OrderIds \cup {None}]
    <3>1. CASE UNCHANGED <<lock, dirty>>
      BY <3>1 DEF TypeOK
    <3>2. ASSUME NEW r \in Found(l), dirty[r].available >= basket[p][l],
                 lock' = [lock EXCEPT ![r] = p],
                 dirty' = [dirty EXCEPT ![r] =
                    [available |-> @.available - basket[p][l],
                     reserved |-> @.reserved + basket[p][l]]]
          PROVE  dirty' \in [Rows -> StockLevels] /\ lock' \in [Rows -> OrderIds \cup {None}]
      <4>1. r \in Rows /\ basket[p][l] \in Nat
        BY StoreAssumption DEF TypeOK, Baskets, Found
      <4>2. [available |-> dirty[r].available - basket[p][l],
             reserved |-> dirty[r].reserved + basket[p][l]] \in StockLevels
        BY <3>2, <4>1 DEF TypeOK, StockLevels
      <4> QED
        BY <3>2, <4>1, <4>2 DEF TypeOK, Requests
    <3> QED
      BY <1>3, <3>1, <3>2 DEF ReserveLine
  <2> QED
    BY <1>3, <2>1 DEF TypeOK, ReserveLine, tables
<1>4. ASSUME NEW p \in Requests, CommitCheckout(p)
      PROVE  TypeOK'
  <2>1. [status |-> "PENDING", customer |-> job[p].who, items |-> basket[p]] \in Orders
    BY <1>4 DEF CommitCheckout, TypeOK, JobsInOrder, JobInOrder, Orders, Statuses
  <2>2. cart' \in [Customers -> Baskets]
    <3>1. /\ cart \in [Customers -> Baskets] /\ job[p].who \in Customers
          /\ 0 \in 0..MaxQty
      BY <1>4, StoreAssumption DEF CommitCheckout, TypeOK, JobsInOrder, JobInOrder
    <3> QED
      BY <1>4, <3>1 DEF CommitCheckout, Baskets
  <2> QED
    BY <1>4, <2>1, <2>2, PublishType DEF TypeOK, CommitCheckout, Goto, Requests
<1>5. ASSUME NEW p \in Requests, Reload(p)
      PROVE  TypeOK'
  BY <1>5, NoLocalsType DEF TypeOK, Reload, Forget, Goto, tables, locks
<1>6. ASSUME NEW p \in Requests, NEW who \in Customers \cup {Admin}, NEW o \in OrderIds,
             NEW s \in Statuses, StartUpdate(p, who, o, s)
      PROVE  TypeOK'
  BY <1>6 DEF TypeOK, StartUpdate, Goto, tables, locks, Jobs
<1>7. ASSUME NEW p \in Requests, LockOrder(p)
      PROVE  TypeOK'
  <2>1. book[job[p].on].items \in Baskets
    BY <1>7 DEF LockOrder, TypeOK, JobsInOrder, JobInOrder, Orders
  <2> QED
    BY <1>7, <2>1 DEF TypeOK, LockOrder, Goto, tables, LinesOf, Requests
<1>8. ASSUME NEW p \in Requests, NEW l \in Lines, ReleaseLine(p, l)
      PROVE  TypeOK'
  <2>1. dirty' \in [Rows -> StockLevels] /\ lock' \in [Rows -> OrderIds \cup {None}]
    <3>1. CASE UNCHANGED <<lock, dirty>>
      BY <3>1 DEF TypeOK
    <3>2. ASSUME NEW r \in Found(l),
                 lock' = [lock EXCEPT ![r] = p],
                 dirty' = [dirty EXCEPT ![r] =
                    [available |-> @.available + basket[p][l],
                     reserved |-> Floor0(@.reserved - basket[p][l])]]
          PROVE  dirty' \in [Rows -> StockLevels] /\ lock' \in [Rows -> OrderIds \cup {None}]
      <4>1. r \in Rows /\ basket[p][l] \in Nat
        BY StoreAssumption DEF TypeOK, Baskets, Found
      <4>2. [available |-> dirty[r].available + basket[p][l],
             reserved |-> Floor0(dirty[r].reserved - basket[p][l])] \in StockLevels
        BY <4>1 DEF TypeOK, StockLevels, Floor0
      <4> QED
        BY <3>2, <4>1, <4>2 DEF TypeOK, Requests
    <3> QED
      BY <1>8, <3>1, <3>2 DEF ReleaseLine
  <2> QED
    BY <1>8, <2>1 DEF TypeOK, ReleaseLine, tables
<1>9. ASSUME NEW p \in Requests, CommitUpdate(p)
      PROVE  TypeOK'
  <2>1. book' \in [OrderIds -> Orders]
    <3>1. book \in [OrderIds -> Orders] /\ job[p].to \in Statuses
      BY <1>9 DEF TypeOK, CommitUpdate, JobsInOrder, JobInOrder
    <3> QED
      BY <1>9, <3>1 DEF CommitUpdate, Orders
  <2> QED
    BY <1>9, <2>1, PublishType, NoLocalsType DEF TypeOK, CommitUpdate, Forget, Goto
<1>10. ASSUME NEW p \in Requests, NEW c \in Customers, NEW b \in Baskets, StartCreate(p, c, b)
       PROVE  TypeOK'
  BY <1>10 DEF TypeOK, StartCreate, Goto, tables, locks, Jobs, Requests, LinesOf
<1>11. ASSUME NEW r \in Rows, NEW q \in Nat, stock[r].available >= q, TypeOK
       PROVE  Reserving(r, q) \in Writes
  BY <1>11 DEF Reserving, Writes, StockLevels, TypeOK
<1>12. ASSUME NEW p \in Requests, NEW l \in Lines, CreateRead(p, l)
       PROVE  TypeOK'
  <2>1. write' \in [Requests -> Writes] /\ pc' \in [Requests -> {"pick", "save", "failed"} \cup {pc[x] : x \in Requests}]
    <3>1. CASE UNCHANGED <<pc, write>>
      BY <3>1 DEF TypeOK
    <3>2. ASSUME NEW r \in ProductMatch[l] \cap entered,
             IF stock[r].available < basket[p][l]
             THEN Goto(p, "failed") /\ UNCHANGED write
             ELSE Goto(p, "save") /\ write' = [write EXCEPT ![p] = Reserving(r, basket[p][l])]
          PROVE  write' \in [Requests -> Writes]
                   /\ pc' \in [Requests -> {"pick", "save", "failed"} \cup {pc[x] : x \in Requests}]
      <4>1. r \in Rows /\ basket[p][l] \in Nat /\ stock[r].available \in Nat
        BY StoreAssumption, CommerceAssumption DEF TypeOK, Baskets, StockLevels
      <4> QED
        BY <3>2, <4>1, <1>11 DEF TypeOK, Goto
    <3> QED
      BY <1>12, <3>1, <3>2 DEF CreateRead
  <2>2. pc' \in [Requests -> {"idle", "begin", "reserve", "reload", "lockOrder",
                              "release", "pick", "save", "insert", "items", "done", "failed"}]
    BY <2>1 DEF TypeOK
  <2> QED
    BY <1>12, <2>1, <2>2 DEF TypeOK, CreateRead, tables, locks
<1>13. ASSUME NEW p \in Requests, NEW r \in Rows, NEW q \in Quantities, StartReserve(p, r, q)
       PROVE  TypeOK'
  <2>1. q \in Nat /\ stock[r].available \in Nat
    BY StoreAssumption DEF Quantities, TypeOK, StockLevels
  <2> QED
    BY <1>13, <2>1, <1>11 DEF TypeOK, StartReserve, Goto, tables, locks
<1>14. ASSUME NEW p \in Requests, NEW r \in Rows, NEW q \in 0..MaxQty,
             NEW n \in ReservedGiven(r), StartUpsert(p, r, q, n)
       PROVE  TypeOK'
  <2>1. [row |-> r, level |-> [available |-> q, reserved |-> n]] \in Writes
    BY StoreAssumption DEF ReservedGiven, TypeOK, StockLevels, Writes
  <2> QED
    BY <1>14, <2>1 DEF TypeOK, StartUpsert, Goto, tables, locks
<1>15. ASSUME NEW p \in Requests, SaveRow(p)
       PROVE  TypeOK'
  <2>1. write[p].level \in StockLevels
    BY DEF TypeOK, Writes
  <2> QED
    BY <1>15, <2>1 DEF TypeOK, SaveRow, Goto, locals
<1>16. ASSUME NEW p \in Requests, InsertOrder(p)
       PROVE  TypeOK'
  <2>1. [status |-> "PENDING", customer |-> job[p].who, items |-> EmptyBasket] \in Orders
    BY <1>16, EmptyIsBasket DEF InsertOrder, TypeOK, JobsInOrder, JobInOrder, Orders,
         Statuses
  <2> QED
    BY <1>16, <2>1 DEF TypeOK, InsertOrder, Goto, locks, locals, Requests
<1>17. ASSUME NEW p \in Requests, InsertItems(p)
       PROVE  TypeOK'
  <2>1. book' \in [OrderIds -> Orders]
    BY <1>17 DEF TypeOK, InsertItems, Orders, Requests
  <2> QED
    BY <1>17, <2>1 DEF TypeOK, InsertItems, Goto, locks, locals
<1>18. ASSUME NEW p \in Requests, Rollback(p)
       PROVE  TypeOK'
  BY <1>18, RollbackType
<1>19. ASSUME NEW c \in Customers, NEW l \in Lines, NEW q \in 0..MaxQty, EditCart(c, l, q)
       PROVE  TypeOK'
  BY <1>19 DEF TypeOK, EditCart, locks, locals, Baskets
<1>20. ASSUME NEW p \in Requests, RereadCart(p)
       PROVE  TypeOK'
  BY <1>20 DEF TypeOK, RereadCart, tables, locks, LinesOf
<1>21. ASSUME NEW p \in Requests, InsertRow(p)
       PROVE  TypeOK'
  <2>1. write[p].level \in StockLevels /\ write[p].row \in Rows \cup {None}
    BY DEF TypeOK, Writes
  <2>2. stock' \in [Rows -> StockLevels] /\ dirty' \in [Rows -> StockLevels]
    BY <1>21, <2>1 DEF TypeOK, InsertRow
  <2>3. entered' \subseteq Rows
    BY <1>21 DEF TypeOK, InsertRow, JobsInOrder, JobInOrder
  <2> QED
    BY <1>21, <2>2, <2>3 DEF TypeOK, InsertRow, Goto, locals
<1>22. CASE UNCHANGED vars
  BY <1>22 DEF TypeOK, vars
<1> QED
  BY <1>1, <1>2, <1>3, <1>4, <1>5, <1>6, <1>7, <1>8, <1>9, <1>10, <1>12, <1>13, <1>14,
     <1>15, <1>16, <1>17, <1>18, <1>19, <1>20, <1>21, <1>22
  DEF Next, Arrive, Step, RefuseUpdate, OutOfStock, DeadlockAbort, Crash

\* What a step of p does to the orders leaves another request's record right.
LEMMA OthersInOrder ==
  ASSUME TypeOK, JobsInOrder, NEW p \in Requests, NEW x \in Requests, x # p,
         pc'[x] = pc[x], job'[x] = job[x], basket'[x] = basket[x], write'[x] = write[x],
         \A o \in OrderIds \ {p} : book[o] = NoOrder => book'[o] = NoOrder,
         \A o \in OrderIds : book[o].status \in Statuses => book'[o].status \in Statuses
  PROVE  JobInOrder(x)'
BY DEF JobsInOrder, JobInOrder, Requests

\* Every step keeps each request's own record of its work in order.
LEMMA JobsStep ==
  ASSUME TypeOK, JobsInOrder, UpdateIsSerial, [Next]_vars
  PROVE  JobsInOrder'
<1>0. NoOrder.status \notin Statuses
  BY DEF NoOrder, Statuses
<1>1. ASSUME NEW p \in Requests, NEW c \in Customers, StartCheckout(p, c)
      PROVE  JobsInOrder'
  <2>1. JobInOrder(p)'
    BY <1>1, <1>0, TransitionsType DEF TypeOK, JobsInOrder, JobInOrder, UpdateIsSerial,
         HoldsItsOrder, Requests, Jobs, NoJob, StartCheckout, tables, locks, Goto
  <2>2. ASSUME NEW x \in Requests, x # p PROVE JobInOrder(x)'
    <3>1. /\ pc'[x] = pc[x] /\ job'[x] = job[x]
          /\ basket'[x] = basket[x] /\ write'[x] = write[x]
      BY <1>1, <2>2 DEF TypeOK, StartCheckout, tables, locks, Goto
    <3>2. /\ \A o \in OrderIds \ {p} : book[o] = NoOrder => book'[o] = NoOrder
          /\ \A o \in OrderIds : book[o].status \in Statuses => book'[o].status \in Statuses
      BY <1>1, <1>0 DEF TypeOK, JobsInOrder, JobInOrder, Requests, Statuses,
           StartCheckout, tables, locks
    <3> QED
      BY <2>2, <3>1, <3>2, OthersInOrder
  <2> QED
    BY <2>1, <2>2 DEF JobsInOrder
<1>2. ASSUME NEW p \in Requests, BeginCheckout(p)
      PROVE  JobsInOrder'
  <2>1. JobInOrder(p)'
    BY <1>2, <1>0, TransitionsType DEF TypeOK, JobsInOrder, JobInOrder, UpdateIsSerial,
         HoldsItsOrder, Requests, Jobs, BeginCheckout, tables, locks, Goto
  <2>2. ASSUME NEW x \in Requests, x # p PROVE JobInOrder(x)'
    <3>1. /\ pc'[x] = pc[x] /\ job'[x] = job[x]
          /\ basket'[x] = basket[x] /\ write'[x] = write[x]
      BY <1>2, <2>2 DEF TypeOK, BeginCheckout, tables, locks, Goto
    <3>2. /\ \A o \in OrderIds \ {p} : book[o] = NoOrder => book'[o] = NoOrder
          /\ \A o \in OrderIds : book[o].status \in Statuses => book'[o].status \in Statuses
      BY <1>2, <1>0 DEF TypeOK, JobsInOrder, JobInOrder, Requests, Statuses,
           BeginCheckout, tables, locks
    <3> QED
      BY <2>2, <3>1, <3>2, OthersInOrder
  <2> QED
    BY <2>1, <2>2 DEF JobsInOrder
<1>3. ASSUME NEW p \in Requests, NEW l \in Lines, ReserveLine(p, l)
      PROVE  JobsInOrder'
  <2>1. JobInOrder(p)'
    BY <1>3, <1>0, TransitionsType DEF TypeOK, JobsInOrder, JobInOrder, UpdateIsSerial,
         HoldsItsOrder, Requests, Jobs, ReserveLine, tables, Goto
  <2>2. ASSUME NEW x \in Requests, x # p PROVE JobInOrder(x)'
    <3>1. /\ pc'[x] = pc[x] /\ job'[x] = job[x]
          /\ basket'[x] = basket[x] /\ write'[x] = write[x]
      BY <1>3, <2>2 DEF TypeOK, ReserveLine, tables, Goto
    <3>2. /\ \A o \in OrderIds \ {p} : book[o] = NoOrder => book'[o] = NoOrder
          /\ \A o \in OrderIds : book[o].status \in Statuses => book'[o].status \in Statuses
      BY <1>3, <1>0 DEF TypeOK, JobsInOrder, JobInOrder, Requests, Statuses, ReserveLine,
           tables
    <3> QED
      BY <2>2, <3>1, <3>2, OthersInOrder
  <2> QED
    BY <2>1, <2>2 DEF JobsInOrder
<1>4. ASSUME NEW p \in Requests, CommitCheckout(p)
      PROVE  JobsInOrder'
  <2>1. JobInOrder(p)'
    BY <1>4, <1>0, TransitionsType DEF TypeOK, JobsInOrder, JobInOrder, UpdateIsSerial,
         HoldsItsOrder, Requests, Jobs, CommitCheckout, PublishRows, locals, Goto
  <2>2. ASSUME NEW x \in Requests, x # p PROVE JobInOrder(x)'
    <3>1. /\ pc'[x] = pc[x] /\ job'[x] = job[x]
          /\ basket'[x] = basket[x] /\ write'[x] = write[x]
      BY <1>4, <2>2 DEF TypeOK, CommitCheckout, PublishRows, locals, Goto
    <3>2. /\ \A o \in OrderIds \ {p} : book[o] = NoOrder => book'[o] = NoOrder
          /\ \A o \in OrderIds : book[o].status \in Statuses => book'[o].status \in Statuses
      BY <1>4, <1>0 DEF TypeOK, JobsInOrder, JobInOrder, Requests, Statuses,
           CommitCheckout, PublishRows, locals
    <3> QED
      BY <2>2, <3>1, <3>2, OthersInOrder
  <2> QED
    BY <2>1, <2>2 DEF JobsInOrder
<1>5. ASSUME NEW p \in Requests, Reload(p)
      PROVE  JobsInOrder'
  <2>1. JobInOrder(p)'
    BY <1>5, <1>0, TransitionsType DEF TypeOK, JobsInOrder, JobInOrder, UpdateIsSerial,
         HoldsItsOrder, Requests, Jobs, Reload, Forget, tables, locks, Goto
  <2>2. ASSUME NEW x \in Requests, x # p PROVE JobInOrder(x)'
    <3>1. /\ pc'[x] = pc[x] /\ job'[x] = job[x]
          /\ basket'[x] = basket[x] /\ write'[x] = write[x]
      BY <1>5, <2>2 DEF TypeOK, Reload, Forget, tables, locks, Goto
    <3>2. /\ \A o \in OrderIds \ {p} : book[o] = NoOrder => book'[o] = NoOrder
          /\ \A o \in OrderIds : book[o].status \in Statuses => book'[o].status \in Statuses
      BY <1>5, <1>0 DEF TypeOK, JobsInOrder, JobInOrder, Requests, Statuses, Reload,
           Forget, tables, locks
    <3> QED
      BY <2>2, <3>1, <3>2, OthersInOrder
  <2> QED
    BY <2>1, <2>2 DEF JobsInOrder
<1>6. ASSUME NEW p \in Requests, NEW who \in Customers \cup {Admin}, NEW o \in OrderIds, NEW s \in Statuses, StartUpdate(p, who, o, s)
      PROVE  JobsInOrder'
  <2>1. JobInOrder(p)'
    BY <1>6, <1>0, TransitionsType DEF TypeOK, JobsInOrder, JobInOrder, UpdateIsSerial,
         HoldsItsOrder, Requests, Jobs, StartUpdate, tables, locks, Goto
  <2>2. ASSUME NEW x \in Requests, x # p PROVE JobInOrder(x)'
    <3>1. /\ pc'[x] = pc[x] /\ job'[x] = job[x]
          /\ basket'[x] = basket[x] /\ write'[x] = write[x]
      BY <1>6, <2>2 DEF TypeOK, StartUpdate, tables, locks, Goto
    <3>2. /\ \A q \in OrderIds \ {p} : book[q] = NoOrder => book'[q] = NoOrder
          /\ \A q \in OrderIds : book[q].status \in Statuses => book'[q].status \in Statuses
      BY <1>6, <1>0 DEF TypeOK, JobsInOrder, JobInOrder, Requests, Statuses, StartUpdate,
           tables, locks
    <3> QED
      BY <2>2, <3>1, <3>2, OthersInOrder
  <2> QED
    BY <2>1, <2>2 DEF JobsInOrder
<1>7. ASSUME NEW p \in Requests, LockOrder(p)
      PROVE  JobsInOrder'
  <2>1. JobInOrder(p)'
    BY <1>7, <1>0, TransitionsType DEF TypeOK, JobsInOrder, JobInOrder, UpdateIsSerial,
         HoldsItsOrder, Requests, Jobs, LockOrder, Permitted, tables, Goto
  <2>2. ASSUME NEW x \in Requests, x # p PROVE JobInOrder(x)'
    <3>1. /\ pc'[x] = pc[x] /\ job'[x] = job[x]
          /\ basket'[x] = basket[x] /\ write'[x] = write[x]
      BY <1>7, <2>2 DEF TypeOK, LockOrder, Permitted, tables, Goto
    <3>2. /\ \A o \in OrderIds \ {p} : book[o] = NoOrder => book'[o] = NoOrder
          /\ \A o \in OrderIds : book[o].status \in Statuses => book'[o].status \in Statuses
      BY <1>7, <1>0 DEF TypeOK, JobsInOrder, JobInOrder, Requests, Statuses, LockOrder,
           Permitted, tables
    <3> QED
      BY <2>2, <3>1, <3>2, OthersInOrder
  <2> QED
    BY <2>1, <2>2 DEF JobsInOrder
<1>8. ASSUME NEW p \in Requests, NEW l \in Lines, ReleaseLine(p, l)
      PROVE  JobsInOrder'
  <2>1. JobInOrder(p)'
    BY <1>8, <1>0, TransitionsType DEF TypeOK, JobsInOrder, JobInOrder, UpdateIsSerial,
         HoldsItsOrder, Requests, Jobs, ReleaseLine, tables, Goto
  <2>2. ASSUME NEW x \in Requests, x # p PROVE JobInOrder(x)'
    <3>1. /\ pc'[x] = pc[x] /\ job'[x] = job[x]
          /\ basket'[x] = basket[x] /\ write'[x] = write[x]
      BY <1>8, <2>2 DEF TypeOK, ReleaseLine, tables, Goto
    <3>2. /\ \A o \in OrderIds \ {p} : book[o] = NoOrder => book'[o] = NoOrder
          /\ \A o \in OrderIds : book[o].status \in Statuses => book'[o].status \in Statuses
      BY <1>8, <1>0 DEF TypeOK, JobsInOrder, JobInOrder, Requests, Statuses, ReleaseLine,
           tables
    <3> QED
      BY <2>2, <3>1, <3>2, OthersInOrder
  <2> QED
    BY <2>1, <2>2 DEF JobsInOrder
<1>9. ASSUME NEW p \in Requests, CommitUpdate(p)
      PROVE  JobsInOrder'
  <2>1. JobInOrder(p)'
    BY <1>9, <1>0, TransitionsType DEF TypeOK, JobsInOrder, JobInOrder, UpdateIsSerial,
         HoldsItsOrder, Requests, Jobs, CommitUpdate, PublishRows, Forget, Goto
  <2>2. ASSUME NEW x \in Requests, x # p PROVE JobInOrder(x)'
    <3>1. /\ pc'[x] = pc[x] /\ job'[x] = job[x]
          /\ basket'[x] = basket[x] /\ write'[x] = write[x]
      BY <1>9, <2>2 DEF TypeOK, CommitUpdate, PublishRows, Forget, Goto
    <3>2. /\ \A o \in OrderIds \ {p} : book[o] = NoOrder => book'[o] = NoOrder
          /\ \A o \in OrderIds : book[o].status \in Statuses => book'[o].status \in Statuses
      BY <1>9, <1>0 DEF TypeOK, JobsInOrder, JobInOrder, Requests, Statuses, CommitUpdate,
           PublishRows, Forget
    <3> QED
      BY <2>2, <3>1, <3>2, OthersInOrder
  <2> QED
    BY <2>1, <2>2 DEF JobsInOrder
<1>10. ASSUME NEW p \in Requests, NEW c \in Customers, NEW b \in Baskets, StartCreate(p, c, b)
      PROVE  JobsInOrder'
  <2>1. JobInOrder(p)'
    BY <1>10, <1>0, TransitionsType DEF TypeOK, JobsInOrder, JobInOrder, UpdateIsSerial,
         HoldsItsOrder, Requests, Jobs, StartCreate, tables, locks, Goto
  <2>2. ASSUME NEW x \in Requests, x # p PROVE JobInOrder(x)'
    <3>1. /\ pc'[x] = pc[x] /\ job'[x] = job[x]
          /\ basket'[x] = basket[x] /\ write'[x] = write[x]
      BY <1>10, <2>2 DEF TypeOK, StartCreate, tables, locks, Goto
    <3>2. /\ \A o \in OrderIds \ {p} : book[o] = NoOrder => book'[o] = NoOrder
          /\ \A o \in OrderIds : book[o].status \in Statuses => book'[o].status \in Statuses
      BY <1>10, <1>0 DEF TypeOK, JobsInOrder, JobInOrder, Requests, Statuses, StartCreate,
           tables, locks
    <3> QED
      BY <2>2, <3>1, <3>2, OthersInOrder
  <2> QED
    BY <2>1, <2>2 DEF JobsInOrder
<1>11. ASSUME NEW p \in Requests, NEW l \in Lines, CreateRead(p, l)
      PROVE  JobsInOrder'
  <2>1. JobInOrder(p)'
    <3>1. pc'[p] = "save" => write'[p].row \in Rows
      BY <1>11, CommerceAssumption DEF TypeOK, CreateRead, Goto, Reserving
    <3> QED
      BY <1>11, <3>1 DEF TypeOK, JobsInOrder, JobInOrder, CreateRead, tables, locks, Goto
  <2>2. ASSUME NEW x \in Requests, x # p PROVE JobInOrder(x)'
    <3>1. /\ pc'[x] = pc[x] /\ job'[x] = job[x]
          /\ basket'[x] = basket[x] /\ write'[x] = write[x]
      BY <1>11, <2>2 DEF TypeOK, CreateRead, tables, locks, Goto
    <3>2. /\ \A o \in OrderIds \ {p} : book[o] = NoOrder => book'[o] = NoOrder
          /\ \A o \in OrderIds : book[o].status \in Statuses => book'[o].status \in Statuses
      BY <1>11, <1>0 DEF TypeOK, JobsInOrder, JobInOrder, Requests, Statuses, CreateRead,
           tables, locks
    <3> QED
      BY <2>2, <3>1, <3>2, OthersInOrder
  <2> QED
    BY <2>1, <2>2 DEF JobsInOrder
<1>12. ASSUME NEW p \in Requests, NEW r \in Rows, NEW q \in Quantities, StartReserve(p, r, q)
      PROVE  JobsInOrder'
  <2>1. JobInOrder(p)'
    <3>1. pc'[p] = "save" => write'[p].row \in Rows
      BY <1>12 DEF TypeOK, StartReserve, Goto, Reserving
    <3> QED
      BY <1>12, <3>1, StoreAssumption DEF TypeOK, JobsInOrder, JobInOrder, Requests, NoJob,
           StartReserve, tables, locks, Goto
  <2>2. ASSUME NEW x \in Requests, x # p PROVE JobInOrder(x)'
    <3>1. /\ pc'[x] = pc[x] /\ job'[x] = job[x]
          /\ basket'[x] = basket[x] /\ write'[x] = write[x]
      BY <1>12, <2>2 DEF TypeOK, StartReserve, tables, locks, Goto
    <3>2. /\ \A o \in OrderIds \ {p} : book[o] = NoOrder => book'[o] = NoOrder
          /\ \A o \in OrderIds : book[o].status \in Statuses => book'[o].status \in Statuses
      BY <1>12, <1>0 DEF TypeOK, JobsInOrder, JobInOrder, Requests, Statuses,
           StartReserve, tables, locks
    <3> QED
      BY <2>2, <3>1, <3>2, OthersInOrder
  <2> QED
    BY <2>1, <2>2 DEF JobsInOrder
<1>13. ASSUME NEW p \in Requests, NEW r \in Rows, NEW q \in 0..MaxQty,
             NEW n \in ReservedGiven(r), StartUpsert(p, r, q, n)
      PROVE  JobsInOrder'
  <2>1. JobInOrder(p)'
    BY <1>13, <1>0, StoreAssumption DEF TypeOK, JobsInOrder, JobInOrder, UpdateIsSerial,
         HoldsItsOrder, Requests, Jobs, NoJob, StartUpsert, tables, locks, Goto
  <2>2. ASSUME NEW x \in Requests, x # p PROVE JobInOrder(x)'
    <3>1. /\ pc'[x] = pc[x] /\ job'[x] = job[x]
          /\ basket'[x] = basket[x] /\ write'[x] = write[x]
      BY <1>13, <2>2 DEF TypeOK, StartUpsert, tables, locks, Goto
    <3>2. /\ \A o \in OrderIds \ {p} : book[o] = NoOrder => book'[o] = NoOrder
          /\ \A o \in OrderIds : book[o].status \in Statuses => book'[o].status \in Statuses
      BY <1>13, <1>0 DEF TypeOK, JobsInOrder, JobInOrder, Requests, Statuses, StartUpsert,
           tables, locks
    <3> QED
      BY <2>2, <3>1, <3>2, OthersInOrder
  <2> QED
    BY <2>1, <2>2 DEF JobsInOrder
<1>14. ASSUME NEW p \in Requests, SaveRow(p)
      PROVE  JobsInOrder'
  <2>1. JobInOrder(p)'
    BY <1>14, <1>0, TransitionsType DEF TypeOK, JobsInOrder, JobInOrder, UpdateIsSerial,
         HoldsItsOrder, Requests, Jobs, SaveRow, locals, Goto
  <2>2. ASSUME NEW x \in Requests, x # p PROVE JobInOrder(x)'
    <3>1. /\ pc'[x] = pc[x] /\ job'[x] = job[x]
          /\ basket'[x] = basket[x] /\ write'[x] = write[x]
      BY <1>14, <2>2 DEF TypeOK, SaveRow, locals, Goto
    <3>2. /\ \A o \in OrderIds \ {p} : book[o] = NoOrder => book'[o] = NoOrder
          /\ \A o \in OrderIds : book[o].status \in Statuses => book'[o].status \in Statuses
      BY <1>14, <1>0 DEF TypeOK, JobsInOrder, JobInOrder, Requests, Statuses, SaveRow,
           locals
    <3> QED
      BY <2>2, <3>1, <3>2, OthersInOrder
  <2> QED
    BY <2>1, <2>2 DEF JobsInOrder
<1>15. ASSUME NEW p \in Requests, InsertOrder(p)
      PROVE  JobsInOrder'
  <2>1. JobInOrder(p)'
    BY <1>15, <1>0, TransitionsType DEF TypeOK, JobsInOrder, JobInOrder, UpdateIsSerial,
         HoldsItsOrder, Requests, Jobs, InsertOrder, locks, locals, Goto
  <2>2. ASSUME NEW x \in Requests, x # p PROVE JobInOrder(x)'
    <3>1. /\ pc'[x] = pc[x] /\ job'[x] = job[x]
          /\ basket'[x] = basket[x] /\ write'[x] = write[x]
      BY <1>15, <2>2 DEF TypeOK, InsertOrder, locks, locals, Goto
    <3>2. /\ \A o \in OrderIds \ {p} : book[o] = NoOrder => book'[o] = NoOrder
          /\ \A o \in OrderIds : book[o].status \in Statuses => book'[o].status \in Statuses
      BY <1>15, <1>0 DEF TypeOK, JobsInOrder, JobInOrder, Requests, Statuses, InsertOrder,
           locks, locals
    <3> QED
      BY <2>2, <3>1, <3>2, OthersInOrder
  <2> QED
    BY <2>1, <2>2 DEF JobsInOrder
<1>16. ASSUME NEW p \in Requests, InsertItems(p)
      PROVE  JobsInOrder'
  <2>1. JobInOrder(p)'
    BY <1>16, <1>0, TransitionsType DEF TypeOK, JobsInOrder, JobInOrder, UpdateIsSerial,
         HoldsItsOrder, Requests, Jobs, InsertItems, locks, locals, Goto
  <2>2. ASSUME NEW x \in Requests, x # p PROVE JobInOrder(x)'
    <3>1. /\ pc'[x] = pc[x] /\ job'[x] = job[x]
          /\ basket'[x] = basket[x] /\ write'[x] = write[x]
      BY <1>16, <2>2 DEF TypeOK, InsertItems, locks, locals, Goto
    <3>2. /\ \A o \in OrderIds \ {p} : book[o] = NoOrder => book'[o] = NoOrder
          /\ \A o \in OrderIds : book[o].status \in Statuses => book'[o].status \in Statuses
      BY <1>16, <1>0 DEF TypeOK, JobsInOrder, JobInOrder, Requests, Statuses, InsertItems,
           locks, locals
    <3> QED
      BY <2>2, <3>1, <3>2, OthersInOrder
  <2> QED
    BY <2>1, <2>2 DEF JobsInOrder
<1>17. ASSUME NEW p \in Requests, Running(p), Rollback(p)
      PROVE  JobsInOrder'
  <2>1. JobInOrder(p)'
    BY <1>17, <1>0, TransitionsType DEF TypeOK, JobsInOrder, JobInOrder, UpdateIsSerial,
         HoldsItsOrder, Requests, Jobs, Running, Rollback, Forget, tables, Goto
  <2>2. ASSUME NEW x \in Requests, x # p PROVE JobInOrder(x)'
    <3>1. /\ pc'[x] = pc[x] /\ job'[x] = job[x]
          /\ basket'[x] = basket[x] /\ write'[x] = write[x]
      BY <1>17, <2>2 DEF TypeOK, Rollback, Forget, tables, Goto
    <3>2. /\ \A o \in OrderIds \ {p} : book[o] = NoOrder => book'[o] = NoOrder
          /\ \A o \in OrderIds : book[o].status \in Statuses => book'[o].status \in Statuses
      BY <1>17, <1>0 DEF TypeOK, JobsInOrder, JobInOrder, Requests, Statuses, Rollback,
           Forget, tables
    <3> QED
      BY <2>2, <3>1, <3>2, OthersInOrder
  <2> QED
    BY <2>1, <2>2 DEF JobsInOrder
<1>18. ASSUME NEW c \in Customers, NEW l \in Lines, NEW q \in 0..MaxQty, EditCart(c, l, q)
       PROVE  JobsInOrder'
  BY <1>18 DEF JobsInOrder, JobInOrder, EditCart, locks, locals
<1>20. ASSUME NEW p \in Requests, RereadCart(p)
       PROVE  JobsInOrder'
  <2>1. JobInOrder(p)'
    BY <1>20, <1>0, TransitionsType DEF TypeOK, JobsInOrder, JobInOrder, UpdateIsSerial,
         HoldsItsOrder, Requests, Jobs, RereadCart, tables, locks, Goto
  <2>2. ASSUME NEW x \in Requests, x # p PROVE JobInOrder(x)'
    <3>1. /\ pc'[x] = pc[x] /\ job'[x] = job[x]
          /\ basket'[x] = basket[x] /\ write'[x] = write[x]
      BY <1>20, <2>2 DEF TypeOK, RereadCart, tables, locks, Goto
    <3>2. /\ \A o \in OrderIds \ {p} : book[o] = NoOrder => book'[o] = NoOrder
          /\ \A o \in OrderIds : book[o].status \in Statuses => book'[o].status \in Statuses
      BY <1>20 DEF RereadCart, tables, locks
    <3> QED
      BY <2>2, <3>1, <3>2, OthersInOrder
  <2> QED
    BY <2>1, <2>2 DEF JobsInOrder
<1>21. ASSUME NEW p \in Requests, InsertRow(p)
       PROVE  JobsInOrder'
  <2>1. JobInOrder(p)'
    BY <1>21, <1>0, TransitionsType DEF TypeOK, JobsInOrder, JobInOrder, UpdateIsSerial,
         HoldsItsOrder, Requests, Jobs, InsertRow, locals, Goto
  <2>2. ASSUME NEW x \in Requests, x # p PROVE JobInOrder(x)'
    <3>1. /\ pc'[x] = pc[x] /\ job'[x] = job[x]
          /\ basket'[x] = basket[x] /\ write'[x] = write[x]
      BY <1>21, <2>2 DEF TypeOK, InsertRow, locals, Goto
    <3>2. /\ \A o \in OrderIds \ {p} : book[o] = NoOrder => book'[o] = NoOrder
          /\ \A o \in OrderIds : book[o].status \in Statuses => book'[o].status \in Statuses
      BY <1>21 DEF InsertRow, locals
    <3> QED
      BY <2>2, <3>1, <3>2, OthersInOrder
  <2> QED
    BY <2>1, <2>2 DEF JobsInOrder
<1>19. CASE UNCHANGED vars
  BY <1>19 DEF JobsInOrder, JobInOrder, vars
<1> QED
  BY <1>1, <1>2, <1>3, <1>4, <1>5, <1>6, <1>7, <1>8, <1>9, <1>10, <1>11, <1>12, <1>13,
       <1>14, <1>15, <1>16, <1>17, <1>18, <1>19, <1>20, <1>21
  DEF Next, Arrive, Step, RefuseUpdate, OutOfStock, DeadlockAbort, Crash, Running, WaitsFor

\* A step of p leaves another update in possession of its order, and the order as it was.
LEMMA OthersSerial ==
  ASSUME TypeOK, JobsInOrder, UpdateIsSerial, NEW x \in Requests,
         pc'[x] = pc[x], job'[x] = job[x], basket'[x] = basket[x], todo'[x] = todo[x],
         \A o \in OrderIds : olock[o] = x /\ book[o].status \in Statuses
                               => olock'[o] = x /\ book'[o] = book[o]
  PROVE  HoldsItsOrder(x)'
<1> SUFFICES ASSUME pc[x] = "release" PROVE HoldsItsOrder(x)'
  BY DEF HoldsItsOrder
<1> DEFINE o == job[x].on
<1>1. o \in OrderIds /\ book[o].status \in Statuses
  BY DEF JobsInOrder, JobInOrder
<1>2. HoldsItsOrder(x)
  BY DEF UpdateIsSerial
<1>3. olock'[o] = x /\ book'[o] = book[o]
  BY <1>1, <1>2 DEF HoldsItsOrder
<1> QED
  BY <1>2, <1>3 DEF HoldsItsOrder

\* Every step leaves each updating transaction in possession of its order.
LEMMA SerialStep ==
  ASSUME TypeOK, JobsInOrder, UpdateIsSerial, [Next]_vars
  PROVE  UpdateIsSerial'
<1>0. NoOrder.status \notin Statuses
  BY DEF NoOrder, Statuses
<1>1. ASSUME NEW p \in Requests, NEW c \in Customers, StartCheckout(p, c)
      PROVE  UpdateIsSerial'
  <2>1. HoldsItsOrder(p)'
    BY <1>1, <1>0, TransitionsType DEF TypeOK, JobsInOrder, JobInOrder, UpdateIsSerial,
         HoldsItsOrder, Requests, StartCheckout, tables, locks, Goto
  <2>2. ASSUME NEW x \in Requests, x # p PROVE HoldsItsOrder(x)'
    <3>1. pc'[x] = pc[x] /\ job'[x] = job[x] /\ basket'[x] = basket[x] /\ todo'[x] = todo[x]
      BY <1>1, <2>2 DEF TypeOK, StartCheckout, tables, locks, Goto
    <3>2. \A o \in OrderIds : olock[o] = x /\ book[o].status \in Statuses
                                => olock'[o] = x /\ book'[o] = book[o]
      BY <1>1, <1>0, <2>2, StoreAssumption DEF TypeOK, JobsInOrder, JobInOrder,
           UpdateIsSerial, HoldsItsOrder, Requests, StartCheckout, tables, locks
    <3> QED
      BY <3>1, <3>2, OthersSerial
  <2> QED
    BY <2>1, <2>2 DEF UpdateIsSerial
<1>2. ASSUME NEW p \in Requests, BeginCheckout(p)
      PROVE  UpdateIsSerial'
  <2>1. HoldsItsOrder(p)'
    BY <1>2, <1>0, TransitionsType DEF TypeOK, JobsInOrder, JobInOrder, UpdateIsSerial,
         HoldsItsOrder, Requests, BeginCheckout, tables, locks, Goto
  <2>2. ASSUME NEW x \in Requests, x # p PROVE HoldsItsOrder(x)'
    <3>1. pc'[x] = pc[x] /\ job'[x] = job[x] /\ basket'[x] = basket[x] /\ todo'[x] = todo[x]
      BY <1>2, <2>2 DEF TypeOK, BeginCheckout, tables, locks, Goto
    <3>2. \A o \in OrderIds : olock[o] = x /\ book[o].status \in Statuses
                                => olock'[o] = x /\ book'[o] = book[o]
      BY <1>2, <1>0, <2>2, StoreAssumption DEF TypeOK, JobsInOrder, JobInOrder,
           UpdateIsSerial, HoldsItsOrder, Requests, BeginCheckout, tables, locks
    <3> QED
      BY <3>1, <3>2, OthersSerial
  <2> QED
    BY <2>1, <2>2 DEF UpdateIsSerial
<1>3. ASSUME NEW p \in Requests, NEW l \in Lines, ReserveLine(p, l)
      PROVE  UpdateIsSerial'
  <2>1. HoldsItsOrder(p)'
    BY <1>3, <1>0, TransitionsType DEF TypeOK, JobsInOrder, JobInOrder, UpdateIsSerial,
         HoldsItsOrder, Requests, ReserveLine, tables, Goto
  <2>2. ASSUME NEW x \in Requests, x # p PROVE HoldsItsOrder(x)'
    <3>1. pc'[x] = pc[x] /\ job'[x] = job[x] /\ basket'[x] = basket[x] /\ todo'[x] = todo[x]
      BY <1>3, <2>2 DEF TypeOK, ReserveLine, tables, Goto
    <3>2. \A o \in OrderIds : olock[o] = x /\ book[o].status \in Statuses
                                => olock'[o] = x /\ book'[o] = book[o]
      BY <1>3, <1>0, <2>2, StoreAssumption DEF TypeOK, JobsInOrder, JobInOrder,
           UpdateIsSerial, HoldsItsOrder, Requests, ReserveLine, tables
    <3> QED
      BY <3>1, <3>2, OthersSerial
  <2> QED
    BY <2>1, <2>2 DEF UpdateIsSerial
<1>4. ASSUME NEW p \in Requests, CommitCheckout(p)
      PROVE  UpdateIsSerial'
  <2>1. HoldsItsOrder(p)'
    BY <1>4, <1>0, TransitionsType DEF TypeOK, JobsInOrder, JobInOrder, UpdateIsSerial,
         HoldsItsOrder, Requests, CommitCheckout, PublishRows, locals, Goto
  <2>2. ASSUME NEW x \in Requests, x # p PROVE HoldsItsOrder(x)'
    <3>1. pc'[x] = pc[x] /\ job'[x] = job[x] /\ basket'[x] = basket[x] /\ todo'[x] = todo[x]
      BY <1>4, <2>2 DEF TypeOK, CommitCheckout, PublishRows, locals, Goto
    <3>2. \A o \in OrderIds : olock[o] = x /\ book[o].status \in Statuses
                                => olock'[o] = x /\ book'[o] = book[o]
      BY <1>4, <1>0, <2>2, StoreAssumption DEF TypeOK, JobsInOrder, JobInOrder,
           UpdateIsSerial, HoldsItsOrder, Requests, CommitCheckout, PublishRows, locals
    <3> QED
      BY <3>1, <3>2, OthersSerial
  <2> QED
    BY <2>1, <2>2 DEF UpdateIsSerial
<1>5. ASSUME NEW p \in Requests, Reload(p)
      PROVE  UpdateIsSerial'
  <2>1. HoldsItsOrder(p)'
    BY <1>5, <1>0, TransitionsType DEF TypeOK, JobsInOrder, JobInOrder, UpdateIsSerial,
         HoldsItsOrder, Requests, Reload, Forget, tables, locks, Goto
  <2>2. ASSUME NEW x \in Requests, x # p PROVE HoldsItsOrder(x)'
    <3>1. pc'[x] = pc[x] /\ job'[x] = job[x] /\ basket'[x] = basket[x] /\ todo'[x] = todo[x]
      BY <1>5, <2>2 DEF TypeOK, Reload, Forget, tables, locks, Goto
    <3>2. \A o \in OrderIds : olock[o] = x /\ book[o].status \in Statuses
                                => olock'[o] = x /\ book'[o] = book[o]
      BY <1>5, <1>0, <2>2, StoreAssumption DEF TypeOK, JobsInOrder, JobInOrder,
           UpdateIsSerial, HoldsItsOrder, Requests, Reload, Forget, tables, locks
    <3> QED
      BY <3>1, <3>2, OthersSerial
  <2> QED
    BY <2>1, <2>2 DEF UpdateIsSerial
<1>6. ASSUME NEW p \in Requests, NEW who \in Customers \cup {Admin}, NEW o \in OrderIds, NEW s \in Statuses, StartUpdate(p, who, o, s)
      PROVE  UpdateIsSerial'
  <2>1. HoldsItsOrder(p)'
    BY <1>6, <1>0, TransitionsType DEF TypeOK, JobsInOrder, JobInOrder, UpdateIsSerial,
         HoldsItsOrder, Requests, StartUpdate, tables, locks, Goto
  <2>2. ASSUME NEW x \in Requests, x # p PROVE HoldsItsOrder(x)'
    <3>1. pc'[x] = pc[x] /\ job'[x] = job[x] /\ basket'[x] = basket[x] /\ todo'[x] = todo[x]
      BY <1>6, <2>2 DEF TypeOK, StartUpdate, tables, locks, Goto
    <3>2. \A q \in OrderIds : olock[q] = x /\ book[q].status \in Statuses
                                => olock'[q] = x /\ book'[q] = book[q]
      BY <1>6, <1>0, <2>2, StoreAssumption DEF TypeOK, JobsInOrder, JobInOrder,
           UpdateIsSerial, HoldsItsOrder, Requests, StartUpdate, tables, locks
    <3> QED
      BY <3>1, <3>2, OthersSerial
  <2> QED
    BY <2>1, <2>2 DEF UpdateIsSerial
<1>7. ASSUME NEW p \in Requests, LockOrder(p)
      PROVE  UpdateIsSerial'
  <2>0. "CANCELLED" \in Transitions["PENDING"]
    BY DEF Transitions, Statuses
  <2>1. HoldsItsOrder(p)'
    BY <1>7, <1>0, <2>0, TransitionsType DEF TypeOK, JobsInOrder, JobInOrder,
         UpdateIsSerial, HoldsItsOrder, Requests, LockOrder, Permitted, tables, Goto
  <2>2. ASSUME NEW x \in Requests, x # p PROVE HoldsItsOrder(x)'
    <3>1. pc'[x] = pc[x] /\ job'[x] = job[x] /\ basket'[x] = basket[x] /\ todo'[x] = todo[x]
      BY <1>7, <2>2 DEF TypeOK, LockOrder, Permitted, tables, Goto
    <3>2. \A o \in OrderIds : olock[o] = x /\ book[o].status \in Statuses
                                => olock'[o] = x /\ book'[o] = book[o]
      BY <1>7, <1>0, <2>2, StoreAssumption DEF TypeOK, JobsInOrder, JobInOrder,
           UpdateIsSerial, HoldsItsOrder, Requests, LockOrder, Permitted, tables
    <3> QED
      BY <3>1, <3>2, OthersSerial
  <2> QED
    BY <2>1, <2>2 DEF UpdateIsSerial
<1>8. ASSUME NEW p \in Requests, NEW l \in Lines, ReleaseLine(p, l)
      PROVE  UpdateIsSerial'
  <2>1. HoldsItsOrder(p)'
    BY <1>8, <1>0, TransitionsType DEF TypeOK, JobsInOrder, JobInOrder, UpdateIsSerial,
         HoldsItsOrder, Requests, ReleaseLine, tables, Goto
  <2>2. ASSUME NEW x \in Requests, x # p PROVE HoldsItsOrder(x)'
    <3>1. pc'[x] = pc[x] /\ job'[x] = job[x] /\ basket'[x] = basket[x] /\ todo'[x] = todo[x]
      BY <1>8, <2>2 DEF TypeOK, ReleaseLine, tables, Goto
    <3>2. \A o \in OrderIds : olock[o] = x /\ book[o].status \in Statuses
                                => olock'[o] = x /\ book'[o] = book[o]
      BY <1>8, <1>0, <2>2, StoreAssumption DEF TypeOK, JobsInOrder, JobInOrder,
           UpdateIsSerial, HoldsItsOrder, Requests, ReleaseLine, tables
    <3> QED
      BY <3>1, <3>2, OthersSerial
  <2> QED
    BY <2>1, <2>2 DEF UpdateIsSerial
<1>9. ASSUME NEW p \in Requests, CommitUpdate(p)
      PROVE  UpdateIsSerial'
  <2>1. HoldsItsOrder(p)'
    BY <1>9, <1>0, TransitionsType DEF TypeOK, JobsInOrder, JobInOrder, UpdateIsSerial,
         HoldsItsOrder, Requests, CommitUpdate, PublishRows, Forget, Goto
  <2>2. ASSUME NEW x \in Requests, x # p PROVE HoldsItsOrder(x)'
    <3>1. pc'[x] = pc[x] /\ job'[x] = job[x] /\ basket'[x] = basket[x] /\ todo'[x] = todo[x]
      BY <1>9, <2>2 DEF TypeOK, CommitUpdate, PublishRows, Forget, Goto
    <3>2. \A o \in OrderIds : olock[o] = x /\ book[o].status \in Statuses
                                => olock'[o] = x /\ book'[o] = book[o]
      BY <1>9, <1>0, <2>2, StoreAssumption DEF TypeOK, JobsInOrder, JobInOrder,
           UpdateIsSerial, HoldsItsOrder, Requests, CommitUpdate, PublishRows, Forget
    <3> QED
      BY <3>1, <3>2, OthersSerial
  <2> QED
    BY <2>1, <2>2 DEF UpdateIsSerial
<1>10. ASSUME NEW p \in Requests, NEW c \in Customers, NEW b \in Baskets, StartCreate(p, c, b)
      PROVE  UpdateIsSerial'
  <2>1. HoldsItsOrder(p)'
    BY <1>10, <1>0, TransitionsType DEF TypeOK, JobsInOrder, JobInOrder, UpdateIsSerial,
         HoldsItsOrder, Requests, StartCreate, tables, locks, Goto
  <2>2. ASSUME NEW x \in Requests, x # p PROVE HoldsItsOrder(x)'
    <3>1. pc'[x] = pc[x] /\ job'[x] = job[x] /\ basket'[x] = basket[x] /\ todo'[x] = todo[x]
      BY <1>10, <2>2 DEF TypeOK, StartCreate, tables, locks, Goto
    <3>2. \A o \in OrderIds : olock[o] = x /\ book[o].status \in Statuses
                                => olock'[o] = x /\ book'[o] = book[o]
      BY <1>10, <1>0, <2>2, StoreAssumption DEF TypeOK, JobsInOrder, JobInOrder,
           UpdateIsSerial, HoldsItsOrder, Requests, StartCreate, tables, locks
    <3> QED
      BY <3>1, <3>2, OthersSerial
  <2> QED
    BY <2>1, <2>2 DEF UpdateIsSerial
<1>11. ASSUME NEW p \in Requests, NEW l \in Lines, CreateRead(p, l)
      PROVE  UpdateIsSerial'
  <2>1. HoldsItsOrder(p)'
    BY <1>11, <1>0, TransitionsType DEF TypeOK, JobsInOrder, JobInOrder, UpdateIsSerial,
         HoldsItsOrder, Requests, CreateRead, tables, locks, Goto
  <2>2. ASSUME NEW x \in Requests, x # p PROVE HoldsItsOrder(x)'
    <3>1. pc'[x] = pc[x] /\ job'[x] = job[x] /\ basket'[x] = basket[x] /\ todo'[x] = todo[x]
      BY <1>11, <2>2 DEF TypeOK, CreateRead, tables, locks, Goto
    <3>2. \A o \in OrderIds : olock[o] = x /\ book[o].status \in Statuses
                                => olock'[o] = x /\ book'[o] = book[o]
      BY <1>11, <1>0, <2>2, StoreAssumption DEF TypeOK, JobsInOrder, JobInOrder,
           UpdateIsSerial, HoldsItsOrder, Requests, CreateRead, tables, locks
    <3> QED
      BY <3>1, <3>2, OthersSerial
  <2> QED
    BY <2>1, <2>2 DEF UpdateIsSerial
<1>12. ASSUME NEW p \in Requests, NEW r \in Rows, NEW q \in Quantities, StartReserve(p, r, q)
      PROVE  UpdateIsSerial'
  <2>1. HoldsItsOrder(p)'
    BY <1>12, <1>0, StoreAssumption DEF TypeOK, JobsInOrder, JobInOrder, UpdateIsSerial,
         HoldsItsOrder, Requests, StartReserve, tables, locks, Goto
  <2>2. ASSUME NEW x \in Requests, x # p PROVE HoldsItsOrder(x)'
    <3>1. pc'[x] = pc[x] /\ job'[x] = job[x] /\ basket'[x] = basket[x] /\ todo'[x] = todo[x]
      BY <1>12, <2>2 DEF TypeOK, StartReserve, tables, locks, Goto
    <3>2. \A o \in OrderIds : olock[o] = x /\ book[o].status \in Statuses
                                => olock'[o] = x /\ book'[o] = book[o]
      BY <1>12, <1>0, <2>2, StoreAssumption DEF TypeOK, JobsInOrder, JobInOrder,
           UpdateIsSerial, HoldsItsOrder, Requests, StartReserve, tables, locks
    <3> QED
      BY <3>1, <3>2, OthersSerial
  <2> QED
    BY <2>1, <2>2 DEF UpdateIsSerial
<1>13. ASSUME NEW p \in Requests, NEW r \in Rows, NEW q \in 0..MaxQty,
             NEW n \in ReservedGiven(r), StartUpsert(p, r, q, n)
      PROVE  UpdateIsSerial'
  <2>1. HoldsItsOrder(p)'
    BY <1>13, <1>0, StoreAssumption DEF TypeOK, JobsInOrder, JobInOrder, UpdateIsSerial,
         HoldsItsOrder, Requests, StartUpsert, tables, locks, Goto
  <2>2. ASSUME NEW x \in Requests, x # p PROVE HoldsItsOrder(x)'
    <3>1. pc'[x] = pc[x] /\ job'[x] = job[x] /\ basket'[x] = basket[x] /\ todo'[x] = todo[x]
      BY <1>13, <2>2 DEF TypeOK, StartUpsert, tables, locks, Goto
    <3>2. \A o \in OrderIds : olock[o] = x /\ book[o].status \in Statuses
                                => olock'[o] = x /\ book'[o] = book[o]
      BY <1>13, <1>0, <2>2, StoreAssumption DEF TypeOK, JobsInOrder, JobInOrder,
           UpdateIsSerial, HoldsItsOrder, Requests, StartUpsert, tables, locks
    <3> QED
      BY <3>1, <3>2, OthersSerial
  <2> QED
    BY <2>1, <2>2 DEF UpdateIsSerial
<1>14. ASSUME NEW p \in Requests, SaveRow(p)
      PROVE  UpdateIsSerial'
  <2>1. HoldsItsOrder(p)'
    BY <1>14, <1>0, TransitionsType DEF TypeOK, JobsInOrder, JobInOrder, UpdateIsSerial,
         HoldsItsOrder, Requests, SaveRow, locals, Goto
  <2>2. ASSUME NEW x \in Requests, x # p PROVE HoldsItsOrder(x)'
    <3>1. pc'[x] = pc[x] /\ job'[x] = job[x] /\ basket'[x] = basket[x] /\ todo'[x] = todo[x]
      BY <1>14, <2>2 DEF TypeOK, SaveRow, locals, Goto
    <3>2. \A o \in OrderIds : olock[o] = x /\ book[o].status \in Statuses
                                => olock'[o] = x /\ book'[o] = book[o]
      BY <1>14, <1>0, <2>2, StoreAssumption DEF TypeOK, JobsInOrder, JobInOrder,
           UpdateIsSerial, HoldsItsOrder, Requests, SaveRow, locals
    <3> QED
      BY <3>1, <3>2, OthersSerial
  <2> QED
    BY <2>1, <2>2 DEF UpdateIsSerial
<1>15. ASSUME NEW p \in Requests, InsertOrder(p)
      PROVE  UpdateIsSerial'
  <2>1. HoldsItsOrder(p)'
    BY <1>15, <1>0, TransitionsType DEF TypeOK, JobsInOrder, JobInOrder, UpdateIsSerial,
         HoldsItsOrder, Requests, InsertOrder, locks, locals, Goto
  <2>2. ASSUME NEW x \in Requests, x # p PROVE HoldsItsOrder(x)'
    <3>1. pc'[x] = pc[x] /\ job'[x] = job[x] /\ basket'[x] = basket[x] /\ todo'[x] = todo[x]
      BY <1>15, <2>2 DEF TypeOK, InsertOrder, locks, locals, Goto
    <3>2. \A o \in OrderIds : olock[o] = x /\ book[o].status \in Statuses
                                => olock'[o] = x /\ book'[o] = book[o]
      BY <1>15, <1>0, <2>2, StoreAssumption DEF TypeOK, JobsInOrder, JobInOrder,
           UpdateIsSerial, HoldsItsOrder, Requests, InsertOrder, locks, locals
    <3> QED
      BY <3>1, <3>2, OthersSerial
  <2> QED
    BY <2>1, <2>2 DEF UpdateIsSerial
<1>16. ASSUME NEW p \in Requests, InsertItems(p)
      PROVE  UpdateIsSerial'
  <2>1. HoldsItsOrder(p)'
    BY <1>16, <1>0, TransitionsType DEF TypeOK, JobsInOrder, JobInOrder, UpdateIsSerial,
         HoldsItsOrder, Requests, InsertItems, locks, locals, Goto
  <2>2. ASSUME NEW x \in Requests, x # p PROVE HoldsItsOrder(x)'
    <3>1. pc'[x] = pc[x] /\ job'[x] = job[x] /\ basket'[x] = basket[x] /\ todo'[x] = todo[x]
      BY <1>16, <2>2 DEF TypeOK, InsertItems, locks, locals, Goto
    <3>2. \A o \in OrderIds : olock[o] = x /\ book[o].status \in Statuses
                                => olock'[o] = x /\ book'[o] = book[o]
      BY <1>16, <1>0, <2>2, StoreAssumption DEF TypeOK, JobsInOrder, JobInOrder,
           UpdateIsSerial, HoldsItsOrder, Requests, InsertItems, locks, locals
    <3> QED
      BY <3>1, <3>2, OthersSerial
  <2> QED
    BY <2>1, <2>2 DEF UpdateIsSerial
<1>17. ASSUME NEW p \in Requests, Running(p), Rollback(p)
      PROVE  UpdateIsSerial'
  <2>1. HoldsItsOrder(p)'
    BY <1>17, <1>0, TransitionsType DEF TypeOK, JobsInOrder, JobInOrder, UpdateIsSerial,
         HoldsItsOrder, Requests, Running, Rollback, Forget, tables, Goto
  <2>2. ASSUME NEW x \in Requests, x # p PROVE HoldsItsOrder(x)'
    <3>1. pc'[x] = pc[x] /\ job'[x] = job[x] /\ basket'[x] = basket[x] /\ todo'[x] = todo[x]
      BY <1>17, <2>2 DEF TypeOK, Rollback, Forget, tables, Goto
    <3>2. \A o \in OrderIds : olock[o] = x /\ book[o].status \in Statuses
                                => olock'[o] = x /\ book'[o] = book[o]
      BY <1>17, <1>0, <2>2, StoreAssumption DEF TypeOK, JobsInOrder, JobInOrder,
           UpdateIsSerial, HoldsItsOrder, Requests, Rollback, Forget, tables
    <3> QED
      BY <3>1, <3>2, OthersSerial
  <2> QED
    BY <2>1, <2>2 DEF UpdateIsSerial
<1>18. ASSUME NEW c \in Customers, NEW l \in Lines, NEW q \in 0..MaxQty, EditCart(c, l, q)
       PROVE  UpdateIsSerial'
  BY <1>18 DEF UpdateIsSerial, HoldsItsOrder, EditCart, locks, locals
<1>20. ASSUME NEW p \in Requests, RereadCart(p)
       PROVE  UpdateIsSerial'
  <2>1. HoldsItsOrder(p)'
    BY <1>20, <1>0, TransitionsType DEF TypeOK, JobsInOrder, JobInOrder, UpdateIsSerial,
         HoldsItsOrder, Requests, RereadCart, tables, locks, Goto
  <2>2. ASSUME NEW x \in Requests, x # p PROVE HoldsItsOrder(x)'
    <3>1. pc'[x] = pc[x] /\ job'[x] = job[x] /\ basket'[x] = basket[x] /\ todo'[x] = todo[x]
      BY <1>20, <2>2 DEF TypeOK, RereadCart, tables, locks, Goto
    <3>2. \A o \in OrderIds : olock[o] = x /\ book[o].status \in Statuses
                                => olock'[o] = x /\ book'[o] = book[o]
      BY <1>20 DEF RereadCart, tables, locks
    <3> QED
      BY <3>1, <3>2, OthersSerial
  <2> QED
    BY <2>1, <2>2 DEF UpdateIsSerial
<1>21. ASSUME NEW p \in Requests, InsertRow(p)
       PROVE  UpdateIsSerial'
  <2>1. HoldsItsOrder(p)'
    BY <1>21, <1>0, TransitionsType DEF TypeOK, JobsInOrder, JobInOrder, UpdateIsSerial,
         HoldsItsOrder, Requests, InsertRow, locals, Goto
  <2>2. ASSUME NEW x \in Requests, x # p PROVE HoldsItsOrder(x)'
    <3>1. pc'[x] = pc[x] /\ job'[x] = job[x] /\ basket'[x] = basket[x] /\ todo'[x] = todo[x]
      BY <1>21, <2>2 DEF TypeOK, InsertRow, locals, Goto
    <3>2. \A o \in OrderIds : olock[o] = x /\ book[o].status \in Statuses
                                => olock'[o] = x /\ book'[o] = book[o]
      BY <1>21 DEF InsertRow, locals
    <3> QED
      BY <3>1, <3>2, OthersSerial
  <2> QED
    BY <2>1, <2>2 DEF UpdateIsSerial
<1>19. CASE UNCHANGED vars
  BY <1>19 DEF UpdateIsSerial, HoldsItsOrder, vars
<1> QED
  BY <1>1, <1>2, <1>3, <1>4, <1>5, <1>6, <1>7, <1>8, <1>9, <1>10, <1>11, <1>12, <1>13,
       <1>14, <1>15, <1>16, <1>17, <1>18, <1>19, <1>20, <1>21
  DEF Next, Arrive, Step, RefuseUpdate, OutOfStock, DeadlockAbort, Crash, Running, WaitsFor

-----------------------------------------------------------------------------
\* Initially no request has started.
LEMMA OrderInit == Init => OrderInv
<1> SUFFICES ASSUME Init PROVE OrderInv
  OBVIOUS
<1>1. JobsInOrder
  BY StoreAssumption DEF Init, JobsInOrder, JobInOrder, NoJob, Requests
<1>2. UpdateIsSerial
  BY DEF Init, UpdateIsSerial, HoldsItsOrder
<1> QED
  BY <1>1, <1>2, TypeInit DEF OrderInv

\* Whatever requests race, on all six endpoints and with crashes: the tables
\* and locals keep their types, no request inserts an order twice or acts on an
\* order that is not there, and an update that has checked an order's status
\* holds that order until it commits.
THEOREM OrdersInOrder == Spec => []OrderInv
<1>1. OrderInv /\ [Next]_vars => OrderInv'
  BY TypeStep, JobsStep, SerialStep DEF OrderInv
<1> QED
  BY <1>1, OrderInit, PTL DEF Spec

\* Orders are written by the four commits and inserts only.
LEMMA WhoWritesOrders ==
  ASSUME [Next]_vars
  PROVE  \/ UNCHANGED book
         \/ \E p \in Requests : \/ CommitCheckout(p) \/ CommitUpdate(p)
                                \/ InsertOrder(p) \/ InsertItems(p)
<1>1. ASSUME NEW p \in Requests, Arrive(p) PROVE UNCHANGED book
  BY <1>1 DEF Arrive, StartCheckout, StartUpdate, StartCreate, StartReserve, StartUpsert,
       tables
<1>2. ASSUME NEW p \in Requests,
             \/ RefuseUpdate(p) \/ DeadlockAbort(p) \/ Crash(p)
             \/ \E l \in Lines : OutOfStock(p, l)
      PROVE  UNCHANGED book
  BY <1>2 DEF RefuseUpdate, DeadlockAbort, Crash, OutOfStock, Rollback, tables
<1>3. ASSUME NEW p \in Requests,
             \/ BeginCheckout(p) \/ RereadCart(p) \/ Reload(p) \/ LockOrder(p)
             \/ SaveRow(p) \/ InsertRow(p)
             \/ \E l \in Lines : ReserveLine(p, l) \/ ReleaseLine(p, l) \/ CreateRead(p, l)
      PROVE  UNCHANGED book
  BY <1>3 DEF BeginCheckout, RereadCart, Reload, LockOrder, SaveRow, InsertRow, ReserveLine, ReleaseLine,
              CreateRead, tables
<1>4. ASSUME NEW c \in Customers, NEW l \in Lines, NEW q \in 0..MaxQty, EditCart(c, l, q)
      PROVE  UNCHANGED book
  BY <1>4 DEF EditCart
<1>5. CASE UNCHANGED vars
  BY <1>5 DEF vars
<1> QED
  BY <1>1, <1>2, <1>3, <1>4, <1>5 DEF Next, Step

\* One step of the service moves an order only along TRANSITIONS.
LEMMA StatusStep ==
  ASSUME OrderInv, [Next]_vars, NEW o \in OrderIds,
         book[o].status \in Statuses, book'[o].status # book[o].status
  PROVE  book'[o].status \in Transitions[book[o].status]
<1> USE DEF OrderInv
<1>0. NoOrder.status \notin Statuses
  BY DEF NoOrder, Statuses
<1>1. ASSUME NEW p \in Requests, CommitUpdate(p)
      PROVE  book'[o].status \in Transitions[book[o].status]
  <2>1. job[p].on \in OrderIds /\ HoldsItsOrder(p)
    BY <1>1 DEF JobsInOrder, JobInOrder, UpdateIsSerial, CommitUpdate
  <2>2. o = job[p].on /\ book'[o].status = job[p].to
    BY <1>1, <2>1 DEF CommitUpdate, TypeOK, Orders
  <2> QED
    BY <1>1, <2>1, <2>2 DEF HoldsItsOrder, CommitUpdate
<1>2. ASSUME NEW p \in Requests, CommitCheckout(p) \/ InsertOrder(p)
      PROVE  book'[o] = book[o]
  BY <1>2, <1>0 DEF CommitCheckout, InsertOrder, TypeOK, JobsInOrder, JobInOrder, Requests
<1>3. ASSUME NEW p \in Requests, InsertItems(p)
      PROVE  book'[o].status = book[o].status
  BY <1>3 DEF InsertItems, TypeOK, Orders, Requests
<1>4. CASE UNCHANGED book
  BY <1>4
<1> QED
  BY <1>1, <1>2, <1>3, <1>4, WhoWritesOrders

\* Status updates, webhooks and customer cancellations that race on an order
\* move it only along TRANSITIONS: a cancelled or fulfilled order stays so.
THEOREM StatusIsTransitional == Spec => StatusFollowsTransitions
<1>1. OrderInv /\ [Next]_vars =>
        [\A o \in OrderIds :
           LET before == book[o].status
               after  == book'[o].status
           IN  before \in Statuses /\ after # before
                 => after \in Transitions[before]]_vars
  BY StatusStep
<1> QED
  BY <1>1, OrdersInOrder, PTL DEF Spec, StatusFollowsTransitions

=============================================================================
