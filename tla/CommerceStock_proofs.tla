------------------------ MODULE CommerceStock_proofs ------------------------
(* Stock and orders agree, for every number of requests, customers, rows and *)
(* lines, when only the endpoints that lock rows are in use and a line is    *)
(* tracked by at most one row.                                               *)
EXTENDS CommerceOrders_proofs

Accounts == OnlyLocked /\ TransactionsAccount /\ ReservedIsOwed /\ StockConserved

\* What TypeOK says of one row and one request.
LEMMA RowType ==
  ASSUME TypeOK, NEW r \in Rows
  PROVE  /\ stock[r] \in StockLevels /\ dirty[r] \in StockLevels
         /\ stock[r].available \in Nat /\ stock[r].reserved \in Nat
         /\ dirty[r].available \in Nat /\ dirty[r].reserved \in Nat
         /\ Stock[r] \in Nat
BY StoreAssumption DEF TypeOK, StockLevels

\* A loop that has not started has got nothing ...
LEMMA NothingGot ==
  ASSUME NEW b \in Baskets, NEW r
  PROVE  Cardinality(Units(b, Lines \ LinesOf(b), r)) = 0
<1>1. Units(b, Lines \ LinesOf(b), r) = Units(b, (Lines \ LinesOf(b)) \cap LinesOf(b), r)
  BY UnitsOfLines
<1>2. Units(b, (Lines \ LinesOf(b)) \cap LinesOf(b), r) = {}
  BY DEF Units
<1> QED
  BY <1>1, <1>2, FS_EmptySet

\* ... one that has ended has got all its basket asks for ...
LEMMA AllGot ==
  ASSUME NEW p, NEW r, todo[p] = {}
  PROVE  Got(p, r) = Demand(basket[p], r)
<1>1. Lines \ todo[p] = Lines
  OBVIOUS
<1> QED
  BY <1>1 DEF Got, Demand

\* ... and an iteration adds the line's quantity on the line's row.
LEMMA GotLine ==
  ASSUME TypeOK, NEW p \in Requests, NEW l \in Lines, NEW r \in Rows, l \in todo[p],
         todo' = [todo EXCEPT ![p] = @ \ {l}], basket' = basket
  PROVE  /\ Got(p, r) \in Nat /\ Got(p, r)' \in Nat /\ basket[p][l] \in Nat
         /\ Got(p, r)' = IF r \in Match[l] THEN Got(p, r) + basket[p][l] ELSE Got(p, r)
<1> DEFINE L == Lines \ todo[p]
<1>1. basket[p] \in Baskets /\ basket[p][l] \in Nat
  BY StoreAssumption DEF TypeOK, Baskets
<1>2. L \in SUBSET Lines /\ L \cup {l} \in SUBSET Lines /\ l \in Lines \ L
  OBVIOUS
<1>3. Lines \ todo'[p] = L \cup {l}
  BY DEF TypeOK
<1>4. Got(p, r)' = Cardinality(Units(basket[p], L \cup {l}, r))
  BY <1>3 DEF Got
<1>5. Got(p, r) = Cardinality(Units(basket[p], L, r))
  BY DEF Got
<1>6. Got(p, r) \in Nat /\ Got(p, r)' \in Nat
  BY <1>1, <1>2, <1>4, <1>5, UnitsFinite
<1>7. CASE r \in Match[l]
  <2>1. Cardinality(Units(basket[p], L \cup {l}, r))
          = Cardinality(Units(basket[p], L, r)) + basket[p][l]
    BY <1>1, <1>2, <1>7, UnitsAddLine
  <2> QED
    BY <2>1, <1>1, <1>4, <1>5, <1>6, <1>7
<1>8. CASE r \notin Match[l]
  <2>1. Units(basket[p], L \cup {l}, r) = Units(basket[p], L, r)
    BY <1>1, <1>2, <1>8, UnitsSkipLine
  <2> QED
    BY <2>1, <1>1, <1>4, <1>5, <1>6, <1>8
<1> QED
  BY <1>1, <1>6, <1>7, <1>8

\* A request that another one's step leaves alone has got what it had.
LEMMA GotSame ==
  ASSUME NEW x, NEW r, basket'[x] = basket[x], todo'[x] = todo[x]
  PROVE  Got(x, r)' = Got(x, r)
BY DEF Got

\* Steps that touch neither rows nor orders, by a request that holds no row.
LEMMA FrameAccounts ==
  ASSUME TypeOK, Accounts, NEW p \in Requests,
         book' = book, stock' = stock, entered' = entered, dirty' = dirty, lock' = lock,
         \A x \in Requests \ {p} : /\ pc'[x] = pc[x] /\ job'[x] = job[x]
                                   /\ basket'[x] = basket[x] /\ todo'[x] = todo[x],
         \A r \in Rows : lock[r] # p,
         pc'[p] \in {"reserve", "release"} => \A r \in Rows : Got(p, r)' = 0,
         pc'[p] \notin {"pick", "save", "insert", "items"}
  PROVE  Accounts'
<1>1. OnlyLocked'
  BY DEF Accounts, OnlyLocked
<1>2. UnlockedRowsClean' /\ LocksBelong'
  BY DEF Accounts, TransactionsAccount, UnlockedRowsClean, LocksBelong, TypeOK, Requests
<1>3. \A x \in Requests \ {p}, r \in Rows : Got(x, r)' = Got(x, r)
  BY GotSame
<1>4. CheckoutAccounts'
  BY <1>3 DEF Accounts, TransactionsAccount, CheckoutAccounts
<1>5. CancelAccounts'
  BY <1>3 DEF Accounts, TransactionsAccount, CancelAccounts
<1>6. ReservedIsOwed' /\ StockConserved'
  BY DEF Accounts, ReservedIsOwed, StockConserved, Owed, OwedUnits, Live
<1> QED
  BY <1>1, <1>2, <1>4, <1>5, <1>6 DEF Accounts, TransactionsAccount

\* A request outside its reserve and release loops holds no row.
LEMMA HoldsNoRow ==
  ASSUME Accounts, NEW p \in Requests, NEW r \in Rows, lock[r] = p,
         None \notin OrderIds
  PROVE  pc[p] = "reserve" \/ (pc[p] = "release" /\ job[p].to = "CANCELLED")
BY DEF Accounts, TransactionsAccount, LocksBelong, Requests

\* One iteration of a reserve or release loop: p's own account moves by the
\* line's quantity on the row it takes, and nobody else's moves.
LEMMA LoopAccounts ==
  ASSUME TypeOK, Accounts, UniqueMatch, NEW p \in Requests, NEW l \in Lines, l \in todo[p],
         todo' = [todo EXCEPT ![p] = @ \ {l}],
         book' = book, stock' = stock, entered' = entered, pc' = pc, job' = job,
         basket' = basket, NEW sign \in {1, -1},
         \/ pc[p] = "reserve" /\ sign = 1
         \/ pc[p] = "release" /\ job[p].to = "CANCELLED" /\ sign = -1,
         \/ Match[l] = {} /\ lock' = lock /\ dirty' = dirty
         \/ \E r \in Match[l] :
              /\ lock[r] \in {None, p}
              /\ lock' = [lock EXCEPT ![r] = p]
              /\ dirty' = [dirty EXCEPT ![r] =
                   [available |-> @.available - sign * basket[p][l],
                    reserved |-> @.reserved + sign * basket[p][l]]]
  PROVE  Accounts'
<1> USE DEF Requests
<1>1. OnlyLocked' /\ ReservedIsOwed' /\ StockConserved'
  BY DEF Accounts, OnlyLocked, ReservedIsOwed, StockConserved, Owed, OwedUnits, Live
<1>2. ASSUME NEW x \in Requests \ {p}, NEW r \in Rows
      PROVE  /\ Got(x, r)' = Got(x, r)
             /\ lock'[r] = x <=> lock[r] = x
             /\ lock[r] = x => dirty'[r] = dirty[r]
  <2>1. todo'[x] = todo[x] /\ basket'[x] = basket[x]
    BY DEF TypeOK
  <2> QED
    BY <2>1, <1>2, GotSame, StoreAssumption DEF TypeOK
<1>3. ASSUME NEW r \in Rows
      PROVE  /\ lock'[r] = None => lock[r] = None /\ dirty'[r] = dirty[r]
             /\ lock'[r] # None => lock'[r] = lock[r] \/ lock'[r] = p
  BY StoreAssumption DEF TypeOK
<1>4. UnlockedRowsClean' /\ LocksBelong'
  BY <1>3 DEF Accounts, TransactionsAccount, UnlockedRowsClean, LocksBelong
<1>5. ASSUME NEW r \in Rows
      PROVE  IF lock'[r] = p
             THEN /\ dirty'[r].available = stock[r].available - sign * Got(p, r)'
                  /\ dirty'[r].reserved = stock[r].reserved + sign * Got(p, r)'
             ELSE Got(p, r)' = 0
  <2> DEFINE got == Got(p, r)
             gotNow == Got(p, r)'
             q == basket[p][l]
  <2>1. /\ got \in Nat /\ q \in Nat
        /\ gotNow = IF r \in Match[l] THEN got + q ELSE got
    BY GotLine
  <2>2. IF lock[r] = p
        THEN /\ dirty[r].available = stock[r].available - sign * got
             /\ dirty[r].reserved = stock[r].reserved + sign * got
        ELSE got = 0
    <3>1. CASE pc[p] = "reserve"
      BY <3>1, <2>1, RowType DEF Accounts, TransactionsAccount, CheckoutAccounts
    <3>2. CASE pc[p] = "release"
      BY <3>2, <2>1, RowType DEF Accounts, TransactionsAccount, CancelAccounts
    <3> QED
      BY <3>1, <3>2
  <2>3. CASE r \in Match[l]
    <3>1. /\ lock'[r] = p /\ lock[r] \in {None, p}
          /\ dirty'[r].available = dirty[r].available - sign * q
          /\ dirty'[r].reserved = dirty[r].reserved + sign * q
      BY <2>3 DEF UniqueMatch, TypeOK
    <3>2. /\ dirty[r].available = stock[r].available - sign * got
          /\ dirty[r].reserved = stock[r].reserved + sign * got
      <4>1. CASE lock[r] = p
        BY <4>1, <2>2
      <4>2. CASE lock[r] # p
        <5>1. got = 0 /\ dirty[r] = stock[r]
          BY <4>2, <3>1, <2>2 DEF Accounts, TransactionsAccount, UnlockedRowsClean
        <5> QED
          BY <5>1, RowType
      <4> QED
        BY <4>1, <4>2
    <3>3. gotNow = got + q
      BY <2>1, <2>3
    <3> HIDE DEF got, gotNow, q
    <3>4. /\ stock[r].available \in Nat /\ stock[r].reserved \in Nat
      BY RowType
    <3>5. /\ stock[r].available - sign * got - sign * q = stock[r].available - sign * (got + q)
          /\ stock[r].reserved + sign * got + sign * q = stock[r].reserved + sign * (got + q)
      BY <3>4, <2>1
    <3>6. /\ dirty'[r].available = stock[r].available - sign * gotNow
          /\ dirty'[r].reserved = stock[r].reserved + sign * gotNow
      BY <3>1, <3>2, <3>3, <3>5
    <3> QED
      BY <3>1, <3>6 DEF gotNow
  <2>4. CASE r \notin Match[l]
    <3>1. lock'[r] = lock[r] /\ dirty'[r] = dirty[r]
      BY <2>4 DEF TypeOK
    <3> QED
      BY <3>1, <2>1, <2>2, <2>4
  <2> QED
    BY <2>3, <2>4
<1>6. CheckoutAccounts'
  <2>1. ASSUME pc[p] = "reserve", NEW r \in Rows
        PROVE  IF lock'[r] = p
               THEN /\ dirty'[r].available = stock'[r].available - Got(p, r)'
                    /\ dirty'[r].reserved = stock'[r].reserved + Got(p, r)'
               ELSE Got(p, r)' = 0
    <3> DEFINE gotNow == Got(p, r)'
    <3>1. \A n \in Nat : sign * n = n
      BY <2>1
    <3>2. gotNow \in Nat /\ sign * gotNow = gotNow
      BY <3>1, GotLine
    <3>3. stock'[r].available \in Nat /\ stock'[r].reserved \in Nat /\ stock'[r] = stock[r]
      BY RowType
    <3>4. IF lock'[r] = p
          THEN /\ dirty'[r].available = stock[r].available - sign * gotNow
               /\ dirty'[r].reserved = stock[r].reserved + sign * gotNow
          ELSE gotNow = 0
      BY <1>5
    <3> HIDE DEF gotNow
    <3>5. IF lock'[r] = p
          THEN /\ dirty'[r].available = stock'[r].available - gotNow
               /\ dirty'[r].reserved = stock'[r].reserved + gotNow
          ELSE gotNow = 0
      BY <3>2, <3>3, <3>4
    <3> QED
      BY <3>5 DEF gotNow
  <2> QED
    BY <2>1, <1>2 DEF Accounts, TransactionsAccount, CheckoutAccounts
<1>7. CancelAccounts'
  <2>1. ASSUME pc[p] = "release", NEW r \in Rows
        PROVE  IF lock'[r] = p
               THEN /\ dirty'[r].available = stock'[r].available + Got(p, r)'
                    /\ dirty'[r].reserved = stock'[r].reserved - Got(p, r)'
               ELSE Got(p, r)' = 0
    <3> DEFINE gotNow == Got(p, r)'
    <3>1. \A n \in Nat : sign * n = -n
      BY <2>1
    <3>2. gotNow \in Nat /\ sign * gotNow = -gotNow
      BY <3>1, GotLine
    <3>3. stock'[r].available \in Nat /\ stock'[r].reserved \in Nat /\ stock'[r] = stock[r]
      BY RowType
    <3>4. IF lock'[r] = p
          THEN /\ dirty'[r].available = stock[r].available - sign * gotNow
               /\ dirty'[r].reserved = stock[r].reserved + sign * gotNow
          ELSE gotNow = 0
      BY <1>5
    <3> HIDE DEF gotNow
    <3>5. IF lock'[r] = p
          THEN /\ dirty'[r].available = stock'[r].available + gotNow
               /\ dirty'[r].reserved = stock'[r].reserved - gotNow
          ELSE gotNow = 0
      BY <3>2, <3>3, <3>4
    <3> QED
      BY <3>5 DEF gotNow
  <2> QED
    BY <2>1, <1>2 DEF Accounts, TransactionsAccount, CancelAccounts
<1> QED
  BY <1>1, <1>4, <1>6, <1>7 DEF Accounts, TransactionsAccount

\* Where only the locked endpoints are in use, all the rows are there.
LEMMA AllFound ==
  ASSUME Accounts, NEW l \in Lines
  PROVE  Found(l) = Match[l]
BY StoreAssumption DEF Accounts, OnlyLocked, Found

\* reserveWithLock and releaseWithLock are such iterations; the release never
\* has to stop the reserved count at zero.
LEMMA ReserveAccounts ==
  ASSUME TypeOK, Accounts, UniqueMatch, NEW p \in Requests, NEW l \in Lines,
         ReserveLine(p, l)
  PROVE  Accounts'
<1>1. \A n \in Nat : 1 * n = n
  OBVIOUS
<1>2. basket[p][l] \in Nat /\ 1 * basket[p][l] = basket[p][l]
  BY <1>1, StoreAssumption DEF TypeOK, Baskets
<1>3. \/ Match[l] = {} /\ lock' = lock /\ dirty' = dirty
      \/ \E r \in Match[l] :
           /\ lock[r] \in {None, p}
           /\ lock' = [lock EXCEPT ![r] = p]
           /\ dirty' = [dirty EXCEPT ![r] =
                [available |-> @.available - 1 * basket[p][l],
                 reserved |-> @.reserved + 1 * basket[p][l]]]
  BY <1>2, AllFound DEF ReserveLine, MineFree
<1>4. /\ pc[p] = "reserve" /\ l \in todo[p] /\ todo' = [todo EXCEPT ![p] = @ \ {l}]
      /\ book' = book /\ stock' = stock /\ entered' = entered
      /\ pc' = pc /\ job' = job /\ basket' = basket
  BY DEF ReserveLine, tables
<1> QED
  BY <1>3, <1>4, LoopAccounts

LEMMA ReleaseAccounts ==
  ASSUME OrderInv, Accounts, UniqueMatch, NEW p \in Requests, NEW l \in Lines,
         ReleaseLine(p, l)
  PROVE  Accounts'
<1> USE DEF OrderInv
<1> DEFINE o == job[p].on
           q == basket[p][l]
<1>1. /\ pc[p] = "release" /\ l \in todo[p] /\ todo' = [todo EXCEPT ![p] = @ \ {l}]
      /\ book' = book /\ stock' = stock /\ entered' = entered
      /\ pc' = pc /\ job' = job /\ basket' = basket
  BY DEF ReleaseLine, tables
<1>2. /\ o \in OrderIds /\ Live(book, o) /\ basket[p] = book[o].items
      /\ job[p].to = "CANCELLED"
  <2>1. /\ o \in OrderIds /\ book[o].status \in Statuses /\ job[p].to \in Statuses
        /\ job[p].to \in Transitions[book[o].status]
    BY <1>1 DEF JobsInOrder, JobInOrder, UpdateIsSerial, HoldsItsOrder
  <2>2. job[p].to = "CANCELLED" /\ basket[p] = book[o].items
    BY <1>1 DEF UpdateIsSerial, HoldsItsOrder
  <2> QED
    BY <2>1, <2>2, TransitionsType DEF Live, Statuses
<1>3. q \in Nat
  BY StoreAssumption DEF TypeOK, Baskets
<1>4. ASSUME NEW r \in Match[l], lock[r] \in {None, p}
      PROVE  Floor0(dirty[r].reserved - q) = dirty[r].reserved - q
  <2>1. r \in Rows
    BY StoreAssumption
  <2>2. /\ Got(p, r) \in Nat /\ Got(p, r)' = Got(p, r) + q
        /\ Got(p, r)' = Cardinality(Units(basket[p], Lines \ todo'[p], r))
    BY <1>1, <1>4, <2>1, GotLine DEF Got
  <2>3. Got(p, r)' <= Owed(book, r)
    BY <1>2, <2>2, OwedCovers DEF TypeOK, Books
  <2>4. stock[r].reserved = Owed(book, r) /\ stock[r].reserved \in Nat
    BY <2>1, RowType DEF Accounts, ReservedIsOwed
  <2>5. dirty[r].reserved = stock[r].reserved - Got(p, r)
    <3>1. CASE lock[r] = p
      BY <1>1, <1>2, <2>1, <3>1 DEF Accounts, TransactionsAccount, CancelAccounts
    <3>2. CASE lock[r] # p
      <4>1. dirty[r] = stock[r] /\ Got(p, r) = 0
        BY <1>1, <1>2, <1>4, <2>1, <3>2
        DEF Accounts, TransactionsAccount, CancelAccounts, UnlockedRowsClean
      <4> QED
        BY <4>1, <2>4
    <3> QED
      BY <3>1, <3>2
  <2>6. ~(dirty[r].reserved - q < 0)
    BY <1>3, <2>2, <2>3, <2>4, <2>5, OwedFinite DEF TypeOK, Books
  <2> QED
    BY <2>6 DEF Floor0
<1>5. \/ Match[l] = {} /\ lock' = lock /\ dirty' = dirty
      \/ \E r \in Match[l] :
           /\ lock[r] \in {None, p}
           /\ lock' = [lock EXCEPT ![r] = p]
           /\ dirty' = [dirty EXCEPT ![r] =
                [available |-> @.available - (-1) * basket[p][l],
                 reserved |-> @.reserved + (-1) * basket[p][l]]]
  <2>1. CASE Match[l] = {} /\ UNCHANGED <<lock, dirty>>
    BY <2>1
  <2>2. ASSUME NEW r \in Match[l], lock[r] \in {None, p},
               dirty' = [dirty EXCEPT ![r] =
                  [available |-> @.available + q, reserved |-> Floor0(@.reserved - q)]]
        PROVE  dirty' = [dirty EXCEPT ![r] =
                  [available |-> @.available - (-1) * q, reserved |-> @.reserved + (-1) * q]]
    <3>1. r \in Rows
      BY StoreAssumption
    <3>2. dirty[r].available + q = dirty[r].available - (-1) * q
      BY <1>3, <3>1, RowType
    <3>3. Floor0(dirty[r].reserved - q) = dirty[r].reserved + (-1) * q
      BY <1>3, <1>4, <2>2, <3>1, RowType
    <3> QED
      BY <2>2, <3>2, <3>3
  <2> QED
    BY <2>1, <2>2, AllFound DEF ReleaseLine, MineFree
<1> QED
  BY <1>1, <1>2, <1>5, LoopAccounts

\* An update that cancels nothing locks its order: it will touch no row.
LEMMA AdvanceAccounts ==
  ASSUME TypeOK, Accounts, NEW p \in Requests, LockOrder(p), job[p].to # "CANCELLED",
         \A r \in Rows : lock[r] # p
  PROVE  Accounts'
<1> USE DEF Requests
<1>1. /\ book' = book /\ stock' = stock /\ entered' = entered
      /\ dirty' = dirty /\ lock' = lock /\ job' = job
      /\ \A x \in Requests : pc'[x] = IF x = p THEN "release" ELSE pc[x]
      /\ \A x \in Requests \ {p} : basket'[x] = basket[x] /\ todo'[x] = todo[x]
  BY DEF LockOrder, Goto, tables, TypeOK
<1>2. \A x \in Requests \ {p}, r \in Rows : Got(x, r)' = Got(x, r)
  BY <1>1, GotSame
<1>3. OnlyLocked' /\ ReservedIsOwed' /\ StockConserved'
  BY <1>1 DEF Accounts, OnlyLocked, ReservedIsOwed, StockConserved, Owed, OwedUnits, Live
<1>4. UnlockedRowsClean' /\ LocksBelong'
  BY <1>1 DEF Accounts, TransactionsAccount, UnlockedRowsClean, LocksBelong, TypeOK
<1>5. CheckoutAccounts'
  BY <1>1, <1>2 DEF Accounts, TransactionsAccount, CheckoutAccounts
<1>6. CancelAccounts'
  BY <1>1, <1>2 DEF Accounts, TransactionsAccount, CancelAccounts
<1> QED
  BY <1>3, <1>4, <1>5, <1>6 DEF Accounts, TransactionsAccount

\* ROLLBACK gives every row p wrote its committed content back.
LEMMA RollbackAccounts ==
  ASSUME TypeOK, Accounts, NEW p \in Requests, Rollback(p)
  PROVE  Accounts'
<1> USE DEF Requests
<1>1. OnlyLocked' /\ ReservedIsOwed' /\ StockConserved'
  BY DEF Accounts, OnlyLocked, ReservedIsOwed, StockConserved, Owed, OwedUnits, Live,
         Rollback, Goto, tables, TypeOK
<1>2. /\ \A x \in Requests : pc'[x] = IF x = p THEN "failed" ELSE pc[x]
      /\ stock' = stock /\ \A x \in Requests \ {p} : job'[x] = job[x]
      /\ \A x \in Requests \ {p}, r \in Rows : Got(x, r)' = Got(x, r)
  BY GotSame DEF Rollback, Forget, Goto, tables, TypeOK
<1>3. \A r \in Rows : /\ lock'[r] = IF lock[r] = p THEN None ELSE lock[r]
                      /\ dirty'[r] = IF lock[r] = p THEN stock[r] ELSE dirty[r]
  BY DEF Rollback
<1>4. UnlockedRowsClean' /\ LocksBelong'
  BY <1>2, <1>3, StoreAssumption
  DEF Accounts, TransactionsAccount, UnlockedRowsClean, LocksBelong, TypeOK
<1>5. CheckoutAccounts'
  BY <1>2, <1>3, StoreAssumption DEF Accounts, TransactionsAccount, CheckoutAccounts
<1>6. CancelAccounts'
  BY <1>2, <1>3, StoreAssumption DEF Accounts, TransactionsAccount, CancelAccounts
<1> QED
  BY <1>1, <1>4, <1>5, <1>6 DEF Accounts, TransactionsAccount

\* COMMIT by p: published rows are clean, and every other account stands.
LEMMA PublishAccounts ==
  ASSUME TypeOK, Accounts, NEW p \in Requests, PublishRows(p), dirty' = dirty,
         entered' = entered, pc'[p] \in {"reload", "done"},
         \A x \in Requests \ {p} : /\ pc'[x] = pc[x] /\ job'[x] = job[x]
                                   /\ basket'[x] = basket[x] /\ todo'[x] = todo[x]
  PROVE  OnlyLocked' /\ TransactionsAccount'
<1> USE DEF Requests
<1>1. \A x \in Requests \ {p}, r \in Rows : Got(x, r)' = Got(x, r)
  BY GotSame
<1>2. \A r \in Rows : /\ lock'[r] = IF lock[r] = p THEN None ELSE lock[r]
                      /\ stock'[r] = IF lock[r] = p THEN dirty[r] ELSE stock[r]
  BY DEF PublishRows
<1>3. OnlyLocked'
  BY DEF Accounts, OnlyLocked
<1>4. UnlockedRowsClean' /\ LocksBelong'
  BY <1>2, StoreAssumption
  DEF Accounts, TransactionsAccount, UnlockedRowsClean, LocksBelong, TypeOK
<1>5. CheckoutAccounts'
  BY <1>1, <1>2, StoreAssumption DEF Accounts, TransactionsAccount, CheckoutAccounts
<1>6. CancelAccounts'
  BY <1>1, <1>2, StoreAssumption DEF Accounts, TransactionsAccount, CancelAccounts
<1> QED
  BY <1>3, <1>4, <1>5, <1>6 DEF TransactionsAccount

\* What a commit publishes: the rows of the whole basket, moved by its demand.
LEMMA CheckoutPublishes ==
  ASSUME OrderInv, Accounts, NEW p \in Requests, CommitCheckout(p), NEW r \in Rows
  PROVE  /\ Demand(basket[p], r) \in Nat
         /\ stock'[r].available = stock[r].available - Demand(basket[p], r)
         /\ stock'[r].reserved = stock[r].reserved + Demand(basket[p], r)
<1> USE DEF OrderInv
<1>1. Got(p, r) = Demand(basket[p], r)
  BY AllGot DEF CommitCheckout
<1>2. Demand(basket[p], r) \in Nat
  BY UnitsFinite DEF Demand, TypeOK
<1>3. stock'[r] = IF lock[r] = p THEN dirty[r] ELSE stock[r]
  BY DEF CommitCheckout, PublishRows
<1>4. CASE lock[r] = p
  BY <1>1, <1>2, <1>3, <1>4 DEF CommitCheckout, Accounts, TransactionsAccount,
       CheckoutAccounts
<1>5. CASE lock[r] # p
  <2>1. Got(p, r) = 0
    BY <1>5 DEF CommitCheckout, Accounts, TransactionsAccount, CheckoutAccounts
  <2> QED
    BY <1>1, <1>3, <1>5, <2>1, RowType
<1> QED
  BY <1>2, <1>4, <1>5

LEMMA CancelPublishes ==
  ASSUME OrderInv, Accounts, NEW p \in Requests, CommitUpdate(p), NEW r \in Rows,
         job[p].to = "CANCELLED"
  PROVE  /\ Demand(basket[p], r) \in Nat
         /\ stock'[r].available = stock[r].available + Demand(basket[p], r)
         /\ stock'[r].reserved = stock[r].reserved - Demand(basket[p], r)
<1> USE DEF OrderInv
<1>1. Got(p, r) = Demand(basket[p], r)
  BY AllGot DEF CommitUpdate
<1>2. Demand(basket[p], r) \in Nat
  BY UnitsFinite DEF Demand, TypeOK
<1>3. stock'[r] = IF lock[r] = p THEN dirty[r] ELSE stock[r]
  BY DEF CommitUpdate, PublishRows
<1>4. CASE lock[r] = p
  BY <1>1, <1>2, <1>3, <1>4 DEF CommitUpdate, Accounts, TransactionsAccount, CancelAccounts
<1>5. CASE lock[r] # p
  <2>1. Got(p, r) = 0
    BY <1>5 DEF CommitUpdate, Accounts, TransactionsAccount, CancelAccounts
  <2> QED
    BY <1>1, <1>3, <1>5, <2>1, RowType
<1> QED
  BY <1>2, <1>4, <1>5

\* An update that cancels nothing publishes no row.
LEMMA AdvancePublishes ==
  ASSUME OrderInv, Accounts, NEW p \in Requests, CommitUpdate(p),
         job[p].to # "CANCELLED"
  PROVE  \A r \in Rows : stock'[r] = stock[r]
<1>1. \A r \in Rows : lock[r] # p
  BY HoldsNoRow, StoreAssumption DEF CommitUpdate
<1> QED
  BY <1>1 DEF CommitUpdate, PublishRows

\* An update that commits has its order, in a status that allows the change.
LEMMA UpdateHasOrder ==
  ASSUME OrderInv, NEW p \in Requests, pc[p] = "release"
  PROVE  /\ job[p].on \in OrderIds /\ job[p].to \in Statuses /\ Live(book, job[p].on)
         /\ job[p].to \in Transitions[book[job[p].on].status]
         /\ job[p].to = "CANCELLED" => basket[p] = book[job[p].on].items
<1>1. /\ job[p].on \in OrderIds /\ book[job[p].on].status \in Statuses
      /\ job[p].to \in Statuses /\ job[p].to \in Transitions[book[job[p].on].status]
      /\ job[p].to = "CANCELLED" => basket[p] = book[job[p].on].items
  BY DEF OrderInv, JobsInOrder, JobInOrder, UpdateIsSerial, HoldsItsOrder
<1>2. Transitions["CANCELLED"] = {}
  BY DEF Transitions, Statuses
<1> QED
  BY <1>1, <1>2 DEF Live, Statuses

LEMMA CommitCheckoutAccounts ==
  ASSUME OrderInv, Accounts, NEW p \in Requests, CommitCheckout(p)
  PROVE  Accounts'
<1> USE DEF OrderInv
<1>1. OnlyLocked' /\ TransactionsAccount'
  BY PublishAccounts DEF CommitCheckout, Goto, TypeOK
<1>2. ASSUME NEW r \in Rows
      PROVE  stock'[r].reserved = Owed(book', r)
             /\ stock'[r].available + stock'[r].reserved = Stock[r]
  <2>1. Owed(book', r) = Owed(book, r) + Demand(basket[p], r)
    <3>1. book[p] = NoOrder /\ basket[p] \in Baskets /\ book \in Books /\ p \in OrderIds
      BY DEF CommitCheckout, JobsInOrder, JobInOrder, TypeOK, Books, Requests
    <3> DEFINE placed == [status |-> "PENDING", customer |-> job[p].who, items |-> basket[p]]
    <3>2. Owed([book EXCEPT ![p] = placed], r) = Owed(book, r) + Demand(basket[p], r)
      BY <3>1, OwedPlace
    <3>3. book' = [book EXCEPT ![p] = placed]
      BY DEF CommitCheckout
    <3> QED
      BY <3>2, <3>3
  <2>2. stock[r].reserved = Owed(book, r) /\ stock[r].available + stock[r].reserved = Stock[r]
    BY DEF Accounts, ReservedIsOwed, StockConserved
  <2> QED
    BY <2>1, <2>2, CheckoutPublishes, RowType
<1> QED
  BY <1>1, <1>2 DEF Accounts, ReservedIsOwed, StockConserved

LEMMA CommitUpdateAccounts ==
  ASSUME OrderInv, Accounts, NEW p \in Requests, CommitUpdate(p)
  PROVE  Accounts'
<1> USE DEF OrderInv
<1> DEFINE o == job[p].on
<1>1. OnlyLocked' /\ TransactionsAccount'
  BY PublishAccounts DEF CommitUpdate, Forget, Goto, TypeOK
<1>2. /\ o \in OrderIds /\ job[p].to \in Statuses /\ Live(book, o) /\ book \in Books
      /\ job[p].to = "CANCELLED" => basket[p] = book[o].items
  BY UpdateHasOrder DEF CommitUpdate, TypeOK, Books
<1>3. book' = [book EXCEPT ![o].status = job[p].to]
  BY DEF CommitUpdate
<1>4. ASSUME NEW r \in Rows
      PROVE  stock'[r].reserved = Owed(book', r)
             /\ stock'[r].available + stock'[r].reserved = Stock[r]
  <2>1. stock[r].reserved = Owed(book, r) /\ stock[r].available + stock[r].reserved = Stock[r]
    BY DEF Accounts, ReservedIsOwed, StockConserved
  <2>2. CASE job[p].to = "CANCELLED"
    <3>1. book' = [book EXCEPT ![o].status = "CANCELLED"] /\ basket[p] = book[o].items
      BY <1>2, <1>3, <2>2
    <3>2. Owed([book EXCEPT ![o].status = "CANCELLED"], r)
            = Owed(book, r) - Demand(book[o].items, r)
      <4> HIDE DEF o
      <4> QED
        BY <1>2, OwedCancel
    <3>3. Owed(book', r) = Owed(book, r) - Demand(basket[p], r)
      BY <3>1, <3>2
    <3> QED
      BY <2>1, <2>2, <3>3, CancelPublishes, RowType
  <2>3. CASE job[p].to # "CANCELLED"
    <3>1. Owed([book EXCEPT ![o].status = job[p].to], r) = Owed(book, r)
      <4> HIDE DEF o
      <4> QED
        BY <1>2, <2>3, OwedAdvance
    <3>3. Owed(book', r) = Owed(book, r)
      BY <1>3, <3>1
    <3>2. stock'[r] = stock[r]
      BY <2>3, AdvancePublishes
    <3> QED
      BY <2>1, <3>2, <3>3
  <2> QED
    BY <2>2, <2>3
<1> QED
  BY <1>1, <1>4 DEF Accounts, ReservedIsOwed, StockConserved

-----------------------------------------------------------------------------
\* A step of the locked endpoints keeps stock and orders in agreement.
LEMMA AccountsStep ==
  ASSUME OrderInv, Accounts, UniqueMatch, LockedOnly, [Next]_vars
  PROVE  Accounts'
<1> USE DEF OrderInv
<1>1. \A p \in Requests, r \in Rows :
        pc[p] \notin {"reserve", "release"} => lock[r] # p
  BY HoldsNoRow, StoreAssumption
<1>2. ASSUME NEW p \in Requests, Arrive(p)
      PROVE  Accounts'
  <2>1. ASSUME NEW c \in Customers, StartCheckout(p, c)
        PROVE  Accounts'
    BY <1>1, <2>1, FrameAccounts DEF StartCheckout, Goto, tables, locks, TypeOK
  <2>2. ASSUME NEW who \in Customers \cup {Admin}, NEW o \in OrderIds,
               NEW s \in Statuses, StartUpdate(p, who, o, s)
        PROVE  Accounts'
    BY <1>1, <2>2, FrameAccounts DEF StartUpdate, Goto, tables, locks, TypeOK
  <2> QED
    BY <1>2, <2>1, <2>2
    DEF Arrive, StartCreate, StartReserve, StartUpsert, LockedOnly, LockedEndpoints
<1>3. ASSUME NEW p \in Requests, BeginCheckout(p)
      PROVE  Accounts'
  <2>1. basket'[p] = basket[p] /\ basket[p] \in Baskets /\ todo'[p] = LinesOf(basket[p])
    BY <1>3 DEF BeginCheckout, TypeOK
  <2>2. \A r \in Rows : Got(p, r)' = 0
    BY <2>1, NothingGot DEF Got
  <2> QED
    BY <1>1, <1>3, <2>2, FrameAccounts DEF BeginCheckout, Goto, tables, locks, TypeOK
<1>4. ASSUME NEW p \in Requests, LockOrder(p), job[p].to = "CANCELLED"
      PROVE  Accounts'
  <2>1. /\ basket'[p] = book[job[p].on].items /\ basket'[p] \in Baskets
        /\ todo'[p] = LinesOf(basket'[p])
    BY <1>4 DEF LockOrder, JobsInOrder, JobInOrder, TypeOK, Orders
  <2>2. \A r \in Rows : Got(p, r)' = 0
    BY <2>1, NothingGot DEF Got
  <2> QED
    BY <1>1, <1>4, <2>2, FrameAccounts DEF LockOrder, Goto, tables, TypeOK
<1>5. ASSUME NEW p \in Requests, LockOrder(p), job[p].to # "CANCELLED"
      PROVE  Accounts'
  <2>1. \A r \in Rows : lock[r] # p
    BY <1>1, <1>5 DEF LockOrder
  <2> QED
    BY <1>5, <2>1, AdvanceAccounts
<1>6. ASSUME NEW p \in Requests, Reload(p)
      PROVE  Accounts'
  BY <1>1, <1>6, FrameAccounts DEF Reload, Forget, Goto, tables, locks, TypeOK
<1>7. ASSUME NEW p \in Requests, Rollback(p)
      PROVE  Accounts'
  BY <1>7, RollbackAccounts
<1>8. ASSUME NEW p \in Requests, NEW l \in Lines, ReserveLine(p, l) \/ ReleaseLine(p, l)
      PROVE  Accounts'
  BY <1>8, ReserveAccounts, ReleaseAccounts
<1>9. ASSUME NEW p \in Requests, CommitCheckout(p) \/ CommitUpdate(p)
      PROVE  Accounts'
  BY <1>9, CommitCheckoutAccounts, CommitUpdateAccounts
<1>10. ASSUME NEW p \in Requests,
              \/ SaveRow(p) \/ InsertRow(p) \/ InsertOrder(p) \/ InsertItems(p)
              \/ \E l \in Lines : CreateRead(p, l)
       PROVE  FALSE
  BY <1>10 DEF SaveRow, InsertRow, InsertOrder, InsertItems, CreateRead, Accounts, OnlyLocked
<1>11. CASE /\ book' = book /\ stock' = stock /\ entered' = entered
            /\ UNCHANGED <<locks, pc, job, basket, todo>>
  <2>1. \A x, r : Got(x, r)' = Got(x, r)
    BY <1>11 DEF Got
  <2> QED
    BY <1>11, <2>1
    DEF Accounts, TransactionsAccount, OnlyLocked, ReservedIsOwed, StockConserved,
        UnlockedRowsClean, LocksBelong, CheckoutAccounts, CancelAccounts, locks,
        Owed, OwedUnits, Live
<1>12. ASSUME NEW p \in Requests, Step(p)
       PROVE  Accounts'
  <2>1. RereadCart(p) => Accounts'
    BY <1>11 DEF RereadCart, tables
  <2> QED
    BY <1>3, <1>4, <1>5, <1>6, <1>7, <1>8, <1>9, <1>10, <1>12, <2>1
    DEF Step, RefuseUpdate, OutOfStock, DeadlockAbort
<1>13. ASSUME NEW c \in Customers, NEW l \in Lines, NEW q \in 0..MaxQty, EditCart(c, l, q)
       PROVE  Accounts'
  BY <1>11, <1>13 DEF EditCart, locals
<1>14. CASE UNCHANGED vars
  BY <1>11, <1>14 DEF vars, locks, locals
<1> QED
  BY <1>2, <1>7, <1>12, <1>13, <1>14 DEF Next, Crash

LEMMA AccountsInit ==
  ASSUME LockedOnly, Init
  PROVE  Accounts
<1>1. OnlyLocked /\ TransactionsAccount
  BY DEF Init, LockedOnly, OnlyLocked, TransactionsAccount, UnlockedRowsClean, LocksBelong,
         CheckoutAccounts, CancelAccounts
<1>2. \A r \in Rows : Owed(book, r) = 0
  BY OwedNothing DEF Init
<1> QED
  BY <1>1, <1>2, StoreAssumption DEF Init, Accounts, ReservedIsOwed, StockConserved

\* With the locked endpoints only, and each line tracked by at most one row,
\* the inductive invariant holds: every transaction accounts for exactly the
\* rows it holds, and the committed tables agree.
THEOREM StockInOrder ==
  ASSUME UniqueMatch, LockedOnly
  PROVE  Spec => []LockedInv
<1>1. Init => Accounts
  BY AccountsInit
<1>2. OrderInv /\ Accounts /\ [Next]_vars => Accounts'
  BY AccountsStep
<1>3. OrderInv /\ Accounts => LockedInv
  BY DEF LockedInv, Accounts
<1> QED
  BY <1>1, <1>2, <1>3, OrdersInOrder, PTL DEF Spec

\* Between any two statements of the handlers every uncommitted row differs from
\* the committed one by what its transaction has handled (reserveWithLock and
\* releaseWithLock, and the rollbacks).
THEOREM TransactionsAreAccounted ==
  ASSUME UniqueMatch, LockedOnly
  PROVE  Spec => []TransactionsAccount
<1>1. LockedInv => TransactionsAccount
  BY DEF LockedInv
<1> QED
  BY <1>1, StockInOrder, PTL

\* Checkout, status updates and cancellations, whatever races, fails or
\* crashes, only move units between the two columns of a row.
THEOREM UnitsAreConserved ==
  ASSUME UniqueMatch, LockedOnly
  PROVE  Spec => []StockConserved
<1>1. LockedInv => StockConserved
  BY DEF LockedInv
<1> QED
  BY <1>1, StockInOrder, PTL

\* What a row has reserved is what live orders are owed: no lost reservation,
\* no double release.
THEOREM ReservationsAreOwed ==
  ASSUME UniqueMatch, LockedOnly
  PROVE  Spec => []ReservedIsOwed
<1>1. LockedInv => ReservedIsOwed
  BY DEF LockedInv
<1> QED
  BY <1>1, StockInOrder, PTL

\* Concurrent checkouts never sell a unit twice.
THEOREM NothingIsOversold ==
  ASSUME UniqueMatch, LockedOnly
  PROVE  Spec => []NoOversell
<1>1. LockedInv => NoOversell
  BY RowType DEF LockedInv, OrderInv, NoOversell, ReservedIsOwed, StockConserved
<1> QED
  BY <1>1, StockInOrder, PTL

-----------------------------------------------------------------------------
(* The service implements the abstract store.                                *)

\* A row's content is its two columns.
LEMMA SameLevel ==
  ASSUME NEW v \in StockLevels, NEW a, NEW n, v.available = a, v.reserved = n
  PROVE  v = [available |-> a, reserved |-> n]
BY DEF StockLevels

\* The abstract store speaks of the same data.
LEMMA SameData ==
  /\ Store!NoOrder = NoOrder /\ Store!Statuses = Statuses
  /\ Store!Transitions = Transitions /\ Store!Baskets = Baskets
  /\ \A b : Store!LinesOf(b) = LinesOf(b)
  /\ \A b, r : Store!Demand(b, r) = Demand(b, r)
<1>1. Store!NoOrder = NoOrder /\ Store!Baskets = Baskets /\ Store!Statuses = Statuses
  BY DEF Store!NoOrder, NoOrder, Store!EmptyBasket, EmptyBasket, Store!Baskets, Baskets,
         Store!Statuses, Statuses
<1>2. Store!Transitions = Transitions
  BY DEF Store!Transitions, Transitions, Store!Statuses, Statuses
<1>3. \A b : Store!LinesOf(b) = LinesOf(b)
  BY DEF Store!LinesOf, LinesOf
<1>4. \A b, r : Store!Demand(b, r) = Demand(b, r)
  <2>1. ASSUME NEW b, NEW r PROVE Store!Units(b, Lines, r) = Units(b, Lines, r)
    BY DEF Store!Units, Units
  <2> SUFFICES ASSUME NEW b, NEW r PROVE Store!Demand(b, r) = Demand(b, r)
    OBVIOUS
  <2>2. Store!Units(b, Lines, r) = Units(b, Lines, r)
    BY <2>1
  <2> QED
    BY <2>2 DEF Store!Demand, Demand, Store!Cardinality, Cardinality
<1> QED
  BY <1>1, <1>2, <1>3, <1>4

\* A checkout's commit places its order in one step.
LEMMA CheckoutIsPlace ==
  ASSUME OrderInv, OrderInv', Accounts, NEW p \in Requests, CommitCheckout(p)
  PROVE  Store!Place(p, job[p].who, basket[p])
<1> USE DEF OrderInv
<1>1. book[p] = NoOrder /\ LinesOf(basket[p]) # {}
  BY DEF CommitCheckout, JobsInOrder, JobInOrder
<1>2. ASSUME NEW r \in Rows
      PROVE  /\ Demand(basket[p], r) <= stock[r].available
             /\ stock'[r] = [available |-> stock[r].available - Demand(basket[p], r),
                             reserved |-> stock[r].reserved + Demand(basket[p], r)]
  <2>1. stock'[r] \in StockLevels /\ stock'[r].available \in Nat
    BY DEF TypeOK, StockLevels
  <2> QED
    BY <2>1, CheckoutPublishes, SameLevel, RowType
<1>3. stock' = [r \in Rows |-> [available |-> stock[r].available - Demand(basket[p], r),
                                reserved |-> stock[r].reserved + Demand(basket[p], r)]]
  BY <1>2 DEF TypeOK
<1> QED
  BY <1>1, <1>2, <1>3, SameData DEF CommitCheckout, Store!Place

\* An update's commit advances or cancels its order in one step.
LEMMA UpdateIsAdvanceOrCancel ==
  ASSUME OrderInv, OrderInv', Accounts, NEW p \in Requests, CommitUpdate(p)
  PROVE  \E o \in OrderIds : Store!Cancel(o) \/ \E s \in Statuses : Store!Advance(o, s)
<1> USE DEF OrderInv
<1> DEFINE o == job[p].on
<1>1. /\ o \in OrderIds /\ job[p].to \in Statuses /\ Live(book, o)
      /\ job[p].to \in Transitions[book[o].status]
      /\ job[p].to = "CANCELLED" => basket[p] = book[o].items
  BY UpdateHasOrder DEF CommitUpdate
<1>2. book[o] # NoOrder
  BY <1>1 DEF Live, NoOrder
<1>3. book' = [book EXCEPT ![o].status = job[p].to]
  BY DEF CommitUpdate
<1>4. CASE job[p].to = "CANCELLED"
  <2>1. ASSUME NEW r \in Rows
        PROVE  stock'[r] = [available |-> stock[r].available + Demand(book[o].items, r),
                            reserved |-> stock[r].reserved - Demand(book[o].items, r)]
    <3>1. stock'[r] \in StockLevels
      BY DEF TypeOK
    <3> QED
      BY <1>1, <1>4, <3>1, CancelPublishes, SameLevel
  <2>2. stock' = [r \in Rows |-> [available |-> stock[r].available + Demand(book[o].items, r),
                                  reserved |-> stock[r].reserved - Demand(book[o].items, r)]]
    BY <2>1 DEF TypeOK
  <2>3. Store!Cancel(o)
    BY <1>1, <1>2, <1>3, <1>4, <2>2, SameData DEF Store!Cancel
  <2> QED
    BY <1>1, <2>3
<1>5. CASE job[p].to # "CANCELLED"
  <2>1. stock' = stock
    BY <1>5, AdvancePublishes DEF TypeOK
  <2>2. Store!Advance(o, job[p].to)
    BY <1>1, <1>2, <1>3, <1>5, <2>1, SameData DEF Store!Advance
  <2> QED
    BY <1>1, <2>2
<1> QED
  BY <1>4, <1>5

\* Nothing else writes the committed tables.
LEMMA WhoWritesTables ==
  ASSUME OnlyLocked, LockedOnly, [Next]_vars
  PROVE  \/ book' = book /\ stock' = stock
         \/ \E p \in Requests : CommitCheckout(p) \/ CommitUpdate(p)
<1>1. ASSUME NEW p \in Requests, Arrive(p) PROVE book' = book /\ stock' = stock
  BY <1>1 DEF Arrive, StartCheckout, StartUpdate, StartCreate, StartReserve, StartUpsert,
       tables
<1>2. ASSUME NEW p \in Requests,
             \/ RefuseUpdate(p) \/ DeadlockAbort(p) \/ Crash(p)
             \/ \E l \in Lines : OutOfStock(p, l)
      PROVE  book' = book /\ stock' = stock
  BY <1>2 DEF RefuseUpdate, DeadlockAbort, Crash, OutOfStock, Rollback, tables
<1>3. ASSUME NEW p \in Requests,
             \/ BeginCheckout(p) \/ RereadCart(p) \/ Reload(p) \/ LockOrder(p)
             \/ \E l \in Lines : ReserveLine(p, l) \/ ReleaseLine(p, l)
      PROVE  book' = book /\ stock' = stock
  BY <1>3 DEF BeginCheckout, RereadCart, Reload, LockOrder, ReserveLine, ReleaseLine, tables
<1>4. ASSUME NEW p \in Requests,
             \/ SaveRow(p) \/ InsertRow(p) \/ InsertOrder(p) \/ InsertItems(p)
             \/ \E l \in Lines : CreateRead(p, l)
      PROVE  FALSE
  BY <1>4 DEF SaveRow, InsertRow, InsertOrder, InsertItems, CreateRead, OnlyLocked
<1>5. ASSUME NEW c \in Customers, NEW l \in Lines, NEW q \in 0..MaxQty, EditCart(c, l, q)
      PROVE  book' = book /\ stock' = stock
  BY <1>5 DEF EditCart
<1>6. CASE UNCHANGED vars
  BY <1>6 DEF vars
<1> QED
  BY <1>1, <1>2, <1>3, <1>4, <1>5, <1>6 DEF Next, Step

\* Locks, loops, retries and crashes are invisible: with the locked endpoints
\* only, the committed tables move as the abstract store moves, one whole order
\* or cancellation at a time.
THEOREM StoreIsImplemented ==
  ASSUME UniqueMatch, LockedOnly
  PROVE  Spec => RefinesStore
<1>1. Init => Store!Init
  BY SameData DEF Init, Store!Init
<1>2. LockedInv /\ LockedInv' /\ [Next]_vars => [Store!Next]_(Store!vars)
  <2> SUFFICES ASSUME LockedInv, LockedInv', [Next]_vars
               PROVE  [Store!Next]_(Store!vars)
    OBVIOUS
  <2> USE DEF LockedInv, Accounts
  <2>1. ASSUME NEW p \in Requests, CommitCheckout(p) PROVE Store!Next
    <3>1. p \in OrderIds /\ job[p].who \in Customers /\ basket[p] \in Baskets
      BY <2>1 DEF CommitCheckout, OrderInv, JobsInOrder, JobInOrder, TypeOK, Requests
    <3> QED
      BY <2>1, <3>1, CheckoutIsPlace, SameData DEF Store!Next
  <2>2. ASSUME NEW p \in Requests, CommitUpdate(p) PROVE Store!Next
    BY <2>2, UpdateIsAdvanceOrCancel, SameData DEF Store!Next
  <2>3. CASE book' = book /\ stock' = stock
    BY <2>3 DEF Store!vars
  <2> QED
    BY <2>1, <2>2, <2>3, WhoWritesTables
<1> QED
  BY <1>1, <1>2, StockInOrder, PTL DEF Spec, RefinesStore, Store!Spec

=============================================================================
