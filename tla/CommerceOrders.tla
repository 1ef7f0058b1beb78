--------------------------- MODULE CommerceOrders ---------------------------
(* The commerce service of one tenant under concurrent HTTP requests:        *)
(* checkout, order status updates, customer cancellation, direct order       *)
(* creation, and the inventory endpoints.  Each request runs the steps of    *)
(* its handler; a step is one statement whose effect another request can     *)
(* see.  Transactions are PostgreSQL READ COMMITTED: a statement reads       *)
(* committed rows, SELECT ... FOR UPDATE and UPDATE wait for the row's lock, *)
(* locks last until COMMIT or ROLLBACK.                                      *)
EXTENDS StoreData

CONSTANTS
  ProductMatch,  \* ProductMatch[l]: the rows WHERE productId = l's product returns
  Entered,       \* the rows there are before the first request
  PoolSize,      \* connections in the tenant's pool
  Endpoints      \* the endpoints in use, a subset of AllEndpoints

\* An order is named by the request that inserts it (a fresh uuid).
Requests == OrderIds
AllEndpoints == {"checkout", "status", "cancel", "create", "reserve", "upsert"}
LockedEndpoints == {"checkout", "status", "cancel"}

ASSUME CommerceAssumption ==
  /\ ProductMatch \in [Lines -> SUBSET Rows]
  /\ Entered \subseteq Rows
  /\ PoolSize \in Nat \ {0}
  /\ Endpoints \subseteq AllEndpoints

VARIABLES
  book,    \* book[o]: committed row of orders with its order_items
  stock,   \* stock[r]: committed row r of inventory_items
  entered, \* the rows of inventory_items there are
  cart,    \* cart[c]: committed cart of customer c
  dirty,   \* dirty[r]: row r as the transaction that holds its lock wrote it
  lock,    \* lock[r]: request whose transaction holds row r's lock, or None
  olock,   \* olock[o]: request whose transaction holds order o's row lock
  pc,      \* pc[p]: where request p is in its handler
  job,     \* job[p]: for whom request p acts, on which order, to which status
  basket,  \* basket[p]: the lines and quantities request p works on
  todo,    \* todo[p]: the lines of basket[p] its loop has not reached
  fresh,   \* fresh[p]: the lines a checkout removes from the cart, None before
  write    \* write[p]: the row an unlocked read-then-save is about to save
vars == <<book, stock, entered, cart, dirty, lock, olock, pc, job, basket, todo, fresh, write>>
tables == <<book, stock, entered, cart>>
locks == <<dirty, lock, olock>>
locals == <<job, basket, todo, fresh, write>>

Admin == "ADMIN"
Jobs == [who : Customers \cup {Admin, None}, on : OrderIds \cup {None},
         to : Statuses \cup {"ABSENT"}]
NoJob == [who |-> None, on |-> None, to |-> "ABSENT"]
Writes == [row : Rows \cup {None}, level : StockLevels]
NoWrite == [row |-> None, level |-> [available |-> 0, reserved |-> 0]]

InTx(p) == pc[p] \in {"reserve", "reload", "lockOrder", "release"}
Running(p) == pc[p] \notin {"idle", "done", "failed"}
FreeConnections == PoolSize - Cardinality({p \in Requests : InTx(p)})
Floor0(n) == IF n < 0 THEN 0 ELSE n
Quantities == 1..MaxQty
\* findOne by the product or variant of line l, among the rows there are.
Found(l) == Match[l] \cap entered

Init ==
  /\ book = [o \in OrderIds |-> NoOrder]
  /\ stock = [r \in Rows |-> [available |-> Stock[r], reserved |-> 0]]
  /\ entered = Entered
  /\ cart \in [Customers -> Baskets]
  /\ dirty = stock
  /\ lock = [r \in Rows |-> None]
  /\ olock = [o \in OrderIds |-> None]
  /\ pc = [p \in Requests |-> "idle"]
  /\ job = [p \in Requests |-> NoJob]
  /\ basket = [p \in Requests |-> EmptyBasket]
  /\ todo = [p \in Requests |-> {}]
  /\ fresh = [p \in Requests |-> None]
  /\ write = [p \in Requests |-> NoWrite]

Goto(p, label) == pc' = [pc EXCEPT ![p] = label]
\* The handler is over: its local variables go.
Forget(p) ==
  /\ job' = [job EXCEPT ![p] = NoJob]
  /\ basket' = [basket EXCEPT ![p] = EmptyBasket]
  /\ todo' = [todo EXCEPT ![p] = {}]
  /\ fresh' = [fresh EXCEPT ![p] = None]
  /\ write' = [write EXCEPT ![p] = NoWrite]

MineFree(p, r) == lock[r] \in {None, p}

\* COMMIT: what p wrote under its locks becomes visible and the locks go.
PublishRows(p) ==
  /\ stock' = [r \in Rows |-> IF lock[r] = p THEN dirty[r] ELSE stock[r]]
  /\ lock' = [r \in Rows |-> IF lock[r] = p THEN None ELSE lock[r]]
  /\ olock' = [o \in OrderIds |-> IF olock[o] = p THEN None ELSE olock[o]]

\* (mistake) ROLLBACK without giving the locks back.
RollbackKeepsLocks(p) ==
  /\ dirty' = [r \in Rows |-> IF lock[r] = p THEN stock[r] ELSE dirty[r]]
  /\ Goto(p, "failed")
  /\ UNCHANGED <<tables, lock, olock, locals>>

\* (mistake) no transaction around the handler: what it wrote so far stays.
RollbackPublishes(p) ==
  /\ PublishRows(p)
  /\ Goto(p, "failed")
  /\ UNCHANGED <<book, entered, cart, dirty, locals>>

\* ROLLBACK, by the handler's catch or by the database: nothing p wrote stays.
Rollback(p) ==
  /\ dirty' = [r \in Rows |-> IF lock[r] = p THEN stock[r] ELSE dirty[r]]
  /\ lock' = [r \in Rows |-> IF lock[r] = p THEN None ELSE lock[r]]
  /\ olock' = [o \in OrderIds |-> IF olock[o] = p THEN None ELSE olock[o]]
  /\ Forget(p)
  /\ Goto(p, "failed")
  /\ UNCHANGED tables
-----------------------------------------------------------------------------
(* CheckoutService.completeCheckout *)

\* getCart, before the transaction; an empty cart is refused.
StartCheckout(p, c) ==
  /\ "checkout" \in Endpoints /\ pc[p] = "idle"
  /\ job' = [job EXCEPT ![p].who = c, ![p].on = p]
  /\ basket' = [basket EXCEPT ![p] = cart[c]]
  /\ Goto(p, IF LinesOf(cart[c]) = {} THEN "failed" ELSE "begin")
  /\ UNCHANGED <<tables, locks, todo, fresh, write>>

\* connect, which waits for a pool connection, and startTransaction.
BeginCheckout(p) ==
  /\ pc[p] = "begin" /\ FreeConnections > 0
  /\ todo' = [todo EXCEPT ![p] = LinesOf(basket[p])]
  /\ Goto(p, "reserve")
  /\ UNCHANGED <<tables, locks, job, basket, fresh, write>>

\* (mistake) findOne without the pessimistic lock: the row as committed is
\* read and written over, whoever else is changing it.
ReserveLineUnlocked(p, l) ==
  /\ pc[p] = "reserve" /\ l \in todo[p]
  /\ todo' = [todo EXCEPT ![p] = @ \ {l}]
  /\ \/ Found(l) = {} /\ UNCHANGED <<lock, dirty>>
     \/ \E r \in Found(l) :
          /\ stock[r].available >= basket[p][l]
          /\ lock' = [lock EXCEPT ![r] = p]
          /\ dirty' = [dirty EXCEPT ![r] =
               [available |-> stock[r].available - basket[p][l],
                reserved |-> stock[r].reserved + basket[p][l]]]
  /\ UNCHANGED <<tables, olock, pc, job, basket, fresh, write>>

\* reserveWithLock for one cart line; a line without a row is untracked.
ReserveLine(p, l) ==
  /\ pc[p] = "reserve" /\ l \in todo[p]
  /\ todo' = [todo EXCEPT ![p] = @ \ {l}]
  /\ \/ Found(l) = {} /\ UNCHANGED <<lock, dirty>>
     \/ \E r \in Found(l) :
          /\ MineFree(p, r)
          /\ dirty[r].available >= basket[p][l]
          /\ lock' = [lock EXCEPT ![r] = p]
          /\ dirty' = [dirty EXCEPT ![r] =
               [available |-> @.available - basket[p][l],
                reserved |-> @.reserved + basket[p][l]]]
  /\ UNCHANGED <<tables, olock, pc, job, basket, fresh, write>>

\* (mistake) a line that is out of stock is skipped like an untracked one.
OutOfStockSkips(p, l) ==
  /\ pc[p] = "reserve" /\ l \in todo[p]
  /\ \E r \in Found(l) : MineFree(p, r) /\ dirty[r].available < basket[p][l]
  /\ todo' = [todo EXCEPT ![p] = @ \ {l}]
  /\ UNCHANGED <<tables, locks, pc, job, basket, fresh, write>>

\* reserveWithLock finds too little stock: the checkout throws and rolls back.
OutOfStock(p, l) ==
  /\ pc[p] = "reserve" /\ l \in todo[p]
  /\ \E r \in Found(l) : MineFree(p, r) /\ dirty[r].available < basket[p][l]
  /\ Rollback(p)

\* The order and its items are saved; the cart is read again, for its lines.
RereadCart(p) ==
  /\ pc[p] = "reserve" /\ todo[p] = {} /\ fresh[p] = None
  /\ fresh' = [fresh EXCEPT ![p] = LinesOf(cart[job[p].who])]
  /\ UNCHANGED <<tables, locks, pc, job, basket, todo, write>>

\* Those lines are removed, whatever quantity they have by now, and the
\* transaction commits.
CommitCheckout(p) ==
  /\ pc[p] = "reserve" /\ todo[p] = {} /\ fresh[p] # None
  /\ book' = [book EXCEPT ![p] = [status |-> "PENDING", customer |-> job[p].who,
                                  items |-> basket[p]]]
  /\ cart' = [cart EXCEPT ![job[p].who] =
                [l \in Lines |-> IF l \in fresh[p] THEN 0 ELSE cart[job[p].who][l]]]
  /\ PublishRows(p)
  /\ fresh' = [fresh EXCEPT ![p] = None]
  /\ Goto(p, "reload")
  /\ UNCHANGED <<entered, dirty, job, basket, todo, write>>

\* The order is read back through the pool while the transaction's connection
\* is still held: release comes in the finally, after this awaited read.
Reload(p) ==
  /\ pc[p] = "reload" /\ FreeConnections > 0
  /\ Forget(p)
  /\ Goto(p, "done")
  /\ UNCHANGED <<tables, locks>>
-----------------------------------------------------------------------------
(* OrdersService.updateStatus, with the payment webhook, and cancelByCustomer *)

\* A request on an order the client has seen; the transaction begins.
StartUpdate(p, who, o, s) ==
  /\ pc[p] = "idle" /\ FreeConnections > 0
  /\ book[o].status \in Statuses
  /\ \/ "status" \in Endpoints /\ who = Admin
     \/ "cancel" \in Endpoints /\ who \in Customers /\ s = "CANCELLED"
  /\ job' = [job EXCEPT ![p] = [who |-> who, on |-> o, to |-> s]]
  /\ Goto(p, "lockOrder")
  /\ UNCHANGED <<tables, locks, basket, todo, fresh, write>>

\* updateStatus follows TRANSITIONS; a customer cancels an own PENDING order.
Permitted(j) ==
  IF j.who = Admin THEN j.to \in Transitions[book[j.on].status]
  ELSE book[j.on].customer = j.who /\ book[j.on].status = "PENDING"

\* (mistake) findOne without the pessimistic lock on the order.
LockOrderUnlocked(p) ==
  /\ pc[p] = "lockOrder" /\ Permitted(job[p])
  /\ basket' = [basket EXCEPT ![p] = book[job[p].on].items]
  /\ todo' = [todo EXCEPT ![p] =
       IF job[p].to = "CANCELLED" THEN LinesOf(book[job[p].on].items) ELSE {}]
  /\ Goto(p, "release")
  /\ UNCHANGED <<tables, locks, job, fresh, write>>

\* SELECT ... FOR UPDATE on the order, the check of its status, and, when it
\* is cancelled, the read of its items.
LockOrder(p) ==
  /\ pc[p] = "lockOrder" /\ olock[job[p].on] = None
  /\ Permitted(job[p])
  /\ olock' = [olock EXCEPT ![job[p].on] = p]
  /\ basket' = [basket EXCEPT ![p] = book[job[p].on].items]
  /\ todo' = [todo EXCEPT ![p] =
       IF job[p].to = "CANCELLED" THEN LinesOf(book[job[p].on].items) ELSE {}]
  /\ Goto(p, "release")
  /\ UNCHANGED <<tables, dirty, lock, job, fresh, write>>

RefuseUpdate(p) ==
  /\ pc[p] = "lockOrder" /\ olock[job[p].on] = None
  /\ ~Permitted(job[p])
  /\ Rollback(p)

\* (mistake) the units come back but the reserved count stays.
ReleaseLineHalf(p, l) ==
  /\ pc[p] = "release" /\ l \in todo[p]
  /\ todo' = [todo EXCEPT ![p] = @ \ {l}]
  /\ \/ Found(l) = {} /\ UNCHANGED <<lock, dirty>>
     \/ \E r \in Found(l) :
          /\ MineFree(p, r)
          /\ lock' = [lock EXCEPT ![r] = p]
          /\ dirty' = [dirty EXCEPT ![r].available = @ + basket[p][l]]
  /\ UNCHANGED <<tables, olock, pc, job, basket, fresh, write>>

\* releaseWithLock for one item of the cancelled order.
ReleaseLine(p, l) ==
  /\ pc[p] = "release" /\ l \in todo[p]
  /\ todo' = [todo EXCEPT ![p] = @ \ {l}]
  /\ \/ Found(l) = {} /\ UNCHANGED <<lock, dirty>>
     \/ \E r \in Found(l) :
          /\ MineFree(p, r)
          /\ lock' = [lock EXCEPT ![r] = p]
          /\ dirty' = [dirty EXCEPT ![r] =
               [available |-> @.available + basket[p][l],
                reserved |-> Floor0(@.reserved - basket[p][l])]]
  /\ UNCHANGED <<tables, olock, pc, job, basket, fresh, write>>

CommitUpdate(p) ==
  /\ pc[p] = "release" /\ todo[p] = {}
  /\ book' = [book EXCEPT ![job[p].on].status = job[p].to]
  /\ PublishRows(p)
  /\ Forget(p)
  /\ Goto(p, "done")
  /\ UNCHANGED <<entered, cart, dirty>>
-----------------------------------------------------------------------------
(* The paths without a transaction: OrdersService.create and the inventory   *)
(* endpoints reserve and upsert.  Each reads a row, computes, and saves the  *)
(* whole row.                                                                *)

StartCreate(p, c, b) ==
  /\ "create" \in Endpoints /\ pc[p] = "idle" /\ LinesOf(b) # {}
  /\ job' = [job EXCEPT ![p].who = c, ![p].on = p]
  /\ basket' = [basket EXCEPT ![p] = b]
  /\ todo' = [todo EXCEPT ![p] = LinesOf(b)]
  /\ Goto(p, "pick")
  /\ UNCHANGED <<tables, locks, fresh, write>>

\* The row as a reservation of q units will save it.
Reserving(r, q) ==
  [row |-> r, level |-> [available |-> stock[r].available - q,
                         reserved |-> stock[r].reserved + q]]

\* reserveByProductId reads a row of the product, whatever the variant.
CreateRead(p, l) ==
  /\ pc[p] = "pick" /\ l \in todo[p]
  /\ todo' = [todo EXCEPT ![p] = @ \ {l}]
  /\ \/ ProductMatch[l] \cap entered = {} /\ UNCHANGED <<pc, write>>
     \/ \E r \in ProductMatch[l] \cap entered :
          IF stock[r].available < basket[p][l]
          THEN Goto(p, "failed") /\ UNCHANGED write
          ELSE Goto(p, "save")
               /\ write' = [write EXCEPT ![p] = Reserving(r, basket[p][l])]
  /\ UNCHANGED <<tables, locks, job, basket, fresh>>

\* POST /inventory/reserve, by sku: no such sku, or too little stock, is
\* answered at once.
StartReserve(p, r, q) ==
  /\ "reserve" \in Endpoints /\ pc[p] = "idle"
  /\ IF r \notin entered \/ stock[r].available < q
     THEN Goto(p, "failed") /\ UNCHANGED write
     ELSE Goto(p, "save") /\ write' = [write EXCEPT ![p] = Reserving(r, q)]
  /\ UNCHANGED <<tables, locks, job, basket, todo, fresh>>

\* POST /inventory, by sku: the row that is there, or a new one, with the given
\* availability and the reserved count n.  (The row stays the one of its product.)
StartUpsert(p, r, q, n) ==
  /\ "upsert" \in Endpoints /\ pc[p] = "idle"
  /\ write' = [write EXCEPT ![p] = [row |-> r, level |-> [available |-> q, reserved |-> n]]]
  /\ Goto(p, IF r \in entered THEN "save" ELSE "insert")
  /\ UNCHANGED <<tables, locks, job, basket, todo, fresh>>

\* The reserved count that is given, or else stays as it was read (0 of a new row).
ReservedGiven(r) == (0..MaxQty) \cup {stock[r].reserved}

\* The new row; skus are unique, so that of two insertions one fails.
InsertRow(p) ==
  LET r == write[p].row IN
  /\ pc[p] = "insert"
  /\ IF r \in entered
     THEN Goto(p, "failed") /\ UNCHANGED <<stock, entered, dirty>>
     ELSE /\ entered' = entered \cup {r}
          /\ stock' = [stock EXCEPT ![r] = write[p].level]
          /\ dirty' = [dirty EXCEPT ![r] = write[p].level]
          /\ Goto(p, "done")
  /\ UNCHANGED <<book, cart, lock, olock, locals>>

\* repo.save: the UPDATE waits for the row lock and writes what was computed.
SaveRow(p) ==
  /\ pc[p] = "save" /\ lock[write[p].row] = None
  /\ stock' = [stock EXCEPT ![write[p].row] = write[p].level]
  /\ dirty' = [dirty EXCEPT ![write[p].row] = write[p].level]
  /\ Goto(p, IF job[p].on = p THEN "pick" ELSE "done")
  /\ UNCHANGED <<book, entered, cart, lock, olock, locals>>

\* The order row is saved first, visible without items ...
InsertOrder(p) ==
  /\ pc[p] = "pick" /\ todo[p] = {}
  /\ book' = [book EXCEPT ![p] = [status |-> "PENDING", customer |-> job[p].who,
                                  items |-> EmptyBasket]]
  /\ Goto(p, "items")
  /\ UNCHANGED <<stock, entered, cart, locks, locals>>

\* ... then its items, whose foreign key waits for the order's row lock.
InsertItems(p) ==
  /\ pc[p] = "items" /\ olock[p] = None
  /\ book' = [book EXCEPT ![p].items = basket[p]]
  /\ Goto(p, "done")
  /\ UNCHANGED <<stock, entered, cart, locks, locals>>
-----------------------------------------------------------------------------
(* Around the handlers *)

\* CartService: addItem, updateItemQuantity, removeItem, clearCart.
EditCart(c, l, q) ==
  /\ cart[c][l] # q
  /\ cart' = [cart EXCEPT ![c][l] = q]
  /\ UNCHANGED <<book, stock, entered, locks, pc, locals>>

\* p may be waiting for a row whose lock q holds.
WaitsFor(p, q) ==
  /\ pc[p] \in {"reserve", "release"} /\ p # q
  /\ \E l \in todo[p] : \E r \in Found(l) : lock[r] = q

\* PostgreSQL aborts one transaction of a cycle of waiting ones.  Holders of
\* an order lock are never waited for by a row holder, so rows are enough.
DeadlockAbort(p) ==
  /\ \E S \in SUBSET Requests : p \in S /\ \E next \in [S -> S] :
       /\ \A x \in S : WaitsFor(x, next[x])
       /\ \A x, y \in S : next[x] = next[y] => x = y
  /\ Rollback(p)

\* The process or its connection dies: an open transaction is rolled back,
\* what was saved outside one stays.
Crash(p) == Running(p) /\ Rollback(p)
-----------------------------------------------------------------------------
Arrive(p) ==
  \/ \E c \in Customers : StartCheckout(p, c)
  \/ \E who \in Customers \cup {Admin}, o \in OrderIds, s \in Statuses :
       StartUpdate(p, who, o, s)
  \/ \E c \in Customers, b \in Baskets : StartCreate(p, c, b)
  \/ \E r \in Rows, q \in Quantities : StartReserve(p, r, q)
  \/ \E r \in Rows, q \in 0..MaxQty : \E n \in ReservedGiven(r) : StartUpsert(p, r, q, n)

Step(p) ==
  \/ BeginCheckout(p) \/ RereadCart(p) \/ CommitCheckout(p) \/ Reload(p)
  \/ LockOrder(p) \/ RefuseUpdate(p) \/ CommitUpdate(p)
  \/ \E l \in Lines : ReserveLine(p, l) \/ OutOfStock(p, l) \/ ReleaseLine(p, l)
                      \/ CreateRead(p, l)
  \/ SaveRow(p) \/ InsertRow(p) \/ InsertOrder(p) \/ InsertItems(p)
  \/ DeadlockAbort(p)

Next ==
  \/ \E p \in Requests : Arrive(p) \/ Step(p) \/ Crash(p)
  \/ \E c \in Customers, l \in Lines, q \in 0..MaxQty : EditCart(c, l, q)

Spec == Init /\ [][Next]_vars

\* A handler that has started goes on while its next statement can run; no
\* request has to arrive and none has to crash.
FairSpec == Spec /\ \A p \in Requests : WF_vars(Step(p))
-----------------------------------------------------------------------------
TypeOK ==
  /\ book \in [OrderIds -> Orders]
  /\ stock \in [Rows -> StockLevels]
  /\ entered \subseteq Rows
  /\ cart \in [Customers -> Baskets]
  /\ dirty \in [Rows -> StockLevels]
  /\ lock \in [Rows -> OrderIds \cup {None}]
  /\ olock \in [OrderIds -> OrderIds \cup {None}]
  /\ pc \in [Requests -> {"idle", "begin", "reserve", "reload", "lockOrder",
                          "release", "pick", "save", "insert", "items", "done", "failed"}]
  /\ job \in [Requests -> Jobs]
  /\ basket \in [Requests -> Baskets]
  /\ todo \in [Requests -> SUBSET Lines]
  /\ fresh \in [Requests -> (SUBSET Lines) \cup {None}]
  /\ write \in [Requests -> Writes]

\* No unit is promised twice: the units that live orders are owed never
\* exceed the stock the tenant had (oversell under concurrent checkouts).
NoOversell == \A r \in Rows : Owed(book, r) <= Stock[r]

\* Reserving and releasing only move units between the two columns of a row.
StockConserved ==
  \A r \in Rows : stock[r].available + stock[r].reserved = Stock[r]

\* The committed reserved count of a row is what live orders are owed of it:
\* no failed, crashed or deadlocked checkout leaves a reservation behind and
\* no order gives its units back twice.
ReservedIsOwed == \A r \in Rows : stock[r].reserved = Owed(book, r)

\* An order's status only moves along TRANSITIONS, whatever updates, webhook
\* calls and cancellations race on it.
StatusFollowsTransitions ==
  [][\A o \in OrderIds :
       LET before == book[o].status
           after  == book'[o].status
       IN  before \in Statuses /\ after # before
             => after \in Transitions[before]]_vars

\* A line that a checkout takes out of the cart is in the order, with the quantity
\* it had (checkout.service.ts reads the cart before the transaction and again to
\* clear it).
CheckoutMovesCart ==
  [][\A p \in Requests : pc[p] = "reserve" /\ pc'[p] = "reload"
       => \A l \in fresh[p] : cart[job[p].who][l] \in {0, book'[p].items[l]}]_vars

\* Every request that starts comes to an end: row locks, order locks and pool
\* connections are always handed on.
RequestsFinish == \A p \in Requests : Running(p) ~> ~Running(p)

-----------------------------------------------------------------------------
(* Why it holds: what is true between any two statements of the handlers.    *)

\* A request that inserts its order has not done so yet, acts for a customer,
\* and, if it is an update, for an order that exists; one that saves a row has one.
JobInOrder(p) ==
  /\ pc[p] = "idle" => job[p] = NoJob
  /\ pc[p] = "save" /\ job[p].on = p => job[p].who \in Customers
  /\ pc[p] \in {"save", "insert"} => write[p].row \in Rows
  /\ pc[p] \in {"idle", "begin", "reserve", "lockOrder", "release", "pick", "save", "insert"}
       => book[p] = NoOrder
  /\ pc[p] \in {"begin", "reserve", "reload", "pick", "items"} => job[p].who \in Customers
  /\ pc[p] \in {"begin", "reserve"} => LinesOf(basket[p]) # {}
  /\ pc[p] \in {"lockOrder", "release"} =>
       /\ job[p].on \in OrderIds /\ job[p].to \in Statuses
       /\ book[job[p].on].status \in Statuses
       /\ job[p].who # Admin => job[p].to = "CANCELLED"
JobsInOrder == \A p \in Requests : JobInOrder(p)

\* Between its check of an order's status and its commit an update holds the
\* order's row lock, so what it checked is still true.
HoldsItsOrder(p) == pc[p] = "release" =>
  /\ olock[job[p].on] = p
  /\ job[p].to \in Transitions[book[job[p].on].status]
  /\ IF job[p].to = "CANCELLED" THEN basket[p] = book[job[p].on].items ELSE todo[p] = {}
UpdateIsSerial == \A p \in Requests : HoldsItsOrder(p)

\* The units of row r for the lines that p's loop has passed.
Got(p, r) == Cardinality(Units(basket[p], Lines \ todo[p], r))

\* Rows without a lock are as committed; a transaction that reserves, or that
\* releases, holds exactly the rows it has changed, each by its lines so far.
UnlockedRowsClean == \A r \in Rows : lock[r] = None => dirty[r] = stock[r]
LocksBelong == \A r \in Rows : lock[r] # None =>
  \/ pc[lock[r]] = "reserve"
  \/ pc[lock[r]] = "release" /\ job[lock[r]].to = "CANCELLED"
CheckoutAccounts == \A p \in Requests, r \in Rows : pc[p] = "reserve" =>
  IF lock[r] = p
  THEN /\ dirty[r].available = stock[r].available - Got(p, r)
       /\ dirty[r].reserved = stock[r].reserved + Got(p, r)
  ELSE Got(p, r) = 0
CancelAccounts == \A p \in Requests, r \in Rows :
  pc[p] = "release" /\ job[p].to = "CANCELLED" =>
    IF lock[r] = p
    THEN /\ dirty[r].available = stock[r].available + Got(p, r)
         /\ dirty[r].reserved = stock[r].reserved - Got(p, r)
    ELSE Got(p, r) = 0
TransactionsAccount ==
  UnlockedRowsClean /\ LocksBelong /\ CheckoutAccounts /\ CancelAccounts

\* What the accounts rest on: a line is tracked by at most one row, and only
\* endpoints that lock rows are in use.
UniqueMatch == \A l \in Lines : \A r, s \in Match[l] : r = s
LockedOnly == Endpoints \subseteq LockedEndpoints /\ Entered = Rows

OnlyLocked == entered = Rows /\ \A p \in Requests : pc[p] \notin {"pick", "save", "insert", "items"}

OrderInv == TypeOK /\ JobsInOrder /\ UpdateIsSerial
LockedInv == OrderInv /\ OnlyLocked /\ TransactionsAccount
             /\ ReservedIsOwed /\ StockConserved
-----------------------------------------------------------------------------
Store == INSTANCE OrderStock
\* With the locked endpoints only, the committed tables behave like the
\* abstract store.
RefinesStore == Store!Spec
=============================================================================
