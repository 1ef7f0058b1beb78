----------------------------- MODULE StoreData -----------------------------
(* What the order book and the stock table of one tenant are made of, shared *)
(* by the abstract store (OrderStock) and the commerce service               *)
(* (CommerceOrders).                                                         *)
EXTENDS Integers, FiniteSets

CONSTANTS
  OrderIds,    \* primary keys of the orders table
  Customers,   \* customers who own a cart and place orders
  Rows,        \* rows of inventory_items
  Lines,       \* things a cart line can name: a product, or a product with a variant
  Match,       \* Match[l]: the rows the inventory lookup of line l can return
  Stock,       \* Stock[r]: units of row r before the first request
  MaxQty,      \* bound: largest quantity of a cart line
  None         \* "no owner" of a lock, "no customer"

ASSUME StoreAssumption ==
  /\ IsFiniteSet(OrderIds) /\ IsFiniteSet(Lines)
  /\ None \notin Customers /\ None \notin OrderIds
  /\ Match \in [Lines -> SUBSET Rows]
  /\ Stock \in [Rows -> Nat]
  /\ MaxQty \in Nat

Statuses == {"PENDING", "PAID", "FULFILLED", "CANCELLED"}

\* TRANSITIONS: from a status, the statuses an update may set.
Transitions ==
  [s \in Statuses |-> CASE s = "PENDING" -> {"PAID", "CANCELLED"}
                        [] s = "PAID"    -> {"FULFILLED", "CANCELLED"}
                        [] OTHER         -> {}]

\* The quantities of a cart, an order or a request, by line; 0 is "no such line".
Baskets == [Lines -> 0..MaxQty]
EmptyBasket == [l \in Lines |-> 0]
LinesOf(b) == {l \in Lines : b[l] > 0}

StockLevels == [available : Nat, reserved : Nat]
Orders == [status : Statuses \cup {"ABSENT"}, customer : Customers \cup {None},
           items : Baskets]
NoOrder == [status |-> "ABSENT", customer |-> None, items |-> EmptyBasket]

\* The single units of row r that basket b asks for, among the lines in L.
Units(b, L, r) == {u \in L \X (1..MaxQty) : r \in Match[u[1]] /\ u[2] <= b[u[1]]}
Demand(b, r) == Cardinality(Units(b, Lines, r))

\* The single units of row r that orders not cancelled are owed (a fulfilled
\* order keeps its units reserved: no code ever takes them out of the count).
Live(book, o) == book[o].status \notin {"ABSENT", "CANCELLED"}
OwedUnits(book, r) ==
  {u \in OrderIds \X Lines \X (1..MaxQty) :
     Live(book, u[1]) /\ r \in Match[u[2]] /\ u[3] <= book[u[1]].items[u[2]]}
Owed(book, r) == Cardinality(OwedUnits(book, r))
=============================================================================
