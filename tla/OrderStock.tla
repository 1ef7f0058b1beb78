----------------------------- MODULE OrderStock -----------------------------
(* What the commerce service promises about orders and stock, with no        *)
(* requests, transactions or locks: an order takes all its units or is not   *)
(* placed, moves along TRANSITIONS, and gives its units back when cancelled. *)
EXTENDS StoreData

VARIABLES book,   \* book[o]: the order o, or NoOrder
          stock   \* stock[r]: units of row r available and reserved
vars == <<book, stock>>

Init ==
  /\ book = [o \in OrderIds |-> NoOrder]
  /\ stock = [r \in Rows |-> [available |-> Stock[r], reserved |-> 0]]

Place(o, c, b) ==
  /\ book[o] = NoOrder
  /\ LinesOf(b) # {}
  /\ \A r \in Rows : Demand(b, r) <= stock[r].available
  /\ book' = [book EXCEPT ![o] = [status |-> "PENDING", customer |-> c, items |-> b]]
  /\ stock' = [r \in Rows |-> [available |-> stock[r].available - Demand(b, r),
                               reserved  |-> stock[r].reserved + Demand(b, r)]]

Advance(o, s) ==
  /\ book[o] # NoOrder
  /\ s \in Transitions[book[o].status] \ {"CANCELLED"}
  /\ book' = [book EXCEPT ![o].status = s]
  /\ UNCHANGED stock

Cancel(o) ==
  /\ book[o] # NoOrder
  /\ "CANCELLED" \in Transitions[book[o].status]
  /\ book' = [book EXCEPT ![o].status = "CANCELLED"]
  /\ stock' = [r \in Rows |->
       [available |-> stock[r].available + Demand(book[o].items, r),
        reserved  |-> stock[r].reserved - Demand(book[o].items, r)]]

Next == \E o \in OrderIds :
  \/ \E c \in Customers, b \in Baskets : Place(o, c, b)
  \/ \E s \in Statuses : Advance(o, s)
  \/ Cancel(o)

Spec == Init /\ [][Next]_vars
=============================================================================
