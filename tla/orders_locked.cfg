\* Checkout, status updates and cancellations, all through row locks; every
\* request ends, the pool larger than the number of requests.
SPECIFICATION FairSpec
CONSTANTS
  r1 = r1
  r2 = r2
  l1 = l1
  l2 = l2
  None = None
  OrderIds = {p1, p2, p3}
  Customers = {c1}
  Rows = {r1, r2}
  Entered = {r1, r2}
  Lines = {l1, l2}
  MaxQty = 1
  PoolSize = 4
  Match <- OneRowEach
  ProductMatch <- OneRowEach
  Stock <- StockOf1And2
  Endpoints = {"checkout", "status", "cancel"}
INVARIANTS TransactionsAccount StockConserved ReservedIsOwed NoOversell
PROPERTIES RefinesStore RequestsFinish
CHECK_DEADLOCK FALSE
