\* Direct order creation beside a checkout.
SPECIFICATION Spec
CONSTANTS
  r1 = r1
  r2 = r2
  l1 = l1
  l2 = l2
  None = None
  OrderIds = {p1, p2}
  Customers = {c1}
  Rows = {r1, r2}
  Entered = {r1, r2}
  Lines = {l1, l2}
  MaxQty = 1
  PoolSize = 4
  Match <- OneRowEach
  ProductMatch <- OneRowEach
  Stock <- StockOf1
  Endpoints = {"checkout", "create"}
INVARIANT NoOversell
CHECK_DEADLOCK FALSE
