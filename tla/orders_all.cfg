\* Every endpoint at once.
SPECIFICATION Spec
CONSTANTS
  r1 = r1
  r2 = r2
  l1 = l1
  l2 = l2
  None = None
  OrderIds = {p1, p2, p3}
  Customers = {c1}
  Rows = {r1, r2}
  Entered = {r1}
  Lines = {l1, l2}
  MaxQty = 1
  PoolSize = 4
  Match <- OneRowEach
  ProductMatch <- OneRowEach
  Stock <- StockOf1
  Endpoints = {"checkout", "status", "cancel", "create", "reserve", "upsert"}
SYMMETRY RequestSymmetry
INVARIANT OrderInv
PROPERTY StatusFollowsTransitions
CHECK_DEADLOCK FALSE
