\* Two checkouts of the owner and what the payment provider reports of them; no
\* administrator and no plan but the defaults.
SPECIFICATION BillingSpec
CONSTANTS
  BillingCalls = {1, 2}
  PlansSold = {"growth", "business"}
  SoldTiers = {}
  Granted = {}
  MaxOrders = 2
  MaxUpserts = 3
INVARIANT PendingUntilConfirmed
CHECK_DEADLOCK FALSE
