\* Reservations and settlements while the plan changes.
SPECIFICATION Spec
CONSTANTS
  None = None
  EventIds = {e1, e2}
  Settlers = {s1, s2}
  Months = {m1}
  Plans <- BothPlans
  MaxUnits = 1
SYMMETRY CallSymmetry
INVARIANTS QuotaInv CounterWithinPlans TokensWithinPlans
PROPERTIES SettledOnce KeepsLedger
CHECK_DEADLOCK FALSE
