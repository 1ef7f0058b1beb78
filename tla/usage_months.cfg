\* A settlement made in the month after its reservation, and every call ends.
SPECIFICATION FairSpec
CONSTANTS
  None = None
  EventIds = {e1, e2}
  Settlers = {s1}
  Months = {m1, m2}
  Plans <- OnePlan
  MaxUnits = 1
INVARIANT CountersMatch
PROPERTY CallsFinish
CHECK_DEADLOCK FALSE
