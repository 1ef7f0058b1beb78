\* Two requests, one instance, two faults.
SPECIFICATION Spec
CONSTANTS
  None = None
  Scheduled = Scheduled
  Requests = {q1, q2}
  Workers = 1
  MaxFaults = 2
SYMMETRY RequestSymmetry
INVARIANT PublishingInv
INVARIANT PublishedOnce
INVARIANT QuietIsSettled
CHECK_DEADLOCK FALSE
