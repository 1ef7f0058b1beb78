\* What the documentation says and the code does not do.
SPECIFICATION Spec
CONSTANTS
  None = None
  Scheduled = Scheduled
  Requests = {q1, q2}
  Workers = 1
  MaxFaults = 0
PROPERTY DraftsStayPrivate
CHECK_DEADLOCK FALSE
