\* One task of the owner, one of the administration, a decision and two faults.
SPECIFICATION FairSpec
CONSTANTS
  None = None
  UserTasks = {u1}
  AdminTasks = {a1}
  Decisions = {d1}
  MaxStalled = 1
  MaxFaults = 2
INVARIANT TaskInv
INVARIANT SettledLikeTheWork
INVARIANT OutputIsCharged
INVARIANT NoLeakedReservation
INVARIANT QueuedHasRow
PROPERTY TasksFinish
CHECK_DEADLOCK FALSE
